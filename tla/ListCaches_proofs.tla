-------------------------- MODULE ListCaches_proofs --------------------------
(***************************************************************************)
(* Proofs about generic_lru and generic_lfu, for any keys, data, nodes and *)
(* buckets and any length: the lists and the map of either always describe *)
(* the same entries, generic_lru is an exact least-recently-used cache and *)
(* generic_lfu an exact least-frequently-used one.                         *)
(***************************************************************************)
EXTENDS MCListCaches, DataLemmas, FunctionTheorems

(* What SafeCache says of a list, a heap of nodes and a map.               *)
Matches(list, nodes, map) ==
    /\ list \in Seq(Nodes)
    /\ DOMAIN nodes \subseteq Nodes /\ \A n \in DOMAIN nodes : nodes[n] \in Entry
    /\ DOMAIN map \subseteq Keys /\ \A k \in DOMAIN map : map[k] \in Nodes
    /\ IsInjective(list)
    /\ Range(list) = DOMAIN nodes
    /\ \A k \in DOMAIN map : map[k] \in DOMAIN nodes /\ nodes[map[k]].key = k
    /\ \A n \in DOMAIN nodes : nodes[n].key \in DOMAIN map /\ map[nodes[n].key] = n

LEMMA SafeCacheMatches ==
  SafeCache <=> Matches(recent_list, node, cache) /\ WithinLenMax
BY DEF SafeCache, TypeOK, ListMatchesMap, Matches

(* An element that is put before a list in which it is not.                *)
LEMMA PutFirst ==
  ASSUME NEW S, NEW u \in Seq(S), IsInjective(u), NEW n \in S, n \notin Range(u)
  PROVE  /\ <<n>> \o u \in Seq(S)
         /\ IsInjective(<<n>> \o u)
         /\ Range(<<n>> \o u) = Range(u) \cup {n}
         /\ Len(<<n>> \o u) = Len(u) + 1
         /\ (<<n>> \o u)[1] = n
         /\ \A i \in 2 .. Len(u) + 1 : (<<n>> \o u)[i] = u[i - 1]
<1> DEFINE t == <<n>> \o u
<1>1. t \in Seq(S) /\ Len(t) = Len(u) + 1 /\ DOMAIN t = 1 .. Len(u) + 1 /\ Len(u) \in Nat
  OBVIOUS
<1>2. t[1] = n /\ \A i \in 2 .. Len(u) + 1 : t[i] = u[i - 1]
  OBVIOUS
<1>3. \A i \in 1 .. Len(u) : u[i] # n
  BY DEF Range
<1>4. \A i, j \in 1 .. Len(u) : u[i] = u[j] => i = j
  BY DEF IsInjective
<1> HIDE DEF t
<1>5. IsInjective(t)
  <2> SUFFICES ASSUME NEW i \in 1 .. Len(u) + 1, NEW j \in 1 .. Len(u) + 1, t[i] = t[j]
               PROVE  i = j
    BY <1>1 DEF IsInjective
  <2>1. i = 1 \/ i \in 2 .. Len(u) + 1
    BY <1>1
  <2>2. j = 1 \/ j \in 2 .. Len(u) + 1
    BY <1>1
  <2>3. \A l \in 2 .. Len(u) + 1 : l - 1 \in 1 .. Len(u)
    BY <1>1
  <2> QED BY <1>1, <1>2, <1>3, <1>4, <2>1, <2>2, <2>3
<1>6. Range(t) = Range(u) \cup {n}
  <2>1. \A x \in Range(t) : x \in Range(u) \cup {n}
    BY <1>1, <1>2 DEF Range
  <2>2. n \in Range(t)
    BY <1>1, <1>2 DEF Range
  <2>3. ASSUME NEW i \in 1 .. Len(u) PROVE u[i] \in Range(t)
    <3>1. i + 1 \in 2 .. Len(u) + 1 /\ (i + 1) - 1 = i
      OBVIOUS
    <3>2. t[i + 1] = u[i] /\ i + 1 \in DOMAIN t
      BY <1>1, <1>2, <3>1
    <3> QED BY <3>2 DEF Range
  <2>4. \A x \in Range(u) : x \in Range(t)
    BY <2>3 DEF Range
  <2> QED BY <2>1, <2>2, <2>4
<1> QED BY <1>1, <1>2, <1>5, <1>6 DEF t

(* touch(): the list changes its order only.                               *)
LEMMA TouchedMatches ==
  ASSUME NEW list, NEW nodes, NEW map, Matches(list, nodes, map), NEW n \in DOMAIN nodes
  PROVE  Matches(<<n>> \o Dropping(list, {n}), nodes, map)
<1>1. list \in Seq(Nodes) /\ IsInjective(list) /\ Range(list) = DOMAIN nodes /\ n \in Nodes
  BY DEF Matches
<1>2. Dropping(list, {n}) \in Seq(Nodes) /\ Range(Dropping(list, {n})) = Range(list) \ {n}
  BY <1>1, DroppingRange
<1>3. IsInjective(Dropping(list, {n}))
  BY <1>1, DroppingInjective
<1> DEFINE u == Dropping(list, {n})
<1>4. u \in Seq(Nodes) /\ IsInjective(u) /\ n \notin Range(u)
  BY <1>2, <1>3
<1> HIDE DEF u
<1>5. /\ <<n>> \o u \in Seq(Nodes) /\ IsInjective(<<n>> \o u)
      /\ Range(<<n>> \o u) = Range(u) \cup {n}
  BY <1>1, <1>4, PutFirst
<1>6. Range(<<n>> \o u) = DOMAIN nodes
  BY <1>1, <1>2, <1>5 DEF u
<1>7. Matches(<<n>> \o u, nodes, map)
  BY <1>5, <1>6 DEF Matches
<1> QED BY <1>7 DEF u

(* Another datum in a node.                                                *)
LEMMA OverwrittenMatches ==
  ASSUME NEW list, NEW nodes, NEW map, Matches(list, nodes, map),
         NEW n \in DOMAIN nodes, NEW d \in Data
  PROVE  Matches(list, [nodes EXCEPT ![n].data = d], map)
BY DEF Matches, Entry

(* Keys that go, and their nodes with them.                                *)
LEMMA ErasedMatches ==
  ASSUME NEW list, NEW nodes, NEW map, Matches(list, nodes, map), NEW ks, NEW gone,
         gone = {map[k] : k \in ks \cap DOMAIN map}
  PROVE  Matches(Dropping(list, gone), Without(nodes, gone), Without(map, ks))
<1>1. list \in Seq(Nodes) /\ IsInjective(list) /\ Range(list) = DOMAIN nodes
  BY DEF Matches
<1>2. /\ Dropping(list, gone) \in Seq(Nodes)
      /\ Range(Dropping(list, gone)) = DOMAIN nodes \ gone
  BY <1>1, DroppingRange
<1>3. IsInjective(Dropping(list, gone))
  BY <1>1, DroppingInjective
<1>4. \A n \in DOMAIN nodes : n \in gone <=> nodes[n].key \in ks
  BY DEF Matches
<1>5. \A k \in DOMAIN map : map[k] \in gone <=> k \in ks
  BY <1>4 DEF Matches
<1>6. /\ DOMAIN Without(nodes, gone) = DOMAIN nodes \ gone
      /\ \A n \in DOMAIN nodes \ gone : Without(nodes, gone)[n] = nodes[n]
      /\ DOMAIN Without(map, ks) = DOMAIN map \ ks
      /\ \A k \in DOMAIN map \ ks : Without(map, ks)[k] = map[k]
  BY DEF Without, Restrict
<1> DEFINE u == Dropping(list, gone)
           nds == Without(nodes, gone)
           m == Without(map, ks)
<1>7. /\ DOMAIN nds \subseteq Nodes /\ \A n \in DOMAIN nds : nds[n] \in Entry
      /\ DOMAIN m \subseteq Keys /\ \A k \in DOMAIN m : m[k] \in Nodes
  BY <1>6 DEF Matches
<1>8. \A k \in DOMAIN m : m[k] \in DOMAIN nds /\ nds[m[k]].key = k
  <2> TAKE k \in DOMAIN m
  <2>1. k \in DOMAIN map /\ k \notin ks /\ m[k] = map[k]
    BY <1>6
  <2>2. map[k] \in DOMAIN nodes \ gone /\ nodes[map[k]].key = k
    BY <1>5, <2>1 DEF Matches
  <2> QED BY <1>6, <2>1, <2>2
<1>9. \A n \in DOMAIN nds : nds[n].key \in DOMAIN m /\ m[nds[n].key] = n
  <2> TAKE n \in DOMAIN nds
  <2>1. n \in DOMAIN nodes /\ n \notin gone /\ nds[n] = nodes[n]
    BY <1>6
  <2>2. nodes[n].key \in DOMAIN map \ ks /\ map[nodes[n].key] = n
    BY <1>4, <2>1 DEF Matches
  <2> QED BY <1>6, <2>1, <2>2
<1>10. u \in Seq(Nodes) /\ IsInjective(u) /\ Range(u) = DOMAIN nds
  BY <1>2, <1>3, <1>6
<1> HIDE DEF u, nds, m
<1>11. Matches(u, nds, m)
  BY <1>7, <1>8, <1>9, <1>10 DEF Matches
<1> QED BY <1>11 DEF u, nds, m

(* A new entry in a new node.                                              *)
LEMMA InsertedMatches ==
  ASSUME NEW list, NEW nodes, NEW map, Matches(list, nodes, map),
         NEW n \in Nodes \ DOMAIN nodes, NEW k \in Keys \ DOMAIN map, NEW d \in Data
  PROVE  Matches(<<n>> \o list, With(nodes, n, [key |-> k, data |-> d]), With(map, k, n))
<1>1. list \in Seq(Nodes) /\ IsInjective(list) /\ Range(list) = DOMAIN nodes
  BY DEF Matches
<1>2. /\ <<n>> \o list \in Seq(Nodes) /\ IsInjective(<<n>> \o list)
      /\ Range(<<n>> \o list) = DOMAIN nodes \cup {n}
  BY <1>1, PutFirst
<1> DEFINE e == [key |-> k, data |-> d]
<1>3. e \in Entry /\ e.key = k
  BY DEF Entry
<1> HIDE DEF e
<1>4. /\ DOMAIN With(nodes, n, e) = DOMAIN nodes \cup {n}
      /\ With(nodes, n, e)[n] = e
      /\ \A m \in DOMAIN nodes : With(nodes, n, e)[m] = nodes[m]
      /\ DOMAIN With(map, k, n) = DOMAIN map \cup {k}
      /\ With(map, k, n)[k] = n
      /\ \A l \in DOMAIN map : With(map, k, n)[l] = map[l]
  BY DEF With
<1>5. Matches(<<n>> \o list, With(nodes, n, e), With(map, k, n))
  BY <1>2, <1>3, <1>4 DEF Matches
<1> QED BY <1>5 DEF e

(* The map is as large as the list is long.                                *)
LEMMA MatchesSize ==
  ASSUME NEW list, NEW nodes, NEW map, Matches(list, nodes, map)
  PROVE  IsFiniteSet(DOMAIN map) /\ Cardinality(DOMAIN map) = Len(list)
<1> DEFINE f == [i \in 1 .. Len(list) |-> nodes[list[i]].key]
<1>1. Len(list) \in Nat /\ DOMAIN list = 1 .. Len(list)
  BY DEF Matches
<1>2. \A i \in 1 .. Len(list) : list[i] \in DOMAIN nodes
  BY <1>1 DEF Matches, Range
<1>3. f \in [1 .. Len(list) -> DOMAIN map]
  BY <1>2 DEF Matches
<1>4. \A i, j \in 1 .. Len(list) : f[i] = f[j] => i = j
  <2>1. \A i \in 1 .. Len(list) : map[f[i]] = list[i]
    BY <1>2 DEF Matches
  <2> HIDE DEF f
  <2> QED BY <1>1, <2>1 DEF Matches, IsInjective
<1>5. \A k \in DOMAIN map : \E i \in 1 .. Len(list) : f[i] = k
  <2> TAKE k \in DOMAIN map
  <2>1. map[k] \in Range(list) /\ nodes[map[k]].key = k
    BY DEF Matches
  <2>2. PICK i \in 1 .. Len(list) : list[i] = map[k]
    BY <1>1, <2>1 DEF Range
  <2> QED BY <2>1, <2>2
<1> HIDE DEF f
<1>6. f \in Bijection(1 .. Len(list), DOMAIN map)
  BY <1>3, <1>4, <1>5, Fun_IsBij
<1>7. IsFiniteSet(1 .. Len(list)) /\ Cardinality(1 .. Len(list)) = Len(list)
  BY <1>1, IntervalSize
<1> QED BY <1>6, <1>7, FS_Bijection DEF ExistsBijection

-----------------------------------------------------------------------------
(* The steps of the program. *)

(* The node thrown out by an insertion into a full cache, if any.          *)
Out == IF full THEN {Last(recent_list)} ELSE {}

(* An insertion drops what it throws out, from the list and the map alike. *)
LEMMA InsertDrops ==
  ASSUME SafeCache
  PROVE  /\ Len(recent_list) \in Nat /\ Len(recent_list) <= LenMax
         /\ full <=> Len(recent_list) = LenMax
         /\ Out \subseteq DOMAIN node
         /\ (IF full THEN Front(recent_list) ELSE recent_list) = Dropping(recent_list, Out)
         /\ Out = {cache[l] : l \in {node[o].key : o \in Out} \cap DOMAIN cache}
<1>1. Matches(recent_list, node, cache) /\ WithinLenMax
  BY SafeCacheMatches
<1>2. Cardinality(DOMAIN cache) = Len(recent_list)
  BY <1>1, MatchesSize
<1>3. /\ recent_list \in Seq(Nodes) /\ IsInjective(recent_list)
      /\ Range(recent_list) = DOMAIN node
  BY <1>1 DEF Matches
<1>4. Len(recent_list) \in Nat /\ Len(recent_list) <= LenMax
  BY <1>1, <1>2, <1>3 DEF WithinLenMax
<1>5. full <=> Len(recent_list) = LenMax
  BY <1>2, <1>4, LenMaxAssumption DEF full
<1>6. CASE full
  <2>1. recent_list # <<>> /\ Len(recent_list) \in DOMAIN recent_list
    BY <1>3, <1>4, <1>5, <1>6, LenMaxAssumption
  <2>2. Out = {recent_list[Len(recent_list)]}
    BY <1>6 DEF Out, Last
  <2>3. Out \subseteq DOMAIN node
    BY <1>3, <2>1, <2>2 DEF Range
  <2>4. Front(recent_list) = Dropping(recent_list, Out)
    <3>1. Front(recent_list) = [i \in 1 .. Len(recent_list) - 1 |-> recent_list[i]]
      BY <1>3, <2>1 DEF Front
    <3> QED BY <1>3, <2>1, <2>2, <3>1, DroppingLast
  <2> QED BY <1>1, <1>4, <1>5, <1>6, <2>3, <2>4 DEF Matches
<1>7. CASE ~full
  <2>1. Out = {}
    BY <1>7 DEF Out
  <2>2. Dropping(recent_list, Out) = recent_list
    BY <1>3, <2>1, DroppingNothing
  <2> QED BY <1>4, <1>5, <1>7, <2>1, <2>2
<1> QED BY <1>6, <1>7

LEMMA UsedIsSafe ==
  ASSUME SafeCache, NEW k \in Keys, Hit(k), touch(cache[k]), UNCHANGED <<node, cache>>
  PROVE  SafeCache'
<1>1. Matches(recent_list, node, cache) /\ cache[k] \in DOMAIN node
  BY SafeCacheMatches DEF Matches, Hit
<1>2. Matches(recent_list', node, cache)
  BY <1>1, TouchedMatches DEF touch
<1> QED BY <1>2, SafeCacheMatches DEF SafeCache, TypeOK, ListMatchesMap, Matches, WithinLenMax

LEMMA OverwrittenIsSafe ==
  ASSUME SafeCache, NEW k \in Keys, NEW d \in Data, Hit(k), touch(cache[k]),
         node' = [node EXCEPT ![cache[k]].data = d], UNCHANGED cache
  PROVE  SafeCache'
<1>1. Matches(recent_list, node, cache) /\ cache[k] \in DOMAIN node
  BY SafeCacheMatches DEF Matches, Hit
<1>2. Matches(recent_list', node, cache)
  BY <1>1, TouchedMatches DEF touch
<1>3. Matches(recent_list', node', cache')
  BY <1>1, <1>2, OverwrittenMatches
<1> QED BY <1>3 DEF SafeCache, TypeOK, ListMatchesMap, Matches, WithinLenMax

LEMMA InsertIsSafe ==
  ASSUME SafeCache, NEW k \in Keys, NEW d \in Data, Insert(k, d)
  PROVE  SafeCache'
<1> DEFINE ks == {node[o].key : o \in Out}
           nodes == Without(node, Out)
           map == Without(cache, ks)
           list == Dropping(recent_list, Out)
<1>1. Matches(recent_list, node, cache) /\ k \notin DOMAIN cache
  BY SafeCacheMatches DEF Insert, Hit
<1>2. PICK n \in Nodes \ (DOMAIN node \ Out) :
        /\ recent_list' = <<n>> \o list
        /\ node' = With(nodes, n, [key |-> k, data |-> d])
        /\ cache' = With(map, k, n)
  BY InsertDrops DEF Insert, Out
<1>3. Matches(list, nodes, map)
  BY <1>1, InsertDrops, ErasedMatches
<1>4. DOMAIN nodes = DOMAIN node \ Out /\ DOMAIN map = DOMAIN cache \ ks
  BY DEF Without, Restrict
<1>5. Matches(recent_list', node', cache')
  <2>1. n \in Nodes \ DOMAIN nodes /\ k \in Keys \ DOMAIN map
    BY <1>1, <1>2, <1>4
  <2> HIDE DEF list, nodes, map
  <2> QED BY <1>2, <1>3, <2>1, InsertedMatches
<1>6. Len(list) + 1 <= LenMax /\ Len(list) \in Nat
  <2>1. CASE full
    <3>1. Len(list) = Len(recent_list) - 1 /\ Len(recent_list) = LenMax
      BY <2>1, InsertDrops, LenMaxAssumption, <1>1 DEF Front, Matches
    <3> QED BY <3>1, LenMaxAssumption
  <2>2. CASE ~full
    <3>1. Len(list) = Len(recent_list) /\ Len(recent_list) # LenMax
      BY <2>2, InsertDrops
    <3> QED BY <3>1, InsertDrops, LenMaxAssumption
  <2> QED BY <2>1, <2>2
<1>7. Len(recent_list') = Len(list) + 1
  <2> HIDE DEF list, nodes, map
  <2> QED BY <1>2, <1>3 DEF Matches
<1>8. Cardinality(DOMAIN cache') = Len(recent_list')
  BY <1>5, MatchesSize
<1>9. WithinLenMax'
  BY <1>6, <1>7, <1>8 DEF WithinLenMax
<1> QED BY <1>5, <1>9 DEF SafeCache, TypeOK, ListMatchesMap, Matches

LEMMA EraseIsSafe ==
  ASSUME SafeCache, NEW ks, Erase(ks)
  PROVE  SafeCache'
<1> DEFINE gone == {cache[k] : k \in ks \cap DOMAIN cache}
<1>1. Matches(recent_list, node, cache) /\ WithinLenMax
  BY SafeCacheMatches
<1>2. /\ recent_list' = Dropping(recent_list, gone)
      /\ node' = Without(node, gone) /\ cache' = Without(cache, ks)
  BY DEF Erase
<1>3. Matches(recent_list', node', cache')
  BY <1>1, <1>2, ErasedMatches
<1>4. DOMAIN cache' \subseteq DOMAIN cache
  BY <1>2 DEF Without, Restrict
<1>5. Cardinality(DOMAIN cache') <= Cardinality(DOMAIN cache)
  BY <1>1, <1>4, MatchesSize, FS_Subset
<1>6. /\ Cardinality(DOMAIN cache) \in Nat /\ Cardinality(DOMAIN cache') \in Nat
  BY <1>1, <1>3, MatchesSize, FS_CardinalityType
<1>7. WithinLenMax'
  BY <1>1, <1>5, <1>6, LenMaxAssumption DEF WithinLenMax
<1> QED BY <1>3, <1>7 DEF SafeCache, TypeOK, ListMatchesMap, Matches

(* A call that changes nothing but the reply.                              *)
LEMMA UnchangedIsSafe ==
  ASSUME SafeCache, UNCHANGED <<recent_list, node, cache>>
  PROVE  SafeCache'
BY DEF SafeCache, TypeOK, ListMatchesMap, WithinLenMax

LEMMA NextIsSafe ==
  ASSUME SafeCache, Next
  PROVE  SafeCache'
<1>1. ASSUME NEW k \in Keys, Find(k) PROVE SafeCache'
  BY <1>1, UsedIsSafe, UnchangedIsSafe DEF Find, Miss
<1>2. ASSUME NEW k \in Keys, Exists(k) PROVE SafeCache'
  BY <1>2, UnchangedIsSafe DEF Exists
<1>3. ASSUME NEW k \in Keys, Invalidate(k) PROVE SafeCache'
  BY <1>3, EraseIsSafe DEF Invalidate
<1>4. ASSUME NEW k \in Keys, NEW d \in Data, FindMutable(k, d) PROVE SafeCache'
  BY <1>4, OverwrittenIsSafe, UnchangedIsSafe DEF FindMutable, Miss
<1>5. ASSUME NEW k \in Keys, NEW d \in Data, Update(k, d) PROVE SafeCache'
  BY <1>5, OverwrittenIsSafe, InsertIsSafe DEF Update, Replace
<1>6. ASSUME NEW lo \in Keys, NEW hi \in Keys, InvalidateRange(lo, hi) PROVE SafeCache'
  BY <1>6, EraseIsSafe DEF InvalidateRange
<1> QED BY <1>1, <1>2, <1>3, <1>4, <1>5, <1>6 DEF Next

LEMMA InitIsSafe == Init => SafeCache
<1> SUFFICES ASSUME Init PROVE SafeCache
  OBVIOUS
<1>1. recent_list = <<>> /\ DOMAIN node = {} /\ DOMAIN cache = {}
  BY DEF Init
<1>2. Cardinality(DOMAIN cache) = 0
  BY <1>1, FS_EmptySet
<1>3. WithinLenMax
  BY <1>2, LenMaxAssumption DEF WithinLenMax
<1>4. recent_list \in Seq(Nodes) /\ IsInjective(recent_list) /\ Range(recent_list) = {}
  BY <1>1 DEF IsInjective, Range
<1> QED BY <1>1, <1>3, <1>4 DEF SafeCache, TypeOK, ListMatchesMap

(* The list and the map of generic_lru always describe the same entries,   *)
(* no more than its length allows: no iterator dangles, and no node leaks. *)
THEOREM ListMatchesMapAlways == MCSpec => []SafeCache
<1>1. MCInit => SafeCache
  BY InitIsSafe DEF MCInit
<1>2. SafeCache /\ [MCNext]_<<kind, vars, lfuVars>> => SafeCache'
  <2>1. ASSUME SafeCache, Next PROVE SafeCache'
    BY <2>1, NextIsSafe
  <2>2. ASSUME SafeCache, UNCHANGED vars PROVE SafeCache'
    BY <2>2, UnchangedIsSafe DEF vars
  <2> QED BY <2>1, <2>2 DEF MCNext
<1> QED BY <1>1, <1>2, PTL DEF MCSpec

-----------------------------------------------------------------------------
(* The refinement: what a list, a heap and a map stand for. *)

ContentOf(nodes, map) == [k \in DOMAIN map |-> nodes[map[k]].data]

OrderOf(list, nodes) == [i \in DOMAIN list |-> nodes[list[i]].key]

LEMMA OrderType ==
  ASSUME NEW list \in Seq(Nodes), NEW nodes, \A n \in Range(list) : nodes[n].key \in Keys
  PROVE  OrderOf(list, nodes) \in Seq(Keys) /\ Len(OrderOf(list, nodes)) = Len(list)
<1>1. Len(list) \in Nat /\ DOMAIN list = 1 .. Len(list)
  OBVIOUS
<1>2. \A i \in 1 .. Len(list) : nodes[list[i]].key \in Keys
  BY <1>1 DEF Range
<1>3. OrderOf(list, nodes) \in [1 .. Len(list) -> Keys]
  BY <1>1, <1>2 DEF OrderOf
<1> QED BY <1>1, <1>3

(* Only the keys matter.                                                   *)
LEMMA OrderOfSameKeys ==
  ASSUME NEW list, NEW nodes, NEW other,
         \A n \in Range(list) : nodes[n].key = other[n].key
  PROVE  OrderOf(list, nodes) = OrderOf(list, other)
<1>1. \A i \in DOMAIN list : nodes[list[i]].key = other[list[i]].key
  BY DEF Range
<1> QED BY <1>1 DEF OrderOf

LEMMA OrderOfFirst ==
  ASSUME NEW u \in Seq(Nodes), NEW n \in Nodes, NEW nodes,
         \A m \in Range(u) \cup {n} : nodes[m].key \in Keys
  PROVE  OrderOf(<<n>> \o u, nodes) = <<nodes[n].key>> \o OrderOf(u, nodes)
<1> DEFINE t == <<n>> \o u
           k == nodes[n].key
           o == OrderOf(u, nodes)
           p == OrderOf(t, nodes)
<1>1. t \in Seq(Nodes) /\ Len(t) = Len(u) + 1 /\ DOMAIN t = 1 .. Len(u) + 1 /\ Len(u) \in Nat
  OBVIOUS
<1>2. t[1] = n /\ \A i \in 2 .. Len(u) + 1 : t[i] = u[i - 1] /\ i - 1 \in DOMAIN u
  OBVIOUS
<1>3. k \in Keys /\ o \in Seq(Keys) /\ Len(o) = Len(u)
  BY OrderType
<1>4. \A i \in DOMAIN u : o[i] = nodes[u[i]].key
  BY DEF OrderOf
<1> HIDE DEF t
<1>5. DOMAIN p = 1 .. Len(u) + 1 /\ p[1] = k
  BY <1>1, <1>2 DEF OrderOf
<1>6. \A i \in 2 .. Len(u) + 1 : p[i] = nodes[u[i - 1]].key
  BY <1>1, <1>2 DEF OrderOf
<1>7. p = [i \in 1 .. Len(u) + 1 |-> p[i]]
  BY <1>1 DEF OrderOf
<1> HIDE DEF o, p, k
<1>8. <<k>> \o o = [i \in 1 .. Len(u) + 1 |-> IF i = 1 THEN k ELSE o[i - 1]]
  BY <1>1, <1>3
<1>9. \A i \in 1 .. Len(u) + 1 : p[i] = IF i = 1 THEN k ELSE o[i - 1]
  BY <1>1, <1>2, <1>4, <1>5, <1>6
<1>10. p = <<k>> \o o
  BY <1>7, <1>8, <1>9
<1> QED BY <1>10 DEF t, o, p, k

LEMMA OrderOfDropping ==
  ASSUME NEW list \in Seq(Nodes), NEW nodes, NEW gone, NEW out,
         \A n \in Range(list) : nodes[n].key \in Keys /\ (n \in gone <=> nodes[n].key \in out)
  PROVE  OrderOf(Dropping(list, gone), nodes) = Dropping(OrderOf(list, nodes), out)
<1> DEFINE h == [n \in Range(list) |-> nodes[n].key]
           o == OrderOf(list, nodes)
           u == Dropping(list, gone)
           v == Dropping(o, out)
<1>1. Len(list) \in Nat /\ DOMAIN list = 1 .. Len(list)
  OBVIOUS
<1>2. o \in Seq(Keys) /\ Len(o) = Len(list)
  BY OrderType
<1>3. \A i \in 1 .. Len(list) : list[i] \in Range(list)
  BY <1>1 DEF Range
<1>4. \A i \in 1 .. Len(list) : o[i] = h[list[i]] /\ (list[i] \in gone <=> o[i] \in out)
  BY <1>1, <1>3 DEF OrderOf
<1>5. u \in Seq(Nodes) /\ Range(u) = Range(list) \ gone
  BY DroppingRange
<1>6. v \in Seq(Keys)
  <2> HIDE DEF o
  <2> QED BY <1>2, DroppingRange
<1>7. Len(v) = Len(u) /\ \A i \in 1 .. Len(u) : v[i] = h[u[i]]
  <2> HIDE DEF o, h
  <2> QED BY <1>2, <1>4, DroppingRenamed, SMTT(30)
<1>8. \A i \in 1 .. Len(u) : h[u[i]] = nodes[u[i]].key
  <2>1. \A i \in 1 .. Len(u) : u[i] \in Range(list)
    <3> HIDE DEF u, h
    <3>1. \A i \in 1 .. Len(u) : u[i] \in Range(u)
      BY <1>5 DEF Range
    <3> QED BY <1>5, <3>1
  <2> QED BY <2>1
<1> HIDE DEF u, v, h
<1>9. DOMAIN u = 1 .. Len(u)
  BY <1>5
<1>10. OrderOf(u, nodes) = [i \in 1 .. Len(u) |-> v[i]]
  BY <1>7, <1>8, <1>9 DEF OrderOf
<1>11. OrderOf(u, nodes) = v
  BY <1>6, <1>7, <1>10
<1> QED BY <1>11 DEF u, v

(* The abstract state. *)
Content == ContentOf(node, cache)

Order == OrderOf(recent_list, node)

LEMMA AbstractState ==
  ASSUME SafeCache
  PROVE  /\ DOMAIN Content = DOMAIN cache
         /\ \A k \in DOMAIN cache : Content[k] = node[cache[k]].data
         /\ Order \in Seq(Keys) /\ Len(Order) = Len(recent_list)
         /\ \A n \in DOMAIN node : node[n].key \in DOMAIN cache /\ Content[node[n].key] = node[n].data
<1>1. Matches(recent_list, node, cache)
  BY SafeCacheMatches
<1>2. DOMAIN Content = DOMAIN cache /\ \A k \in DOMAIN cache : Content[k] = node[cache[k]].data
  BY DEF Content, ContentOf
<1>3. Order \in Seq(Keys) /\ Len(Order) = Len(recent_list)
  BY <1>1, OrderType DEF Order, Matches, Entry
<1>4. \A n \in DOMAIN node : node[n].key \in DOMAIN cache /\ Content[node[n].key] = node[n].data
  BY <1>1, <1>2 DEF Matches
<1> QED BY <1>2, <1>3, <1>4

(* The names that GenericLRU and AbstractLRU share have one meaning.        *)
LEMMA SameDropping == \A s, gone : Exact!Dropping(s, gone) = Dropping(s, gone)
BY Zenon DEF Exact!Dropping, Dropping

(* A used key comes first.                                                 *)
LEMMA UsedComesFirst ==
  ASSUME SafeCache, NEW k \in DOMAIN cache, touch(cache[k]), UNCHANGED cache,
         DOMAIN node' = DOMAIN node, \A n \in DOMAIN node : node'[n].key = node[n].key
  PROVE  Order' = <<k>> \o Dropping(Order, {k})
<1> DEFINE n == cache[k]
           u == Dropping(recent_list, {n})
<1>1. Matches(recent_list, node, cache)
  BY SafeCacheMatches
<1>2. /\ recent_list \in Seq(Nodes) /\ Range(recent_list) = DOMAIN node
      /\ n \in DOMAIN node /\ n \in Nodes /\ node[n].key = k
      /\ \A m \in DOMAIN node : node[m].key \in Keys /\ (m \in {n} <=> node[m].key \in {k})
  BY <1>1 DEF Matches, Entry
<1>3. u \in Seq(Nodes) /\ Range(u) = DOMAIN node \ {n}
  BY <1>2, DroppingRange
<1>4. OrderOf(u, node) = Dropping(Order, {k})
  BY <1>2, OrderOfDropping DEF Order
<1>5. recent_list' = <<n>> \o u
  BY DEF touch
<1> HIDE DEF n, u
<1>6. \A m \in Range(u) \cup {n} : node[m].key \in Keys
  BY <1>2, <1>3
<1>7. OrderOf(<<n>> \o u, node) = <<k>> \o OrderOf(u, node)
  BY <1>2, <1>3, <1>6, OrderOfFirst
<1>8. Range(recent_list') = DOMAIN node
  <2>1. Matches(recent_list', node, cache)
    BY <1>1, <1>2, TouchedMatches DEF touch, n
  <2> QED BY <2>1 DEF Matches
<1>9. \A m \in Range(recent_list') : node'[m].key = node[m].key
  BY <1>8
<1>10. OrderOf(recent_list', node') = OrderOf(recent_list', node)
  BY <1>9, OrderOfSameKeys
<1> QED BY <1>4, <1>5, <1>7, <1>10 DEF Order

LEMMA FindImplements ==
  ASSUME SafeCache, NEW k \in Keys, Find(k)
  PROVE  Exact!Find(k)
<1>1. CASE Hit(k) /\ touch(cache[k]) /\ UNCHANGED <<node, cache>>
           /\ reply' = Reply("find", node[cache[k]].data, {})
  <2>1. k \in DOMAIN cache
    BY <1>1 DEF Hit
  <2>2. Order' = <<k>> \o Dropping(Order, {k})
    BY <1>1, <2>1, UsedComesFirst
  <2>3. Content' = Content /\ reply' = Reply("find", Content[k], {}) /\ k \in DOMAIN Content
    BY <1>1, <2>1, AbstractState DEF Content
  <2> QED BY <2>2, <2>3, SameDropping DEF Exact!Find, Exact!Used, Exact!Cached, Exact!Reply, Reply, Content, ContentOf, Order, OrderOf
<1>2. CASE Miss("find", k)
  <2>1. k \notin DOMAIN Content /\ Content' = Content /\ Order' = Order
        /\ reply' = Reply("find", NoData, {})
    BY <1>2, AbstractState DEF Miss, Hit, Content, Order
  <2> QED BY <2>1 DEF Exact!Find, Exact!Used, Exact!Cached, Exact!Reply, Reply, Content, ContentOf, Order, OrderOf
<1> QED BY <1>1, <1>2 DEF Find

LEMMA ExistsImplements ==
  ASSUME SafeCache, NEW k \in Keys, Exists(k)
  PROVE  Exact!Exists(k)
<1>1. (Hit(k) <=> k \in DOMAIN Content) /\ Content' = Content /\ Order' = Order
  BY AbstractState DEF Exists, Hit, Content, Order
<1>2. Hit(k) = (k \in DOMAIN Content)
  BY <1>1 DEF Hit
<1>3. reply' = Reply("exists", k \in DOMAIN Content, {})
  BY <1>2, Zenon DEF Exists
<1> QED BY <1>1, <1>3, Zenon
    DEF Exact!Exists, Exact!Cached, Exact!Reply, Reply, Content, ContentOf, Order, OrderOf

(* What a new datum for a key that is there does to the abstract state.    *)
LEMMA OverwrittenContent ==
  ASSUME SafeCache, NEW k \in DOMAIN cache, NEW d, touch(cache[k]),
         node' = [node EXCEPT ![cache[k]].data = d], UNCHANGED cache
  PROVE  /\ Content' = [x \in DOMAIN Content |-> IF x = k THEN d ELSE Content[x]]
         /\ Order' = <<k>> \o Dropping(Order, {k})
<1>1. Matches(recent_list, node, cache)
  BY SafeCacheMatches
<1>2. \A x \in DOMAIN cache : cache[x] \in DOMAIN node /\ (cache[x] = cache[k] => x = k)
  BY <1>1 DEF Matches
<1>3. /\ DOMAIN node' = DOMAIN node
      /\ \A n \in DOMAIN node : node'[n].key = node[n].key
      /\ \A n \in DOMAIN node : node'[n].data = IF n = cache[k] THEN d ELSE node[n].data
  BY <1>1 DEF Matches, Entry
<1>4. Order' = <<k>> \o Dropping(Order, {k})
  BY <1>3, UsedComesFirst
<1>5. \A x \in DOMAIN cache : node'[cache[x]].data = IF x = k THEN d ELSE Content[x]
  BY <1>2, <1>3, AbstractState
<1>6. Content' = [x \in DOMAIN Content |-> IF x = k THEN d ELSE Content[x]]
  BY <1>5, AbstractState DEF Content, ContentOf
<1> QED BY <1>4, <1>6

LEMMA FindMutableImplements ==
  ASSUME SafeCache, NEW k \in Keys, NEW d \in Data, FindMutable(k, d)
  PROVE  Exact!FindMutable(k, d)
<1>1. CASE Hit(k) /\ touch(cache[k]) /\ node' = [node EXCEPT ![cache[k]].data = d]
           /\ UNCHANGED cache /\ reply' = Reply("find_mutable", node[cache[k]].data, {})
  <2>1. k \in DOMAIN cache
    BY <1>1 DEF Hit
  <2>2. /\ Content' = [x \in DOMAIN Content |-> IF x = k THEN d ELSE Content[x]]
        /\ Order' = <<k>> \o Dropping(Order, {k})
    BY <1>1, <2>1, OverwrittenContent
  <2>3. Content' = [Content EXCEPT ![k] = d]
    BY <2>2
  <2>4. reply' = Reply("find_mutable", Content[k], {}) /\ k \in DOMAIN Content
    BY <1>1, <2>1, AbstractState
  <2> QED BY <2>2, <2>3, <2>4, SameDropping
      DEF Exact!FindMutable, Exact!Used, Exact!Cached, Exact!Reply, Reply, Content, ContentOf, Order, OrderOf
<1>2. CASE Miss("find_mutable", k)
  <2>1. k \notin DOMAIN Content /\ Content' = Content /\ Order' = Order
        /\ reply' = Reply("find_mutable", NoData, {})
    BY <1>2, AbstractState DEF Miss, Hit, Content, Order
  <2> QED BY <2>1 DEF Exact!FindMutable, Exact!Used, Exact!Cached, Exact!Reply, Reply, Content, ContentOf, Order, OrderOf
<1> QED BY <1>1, <1>2 DEF FindMutable

LEMMA ReplaceImplements ==
  ASSUME SafeCache, NEW k \in Keys, NEW d \in Data, Replace(k, d)
  PROVE  Exact!Update(k, d)
<1>1. k \in DOMAIN cache /\ k \in DOMAIN Content
  BY AbstractState DEF Replace, Hit
<1>2. /\ Content' = [x \in DOMAIN Content |-> IF x = k THEN d ELSE Content[x]]
      /\ Order' = <<k>> \o Dropping(Order, {k})
  BY <1>1, OverwrittenContent DEF Replace
<1>3. node[cache[k]].key = k
  BY <1>1, SafeCacheMatches DEF Matches
<1>4. reply' = Reply("update", NoData, {<<k, Content[k]>>})
  BY <1>1, <1>3, AbstractState DEF Replace, Pair
<1>5. Exact!Victims(k) = {k}
  BY <1>1 DEF Exact!Victims, Exact!Cached, Content, ContentOf
<1>6. (DOMAIN Content \ {k}) \cup {k} = DOMAIN Content
  BY <1>1
<1>7. {<<x, Content[x]>> : x \in {k}} = {<<k, Content[k]>>}
  OBVIOUS
<1> QED BY <1>2, <1>4, <1>5, <1>6, <1>7, SameDropping
    DEF Exact!Update, Exact!Cached, Exact!Reply, Reply, Content, ContentOf, Order, OrderOf

NodesOf(ks) == {cache[k] : k \in ks \cap DOMAIN cache}

(* Erasing keys leaves the order of the others and their data.             *)
LEMMA ErasedAbstractly ==
  ASSUME SafeCache, NEW ks, NEW gone, gone = NodesOf(ks)
  PROVE  /\ OrderOf(Dropping(recent_list, gone), node) = Dropping(Order, ks)
         /\ Dropping(recent_list, gone) \in Seq(Nodes)
         /\ Range(Dropping(recent_list, gone)) = DOMAIN node \ gone
         /\ \A k \in DOMAIN cache \ ks : cache[k] \in DOMAIN node \ gone
<1>1. Matches(recent_list, node, cache)
  BY SafeCacheMatches
<1>2. /\ recent_list \in Seq(Nodes) /\ Range(recent_list) = DOMAIN node
      /\ \A n \in DOMAIN node : node[n].key \in Keys /\ (n \in gone <=> node[n].key \in ks)
  BY <1>1 DEF Matches, Entry, NodesOf
<1>3. OrderOf(Dropping(recent_list, gone), node) = Dropping(Order, ks)
  BY <1>2, OrderOfDropping DEF Order
<1>4. /\ Dropping(recent_list, gone) \in Seq(Nodes)
      /\ Range(Dropping(recent_list, gone)) = DOMAIN node \ gone
  BY <1>2, DroppingRange
<1>5. \A k \in DOMAIN cache \ ks : cache[k] \in DOMAIN node \ gone
  BY <1>1, <1>2 DEF Matches
<1> QED BY <1>3, <1>4, <1>5

LEMMA EraseImplements ==
  ASSUME SafeCache, NEW ks, Erase(ks)
  PROVE  /\ Content' = [x \in DOMAIN Content \ ks |-> Content[x]]
         /\ Order' = Dropping(Order, ks)
<1> DEFINE gone == NodesOf(ks)
           u == Dropping(recent_list, gone)
<1>1. recent_list' = u /\ node' = Without(node, gone) /\ cache' = Without(cache, ks)
  BY DEF Erase, NodesOf
<1>2. /\ OrderOf(u, node) = Dropping(Order, ks) /\ Range(u) = DOMAIN node \ gone
      /\ \A k \in DOMAIN cache \ ks : cache[k] \in DOMAIN node \ gone
  BY ErasedAbstractly
<1> HIDE DEF gone, u
<1>3. /\ DOMAIN cache' = DOMAIN cache \ ks
      /\ \A k \in DOMAIN cache \ ks : cache'[k] = cache[k]
      /\ \A n \in DOMAIN node \ gone : node'[n] = node[n]
  BY <1>1 DEF Without, Restrict
<1>4. OrderOf(u, node') = OrderOf(u, node)
  <2>1. \A n \in Range(u) : node'[n].key = node[n].key
    BY <1>2, <1>3
  <2> QED BY <2>1, OrderOfSameKeys
<1>5. Order' = Dropping(Order, ks)
  BY <1>1, <1>2, <1>4 DEF Order
<1>6. \A k \in DOMAIN cache \ ks : node'[cache'[k]].data = Content[k]
  BY <1>2, <1>3, AbstractState
<1>7. Content' = [x \in DOMAIN Content \ ks |-> Content[x]]
  BY <1>3, <1>6, AbstractState DEF Content, ContentOf
<1> QED BY <1>5, <1>7

LEMMA InvalidateImplements ==
  ASSUME SafeCache, NEW k \in Keys, Invalidate(k)
  PROVE  Exact!Invalidate(k)
<1>1. /\ Content' = [x \in DOMAIN Content \ {k} |-> Content[x]]
      /\ Order' = Dropping(Order, {k})
      /\ reply' = Reply("invalidate", NoData, {})
  BY EraseImplements DEF Invalidate
<1> QED BY <1>1, SameDropping
    DEF Exact!Invalidate, Exact!Forget, Exact!Cached, Exact!Reply, Reply, Content, ContentOf, Order, OrderOf

LEMMA InvalidateRangeImplements ==
  ASSUME SafeCache, NEW lo \in Keys, NEW hi \in Keys, InvalidateRange(lo, hi)
  PROVE  Exact!InvalidateRange(lo, hi)
<1> DEFINE ks == lo .. (hi - 1)
<1>1. /\ Content' = [x \in DOMAIN Content \ ks |-> Content[x]]
      /\ Order' = Dropping(Order, ks)
      /\ reply' = Reply("invalidate_range", NoData, {}) /\ lo < hi
  BY EraseImplements DEF InvalidateRange
<1>2. Exact!Forget(ks, "invalidate_range")
  <2> HIDE DEF ks
  <2> QED BY <1>1, SameDropping
      DEF Exact!Forget, Exact!Cached, Exact!Reply, Reply, Content, ContentOf, Order, OrderOf
<1> QED BY <1>1, <1>2 DEF Exact!InvalidateRange

LEMMA InsertImplements ==
  ASSUME SafeCache, NEW k \in Keys, NEW d \in Data, Insert(k, d)
  PROVE  Exact!Update(k, d)
<1> DEFINE ks == {node[o].key : o \in Out}
           u == Dropping(recent_list, Out)
<1>1. Matches(recent_list, node, cache) /\ k \notin DOMAIN cache
  BY SafeCacheMatches DEF Insert, Hit
<1>2. PICK n \in Nodes \ (DOMAIN node \ Out) :
        /\ recent_list' = <<n>> \o u
        /\ node' = With(Without(node, Out), n, [key |-> k, data |-> d])
        /\ cache' = With(Without(cache, ks), k, n)
        /\ reply' = Reply("update", NoData, {Pair(o) : o \in Out})
  BY InsertDrops DEF Insert, Out
<1>3. /\ OrderOf(u, node) = Dropping(Order, ks) /\ u \in Seq(Nodes)
      /\ Range(u) = DOMAIN node \ Out
      /\ \A l \in DOMAIN cache \ ks : cache[l] \in DOMAIN node \ Out
  <2>1. Out = NodesOf(ks)
    BY InsertDrops DEF NodesOf
  <2> HIDE DEF ks
  <2> QED BY <2>1, ErasedAbstractly
<1>4. Out \subseteq DOMAIN node /\ k \notin ks
  BY <1>1, InsertDrops DEF Matches
<1>5. /\ DOMAIN cache' = (DOMAIN cache \ ks) \cup {k}
      /\ cache'[k] = n
      /\ \A l \in DOMAIN cache \ ks : cache'[l] = cache[l]
      /\ node'[n].key = k /\ node'[n].data = d
      /\ \A m \in DOMAIN node \ Out : node'[m] = node[m]
  <2>1. \A l \in DOMAIN cache \ ks : l # k
    BY <1>1
  <2>2. \A m \in DOMAIN node \ Out : m # n
    BY <1>2
  <2> HIDE DEF ks
  <2> QED BY <1>2, <2>1, <2>2 DEF With, Without, Restrict
<1>6. Exact!Victims(k) = ks
  <2>1. k \notin Exact!Cached
    BY <1>1 DEF Exact!Cached
  <2>2. CASE full
    <3>1. Len(recent_list) = LenMax /\ Len(recent_list) \in DOMAIN recent_list
      BY <1>1, <2>2, InsertDrops, LenMaxAssumption DEF Matches
    <3>2. ks = {node[recent_list[Len(recent_list)]].key}
      BY <2>2 DEF Out, Last
    <3>3. Len(Order) = LenMax /\ Order[Len(Order)] = node[recent_list[Len(recent_list)]].key
      BY <3>1, AbstractState DEF Order, OrderOf
    <3>4. Exact!Victims(k) = {Order[Len(Order)]}
      BY <2>1, <3>3 DEF Exact!Victims, Exact!Last, Order, OrderOf
    <3> QED BY <3>2, <3>3, <3>4
  <2>3. CASE ~full
    <3>1. ks = {}
      BY <2>3 DEF Out
    <3>2. Len(Order) # LenMax
      BY <2>3, InsertDrops, AbstractState
    <3> QED BY <2>1, <3>1, <3>2 DEF Exact!Victims, Order, OrderOf
  <2> QED BY <2>2, <2>3
<1>7. Order' = <<k>> \o Dropping(Order, ks)
  <2> HIDE DEF u, ks
  <2>1. \A m \in Range(u) : node'[m].key = node[m].key /\ node[m].key \in Keys
    BY <1>1, <1>3, <1>5 DEF Matches, Entry
  <2>2. OrderOf(u, node') = OrderOf(u, node)
    BY <2>1, OrderOfSameKeys
  <2>3. n \in Nodes /\ \A m \in Range(u) \cup {n} : node'[m].key \in Keys
    BY <1>2, <1>5, <2>1
  <2>4. OrderOf(<<n>> \o u, node') = <<node'[n].key>> \o OrderOf(u, node')
    BY <1>3, <2>3, OrderOfFirst
  <2> QED BY <1>2, <1>3, <1>5, <2>2, <2>4 DEF Order
<1>8. Content' = [x \in (DOMAIN Content \ ks) \cup {k} |-> IF x = k THEN d ELSE Content[x]]
  <2> HIDE DEF ks
  <2>1. \A x \in DOMAIN cache \ ks : x # k /\ node'[cache'[x]].data = Content[x]
    BY <1>1, <1>3, <1>5, AbstractState
  <2>2. node'[cache'[k]].data = d
    BY <1>5
  <2> QED BY <1>5, <2>1, <2>2, AbstractState DEF Content, ContentOf
<1>9. {Pair(o) : o \in Out} = {<<x, Content[x]>> : x \in ks}
  <2>1. \A o \in Out : Pair(o) = <<node[o].key, Content[node[o].key]>>
    BY <1>4, AbstractState DEF Pair
  <2> QED BY <2>1
<1>10. reply' = Reply("update", NoData, {<<x, Content[x]>> : x \in ks})
  BY <1>2, <1>9
<1> HIDE DEF ks
<1> QED BY <1>6, <1>7, <1>8, <1>10, SameDropping
    DEF Exact!Update, Exact!Cached, Exact!Reply, Reply, Content, ContentOf, Order, OrderOf

LEMMA NextImplements ==
  ASSUME SafeCache, Next
  PROVE  Exact!Next
<1>1. ASSUME NEW k \in Keys, Find(k) \/ Exists(k) \/ Invalidate(k) PROVE Exact!Next
  BY <1>1, FindImplements, ExistsImplements, InvalidateImplements DEF Exact!Next
<1>2. ASSUME NEW k \in Keys, NEW d \in Data, FindMutable(k, d) \/ Update(k, d) PROVE Exact!Next
  BY <1>2, FindMutableImplements, ReplaceImplements, InsertImplements DEF Exact!Next, Update
<1>3. ASSUME NEW lo \in Keys, NEW hi \in Keys, InvalidateRange(lo, hi) PROVE Exact!Next
  BY <1>3, InvalidateRangeImplements DEF Exact!Next
<1> QED BY <1>1, <1>2, <1>3 DEF Next

(* generic_lru is an exact least-recently-used cache: every call answers as *)
(* that of AbstractLRU does, and throws out what that throws out.          *)
THEOREM ExactLRU == MCSpec => ImplementsLRU
<1>1. MCInit => Exact!Init
  BY DEF MCInit, Init, Exact!Init, Exact!Reply, Exact!Created, Created, Reply
<1>2. SafeCache /\ [MCNext]_<<kind, vars, lfuVars>>
        => [kind = "generic_lru" => [Exact!Next]_(Exact!vars)]_<<kind, vars, lfuVars>>
  <2>1. ASSUME SafeCache, Next PROVE Exact!Next
    BY <2>1, NextImplements
  <2>2. ASSUME UNCHANGED vars PROVE UNCHANGED Exact!vars
    BY <2>2 DEF vars, Exact!vars
  <2> QED BY <2>1, <2>2 DEF MCNext
<1> QED BY <1>1, <1>2, ListMatchesMapAlways, PTL DEF MCSpec, ImplementsLRU

-----------------------------------------------------------------------------
(* generic_lfu *)

BucketRecord == [id : Buckets, freq : 1 .. MaxFreq, nodes : Seq(Nodes)]

(* What SafeCache of LFU says of a list of buckets, a heap of nodes and a  *)
(* map, but for empty buckets: they are there within a call.               *)
Placed(list, nodes, map) ==
    /\ list \in Seq(BucketRecord)
    /\ DOMAIN nodes \subseteq Nodes /\ \A n \in DOMAIN nodes : nodes[n] \in Entry
    /\ DOMAIN map \subseteq Keys /\ \A k \in DOMAIN map : map[k] \in [bucket : Buckets, node : Nodes]
    /\ \A i, j \in DOMAIN list : i < j => list[i].freq < list[j].freq
    /\ \A i, j \in DOMAIN list : list[i].id = list[j].id => i = j
    /\ \A i \in DOMAIN list : IsInjective(list[i].nodes)
    /\ \A i \in DOMAIN list : \A n \in Range(list[i].nodes) :
          /\ n \in DOMAIN nodes /\ nodes[n].key \in DOMAIN map
          /\ map[nodes[n].key].bucket = list[i].id /\ map[nodes[n].key].node = n
    /\ \A k \in DOMAIN map : \E i \in DOMAIN list :
          /\ map[k].bucket = list[i].id /\ map[k].node \in Range(list[i].nodes)
          /\ nodes[map[k].node].key = k
    /\ \A n \in DOMAIN nodes : nodes[n].key \in DOMAIN map /\ map[nodes[n].key].node = n

(* The names that both caches have mean the same.                          *)
LEMMA SameOperators ==
  /\ \A s, gone : Frequent!Dropping(s, gone) = Dropping(s, gone)
  /\ \A f, gone : Frequent!Without(f, gone) = Without(f, gone)
  /\ \A f, x, y : Frequent!With(f, x, y) = With(f, x, y)
  /\ \A f : Frequent!Range(f) = Range(f)
  /\ \A f : Frequent!IsInjective(f) = IsInjective(f)
  /\ \A s : Frequent!Cardinality(s) = Cardinality(s)
<1>1. \A s, gone : Frequent!Dropping(s, gone) = Dropping(s, gone)
  BY Zenon DEF Frequent!Dropping, Dropping
<1>2. \A f, gone : Frequent!Without(f, gone) = Without(f, gone)
  BY Zenon DEF Frequent!Without, Without, Frequent!Restrict, Restrict
<1>3. \A f, x, y : Frequent!With(f, x, y) = With(f, x, y)
  BY Zenon DEF Frequent!With, With
<1>4. \A f : Frequent!Range(f) = Range(f)
  BY Zenon DEF Frequent!Range, Range
<1>5. \A f : Frequent!IsInjective(f) = IsInjective(f)
  BY Zenon DEF Frequent!IsInjective, IsInjective
<1>6. \A s : Frequent!Cardinality(s) = Cardinality(s)
  BY Zenon DEF Frequent!Cardinality, Cardinality
<1> QED BY <1>1, <1>2, <1>3, <1>4, <1>5, <1>6

NoneEmpty(list) == \A i \in DOMAIN list : list[i].nodes # <<>>

LEMMA SameNodes ==
  ASSUME NEW list, NEW nodes, NEW map, Placed(list, nodes, map),
         NEW same, DOMAIN nodes = DOMAIN same, \A n \in DOMAIN same : nodes[n] = same[n]
  PROVE  Placed(list, same, map)
<1>1. \A i \in DOMAIN list : \A n \in Range(list[i].nodes) :
         /\ n \in DOMAIN same /\ same[n].key \in DOMAIN map
         /\ map[same[n].key].bucket = list[i].id /\ map[same[n].key].node = n
  BY DEF Placed
<1>2. ASSUME NEW k \in DOMAIN map
      PROVE  \E i \in DOMAIN list :
                /\ map[k].bucket = list[i].id /\ map[k].node \in Range(list[i].nodes)
                /\ same[map[k].node].key = k
  <2>1. PICK i \in DOMAIN list : /\ map[k].bucket = list[i].id /\ map[k].node \in Range(list[i].nodes)
                                 /\ nodes[map[k].node].key = k
    BY DEF Placed
  <2>2. map[k].node \in DOMAIN same
    BY <1>1, <2>1
  <2> QED BY <2>1, <2>2
<1>3. \A n \in DOMAIN same : same[n].key \in DOMAIN map /\ map[same[n].key].node = n
  BY DEF Placed
<1>4. DOMAIN same \subseteq Nodes /\ \A n \in DOMAIN same : same[n] \in Entry
  BY DEF Placed
<1> QED BY <1>1, <1>2, <1>3, <1>4 DEF Placed

LEMMA WithoutIs ==
  ASSUME NEW f, NEW gone
  PROVE  /\ DOMAIN Without(f, gone) = DOMAIN f \ gone
         /\ \A x \in DOMAIN f \ gone : Without(f, gone)[x] = f[x]
BY DEF Without, Restrict

LEMMA WithIs ==
  ASSUME NEW f, NEW x, NEW y
  PROVE  /\ DOMAIN With(f, x, y) = DOMAIN f \cup {x}
         /\ With(f, x, y)[x] = y
         /\ \A z \in DOMAIN f \ {x} : With(f, x, y)[z] = f[z]
BY DEF With

(* Another list of nodes in a bucket.                                      *)
LEMMA EditedBucket ==
  ASSUME NEW list \in Seq(BucketRecord), NEW i \in DOMAIN list, NEW s \in Seq(Nodes)
  PROVE  /\ [list EXCEPT ![i].nodes = s] \in Seq(BucketRecord)
         /\ DOMAIN [list EXCEPT ![i].nodes = s] = DOMAIN list
         /\ Len([list EXCEPT ![i].nodes = s]) = Len(list)
         /\ [list EXCEPT ![i].nodes = s][i].nodes = s
         /\ \A j \in DOMAIN list : /\ [list EXCEPT ![i].nodes = s][j].id = list[j].id
                                   /\ [list EXCEPT ![i].nodes = s][j].freq = list[j].freq
                                   /\ j # i => [list EXCEPT ![i].nodes = s][j] = list[j]
<1> DEFINE b == [list[i] EXCEPT !.nodes = s]
           new == [list EXCEPT ![i] = b]
<1>1. b \in BucketRecord /\ b.id = list[i].id /\ b.freq = list[i].freq /\ b.nodes = s
  <2>1. list[i] \in BucketRecord
    OBVIOUS
  <2> QED BY <2>1 DEF BucketRecord
<1>2. new = [list EXCEPT ![i].nodes = s]
  OBVIOUS
<1> HIDE DEF b
<1>3. /\ new \in Seq(BucketRecord) /\ DOMAIN new = DOMAIN list /\ Len(new) = Len(list)
      /\ new[i] = b /\ \A j \in DOMAIN list : j # i => new[j] = list[j]
  BY <1>1
<1> HIDE DEF new
<1>4. \A j \in DOMAIN list : new[j].id = list[j].id /\ new[j].freq = list[j].freq
  BY <1>1, <1>3
<1> QED BY <1>1, <1>2, <1>3, <1>4

LEMMA EditedFirst ==
  ASSUME NEW list \in Seq(BucketRecord), 1 \in DOMAIN list, NEW s \in Seq(Nodes),
         NEW new, new = [list EXCEPT ![1].nodes = s]
  PROVE  /\ DOMAIN new = DOMAIN list /\ new \in Seq(BucketRecord) /\ new[1].id = list[1].id
         /\ new[1].nodes = s
         /\ \A j \in DOMAIN list : j # 1 => new[j] = list[j]
<1> DEFINE p == 1
<1>1. p \in DOMAIN list /\ new = [list EXCEPT ![p].nodes = s]
  OBVIOUS
<1> HIDE DEF p
<1>2. /\ DOMAIN new = DOMAIN list /\ new \in Seq(BucketRecord) /\ new[p].id = list[p].id
      /\ new[p].nodes = s
      /\ \A j \in DOMAIN list : j # p => new[j] = list[j]
  BY <1>1, EditedBucket
<1> QED BY <1>2, Zenon DEF p

LEMMA AtIs ==
  ASSUME NEW list, NEW i \in DOMAIN list,
         \A j, l \in DOMAIN list : list[j].id = list[l].id => j = l
  PROVE  Frequent!At(list, list[i].id) = i
BY DEF Frequent!At

(* A node is taken out of its bucket, and its key out of the map.          *)
LEMMA TakenOut ==
  ASSUME NEW list, NEW nodes, NEW map, Placed(list, nodes, map),
         NEW i \in DOMAIN list, NEW n \in Range(list[i].nodes)
  PROVE  Placed([list EXCEPT ![i].nodes = Dropping(list[i].nodes, {n})],
                Without(nodes, {n}), Without(map, {nodes[n].key}))
<1> DEFINE k == nodes[n].key
           rest == Dropping(list[i].nodes, {n})
           new == [list EXCEPT ![i].nodes = rest]
           nds == Without(nodes, {n})
           m == Without(map, {k})
<1>1. list \in Seq(BucketRecord) /\ list[i] \in BucketRecord /\ IsInjective(list[i].nodes)
  BY DEF Placed
<1>2. list[i].nodes \in Seq(Nodes)
  BY <1>1 DEF BucketRecord
<1>3. rest \in Seq(Nodes) /\ Range(rest) = Range(list[i].nodes) \ {n} /\ IsInjective(rest)
  BY <1>1, <1>2, DroppingRange, DroppingInjective
<1> HIDE DEF rest
<1>4. /\ new \in Seq(BucketRecord) /\ DOMAIN new = DOMAIN list /\ new[i].nodes = rest
      /\ \A j \in DOMAIN list : /\ new[j].id = list[j].id /\ new[j].freq = list[j].freq
                                /\ j # i => new[j].nodes = list[j].nodes
  BY <1>1, <1>3, EditedBucket
<1>5. /\ DOMAIN nds = DOMAIN nodes \ {n} /\ \A x \in DOMAIN nds : nds[x] = nodes[x]
      /\ DOMAIN m = DOMAIN map \ {k} /\ \A x \in DOMAIN m : m[x] = map[x]
  <2> HIDE DEF k
  <2> QED BY DEF Without, Restrict
<1>6. /\ n \in DOMAIN nodes /\ k \in DOMAIN map /\ map[k].bucket = list[i].id /\ map[k].node = n
      /\ \A x \in DOMAIN nodes : nodes[x].key = k => x = n
  BY DEF Placed
<1> HIDE DEF new, nds, m, k
<1>7. \A j \in DOMAIN list : IsInjective(new[j].nodes)
  BY <1>3, <1>4 DEF Placed
<1>8. \A j \in DOMAIN list : Range(new[j].nodes) = Range(list[j].nodes) \ {n}
  <2> SUFFICES ASSUME NEW j \in DOMAIN list, j # i PROVE n \notin Range(list[j].nodes)
    BY <1>3, <1>4
  <2> SUFFICES ASSUME n \in Range(list[j].nodes) PROVE FALSE
    OBVIOUS
  <2>1. map[k].bucket = list[j].id
    BY DEF Placed, k
  <2>2. list[i].id = list[j].id
    BY <1>6, <2>1
  <2> QED BY <2>2 DEF Placed
<1>9. ASSUME NEW j \in DOMAIN new, NEW x \in Range(new[j].nodes)
      PROVE  /\ x \in DOMAIN nds /\ nds[x].key \in DOMAIN m
             /\ m[nds[x].key].bucket = new[j].id /\ m[nds[x].key].node = x
  <2>1. x \in Range(list[j].nodes) /\ x # n /\ j \in DOMAIN list
    BY <1>4, <1>8
  <2>2. /\ x \in DOMAIN nodes /\ nodes[x].key \in DOMAIN map
        /\ map[nodes[x].key].bucket = list[j].id /\ map[nodes[x].key].node = x
    BY <2>1 DEF Placed
  <2>3. nodes[x].key # k
    BY <1>6, <2>1, <2>2
  <2> QED BY <1>4, <1>5, <2>1, <2>2, <2>3
<1>10. ASSUME NEW x \in DOMAIN m
       PROVE  \E j \in DOMAIN new : /\ m[x].bucket = new[j].id /\ m[x].node \in Range(new[j].nodes)
                                    /\ nds[m[x].node].key = x
  <2>1. x \in DOMAIN map /\ x # k /\ m[x] = map[x]
    BY <1>5
  <2>2. PICK j \in DOMAIN list : /\ map[x].bucket = list[j].id /\ map[x].node \in Range(list[j].nodes)
                                 /\ nodes[map[x].node].key = x
    BY <2>1 DEF Placed
  <2>3. map[x].node # n
    BY <1>6, <2>1, <2>2 DEF k
  <2>4. map[x].node \in DOMAIN nodes
    BY <2>2 DEF Placed
  <2>5. nds[map[x].node] = nodes[map[x].node] /\ map[x].node \in Range(new[j].nodes)
    BY <1>5, <1>8, <2>2, <2>3, <2>4
  <2> QED BY <1>4, <2>1, <2>2, <2>5
<1>11. \A x \in DOMAIN nds : nds[x].key \in DOMAIN m /\ m[nds[x].key].node = x
  <2> TAKE x \in DOMAIN nds
  <2>1. x \in DOMAIN nodes /\ x # n /\ nds[x] = nodes[x]
    BY <1>5
  <2>2. nodes[x].key \in DOMAIN map /\ map[nodes[x].key].node = x /\ nodes[x].key # k
    BY <1>6, <2>1 DEF Placed
  <2> QED BY <1>5, <2>1, <2>2
<1>12. /\ DOMAIN nds \subseteq Nodes /\ \A x \in DOMAIN nds : nds[x] \in Entry
       /\ DOMAIN m \subseteq Keys /\ \A x \in DOMAIN m : m[x] \in [bucket : Buckets, node : Nodes]
       /\ \A j, l \in DOMAIN new : j < l => new[j].freq < new[l].freq
       /\ \A j, l \in DOMAIN new : new[j].id = new[l].id => j = l
  BY <1>4, <1>5 DEF Placed
<1>13. Placed(new, nds, m)
  BY <1>4, <1>7, <1>9, <1>10, <1>11, <1>12 DEF Placed
<1> QED BY <1>13 DEF new, nds, m, k, rest

(* A new node joins a bucket, and its key the map.                         *)
LEMMA PutIn ==
  ASSUME NEW list, NEW nodes, NEW map, Placed(list, nodes, map),
         NEW i \in DOMAIN list, NEW n \in Nodes \ DOMAIN nodes,
         NEW e \in Entry, e.key \notin DOMAIN map
  PROVE  Placed(Frequent!AddFirst(list, i, n), With(nodes, n, e),
                With(map, e.key, [bucket |-> list[i].id, node |-> n]))
<1> DEFINE k == e.key
           more == <<n>> \o list[i].nodes
           new == [list EXCEPT ![i].nodes = more]
           nds == With(nodes, n, e)
           at == [bucket |-> list[i].id, node |-> n]
           m == With(map, k, at)
<1>1. list \in Seq(BucketRecord) /\ list[i] \in BucketRecord /\ IsInjective(list[i].nodes)
  BY DEF Placed
<1>2. list[i].nodes \in Seq(Nodes) /\ list[i].id \in Buckets
  BY <1>1 DEF BucketRecord
<1>3. \A j \in DOMAIN list : n \notin Range(list[j].nodes)
  BY DEF Placed
<1>4. more \in Seq(Nodes) /\ Range(more) = Range(list[i].nodes) \cup {n} /\ IsInjective(more)
  BY <1>1, <1>2, <1>3, PutFirst
<1>5. Frequent!AddFirst(list, i, n) = new
  BY DEF Frequent!AddFirst
<1> HIDE DEF more
<1>6. /\ new \in Seq(BucketRecord) /\ DOMAIN new = DOMAIN list /\ new[i].nodes = more
      /\ \A j \in DOMAIN list : /\ new[j].id = list[j].id /\ new[j].freq = list[j].freq
                                /\ j # i => new[j].nodes = list[j].nodes
  BY <1>1, <1>4, EditedBucket
<1>7. /\ DOMAIN nds = DOMAIN nodes \cup {n} /\ nds[n] = e /\ \A x \in DOMAIN nodes : nds[x] = nodes[x]
      /\ DOMAIN m = DOMAIN map \cup {k} /\ m[k] = at /\ \A x \in DOMAIN map : m[x] = map[x]
  <2>1. k \notin DOMAIN map
    OBVIOUS
  <2> HIDE DEF k, at
  <2> QED BY <2>1 DEF With
<1>8. at \in [bucket : Buckets, node : Nodes] /\ at.bucket = list[i].id /\ at.node = n /\ k \in Keys
  BY <1>2 DEF Entry
<1> HIDE DEF new, nds, m, k, at
<1>9. \A j \in DOMAIN list : IsInjective(new[j].nodes)
  BY <1>4, <1>6 DEF Placed
<1>10. ASSUME NEW j \in DOMAIN new, NEW x \in Range(new[j].nodes)
       PROVE  /\ x \in DOMAIN nds /\ nds[x].key \in DOMAIN m
              /\ m[nds[x].key].bucket = new[j].id /\ m[nds[x].key].node = x
  <2>1. CASE x = n
    <3>1. j = i
      BY <1>3, <1>6, <2>1
    <3> QED BY <1>6, <1>7, <1>8, <2>1, <3>1 DEF k
  <2>2. CASE x # n
    <3>1. x \in Range(list[j].nodes) /\ j \in DOMAIN list
      BY <1>4, <1>6, <2>2
    <3>2. /\ x \in DOMAIN nodes /\ nodes[x].key \in DOMAIN map
          /\ map[nodes[x].key].bucket = list[j].id /\ map[nodes[x].key].node = x
      BY <3>1 DEF Placed
    <3> QED BY <1>6, <1>7, <3>1, <3>2
  <2> QED BY <2>1, <2>2
<1>11. ASSUME NEW x \in DOMAIN m
       PROVE  \E j \in DOMAIN new : /\ m[x].bucket = new[j].id /\ m[x].node \in Range(new[j].nodes)
                                    /\ nds[m[x].node].key = x
  <2>1. CASE x = k
    BY <1>4, <1>6, <1>7, <1>8, <2>1 DEF k
  <2>2. CASE x # k
    <3>1. x \in DOMAIN map /\ m[x] = map[x]
      BY <1>7, <2>2
    <3>2. PICK j \in DOMAIN list : /\ map[x].bucket = list[j].id /\ map[x].node \in Range(list[j].nodes)
                                   /\ nodes[map[x].node].key = x
      BY <3>1 DEF Placed
    <3>3. map[x].node \in DOMAIN nodes /\ map[x].node \in Range(new[j].nodes)
      BY <1>4, <1>6, <3>2 DEF Placed
    <3> QED BY <1>6, <1>7, <3>1, <3>2, <3>3
  <2> QED BY <2>1, <2>2
<1>12. \A x \in DOMAIN nds : nds[x].key \in DOMAIN m /\ m[nds[x].key].node = x
  <2> TAKE x \in DOMAIN nds
  <2>1. CASE x = n
    BY <1>7, <1>8, <2>1 DEF k
  <2>2. CASE x # n
    <3>1. x \in DOMAIN nodes /\ nds[x] = nodes[x]
      BY <1>7, <2>2
    <3>2. nodes[x].key \in DOMAIN map /\ map[nodes[x].key].node = x
      BY <3>1 DEF Placed
    <3> QED BY <1>7, <3>1, <3>2
  <2> QED BY <2>1, <2>2
<1>13. /\ DOMAIN nds \subseteq Nodes /\ \A x \in DOMAIN nds : nds[x] \in Entry
       /\ DOMAIN m \subseteq Keys /\ \A x \in DOMAIN m : m[x] \in [bucket : Buckets, node : Nodes]
       /\ \A j, l \in DOMAIN new : j < l => new[j].freq < new[l].freq
       /\ \A j, l \in DOMAIN new : new[j].id = new[l].id => j = l
  BY <1>6, <1>7, <1>8 DEF Placed
<1>14. Placed(new, nds, m)
  BY <1>6, <1>9, <1>10, <1>11, <1>12, <1>13 DEF Placed
<1> QED BY <1>5, <1>14 DEF new, nds, m, k, at, more

LEMMA RemovedAt ==
  ASSUME NEW S, NEW list \in Seq(S), NEW p \in 1 .. Len(list)
  PROVE  HasRemoved(S, list, p, Frequent!RemoveAt(list, p))
<1>1. Frequent!RemoveAt(list, p) = CutAt(list, p)
  BY Zenon DEF Frequent!RemoveAt, CutAt
<1> QED BY <1>1, CutOut

(* What Placed says does not depend on where the buckets are: list and     *)
(* other have the same ones, in the same order, but for empty ones.        *)
Ordered(list) ==
    /\ list \in Seq(BucketRecord)
    /\ \A i, j \in DOMAIN list : i < j => list[i].freq < list[j].freq
    /\ \A i, j \in DOMAIN list : list[i].id = list[j].id => i = j

AreIn(list, other) ==
    \A i \in DOMAIN list : list[i].nodes = <<>> \/ \E j \in DOMAIN other : other[j] = list[i]

LEMMA SameBuckets ==
  ASSUME NEW list, NEW nodes, NEW map, Placed(list, nodes, map),
         NEW other, Ordered(other), AreIn(other, list), AreIn(list, other)
  PROVE  Placed(other, nodes, map)
<1>5. /\ \A j \in DOMAIN other : other[j].nodes = <<>> \/ \E i \in DOMAIN list : other[j] = list[i]
      /\ \A i \in DOMAIN list : list[i].nodes = <<>> \/ \E j \in DOMAIN other : other[j] = list[i]
  BY Zenon DEF AreIn
<1>1. \A j \in DOMAIN other : IsInjective(other[j].nodes)
  <2> TAKE j \in DOMAIN other
  <2>1. CASE other[j].nodes = <<>>
    BY <2>1 DEF IsInjective
  <2>2. CASE \E i \in DOMAIN list : other[j] = list[i]
    BY <2>2 DEF Placed
  <2> QED BY <1>5, <2>1, <2>2
<1>2. Range(<<>>) = {}
  BY DEF Range
<1>3. \A j \in DOMAIN other : \A n \in Range(other[j].nodes) :
         /\ n \in DOMAIN nodes /\ nodes[n].key \in DOMAIN map
         /\ map[nodes[n].key].bucket = other[j].id /\ map[nodes[n].key].node = n
  <2> SUFFICES ASSUME NEW j \in DOMAIN other, NEW n \in Range(other[j].nodes)
               PROVE  /\ n \in DOMAIN nodes /\ nodes[n].key \in DOMAIN map
                      /\ map[nodes[n].key].bucket = other[j].id /\ map[nodes[n].key].node = n
    OBVIOUS
  <2>1. PICK i \in DOMAIN list : other[j] = list[i]
    BY <1>2, <1>5
  <2> QED BY <2>1 DEF Placed
<1>4. \A k \in DOMAIN map : \E j \in DOMAIN other :
         /\ map[k].bucket = other[j].id /\ map[k].node \in Range(other[j].nodes)
         /\ nodes[map[k].node].key = k
  <2> SUFFICES ASSUME NEW k \in DOMAIN map
               PROVE  \E j \in DOMAIN other :
                         /\ map[k].bucket = other[j].id /\ map[k].node \in Range(other[j].nodes)
                         /\ nodes[map[k].node].key = k
    OBVIOUS
  <2>1. PICK i \in DOMAIN list : /\ map[k].bucket = list[i].id /\ map[k].node \in Range(list[i].nodes)
                                 /\ nodes[map[k].node].key = k
    BY DEF Placed
  <2>2. PICK j \in DOMAIN other : other[j] = list[i]
    BY <1>2, <1>5, <2>1
  <2> QED BY <2>1, <2>2
<1> QED BY <1>1, <1>3, <1>4 DEF Placed, Ordered

(* A bucket is made, between those of lower and those of higher frequency. *)
LEMMA Opened ==
  ASSUME NEW list, NEW nodes, NEW map, Placed(list, nodes, map),
         NEW p \in 1 .. Len(list) + 1, NEW f \in 1 .. MaxFreq,
         NEW new \in Buckets \ Frequent!BucketIds(list),
         \A j \in 1 .. p - 1 : list[j].freq < f,
         \A j \in p .. Len(list) : f < list[j].freq
  PROVE  Placed(Frequent!InsertAt(list, p, Frequent!Bucket(new, f)), nodes, map)
<1> DEFINE b == [id |-> new, freq |-> f, nodes |-> <<>>]
           other == InsertedAt(list, p, b)
<1>1. b \in BucketRecord /\ b.id = new /\ b.freq = f /\ b.nodes = <<>>
  BY DEF BucketRecord
<1>2. b = Frequent!Bucket(new, f)
  BY DEF Frequent!Bucket
<1> HIDE DEF b
<1>3. /\ list \in Seq(BucketRecord) /\ Len(list) \in Nat /\ DOMAIN list = 1 .. Len(list)
      /\ \A j \in DOMAIN list : list[j].freq \in Int
  <2>1. list \in Seq(BucketRecord)
    BY DEF Placed
  <2>2. \A j \in DOMAIN list : list[j] \in BucketRecord
    BY <2>1
  <2>3. \A j \in DOMAIN list : list[j].freq \in 1 .. MaxFreq
    BY <2>2 DEF BucketRecord
  <2> QED BY <2>1, <2>3
<1>4. /\ other \in Seq(BucketRecord) /\ Len(other) = Len(list) + 1 /\ other[p] = b
      /\ \A j \in 1 .. p - 1 : other[j] = list[j]
      /\ \A j \in p .. Len(list) : other[j + 1] = list[j]
  <2>1. list \in Seq(BucketRecord) /\ b \in BucketRecord
    BY <1>1, <1>3
  <2>2. HasInserted(BucketRecord, list, p, b, other)
    BY <2>1, Inserted
  <2> HIDE DEF other
  <2> QED BY <2>2, Zenon DEF HasInserted
<1> HIDE DEF other
<1>5. DOMAIN other = 1 .. Len(list) + 1
  BY <1>3, <1>4
<1>6. \A j \in p + 1 .. Len(list) + 1 : j - 1 \in p .. Len(list) /\ other[j] = list[j - 1]
  <2> TAKE j \in p + 1 .. Len(list) + 1
  <2>1. j - 1 \in p .. Len(list) /\ (j - 1) + 1 = j
    BY <1>3
  <2> QED BY <1>4, <2>1
<1>7. \A j \in DOMAIN list : list[j].id # new
  BY DEF Frequent!BucketIds, Frequent!Range
<1>8. \A i, j \in DOMAIN other : i < j => other[i].freq < other[j].freq
  <2> SUFFICES ASSUME NEW i \in DOMAIN other, NEW j \in DOMAIN other, i < j
               PROVE  other[i].freq < other[j].freq
    OBVIOUS
  <2>1. CASE j < p
    BY <1>3, <1>4, <1>5, <2>1 DEF Placed
  <2>2. CASE j = p
    BY <1>1, <1>3, <1>4, <1>5, <2>2
  <2>3. CASE i = p
    <3>1. j - 1 \in p .. Len(list) /\ other[j] = list[j - 1]
      BY <1>3, <1>5, <1>6, <2>3
    <3> QED BY <1>1, <1>4, <2>3, <3>1
  <2>4. CASE i < p /\ p < j
    <3>1. j - 1 \in DOMAIN list /\ other[j] = list[j - 1]
      BY <1>3, <1>5, <1>6, <2>4
    <3>2. i \in DOMAIN list /\ i < j - 1 /\ other[i] = list[i]
      BY <1>3, <1>4, <1>5, <2>4
    <3> QED BY <3>1, <3>2 DEF Placed
  <2>5. CASE p < i
    <3>1. j - 1 \in DOMAIN list /\ other[j] = list[j - 1]
      BY <1>3, <1>5, <1>6, <2>5
    <3>2. i - 1 \in DOMAIN list /\ i - 1 < j - 1 /\ other[i] = list[i - 1]
      BY <1>3, <1>5, <1>6, <2>5
    <3> QED BY <3>1, <3>2 DEF Placed
  <2> QED BY <1>5, <2>1, <2>2, <2>3, <2>4, <2>5
<1>9. \A i, j \in DOMAIN other : other[i].id = other[j].id => i = j
  <2> SUFFICES ASSUME NEW i \in DOMAIN other, NEW j \in DOMAIN other, i < j
               PROVE  other[i].id # other[j].id
    BY <1>5
  <2>1. CASE j < p
    <3>1. i \in DOMAIN list /\ j \in DOMAIN list /\ other[i] = list[i] /\ other[j] = list[j]
      BY <1>3, <1>4, <1>5, <2>1
    <3> QED BY <1>5, <3>1 DEF Placed
  <2>2. CASE j = p
    <3>1. i \in DOMAIN list /\ other[i] = list[i]
      BY <1>3, <1>4, <1>5, <2>2
    <3> QED BY <1>1, <1>4, <1>7, <2>2, <3>1
  <2>3. CASE i = p
    <3>1. j - 1 \in DOMAIN list /\ other[j] = list[j - 1]
      BY <1>3, <1>5, <1>6, <2>3
    <3> QED BY <1>1, <1>4, <1>7, <2>3, <3>1
  <2>4. CASE i < p /\ p < j
    <3>1. j - 1 \in DOMAIN list /\ other[j] = list[j - 1]
      BY <1>3, <1>5, <1>6, <2>4
    <3>2. i \in DOMAIN list /\ i # j - 1 /\ other[i] = list[i]
      BY <1>3, <1>4, <1>5, <2>4
    <3> QED BY <3>1, <3>2 DEF Placed
  <2>5. CASE p < i
    <3>1. j - 1 \in DOMAIN list /\ other[j] = list[j - 1]
      BY <1>3, <1>5, <1>6, <2>5
    <3>2. i - 1 \in DOMAIN list /\ i - 1 # j - 1 /\ other[i] = list[i - 1]
      BY <1>3, <1>5, <1>6, <2>5
    <3> QED BY <3>1, <3>2 DEF Placed
  <2> QED BY <1>5, <2>1, <2>2, <2>3, <2>4, <2>5
<1>10. \A j \in DOMAIN other : other[j].nodes = <<>> \/ \E i \in DOMAIN list : other[j] = list[i]
  <2> TAKE j \in DOMAIN other
  <2>1. CASE j < p
    BY <1>3, <1>4, <1>5, <2>1
  <2>2. CASE j = p
    BY <1>1, <1>4, <2>2
  <2>3. CASE p < j
    <3>1. j - 1 \in DOMAIN list /\ other[j] = list[j - 1]
      BY <1>3, <1>5, <1>6, <2>3
    <3> QED BY <3>1
  <2> QED BY <1>5, <2>1, <2>2, <2>3
<1>11. \A i \in DOMAIN list : \E j \in DOMAIN other : other[j] = list[i]
  <2> TAKE i \in DOMAIN list
  <2>1. CASE i < p
    BY <1>3, <1>4, <1>5, <2>1
  <2>2. CASE p <= i
    <3>1. i + 1 \in DOMAIN other /\ other[i + 1] = list[i]
      BY <1>3, <1>4, <1>5, <2>2
    <3> QED BY <3>1
  <2> QED BY <1>3, <2>1, <2>2
<1>12. Placed(other, nodes, map)
  <2>1. \A i \in DOMAIN list : list[i].nodes = <<>> \/ \E j \in DOMAIN other : other[j] = list[i]
    BY <1>11
  <2>2. Ordered(other) /\ AreIn(other, list) /\ AreIn(list, other)
    BY <1>4, <1>8, <1>9, <1>10, <2>1, Zenon DEF Ordered, AreIn
  <2> QED BY <2>2, SameBuckets, Zenon
<1> QED BY <1>2, <1>12 DEF other, InsertedAt, Frequent!InsertAt

(* An empty bucket goes.                                                   *)
LEMMA Closed ==
  ASSUME NEW list, NEW nodes, NEW map, Placed(list, nodes, map),
         NEW p \in DOMAIN list, list[p].nodes = <<>>
  PROVE  Placed(Frequent!RemoveAt(list, p), nodes, map)
<1> DEFINE other == Frequent!RemoveAt(list, p)
<1>1. /\ list \in Seq(BucketRecord) /\ Len(list) \in Nat /\ DOMAIN list = 1 .. Len(list)
      /\ p \in 1 .. Len(list)
  BY DEF Placed
<1>2. /\ other \in Seq(BucketRecord) /\ Len(other) = Len(list) - 1
      /\ \A j \in 1 .. p - 1 : other[j] = list[j]
      /\ \A j \in p .. Len(list) - 1 : other[j] = list[j + 1]
  BY <1>1, RemovedAt, Zenon DEF HasRemoved
<1> HIDE DEF other
<1>3. DOMAIN other = 1 .. Len(list) - 1
  BY <1>1, <1>2
<1> DEFINE From(j) == IF j < p THEN j ELSE j + 1
<1>4. ASSUME NEW j \in DOMAIN other
      PROVE  other[j] = list[From(j)] /\ From(j) \in DOMAIN list
  <2>1. CASE j < p
    BY <1>1, <1>2, <1>3, <2>1
  <2>2. CASE ~(j < p)
    BY <1>1, <1>2, <1>3, <2>2
  <2> QED BY <2>1, <2>2
<1>5. \A i, j \in DOMAIN other : /\ i < j => From(i) < From(j)
                                 /\ From(i) = From(j) => i = j
  BY <1>1, <1>3
<1>6. ASSUME NEW i \in DOMAIN list, i # p
      PROVE  \E j \in DOMAIN other : other[j] = list[i]
  <2>1. CASE i < p
    BY <1>1, <1>2, <1>3, <2>1
  <2>2. CASE p < i
    <3>1. i - 1 \in DOMAIN other /\ i - 1 \in p .. Len(list) - 1 /\ (i - 1) + 1 = i
      BY <1>1, <1>3, <2>2
    <3> QED BY <1>2, <3>1
  <2> QED BY <1>1, <1>6, <2>1, <2>2
<1> HIDE DEF From
<1>7. \A i, j \in DOMAIN other : i < j => other[i].freq < other[j].freq
  BY <1>4, <1>5 DEF Placed
<1>8. \A i, j \in DOMAIN other : other[i].id = other[j].id => i = j
  BY <1>4, <1>5 DEF Placed
<1>9. Placed(other, nodes, map)
  <2>1. \A i \in DOMAIN list : list[i].nodes = <<>> \/ \E j \in DOMAIN other : other[j] = list[i]
    BY <1>6
  <2>2. \A j \in DOMAIN other : other[j].nodes = <<>> \/ \E i \in DOMAIN list : other[j] = list[i]
    BY <1>4
  <2>3. Ordered(other) /\ AreIn(other, list) /\ AreIn(list, other)
    BY <1>2, <1>7, <1>8, <2>1, <2>2, Zenon DEF Ordered, AreIn
  <2> QED BY <2>3, SameBuckets, Zenon
<1> QED BY <1>9 DEF other

(* A bucket that goes takes what was in it along.                          *)
LEMMA EditedThenClosed ==
  ASSUME NEW list \in Seq(BucketRecord), NEW i \in DOMAIN list, NEW s \in Seq(Nodes)
  PROVE  Frequent!RemoveAt([list EXCEPT ![i].nodes = s], i) = Frequent!RemoveAt(list, i)
<1> DEFINE new == [list EXCEPT ![i].nodes = s]
           a == Frequent!RemoveAt(new, i)
           b == Frequent!RemoveAt(list, i)
<1>1. i \in 1 .. Len(list) /\ Len(list) \in Nat /\ DOMAIN list = 1 .. Len(list)
  OBVIOUS
<1>2. /\ new \in Seq(BucketRecord) /\ Len(new) = Len(list)
      /\ \A j \in DOMAIN list : j # i => new[j] = list[j]
  BY EditedBucket
<1> HIDE DEF new
<1>3. /\ b \in Seq(BucketRecord) /\ Len(b) = Len(list) - 1
      /\ \A j \in 1 .. i - 1 : b[j] = list[j]
      /\ \A j \in i .. Len(list) - 1 : b[j] = list[j + 1]
  BY <1>1, RemovedAt, Zenon DEF HasRemoved
<1>4. /\ a \in Seq(BucketRecord) /\ Len(a) = Len(list) - 1
      /\ \A j \in 1 .. i - 1 : a[j] = new[j]
      /\ \A j \in i .. Len(list) - 1 : a[j] = new[j + 1]
  <2>1. i \in 1 .. Len(new)
    BY <1>1, <1>2
  <2> QED BY <1>2, <2>1, RemovedAt, Zenon DEF HasRemoved
<1> HIDE DEF a, b
<1>5. \A j \in 1 .. Len(list) - 1 : a[j] = b[j]
  <2> TAKE j \in 1 .. Len(list) - 1
  <2>1. CASE j < i
    <3>1. j \in 1 .. i - 1 /\ j \in DOMAIN list /\ j # i
      BY <1>1, <2>1
    <3> QED BY <1>2, <1>3, <1>4, <3>1
  <2>2. CASE ~(j < i)
    <3>1. j \in i .. Len(list) - 1 /\ j + 1 \in DOMAIN list /\ j + 1 # i
      BY <1>1, <2>2
    <3> QED BY <1>2, <1>3, <1>4, <3>1
  <2> QED BY <2>1, <2>2
<1>6. a = b
  BY <1>1, <1>3, <1>4, <1>5
<1> QED BY <1>6 DEF a, b, new

(* What is left of a list when bucket p has gone.                          *)
LEMMA ClosedKeeps ==
  ASSUME NEW list \in Seq(BucketRecord), NEW p \in DOMAIN list
  PROVE  \A j \in DOMAIN Frequent!RemoveAt(list, p) : \E i \in DOMAIN list :
            i # p /\ Frequent!RemoveAt(list, p)[j] = list[i]
<1> DEFINE u == Frequent!RemoveAt(list, p)
<1>1. p \in 1 .. Len(list) /\ Len(list) \in Nat /\ DOMAIN list = 1 .. Len(list)
  OBVIOUS
<1>2. /\ u \in Seq(BucketRecord) /\ Len(u) = Len(list) - 1
      /\ \A j \in 1 .. p - 1 : u[j] = list[j]
      /\ \A j \in p .. Len(list) - 1 : u[j] = list[j + 1]
  BY <1>1, RemovedAt, Zenon DEF HasRemoved
<1> HIDE DEF u
<1>3. ASSUME NEW j \in DOMAIN u PROVE \E i \in DOMAIN list : i # p /\ u[j] = list[i]
  <2>1. DOMAIN u = 1 .. Len(list) - 1
    BY <1>1, <1>2
  <2>2. CASE j < p
    BY <1>1, <1>2, <2>1, <2>2
  <2>3. CASE ~(j < p)
    <3>1. j + 1 \in DOMAIN list /\ j + 1 # p /\ u[j] = list[j + 1]
      BY <1>1, <1>2, <2>1, <2>3
    <3> QED BY <3>1
  <2> QED BY <2>2, <2>3
<1> QED BY <1>3 DEF u

-----------------------------------------------------------------------------
(* Which nodes are in a list of buckets, how often each has been used, and *)
(* in which order those used equally often are.                            *)

Sits(list, f, n) == \E i \in DOMAIN list : list[i].freq = f /\ n \in Range(list[i].nodes)

InFront(list, x, y) == \E i \in DOMAIN list : StandsBefore(list[i].nodes, x, y)

(* other has the nodes of list but for those of gone, and one more.        *)
Lost(list, other, gone) ==
    /\ \A f, x : Sits(other, f, x) <=> Sits(list, f, x) /\ x \notin gone
    /\ \A x, y : InFront(other, x, y) => InFront(list, x, y)

Gained(list, other, f, n) ==
    /\ \A g, x : Sits(other, g, x) <=> Sits(list, g, x) \/ (g = f /\ x = n)
    /\ \A x, y : InFront(other, x, y) => InFront(list, x, y) \/ x = n

(* A node goes from its bucket to the front of the next one.               *)
Moved(list, other, n) ==
    \E f \in 1 .. MaxFreq : \E between :
        /\ f < MaxFreq /\ Sits(list, f, n)
        /\ Lost(list, between, {n}) /\ Gained(between, other, f + 1, n)

LEMMA LostTwice ==
  ASSUME NEW a, NEW b, NEW c, NEW s, NEW t, Lost(a, b, s), Lost(b, c, t)
  PROVE  Lost(a, c, s \cup t)
<1>1. \A x : x \in s \cup t <=> x \in s \/ x \in t
  OBVIOUS
<1> QED BY <1>1, Zenon DEF Lost

LEMMA LostThenGained ==
  ASSUME NEW a, NEW b, NEW c, NEW f, NEW n, Lost(a, b, {}), Gained(b, c, f, n)
  PROVE  Gained(a, c, f, n)
<1>1. \A x : x \notin {}
  OBVIOUS
<1> QED BY <1>1, Zenon DEF Lost, Gained

LEMMA GainedThenLost ==
  ASSUME NEW a, NEW b, NEW c, NEW f, NEW n, Gained(a, b, f, n), Lost(b, c, {})
  PROVE  Gained(a, c, f, n)
<1>1. \A x : x \notin {}
  OBVIOUS
<1> QED BY <1>1, Zenon DEF Lost, Gained

(* Only the buckets that are not empty count.                              *)
LEMMA SameBucketsAlike ==
  ASSUME NEW list, NEW other, AreIn(list, other), AreIn(other, list)
  PROVE  Lost(list, other, {})
<1>1. \A n : n \notin Range(<<>>)
  BY DEF Range
<1>2. \A x, y : ~StandsBefore(<<>>, x, y)
  BY DEF StandsBefore
<1>3. ASSUME NEW a, NEW b, AreIn(a, b), NEW f, NEW x, Sits(a, f, x) PROVE Sits(b, f, x)
  <2>1. PICK i \in DOMAIN a : a[i].freq = f /\ x \in Range(a[i].nodes)
    BY <1>3, Zenon DEF Sits
  <2>2. a[i].nodes # <<>>
    BY <1>1, <2>1
  <2>3. PICK j \in DOMAIN b : b[j] = a[i]
    BY <1>3, <2>2, Zenon DEF AreIn
  <2> QED BY <2>1, <2>3, Zenon DEF Sits
<1>4. ASSUME NEW x, NEW y, InFront(other, x, y) PROVE InFront(list, x, y)
  <2>1. PICK i \in DOMAIN other : StandsBefore(other[i].nodes, x, y)
    BY <1>4, Zenon DEF InFront
  <2>2. other[i].nodes # <<>>
    BY <1>2, <2>1
  <2>3. PICK j \in DOMAIN list : list[j] = other[i]
    BY <2>2, Zenon DEF AreIn
  <2> QED BY <2>1, <2>3, Zenon DEF InFront
<1>5. \A x : x \notin {}
  OBVIOUS
<1> QED BY <1>3, <1>4, <1>5, Zenon DEF Lost

LEMMA OpenedAlike ==
  ASSUME NEW list \in Seq(BucketRecord), NEW p \in 1 .. Len(list) + 1,
         NEW b \in BucketRecord, b.nodes = <<>>
  PROVE  Lost(list, InsertedAt(list, p, b), {})
<1> DEFINE w == InsertedAt(list, p, b)
<1>1. HasInserted(BucketRecord, list, p, b, w)
  BY Inserted
<1>2. Len(list) \in Nat /\ DOMAIN list = 1 .. Len(list)
  OBVIOUS
<1> HIDE DEF w
<1>3. DOMAIN w = 1 .. Len(list) + 1 /\ w[p] = b
  BY <1>1, <1>2 DEF HasInserted
<1>4. ASSUME NEW i \in DOMAIN list PROVE \E j \in DOMAIN w : w[j] = list[i]
  <2>1. CASE i < p
    <3>1. i \in 1 .. p - 1 /\ i \in DOMAIN w
      BY <1>2, <1>3, <2>1
    <3> QED BY <1>1, <3>1 DEF HasInserted
  <2>2. CASE ~(i < p)
    <3>1. i \in p .. Len(list) /\ i + 1 \in DOMAIN w
      BY <1>2, <1>3, <2>2
    <3> QED BY <1>1, <3>1 DEF HasInserted
  <2> QED BY <2>1, <2>2
<1>5. ASSUME NEW j \in DOMAIN w, j # p PROVE \E i \in DOMAIN list : list[i] = w[j]
  <2>1. CASE j < p
    <3>1. j \in 1 .. p - 1 /\ j \in DOMAIN list
      BY <1>2, <1>3, <2>1
    <3> QED BY <1>1, <3>1 DEF HasInserted
  <2>2. CASE ~(j < p)
    <3>1. j - 1 \in p .. Len(list) /\ j - 1 \in DOMAIN list /\ (j - 1) + 1 = j
      BY <1>2, <1>3, <1>5, <2>2
    <3>2. w[(j - 1) + 1] = list[j - 1]
      BY <1>1, <3>1 DEF HasInserted
    <3> QED BY <3>1, <3>2
  <2> QED BY <2>1, <2>2
<1>6. AreIn(list, w)
  BY <1>4 DEF AreIn
<1>7. AreIn(w, list)
  BY <1>3, <1>5 DEF AreIn
<1> QED BY <1>6, <1>7, SameBucketsAlike DEF w

LEMMA ClosedAlike ==
  ASSUME NEW list \in Seq(BucketRecord), NEW p \in DOMAIN list, list[p].nodes = <<>>
  PROVE  Lost(list, Frequent!RemoveAt(list, p), {})
<1> DEFINE w == Frequent!RemoveAt(list, p)
<1>1. Len(list) \in Nat /\ DOMAIN list = 1 .. Len(list) /\ p \in 1 .. Len(list)
  OBVIOUS
<1>2. HasRemoved(BucketRecord, list, p, w)
  BY <1>1, RemovedAt
<1>3. AreIn(w, list)
  BY ClosedKeeps DEF AreIn
<1> HIDE DEF w
<1>4. DOMAIN w = 1 .. Len(list) - 1
  BY <1>1, <1>2 DEF HasRemoved
<1>5. ASSUME NEW i \in DOMAIN list, i # p PROVE \E j \in DOMAIN w : w[j] = list[i]
  <2>1. CASE i < p
    <3>1. i \in 1 .. p - 1 /\ i \in DOMAIN w
      BY <1>1, <1>4, <2>1
    <3> QED BY <1>2, <3>1 DEF HasRemoved
  <2>2. CASE ~(i < p)
    <3>1. i - 1 \in p .. Len(list) - 1 /\ i - 1 \in DOMAIN w /\ (i - 1) + 1 = i
      BY <1>1, <1>4, <1>5, <2>2
    <3>2. w[i - 1] = list[(i - 1) + 1]
      BY <1>2, <3>1 DEF HasRemoved
    <3> QED BY <3>1, <3>2
  <2> QED BY <2>1, <2>2
<1>6. AreIn(list, w)
  BY <1>5 DEF AreIn
<1> QED BY <1>3, <1>6, SameBucketsAlike DEF w

(* A node is in one bucket only.                                           *)
LEMMA OneBucket ==
  ASSUME NEW list, NEW nodes, NEW map, Placed(list, nodes, map),
         NEW i \in DOMAIN list, NEW n \in Range(list[i].nodes)
  PROVE  \A j \in DOMAIN list : n \in Range(list[j].nodes) => j = i
<1> SUFFICES ASSUME NEW j \in DOMAIN list, n \in Range(list[j].nodes) PROVE j = i
  OBVIOUS
<1>1. map[nodes[n].key].bucket = list[i].id /\ map[nodes[n].key].bucket = list[j].id
  BY Zenon DEF Placed
<1>2. list[j].id = list[i].id
  BY <1>1
<1> QED BY <1>2, Zenon DEF Placed

LEMMA TakenOutLost ==
  ASSUME NEW list \in Seq(BucketRecord), NEW i \in DOMAIN list, NEW n,
         \A j \in DOMAIN list : n \in Range(list[j].nodes) => j = i
  PROVE  Lost(list, [list EXCEPT ![i].nodes = Dropping(list[i].nodes, {n})], {n})
<1> DEFINE s == list[i].nodes
           rest == Dropping(s, {n})
           new == [list EXCEPT ![i].nodes = rest]
<1>1. s \in Seq(Nodes)
  <2>1. list[i] \in BucketRecord
    OBVIOUS
  <2> QED BY <2>1 DEF BucketRecord
<1> HIDE DEF s
<1>2. rest \in Seq(Nodes) /\ Range(rest) = Range(s) \ {n}
  BY <1>1, DroppingRange
<1>3. \A x, y : StandsBefore(rest, x, y) => StandsBefore(s, x, y)
  BY <1>1, DroppingOrder, Zenon
<1> HIDE DEF rest
<1>4. /\ DOMAIN new = DOMAIN list /\ new[i].nodes = rest
      /\ \A j \in DOMAIN list : new[j].freq = list[j].freq /\ (j # i => new[j] = list[j])
  BY <1>2, EditedBucket
<1> HIDE DEF new
<1>5. \A j \in DOMAIN list : \A x : x \in Range(new[j].nodes) <=> x \in Range(list[j].nodes) /\ x # n
  <2> TAKE j \in DOMAIN list
  <2>1. CASE j = i
    BY <1>2, <1>4, <2>1 DEF s
  <2>2. CASE j # i
    BY <1>4, <2>2
  <2> QED BY <2>1, <2>2
<1>6. \A j \in DOMAIN list : \A x, y : StandsBefore(new[j].nodes, x, y) => StandsBefore(list[j].nodes, x, y)
  BY <1>3, <1>4, Zenon DEF s
<1>7. \A f, x : Sits(new, f, x) <=> Sits(list, f, x) /\ x # n
  BY <1>4, <1>5, Zenon DEF Sits
<1>8. \A x, y : InFront(new, x, y) => InFront(list, x, y)
  BY <1>4, <1>6, Zenon DEF InFront
<1>9. \A x : x \notin {n} <=> x # n
  OBVIOUS
<1> QED BY <1>7, <1>8, <1>9, Zenon DEF Lost, new, rest, s

LEMMA PutInGained ==
  ASSUME NEW list \in Seq(BucketRecord), NEW i \in DOMAIN list, NEW n \in Nodes
  PROVE  Gained(list, Frequent!AddFirst(list, i, n), list[i].freq, n)
<1> DEFINE s == list[i].nodes
           more == <<n>> \o s
           new == [list EXCEPT ![i].nodes = more]
<1>0. Frequent!AddFirst(list, i, n) = new
  BY DEF Frequent!AddFirst
<1>1. s \in Seq(Nodes)
  <2>1. list[i] \in BucketRecord
    OBVIOUS
  <2> QED BY <2>1 DEF BucketRecord
<1> HIDE DEF s
<1>2. more \in Seq(Nodes) /\ \A x : x \in Range(more) <=> x \in Range(s) \/ x = n
  <2>1. more \in Seq(Nodes)
    BY <1>1
  <2>2. DOMAIN s = 1 .. Len(s) /\ Len(s) \in Nat
    BY <1>1
  <2>3. DOMAIN more = 1 .. Len(s) + 1 /\ more[1] = n /\ \A a \in 1 .. Len(s) : more[a + 1] = s[a]
    BY <1>1
  <2> HIDE DEF more
  <2>4. ASSUME NEW x \in Range(more) PROVE x \in Range(s) \/ x = n
    <3>1. PICK a \in 1 .. Len(s) + 1 : more[a] = x
      BY <2>3 DEF Range
    <3>2. CASE a = 1
      BY <2>3, <3>1, <3>2
    <3>3. CASE a # 1
      <4>1. a - 1 \in 1 .. Len(s) /\ (a - 1) + 1 = a
        BY <2>2, <3>3
      <4>2. more[a] = s[a - 1]
        BY <2>3, <4>1
      <4> QED BY <2>2, <3>1, <4>1, <4>2 DEF Range
    <3> QED BY <3>2, <3>3
  <2>5. ASSUME NEW x \in Range(s) PROVE x \in Range(more)
    <3>1. PICK a \in 1 .. Len(s) : s[a] = x
      BY <2>2 DEF Range
    <3>2. a + 1 \in DOMAIN more /\ more[a + 1] = x
      BY <2>2, <2>3, <3>1
    <3> QED BY <3>2 DEF Range
  <2>6. n \in Range(more)
    BY <2>2, <2>3 DEF Range
  <2> QED BY <2>1, <2>4, <2>5, <2>6
<1>3. \A x, y : StandsBefore(more, x, y) => StandsBefore(s, x, y) \/ x = n
  BY <1>1, BeforeFirst, Zenon
<1> HIDE DEF more
<1>4. /\ DOMAIN new = DOMAIN list /\ new[i].nodes = more
      /\ \A j \in DOMAIN list : new[j].freq = list[j].freq /\ (j # i => new[j] = list[j])
  BY <1>2, EditedBucket
<1> HIDE DEF new
<1>5. \A j \in DOMAIN list : \A x :
         x \in Range(new[j].nodes) <=> x \in Range(list[j].nodes) \/ (j = i /\ x = n)
  <2> TAKE j \in DOMAIN list
  <2>1. CASE j = i
    BY <1>2, <1>4, <2>1 DEF s
  <2>2. CASE j # i
    BY <1>4, <2>2
  <2> QED BY <2>1, <2>2
<1>6. \A j \in DOMAIN list : \A x, y :
         StandsBefore(new[j].nodes, x, y) => StandsBefore(list[j].nodes, x, y) \/ x = n
  BY <1>3, <1>4, Zenon DEF s
<1>7. \A f, x : Sits(new, f, x) <=> Sits(list, f, x) \/ (f = list[i].freq /\ x = n)
  BY <1>4, <1>5, Zenon DEF Sits
<1>8. \A x, y : InFront(new, x, y) => InFront(list, x, y) \/ x = n
  BY <1>4, <1>6, Zenon DEF InFront
<1> QED BY <1>0, <1>7, <1>8, Zenon DEF Gained

(* lfu_detach(), where the map's iterators lead.                           *)
LEMMA Detached ==
  ASSUME NEW list, NEW nodes, NEW map, Placed(list, nodes, map), NoneEmpty(list),
         NEW k \in DOMAIN map
  PROVE  /\ Placed(Frequent!lfu_detach(list, map[k].bucket, map[k].node),
                   Without(nodes, {map[k].node}), Without(map, {k}))
         /\ NoneEmpty(Frequent!lfu_detach(list, map[k].bucket, map[k].node))
         /\ Lost(list, Frequent!lfu_detach(list, map[k].bucket, map[k].node), {map[k].node})
<1> DEFINE n == map[k].node
<1>1. PICK i \in DOMAIN list : /\ map[k].bucket = list[i].id /\ n \in Range(list[i].nodes)
                               /\ nodes[n].key = k
  BY DEF Placed
<1> DEFINE rest == Dropping(list[i].nodes, {n})
           new == [list EXCEPT ![i].nodes = rest]
           nds == Without(nodes, {n})
           m == Without(map, {k})
<1>2. Frequent!At(list, map[k].bucket) = i
  <2>1. Frequent!At(list, list[i].id) = i
    BY AtIs DEF Placed
  <2> QED BY <1>1, <2>1
<1>3. Placed(new, nds, m)
  <2>1. Placed(new, nds, Without(map, {nodes[n].key}))
    BY <1>1, TakenOut, Zenon
  <2>2. Without(map, {nodes[n].key}) = m
    BY <1>1, Zenon
  <2> QED BY <2>1, <2>2, Zenon
<1>4. Frequent!lfu_detach(list, map[k].bucket, n)
        = IF rest = <<>> THEN Frequent!RemoveAt(list, i) ELSE new
  BY <1>2, SameOperators, Zenon DEF Frequent!lfu_detach
<1>5. list \in Seq(BucketRecord) /\ rest \in Seq(Nodes)
  <2>1. list \in Seq(BucketRecord)
    BY DEF Placed
  <2>2. list[i] \in BucketRecord
    BY <2>1
  <2>3. list[i].nodes \in Seq(Nodes)
    BY <2>2 DEF BucketRecord
  <2> QED BY <2>1, <2>3, DroppingRange
<1>9. Lost(list, new, {n})
  <2>1. \A j \in DOMAIN list : n \in Range(list[j].nodes) => j = i
    BY <1>1, OneBucket, Zenon
  <2> QED BY <1>5, <2>1, TakenOutLost, Zenon
<1> HIDE DEF rest, nds, m, n
<1>6. /\ DOMAIN new = DOMAIN list /\ new[i].nodes = rest
      /\ \A j \in DOMAIN list : j # i => new[j] = list[j]
  BY <1>5, EditedBucket
<1>7. CASE rest = <<>>
  <2> DEFINE less == Frequent!RemoveAt(list, i)
  <2>1. Placed(Frequent!RemoveAt(new, i), nds, m)
    BY <1>3, <1>6, <1>7, Closed
  <2>2. Frequent!RemoveAt(new, i) = less
    BY <1>5, EditedThenClosed
  <2>3. NoneEmpty(less)
    BY <1>5, ClosedKeeps DEF NoneEmpty
  <2>4. Placed(less, nds, m)
    BY <2>1, <2>2
  <2>5. Lost(list, less, {n})
    <3>1. Lost(new, less, {})
      BY <1>5, <1>6, <1>7, <2>2, EditedBucket, ClosedAlike
    <3>2. Lost(list, less, {n} \cup {})
      BY <1>9, <3>1, LostTwice, Zenon
    <3>3. {n} \cup {} = {n}
      OBVIOUS
    <3> QED BY <3>2, <3>3, Zenon
  <2> QED BY <1>4, <1>7, <2>3, <2>4, <2>5 DEF n, nds, m
<1>8. CASE rest # <<>>
  <2>1. NoneEmpty(new)
    BY <1>6, <1>8 DEF NoneEmpty
  <2> QED BY <1>3, <1>4, <1>8, <1>9, <2>1 DEF n, nds, m
<1> QED BY <1>7, <1>8

(* lfu_attach().                                                           *)
LEMMA Attached ==
  ASSUME NEW list, NEW nodes, NEW map, Placed(list, nodes, map), NoneEmpty(list),
         NEW new \in Frequent!Fresh(list, Frequent!LacksFirst(list)),
         NEW n \in Nodes \ DOMAIN nodes, NEW e \in Entry, e.key \notin DOMAIN map
  PROVE  /\ Placed(Frequent!lfu_attach(list, new, n), With(nodes, n, e),
                   With(map, e.key,
                        [bucket |-> Head(Frequent!lfu_attach(list, new, n)).id, node |-> n]))
         /\ NoneEmpty(Frequent!lfu_attach(list, new, n))
         /\ Gained(list, Frequent!lfu_attach(list, new, n), 1, n)
<1> DEFINE base == IF Frequent!LacksFirst(list) THEN <<Frequent!Bucket(new, 1)>> \o list ELSE list
           all == Frequent!AddFirst(base, 1, n)
<1>1. /\ list \in Seq(BucketRecord) /\ Len(list) \in Nat /\ DOMAIN list = 1 .. Len(list)
      /\ \A j \in DOMAIN list : list[j].freq \in 1 .. MaxFreq
  <2>1. list \in Seq(BucketRecord)
    BY DEF Placed
  <2>2. \A j \in DOMAIN list : list[j] \in BucketRecord
    BY <2>1
  <2>3. \A j \in DOMAIN list : list[j].freq \in 1 .. MaxFreq
    BY <2>2 DEF BucketRecord
  <2> QED BY <2>1, <2>3
<1>2. /\ Placed(base, nodes, map) /\ base \in Seq(BucketRecord) /\ 1 \in DOMAIN base
      /\ \A j \in DOMAIN base : j # 1 => base[j].nodes # <<>>
      /\ base[1].freq = 1 /\ Lost(list, base, {})
  <2>1. CASE Frequent!LacksFirst(list)
    <3> DEFINE b == Frequent!Bucket(new, 1)
    <3>1. new \in Buckets \ Frequent!BucketIds(list)
      BY <2>1 DEF Frequent!Fresh
    <3>2. b \in BucketRecord
      BY <3>1, MaxFreqAssumption DEF Frequent!Bucket, BucketRecord
    <3>3. \A j \in 1 .. Len(list) : 1 < list[j].freq
      <4> TAKE j \in 1 .. Len(list)
      <4>1. list # <<>> /\ 1 \in DOMAIN list /\ Head(list) = list[1]
        BY <1>1
      <4>2. list[1].freq > 1
        BY <2>1, <4>1 DEF Frequent!LacksFirst
      <4>3. list[1].freq <= list[j].freq
        <5>1. CASE j = 1
          BY <1>1, <5>1
        <5>2. CASE 1 < j
          <6>1. list[1].freq < list[j].freq
            BY <1>1, <4>1, <5>2 DEF Placed
          <6> QED BY <1>1, <4>1, <6>1
        <5> QED BY <1>1, <5>1, <5>2
      <4> QED BY <1>1, <4>1, <4>2, <4>3
    <3>4. 1 \in 1 .. MaxFreq /\ 1 \in 1 .. Len(list) + 1
      BY <1>1, MaxFreqAssumption
    <3>5. \A j \in 1 .. 1 - 1 : list[j].freq < 1
      OBVIOUS
    <3>6. Placed(Frequent!InsertAt(list, 1, b), nodes, map)
      BY <3>1, <3>3, <3>4, <3>5, Opened
    <3>7. Frequent!InsertAt(list, 1, b) = InsertedAt(list, 1, b)
      BY DEF Frequent!InsertAt, InsertedAt
    <3>14. b.freq = 1 /\ b.nodes = <<>>
      BY DEF Frequent!Bucket
    <3> HIDE DEF b
    <3>8. InsertedAt(list, 1, b) = <<b>> \o list
      BY <1>1, <3>2 DEF InsertedAt
    <3>9. base = <<b>> \o list
      BY <2>1 DEF b
    <3> DEFINE more == <<b>> \o list
    <3>10. /\ more \in Seq(BucketRecord) /\ 1 \in DOMAIN more /\ DOMAIN more = 1 .. Len(list) + 1
           /\ more[1] = b /\ \A j \in 2 .. Len(list) + 1 : more[j] = list[j - 1]
      BY <1>1, <3>2
    <3>11. \A j \in DOMAIN more : j # 1 => more[j].nodes # <<>>
      <4> HIDE DEF more
      <4> TAKE j \in DOMAIN more
      <4>1. j # 1 => j \in 2 .. Len(list) + 1 /\ j - 1 \in DOMAIN list
        BY <1>1, <3>10
      <4> QED BY <3>10, <4>1 DEF NoneEmpty
    <3> HIDE DEF base, more
    <3>12. base = more
      BY <3>9 DEF more
    <3>13. Placed(more, nodes, map)
      BY <3>6, <3>7, <3>8, Zenon DEF more
    <3>15. Lost(list, more, {})
      BY <1>1, <3>2, <3>4, <3>8, <3>14, OpenedAlike, Zenon DEF more
    <3>16. more[1].freq = 1
      BY <3>10, <3>14
    <3> QED BY <3>10, <3>11, <3>12, <3>13, <3>15, <3>16
  <2>2. CASE ~Frequent!LacksFirst(list)
    <3>1. base = list
      BY <2>2
    <3>2. list # <<>>
      BY <2>2 DEF Frequent!LacksFirst
    <3>3. 1 \in DOMAIN list
      BY <1>1, <3>2
    <3>4. list[1].freq = 1
      <4>1. ~(list[1].freq > 1)
        BY <1>1, <2>2, <3>2 DEF Frequent!LacksFirst
      <4> QED BY <1>1, <3>3, <4>1, MaxFreqAssumption
    <3>5. Lost(list, list, {})
      BY DEF Lost
    <3> HIDE DEF base
    <3> QED BY <1>1, <3>1, <3>3, <3>4, <3>5 DEF NoneEmpty
  <2> QED BY <2>1, <2>2
<1>3. Frequent!lfu_attach(list, new, n) = all
  BY Zenon DEF Frequent!lfu_attach
<1> HIDE DEF base
<1>4. base[1].nodes \in Seq(Nodes)
  <2>1. base[1] \in BucketRecord
    BY <1>2
  <2> QED BY <2>1 DEF BucketRecord
<1>5. /\ DOMAIN all = DOMAIN base /\ all \in Seq(BucketRecord) /\ all[1].id = base[1].id
      /\ all[1].nodes = <<n>> \o base[1].nodes
      /\ \A j \in DOMAIN base : j # 1 => all[j] = base[j]
  <2> DEFINE more == <<n>> \o base[1].nodes
  <2>1. more \in Seq(Nodes)
    BY <1>4
  <2>2. all = [base EXCEPT ![1].nodes = more]
    BY DEF Frequent!AddFirst
  <2> HIDE DEF more, all
  <2>3. /\ DOMAIN all = DOMAIN base /\ all \in Seq(BucketRecord) /\ all[1].id = base[1].id
        /\ all[1].nodes = more
        /\ \A j \in DOMAIN base : j # 1 => all[j] = base[j]
    <3>1. base \in Seq(BucketRecord) /\ 1 \in DOMAIN base
      BY <1>2
    <3> QED BY <2>1, <2>2, <3>1, EditedFirst, SMTT(30)
  <2> QED BY <2>3 DEF more
<1> HIDE DEF all
<1>6. Placed(all, With(nodes, n, e), With(map, e.key, [bucket |-> base[1].id, node |-> n]))
  BY <1>2, PutIn, Zenon DEF all
<1>7. Head(all).id = base[1].id
  <2>1. Head(all) = all[1]
    BY <1>2, <1>5
  <2> QED BY <1>5, <2>1
<1>8. NoneEmpty(all)
  <2>1. <<n>> \o base[1].nodes # <<>>
    BY <1>4
  <2> QED BY <1>2, <1>5, <2>1 DEF NoneEmpty
<1>9. Gained(list, all, 1, n)
  <2>1. Gained(base, all, 1, n)
    BY <1>2, PutInGained, Zenon DEF all
  <2> QED BY <1>2, <2>1, LostThenGained, Zenon
<1> QED BY <1>3, <1>6, <1>7, <1>8, <1>9, Zenon

(* touch(), and the map with the iterators that it returns.                *)
LEMMA Touched ==
  ASSUME NEW list, NEW nodes, NEW map, Placed(list, nodes, map), NoneEmpty(list),
         NEW k \in DOMAIN map,
         list[Frequent!At(list, map[k].bucket)].freq < MaxFreq,
         NEW new \in Frequent!Fresh(list,
                        Frequent!LacksNext(list, Frequent!At(list, map[k].bucket)))
  PROVE  LET t == Frequent!touch(list, map[k].bucket, map[k].node, new)
         IN  /\ Placed(t.list, nodes, [map EXCEPT ![k] = t.at]) /\ NoneEmpty(t.list)
             /\ Moved(list, t.list, map[k].node)
<1> DEFINE n == map[k].node
           b == map[k].bucket
<1>1. PICK i \in DOMAIN list : b = list[i].id /\ n \in Range(list[i].nodes) /\ nodes[n].key = k
  BY DEF Placed
<1>2. Frequent!At(list, b) = i
  <2>1. Frequent!At(list, list[i].id) = i
    BY AtIs DEF Placed
  <2> QED BY <1>1, <2>1
<1> DEFINE f == list[i].freq + 1
           opened == IF Frequent!LacksNext(list, i)
                     THEN Frequent!InsertAt(list, i + 1, Frequent!Bucket(new, f)) ELSE list
           both == Frequent!AddFirst(opened, i + 1, n)
           at == [bucket |-> opened[i + 1].id, node |-> n]
<1>3. Frequent!touch(list, b, n, new) = [list |-> Frequent!lfu_detach(both, b, n), at |-> at]
  BY <1>2, Zenon DEF Frequent!touch
<1>4. /\ list \in Seq(BucketRecord) /\ Len(list) \in Nat /\ DOMAIN list = 1 .. Len(list)
      /\ \A j \in DOMAIN list : list[j].freq \in 1 .. MaxFreq
  <2>1. list \in Seq(BucketRecord)
    BY DEF Placed
  <2>2. \A j \in DOMAIN list : list[j] \in BucketRecord
    BY <2>1
  <2>3. \A j \in DOMAIN list : list[j].freq \in 1 .. MaxFreq
    BY <2>2 DEF BucketRecord
  <2> QED BY <2>1, <2>3
<1>5. /\ Placed(opened, nodes, map) /\ opened \in Seq(BucketRecord)
      /\ i \in DOMAIN opened /\ opened[i] = list[i] /\ i + 1 \in DOMAIN opened
      /\ \A j \in DOMAIN opened : j # i + 1 => opened[j].nodes # <<>>
      /\ opened[i + 1].freq = f /\ Lost(list, opened, {})
  <2>1. CASE Frequent!LacksNext(list, i)
    <3>1. new \in Buckets \ Frequent!BucketIds(list)
      BY <1>2, <2>1 DEF Frequent!Fresh
    <3>2. f \in 1 .. MaxFreq /\ i + 1 \in 1 .. Len(list) + 1
      <4>1. list[i].freq < MaxFreq /\ list[i].freq \in 1 .. MaxFreq
        BY <1>2, <1>4
      <4> QED BY <1>4, <4>1, MaxFreqAssumption
    <3> DEFINE bk == Frequent!Bucket(new, f)
    <3>3. bk \in BucketRecord
      BY <3>1, <3>2 DEF Frequent!Bucket, BucketRecord
    <3>4. \A j \in 1 .. (i + 1) - 1 : list[j].freq < f
      <4> TAKE j \in 1 .. (i + 1) - 1
      <4>1. j \in DOMAIN list /\ (j = i \/ j < i)
        BY <1>4
      <4>2. j < i => list[j].freq < list[i].freq
        BY <4>1 DEF Placed
      <4> QED BY <1>4, <4>1, <4>2
    <3>5. \A j \in i + 1 .. Len(list) : f < list[j].freq
      <4> TAKE j \in i + 1 .. Len(list)
      <4>1. j \in DOMAIN list /\ i + 1 \in DOMAIN list /\ (j = i + 1 \/ i + 1 < j) /\ i # Len(list)
        BY <1>4
      <4>2. f < list[i + 1].freq
        BY <2>1, <4>1 DEF Frequent!LacksNext
      <4>3. i + 1 < j => list[i + 1].freq < list[j].freq
        BY <4>1 DEF Placed
      <4> QED BY <1>4, <4>1, <4>2, <4>3
    <3>14. bk.freq = f /\ bk.nodes = <<>>
      BY DEF Frequent!Bucket
    <3> HIDE DEF f
    <3>6. Placed(Frequent!InsertAt(list, i + 1, bk), nodes, map)
      BY <3>1, <3>2, <3>4, <3>5, Opened
    <3>7. Frequent!InsertAt(list, i + 1, bk) = InsertedAt(list, i + 1, bk)
      BY DEF Frequent!InsertAt, InsertedAt
    <3> HIDE DEF bk
    <3> DEFINE more == InsertedAt(list, i + 1, bk)
    <3>8. /\ more \in Seq(BucketRecord) /\ Len(more) = Len(list) + 1 /\ more[i + 1] = bk
          /\ \A j \in 1 .. (i + 1) - 1 : more[j] = list[j]
          /\ \A j \in i + 1 .. Len(list) : more[j + 1] = list[j]
      <4>1. list \in Seq(BucketRecord) /\ i + 1 \in 1 .. Len(list) + 1 /\ bk \in BucketRecord
        BY <1>4, <3>2, <3>3
      <4> DEFINE p == i + 1
      <4>2. p \in 1 .. Len(list) + 1
        BY <4>1
      <4> HIDE DEF p
      <4>3. HasInserted(BucketRecord, list, p, bk, InsertedAt(list, p, bk))
        BY <4>1, <4>2, Inserted
      <4> QED BY <4>3, Zenon DEF HasInserted, more, p
    <3>15. Lost(list, more, {})
      <4>1. list \in Seq(BucketRecord)
        BY <1>4
      <4> QED BY <3>2, <3>3, <3>14, <4>1, OpenedAlike, Zenon DEF more
    <3> HIDE DEF more
    <3>16. more[i + 1].freq = f
      BY <3>8, <3>14
    <3>9. DOMAIN more = 1 .. Len(list) + 1 /\ i \in 1 .. (i + 1) - 1 /\ i + 1 \in DOMAIN more
      BY <1>4, <3>8
    <3>10. \A j \in DOMAIN more : j # i + 1 => more[j].nodes # <<>>
      <4> TAKE j \in DOMAIN more
      <4>1. CASE j < i + 1
        <5>1. j \in 1 .. (i + 1) - 1 /\ j \in DOMAIN list
          BY <1>4, <3>9, <4>1
        <5> QED BY <3>8, <5>1 DEF NoneEmpty
      <4>2. CASE i + 1 < j
        <5>1. j - 1 \in i + 1 .. Len(list) /\ j - 1 \in DOMAIN list /\ (j - 1) + 1 = j
          BY <1>4, <3>9, <4>2
        <5>2. more[j] = list[j - 1]
          BY <3>8, <5>1
        <5> QED BY <5>1, <5>2 DEF NoneEmpty
      <4> QED BY <1>4, <3>9, <4>1, <4>2
    <3>11. opened = more
      BY <2>1, <3>7 DEF more, bk
    <3>12. Placed(more, nodes, map)
      BY <3>6, <3>7, Zenon DEF more
    <3> HIDE DEF opened
    <3> QED BY <3>8, <3>9, <3>10, <3>11, <3>12, <3>15, <3>16
  <2>2. CASE ~Frequent!LacksNext(list, i)
    <3>1. opened = list
      BY <2>2
    <3>2. i # Len(list)
      BY <2>2 DEF Frequent!LacksNext
    <3>3. i + 1 \in DOMAIN list
      BY <1>4, <3>2
    <3>4. list[i + 1].freq = f
      <4>1. ~(list[i].freq + 1 < list[i + 1].freq)
        BY <2>2, Zenon DEF Frequent!LacksNext
      <4>2. list[i].freq < list[i + 1].freq
        BY <1>4, <3>3 DEF Placed
      <4> QED BY <1>4, <3>3, <4>1, <4>2
    <3>5. Lost(list, list, {})
      BY DEF Lost
    <3> HIDE DEF opened, f
    <3> QED BY <1>4, <3>1, <3>3, <3>4, <3>5 DEF NoneEmpty
  <2> QED BY <2>1, <2>2
<1> HIDE DEF opened
<1> DEFINE rest == Dropping(list[i].nodes, {n})
           taken == [opened EXCEPT ![i].nodes = rest]
           put == Frequent!AddFirst(taken, i + 1, n)
           nds == Without(nodes, {n})
           m == Without(map, {k})
<1>6. rest \in Seq(Nodes) /\ opened[i + 1].nodes \in Seq(Nodes) /\ n \in Nodes
  <2>1. list[i] \in BucketRecord /\ opened[i + 1] \in BucketRecord /\ map[k] \in [bucket : Buckets, node : Nodes]
    BY <1>4, <1>5 DEF Placed
  <2>2. list[i].nodes \in Seq(Nodes) /\ opened[i + 1].nodes \in Seq(Nodes) /\ n \in Nodes
    BY <2>1 DEF BucketRecord
  <2> QED BY <2>2, DroppingRange
<1>7. Placed(taken, nds, m)
  <2>1. n \in Range(opened[i].nodes) /\ rest = Dropping(opened[i].nodes, {n})
    BY <1>1, <1>5
  <2>2. Placed([opened EXCEPT ![i].nodes = Dropping(opened[i].nodes, {n})], nds,
               Without(map, {nodes[n].key}))
    BY <1>5, <2>1, TakenOut, Zenon
  <2>3. Without(map, {nodes[n].key}) = m
    BY <1>1, Zenon
  <2> QED BY <2>1, <2>2, <2>3, Zenon
<1>21. Lost(list, taken, {n})
  <2>1. n \in Range(opened[i].nodes) /\ rest = Dropping(opened[i].nodes, {n})
    BY <1>1, <1>5
  <2>2. \A j \in DOMAIN opened : n \in Range(opened[j].nodes) => j = i
    BY <1>5, <2>1, OneBucket, Zenon
  <2>3. Lost(opened, taken, {n})
    BY <1>5, <2>1, <2>2, TakenOutLost, Zenon
  <2>4. Lost(list, taken, {} \cup {n})
    BY <1>5, <2>3, LostTwice, Zenon
  <2>5. {} \cup {n} = {n}
    OBVIOUS
  <2> QED BY <2>4, <2>5, Zenon
<1> DEFINE more == <<n>> \o opened[i + 1].nodes
<1>8. more \in Seq(Nodes) /\ more # <<>>
  BY <1>6
<1> HIDE DEF rest
<1>9. /\ taken \in Seq(BucketRecord) /\ DOMAIN taken = DOMAIN opened /\ taken[i].nodes = rest
      /\ taken[i + 1] = opened[i + 1]
      /\ \A j \in DOMAIN opened : taken[j].id = opened[j].id /\ (j # i => taken[j] = opened[j])
  <2>1. i + 1 # i
    BY <1>4
  <2> QED BY <1>5, <1>6, <2>1, EditedBucket
<1>10. put = [taken EXCEPT ![i + 1].nodes = more]
  BY <1>9 DEF Frequent!AddFirst
<1>11. both = [opened EXCEPT ![i + 1].nodes = more]
  BY DEF Frequent!AddFirst
<1> HIDE DEF more, taken, put, both, nds, m, at
<1>12. /\ put \in Seq(BucketRecord) /\ DOMAIN put = DOMAIN opened /\ put[i].nodes = rest
       /\ put[i + 1].nodes = more
       /\ \A j \in DOMAIN opened : j # i /\ j # i + 1 => put[j] = opened[j]
  <2>1. i + 1 # i
    BY <1>4
  <2>2. /\ put \in Seq(BucketRecord) /\ DOMAIN put = DOMAIN taken /\ put[i + 1].nodes = more
        /\ \A j \in DOMAIN taken : j # i + 1 => put[j] = taken[j]
    BY <1>5, <1>8, <1>9, <1>10, EditedBucket
  <2> QED BY <1>5, <1>9, <2>1, <2>2
<1>13. /\ both \in Seq(BucketRecord) /\ DOMAIN both = DOMAIN opened /\ both[i] = list[i]
       /\ \A j \in DOMAIN opened : both[j].id = opened[j].id
  <2>1. i + 1 # i
    BY <1>4
  <2> QED BY <1>5, <1>8, <1>11, <2>1, EditedBucket
<1>14. put = [both EXCEPT ![i].nodes = rest]
  <2>1. i + 1 # i
    BY <1>4
  <2>2. opened \in Seq(BucketRecord) /\ i \in DOMAIN opened /\ i + 1 \in DOMAIN opened
    BY <1>5
  <2>3. taken = [opened EXCEPT ![i].nodes = rest]
    BY DEF taken
  <2> QED BY <1>10, <1>11, <2>1, <2>2, <2>3
<1>15. Placed(put, nodes, [map EXCEPT ![k] = at])
  <2>1. n \in DOMAIN nodes
    BY <1>1 DEF Placed
  <2>2. /\ n \in Nodes \ DOMAIN nds /\ nodes[n] \in Entry /\ nodes[n].key \notin DOMAIN m
    BY <1>1, <1>6, <2>1 DEF nds, m, Without, Restrict, Placed
  <2>3. Placed(put, With(nds, n, nodes[n]), With(m, nodes[n].key, [bucket |-> taken[i + 1].id, node |-> n]))
    BY <1>5, <1>7, <1>9, <2>2, PutIn, Zenon DEF put
  <2>4. Placed(put, With(nds, n, nodes[n]), [map EXCEPT ![k] = at])
    <3>1. With(m, k, at) = [map EXCEPT ![k] = at]
      BY DEF m, With, Without, Restrict
    <3>2. [bucket |-> taken[i + 1].id, node |-> n] = at
      BY <1>9, Zenon DEF at
    <3> QED BY <1>1, <2>3, <3>1, <3>2, Zenon
  <2>5. /\ DOMAIN With(nds, n, nodes[n]) = DOMAIN nodes
        /\ \A x \in DOMAIN nodes : With(nds, n, nodes[n])[x] = nodes[x]
    <3> HIDE DEF n
    <3> QED BY <2>1 DEF nds, With, Without, Restrict
  <2> QED BY <2>4, <2>5, SameNodes
<1>16. Frequent!lfu_detach(both, b, n) = IF rest = <<>> THEN Frequent!RemoveAt(both, i) ELSE put
  <2>1. \A j, l \in DOMAIN both : both[j].id = both[l].id => j = l
    BY <1>5, <1>13 DEF Placed
  <2>2. Frequent!At(both, b) = i
    <3>1. Frequent!At(both, both[i].id) = i
      BY <1>5, <1>13, <2>1, AtIs
    <3> QED BY <1>1, <1>13, <3>1
  <2>3. Frequent!Dropping(both[i].nodes, {n}) = rest
    BY <1>13, SameOperators, Zenon DEF rest
  <2> QED BY <1>14, <2>2, <2>3, Zenon DEF Frequent!lfu_detach
<1>17. Frequent!RemoveAt(both, i) = Frequent!RemoveAt(put, i)
  BY <1>5, <1>6, <1>13, <1>14, EditedThenClosed, ZenonT(60)
<1> DEFINE final == IF rest = <<>> THEN Frequent!RemoveAt(put, i) ELSE put
<1>18. Placed(final, nodes, [map EXCEPT ![k] = at])
  <2>1. rest = <<>> => Placed(Frequent!RemoveAt(put, i), nodes, [map EXCEPT ![k] = at])
    BY <1>5, <1>12, <1>15, Closed
  <2> QED BY <1>15, <2>1
<1>19. NoneEmpty(final)
  <2>1. \A j \in DOMAIN put : j # i => put[j].nodes # <<>>
    BY <1>5, <1>8, <1>12
  <2>2. CASE rest = <<>>
    <3>1. NoneEmpty(Frequent!RemoveAt(put, i))
      BY <1>5, <1>12, <2>1, ClosedKeeps DEF NoneEmpty
    <3> QED BY <2>2, <3>1
  <2>3. CASE rest # <<>>
    BY <1>12, <2>1, <2>3 DEF NoneEmpty
  <2> QED BY <2>2, <2>3
<1>20. Frequent!lfu_detach(both, b, n) = final
  BY <1>16, <1>17
<1>22. Gained(taken, final, f, n)
  <2>1. Gained(taken, put, taken[i + 1].freq, n)
    BY <1>5, <1>6, <1>9, PutInGained, Zenon DEF put
  <2>2. Gained(taken, put, f, n)
    BY <1>5, <1>9, <2>1
  <2>3. rest = <<>> => Lost(put, Frequent!RemoveAt(put, i), {})
    BY <1>5, <1>12, ClosedAlike
  <2> QED BY <2>2, <2>3, GainedThenLost, Zenon
<1>23. Moved(list, final, n)
  <2>1. list[i].freq \in 1 .. MaxFreq /\ list[i].freq < MaxFreq
    BY <1>2, <1>4
  <2>2. Sits(list, list[i].freq, n)
    BY <1>1, Zenon DEF Sits
  <2> QED BY <1>21, <1>22, <2>1, <2>2, Zenon DEF Moved
<1> HIDE DEF final
<1> QED BY <1>3, <1>18, <1>19, <1>20, <1>23

-----------------------------------------------------------------------------
(* The same places for the same map, given as another function.            *)
LEMMA SameMap ==
  ASSUME NEW list, NEW nodes, NEW map, Placed(list, nodes, map),
         NEW same, DOMAIN map = DOMAIN same, \A k \in DOMAIN same : map[k] = same[k]
  PROVE  Placed(list, nodes, same)
<1>1. \A i \in DOMAIN list : \A n \in Range(list[i].nodes) :
         /\ n \in DOMAIN nodes /\ nodes[n].key \in DOMAIN same
         /\ same[nodes[n].key].bucket = list[i].id /\ same[nodes[n].key].node = n
  BY DEF Placed
<1>2. ASSUME NEW k \in DOMAIN same
      PROVE  \E i \in DOMAIN list :
                /\ same[k].bucket = list[i].id /\ same[k].node \in Range(list[i].nodes)
                /\ nodes[same[k].node].key = k
  BY DEF Placed
<1>3. \A n \in DOMAIN nodes : nodes[n].key \in DOMAIN same /\ same[nodes[n].key].node = n
  BY DEF Placed
<1>4. DOMAIN same \subseteq Keys /\ \A k \in DOMAIN same : same[k] \in [bucket : Buckets, node : Nodes]
  BY DEF Placed
<1> QED BY <1>1, <1>2, <1>3, <1>4 DEF Placed

(* Another datum in a node.                                                *)
LEMMA Rewritten ==
  ASSUME NEW list, NEW nodes, NEW map, Placed(list, nodes, map),
         NEW n \in DOMAIN nodes, NEW d \in Data
  PROVE  Placed(list, [nodes EXCEPT ![n].data = d], map)
<1> DEFINE new == [nodes EXCEPT ![n].data = d]
<1>1. DOMAIN new = DOMAIN nodes /\ \A x \in DOMAIN nodes : new[x] \in Entry /\ new[x].key = nodes[x].key
  <2>1. \A x \in DOMAIN nodes : nodes[x] \in Entry
    BY DEF Placed
  <2> QED BY <2>1 DEF Entry
<1> HIDE DEF new
<1>2. \A i \in DOMAIN list : \A x \in Range(list[i].nodes) :
         /\ x \in DOMAIN new /\ new[x].key \in DOMAIN map
         /\ map[new[x].key].bucket = list[i].id /\ map[new[x].key].node = x
  <2> SUFFICES ASSUME NEW i \in DOMAIN list, NEW x \in Range(list[i].nodes)
               PROVE  /\ x \in DOMAIN new /\ new[x].key \in DOMAIN map
                      /\ map[new[x].key].bucket = list[i].id /\ map[new[x].key].node = x
    OBVIOUS
  <2>1. x \in DOMAIN nodes
    BY DEF Placed
  <2> QED BY <1>1, <2>1 DEF Placed
<1>3. ASSUME NEW k \in DOMAIN map
      PROVE  \E i \in DOMAIN list :
                /\ map[k].bucket = list[i].id /\ map[k].node \in Range(list[i].nodes)
                /\ new[map[k].node].key = k
  <2>1. PICK i \in DOMAIN list : /\ map[k].bucket = list[i].id /\ map[k].node \in Range(list[i].nodes)
                                 /\ nodes[map[k].node].key = k
    BY DEF Placed
  <2>2. map[k].node \in DOMAIN nodes
    BY <2>1 DEF Placed
  <2> QED BY <1>1, <2>1, <2>2
<1>4. \A x \in DOMAIN new : new[x].key \in DOMAIN map /\ map[new[x].key].node = x
  BY <1>1 DEF Placed
<1>5. DOMAIN new \subseteq Nodes /\ \A x \in DOMAIN new : new[x] \in Entry
  BY <1>1 DEF Placed
<1>6. Placed(list, new, map)
  BY <1>2, <1>3, <1>4, <1>5 DEF Placed
<1> QED BY <1>6 DEF new

-----------------------------------------------------------------------------
(* invalidate() and invalidate_range(): the nodes go one by one. *)

NodesAt(map, ks) == {map[k].node : k \in ks}

(* g has, for each subset of S, the list without the nodes of its keys.    *)
IsDetaching(list, map, S, g) ==
    g = [s \in SUBSET S |->
            IF s = {} THEN list
            ELSE Frequent!lfu_detach(g[s \ {CHOOSE x \in s : TRUE}],
                                     map[CHOOSE x \in s : TRUE].bucket,
                                     map[CHOOSE x \in s : TRUE].node)]

OneDetached(list, map, k) == Frequent!lfu_detach(list, map[k].bucket, map[k].node)

DetachesTo(list, map, S, n, g) ==
    \A s \in SUBSET S : Cardinality(s) <= n =>
        g[s] = IF s = {} THEN list ELSE OneDetached(g[s \ {Chosen(s)}], map, Chosen(s))

LEMMA DetachingExists ==
  ASSUME NEW list, NEW map, NEW S, IsFiniteSet(S)
  PROVE  \E g : IsDetaching(list, map, S, g)
<1> DEFINE T == {n \in Nat : \E g : DetachesTo(list, map, S, n, g)}
<1>1. 0 \in T
  <2>1. DetachesTo(list, map, S, 0, [s \in SUBSET S |-> list])
    <3> SUFFICES ASSUME NEW s \in SUBSET S, Cardinality(s) <= 0 PROVE s = {}
      BY DEF DetachesTo
    <3> SUFFICES ASSUME s # {} PROVE FALSE
      OBVIOUS
    <3>1. PICK x \in s : TRUE
      OBVIOUS
    <3>2. Cardinality(s) \in Nat \ {0}
      BY <3>1, Removed
    <3> QED BY <3>2
  <2> QED BY <2>1
<1>2. ASSUME NEW n \in Nat, n \in T PROVE n + 1 \in T
  <2>1. PICK g : DetachesTo(list, map, S, n, g)
    BY <1>2
  <2> DEFINE h == [s \in SUBSET S |->
                     IF Cardinality(s) = n + 1
                     THEN OneDetached(g[s \ {Chosen(s)}], map, Chosen(s)) ELSE g[s]]
  <2>2. ASSUME NEW s \in SUBSET S, Cardinality(s) <= n + 1
        PROVE  h[s] = IF s = {} THEN list ELSE OneDetached(h[s \ {Chosen(s)}], map, Chosen(s))
    <3>1. CASE s = {}
      <4>1. Cardinality(s) = 0
        BY <3>1, FS_EmptySet
      <4>2. h[s] = g[s] /\ g[s] = list
        BY <2>1, <3>1, <4>1 DEF DetachesTo
      <4> QED BY <3>1, <4>2
    <3>2. CASE s # {}
      <4> DEFINE x == Chosen(s)
                 r == s \ {x}
      <4>1. x \in s
        BY <3>2 DEF Chosen
      <4>2. r \in SUBSET S /\ Cardinality(s) \in Nat \ {0} /\ Cardinality(r) = Cardinality(s) - 1
        BY <4>1, Removed
      <4> HIDE DEF x, r
      <4>3. h[r] = g[r]
        BY <2>2, <4>2
      <4>4. h[s] = OneDetached(g[r], map, x)
        <5>1. CASE Cardinality(s) = n + 1
          BY <5>1 DEF x, r
        <5>2. CASE Cardinality(s) # n + 1
          <6>1. Cardinality(s) <= n
            BY <2>2, <4>2, <5>2
          <6> QED BY <2>1, <3>2, <5>2, <6>1 DEF DetachesTo, x, r
        <5> QED BY <5>1, <5>2
      <4> QED BY <3>2, <4>3, <4>4 DEF x, r
    <3> QED BY <3>1, <3>2
  <2>3. DetachesTo(list, map, S, n + 1, h)
    <3> HIDE DEF h
    <3> QED BY <2>2 DEF DetachesTo
  <2> QED BY <2>3
<1>3. Nat \subseteq T
  <2> HIDE DEF T
  <2> QED BY <1>1, <1>2, Induct
<1>4. Cardinality(S) \in Nat
  BY FS_CardinalityType
<1>5. PICK g : DetachesTo(list, map, S, Cardinality(S), g)
  BY <1>3, <1>4
<1> DEFINE h == [s \in SUBSET S |-> g[s]]
<1>6. ASSUME NEW s \in SUBSET S
      PROVE  h[s] = IF s = {} THEN list ELSE OneDetached(h[s \ {Chosen(s)}], map, Chosen(s))
  <2>1. Cardinality(s) <= Cardinality(S)
    BY FS_Subset
  <2>2. g[s] = IF s = {} THEN list ELSE OneDetached(g[s \ {Chosen(s)}], map, Chosen(s))
    BY <1>5, <2>1 DEF DetachesTo
  <2>3. s \ {Chosen(s)} \in SUBSET S
    OBVIOUS
  <2> QED BY <2>2, <2>3
<1>7. IsDetaching(list, map, S, h)
  BY <1>6, Zenon DEF IsDetaching, OneDetached, Chosen
<1> QED BY <1>7

AllDetached(list, map, gone) ==
    Frequent!FoldSet(LAMBDA k, l : Frequent!lfu_detach(l, map[k].bucket, map[k].node), list, gone)

Detaches(list, map, S, g) ==
    /\ g[{}] = list
    /\ \A s \in SUBSET S : s # {} => g[s] = OneDetached(g[s \ {Chosen(s)}], map, Chosen(s))

LEMMA DetachingDef ==
  ASSUME NEW list, NEW map, NEW S, IsFiniteSet(S)
  PROVE  \E g : AllDetached(list, map, S) = g[S] /\ Detaches(list, map, S, g)
<1> DEFINE g == CHOOSE g : IsDetaching(list, map, S, g)
<1>1. IsDetaching(list, map, S, g)
  BY DetachingExists
<1>2. AllDetached(list, map, S) = g[S]
  BY Zenon DEF AllDetached, Frequent!FoldSet, Frequent!MapThenFoldSet, IsDetaching
<1> HIDE DEF g
<1>3. \A s \in SUBSET S :
         g[s] = IF s = {} THEN list ELSE OneDetached(g[s \ {Chosen(s)}], map, Chosen(s))
  BY <1>1, Zenon DEF IsDetaching, OneDetached, Chosen
<1>4. {} \in SUBSET S
  OBVIOUS
<1> QED BY <1>2, <1>3, <1>4 DEF Detaches

LEMMA WithoutTwice ==
  ASSUME NEW f, NEW a, NEW b
  PROVE  Without(Without(f, a), b) = Without(f, a \cup b)
BY DEF Without, Restrict

LEMMA SomeDetached ==
  ASSUME NEW list, NEW nodes, NEW map, Placed(list, nodes, map), NoneEmpty(list),
         NEW gone, IsFiniteSet(gone), gone \subseteq DOMAIN map
  PROVE  /\ Placed(AllDetached(list, map, gone),
                   Without(nodes, NodesAt(map, gone)), Without(map, gone))
         /\ NoneEmpty(AllDetached(list, map, gone))
         /\ Lost(list, AllDetached(list, map, gone), NodesAt(map, gone))
<1>1. PICK g : AllDetached(list, map, gone) = g[gone] /\ Detaches(list, map, gone, g)
  BY DetachingDef, Zenon
<1> DEFINE P(s) == /\ Placed(g[s], Without(nodes, NodesAt(map, s)), Without(map, s))
                   /\ NoneEmpty(g[s])
                   /\ Lost(list, g[s], NodesAt(map, s))
           T == {n \in Nat : \A s \in SUBSET gone : Cardinality(s) = n => P(s)}
<1>2. P({})
  <2>1. NodesAt(map, {}) = {}
    BY DEF NodesAt
  <2>2. /\ DOMAIN nodes = DOMAIN Without(nodes, {}) /\ \A n \in DOMAIN nodes : nodes[n] = Without(nodes, {})[n]
        /\ DOMAIN map = DOMAIN Without(map, {}) /\ \A k \in DOMAIN map : map[k] = Without(map, {})[k]
    BY DEF Without, Restrict
  <2>3. Placed(list, Without(nodes, {}), map)
    BY <2>2, SameNodes
  <2>4. Placed(list, Without(nodes, {}), Without(map, {}))
    BY <2>2, <2>3, SameMap
  <2>5. Lost(list, list, {})
    BY DEF Lost
  <2> QED BY <1>1, <2>1, <2>4, <2>5 DEF Detaches
<1>3. ASSUME NEW s \in SUBSET gone, s # {}, P(s \ {Chosen(s)}) PROVE P(s)
  <2> DEFINE c == Chosen(s)
             r == s \ {c}
             nds == Without(nodes, NodesAt(map, r))
             m == Without(map, r)
  <2>1. c \in s /\ c \notin r /\ s = r \cup {c}
    BY <1>3 DEF Chosen
  <2>2. Placed(g[r], nds, m) /\ NoneEmpty(g[r]) /\ Lost(list, g[r], NodesAt(map, r))
    BY <1>3
  <2>3. c \in DOMAIN m /\ m[c] = map[c]
    BY <2>1 DEF Without, Restrict
  <2> HIDE DEF c, r
  <2>4. g[s] = Frequent!lfu_detach(g[r], map[c].bucket, map[c].node)
    BY <1>1, <1>3, Zenon DEF c, r, OneDetached, Detaches
  <2>5. NodesAt(map, r) \cup {map[c].node} = NodesAt(map, s)
    BY <2>1 DEF NodesAt
  <2>6. /\ Without(nds, {map[c].node}) = Without(nodes, NodesAt(map, s))
        /\ Without(m, {c}) = Without(map, s)
    <3>1. /\ Without(nds, {map[c].node}) = Without(nodes, NodesAt(map, r) \cup {map[c].node})
          /\ Without(m, {c}) = Without(map, r \cup {c})
      BY WithoutTwice
    <3> QED BY <2>1, <2>5, <3>1, Zenon
  <2> HIDE DEF nds, m
  <2>7. /\ Placed(Frequent!lfu_detach(g[r], m[c].bucket, m[c].node),
                  Without(nds, {m[c].node}), Without(m, {c}))
        /\ NoneEmpty(Frequent!lfu_detach(g[r], m[c].bucket, m[c].node))
        /\ Lost(g[r], Frequent!lfu_detach(g[r], m[c].bucket, m[c].node), {m[c].node})
    BY <2>2, <2>3, Detached, Zenon
  <2>8. Lost(g[r], g[s], {map[c].node})
    BY <2>3, <2>4, <2>7, Zenon
  <2>9. Lost(list, g[s], NodesAt(map, r) \cup {map[c].node})
    BY <2>2, <2>8, LostTwice, Zenon
  <2> QED BY <2>3, <2>4, <2>5, <2>6, <2>7, <2>9
<1> HIDE DEF P
<1>4. 0 \in T
  <2> SUFFICES ASSUME NEW s \in SUBSET gone, Cardinality(s) = 0 PROVE s = {}
    BY <1>2
  <2> SUFFICES ASSUME s # {} PROVE FALSE
    OBVIOUS
  <2>1. PICK x \in s : TRUE
    OBVIOUS
  <2>2. Cardinality(s) \in Nat \ {0}
    BY <2>1, Removed
  <2> QED BY <2>2
<1>5. ASSUME NEW n \in Nat, n \in T PROVE n + 1 \in T
  <2> SUFFICES ASSUME NEW s \in SUBSET gone, Cardinality(s) = n + 1 PROVE P(s)
    OBVIOUS
  <2>1. s # {}
    BY FS_EmptySet
  <2>2. Chosen(s) \in s
    BY <2>1 DEF Chosen
  <2>3. s \ {Chosen(s)} \in SUBSET gone /\ Cardinality(s \ {Chosen(s)}) = Cardinality(s) - 1
    BY <2>2, Removed
  <2>4. P(s \ {Chosen(s)})
    BY <1>5, <2>3
  <2> QED BY <1>3, <2>1, <2>4
<1>6. Nat \subseteq T
  <2> HIDE DEF T
  <2> QED BY <1>4, <1>5, Induct
<1>7. Cardinality(gone) \in Nat /\ gone \in SUBSET gone
  BY FS_CardinalityType
<1>8. P(gone)
  BY <1>6, <1>7
<1> QED BY <1>1, <1>8 DEF P

-----------------------------------------------------------------------------
(* The inductive invariant, and what each operation makes of it. *)

BucketsSafe ==
    /\ Placed(lfu_list, lfu_node, lfu_cache) /\ NoneEmpty(lfu_list)
    /\ IsFiniteSet(DOMAIN lfu_cache) /\ Cardinality(DOMAIN lfu_cache) <= LenMax

LEMMA BucketsSafeIsEnough == BucketsSafe => LFUSafe
<1> SUFFICES ASSUME BucketsSafe PROVE LFUSafe
  OBVIOUS
<1>1. Frequent!TypeOK
  BY Zenon DEF BucketsSafe, Placed, Frequent!TypeOK, BucketRecord, Entry
<1>2. Frequent!BucketsOrdered
  BY DEF BucketsSafe, Placed, NoneEmpty, Frequent!BucketsOrdered
<1>3. \A i \in DOMAIN lfu_list : IsInjective(lfu_list[i].nodes)
  BY DEF BucketsSafe, Placed
<1>4. ASSUME NEW i \in DOMAIN lfu_list, NEW j \in DOMAIN lfu_list, i # j
      PROVE  /\ lfu_list[i].id # lfu_list[j].id
             /\ Range(lfu_list[i].nodes) \cap Range(lfu_list[j].nodes) = {}
  <2>1. lfu_list[i].id # lfu_list[j].id
    BY <1>4 DEF BucketsSafe, Placed
  <2>2. ASSUME NEW n \in Range(lfu_list[i].nodes), n \in Range(lfu_list[j].nodes) PROVE FALSE
    BY <2>1, <2>2, SMTT(30) DEF BucketsSafe, Placed
  <2> QED BY <2>1, <2>2
<1>5. ASSUME NEW i \in DOMAIN lfu_list, NEW n \in Range(lfu_list[i].nodes)
      PROVE  /\ n \in DOMAIN lfu_node /\ lfu_node[n].key \in DOMAIN lfu_cache
             /\ lfu_cache[lfu_node[n].key] = [bucket |-> lfu_list[i].id, node |-> n]
  <2> DEFINE at == lfu_cache[lfu_node[n].key]
  <2>1. /\ n \in DOMAIN lfu_node /\ lfu_node[n].key \in DOMAIN lfu_cache
        /\ at.bucket = lfu_list[i].id /\ at.node = n
    BY DEF BucketsSafe, Placed
  <2>2. at \in [bucket : Buckets, node : Nodes]
    BY <2>1 DEF BucketsSafe, Placed
  <2> HIDE DEF at
  <2>3. at = [bucket |-> at.bucket, node |-> at.node]
    BY <2>2
  <2> QED BY <2>1, <2>3 DEF at
<1>6. ASSUME NEW k \in DOMAIN lfu_cache
      PROVE  lfu_cache[k].node \in DOMAIN lfu_node /\ lfu_node[lfu_cache[k].node].key = k
  BY DEF BucketsSafe, Placed
<1>7. DOMAIN lfu_node = UNION {Range(b.nodes) : b \in Range(lfu_list)}
  <2>1. ASSUME NEW n \in DOMAIN lfu_node PROVE \E b \in Range(lfu_list) : n \in Range(b.nodes)
    <3>1. lfu_node[n].key \in DOMAIN lfu_cache /\ lfu_cache[lfu_node[n].key].node = n
      BY DEF BucketsSafe, Placed
    <3>2. \E i \in DOMAIN lfu_list : n \in Range(lfu_list[i].nodes)
      BY <3>1 DEF BucketsSafe, Placed
    <3> QED BY <3>2 DEF Range
  <2>2. ASSUME NEW b \in Range(lfu_list), NEW n \in Range(b.nodes) PROVE n \in DOMAIN lfu_node
    <3>1. PICK i \in DOMAIN lfu_list : b = lfu_list[i]
      BY DEF Range
    <3> QED BY <1>5, <3>1
  <2> QED BY <2>1, <2>2
<1>8. ASSUME NEW b \in Range(lfu_list), NEW n \in Range(b.nodes)
      PROVE  /\ lfu_node[n].key \in DOMAIN lfu_cache
             /\ lfu_cache[lfu_node[n].key] = [bucket |-> b.id, node |-> n]
  <2>1. PICK i \in DOMAIN lfu_list : b = lfu_list[i]
    BY DEF Range
  <2> QED BY <1>5, <2>1
<1>9. Cardinality(DOMAIN lfu_cache) <= LenMax
  BY DEF BucketsSafe
<1>10. Frequent!IteratorsValid
  <2>1. \A i, j \in DOMAIN lfu_list :
           /\ i # j => /\ lfu_list[i].id # lfu_list[j].id
                       /\ Frequent!Range(lfu_list[i].nodes) \cap Frequent!Range(lfu_list[j].nodes) = {}
           /\ Frequent!IsInjective(lfu_list[i].nodes)
    BY <1>3, <1>4, SameOperators
  <2>2. DOMAIN lfu_node = UNION {Frequent!Range(b.nodes) : b \in Frequent!Range(lfu_list)}
    BY <1>7, SameOperators
  <2>3. \A b \in Frequent!Range(lfu_list) : \A n \in Frequent!Range(b.nodes) :
           /\ lfu_node[n].key \in DOMAIN lfu_cache
           /\ lfu_cache[lfu_node[n].key] = [bucket |-> b.id, node |-> n]
    BY <1>8, SameOperators
  <2>4. Frequent!Cardinality(DOMAIN lfu_cache) <= LenMax
    BY <1>9, SameOperators
  <2> QED BY <1>6, <2>1, <2>2, <2>3, <2>4, Zenon DEF Frequent!IteratorsValid
<1> QED BY <1>1, <1>2, <1>10 DEF LFUSafe, Frequent!SafeCache

(* A hit in get() or put(): the entry moves to the next bucket.            *)
LEMMA UseKeepsPlaces ==
  ASSUME BucketsSafe, NEW k \in Keys, Frequent!Use(k)
  PROVE  /\ Placed(lfu_list', lfu_node, lfu_cache') /\ NoneEmpty(lfu_list')
         /\ DOMAIN lfu_cache' = DOMAIN lfu_cache
         /\ k \in DOMAIN lfu_cache
         /\ \A x \in DOMAIN lfu_cache : lfu_cache'[x].node = lfu_cache[x].node
         /\ lfu_cache[k].node \in DOMAIN lfu_node
         /\ lfu_list[Frequent!At(lfu_list, lfu_cache[k].bucket)].freq < MaxFreq
         /\ Moved(lfu_list, lfu_list', lfu_cache[k].node)
<1> DEFINE b == lfu_cache[k].bucket
           n == lfu_cache[k].node
<1>1. k \in DOMAIN lfu_cache /\ lfu_list[Frequent!At(lfu_list, b)].freq < MaxFreq
  BY DEF Frequent!Use, Frequent!Hit
<1>2. PICK new \in Frequent!Fresh(lfu_list, Frequent!LacksNext(lfu_list, Frequent!At(lfu_list, b))) :
         /\ lfu_list' = Frequent!touch(lfu_list, b, n, new).list
         /\ lfu_cache' = [lfu_cache EXCEPT ![k] = Frequent!touch(lfu_list, b, n, new).at]
  BY Zenon DEF Frequent!Use
<1>3. Placed(lfu_list, lfu_node, lfu_cache) /\ NoneEmpty(lfu_list)
  BY DEF BucketsSafe
<1>4. /\ Placed(lfu_list', lfu_node, lfu_cache') /\ NoneEmpty(lfu_list')
      /\ Moved(lfu_list, lfu_list', n)
  BY <1>1, <1>2, <1>3, Touched, Zenon
<1>5. DOMAIN lfu_cache' = DOMAIN lfu_cache
  BY <1>2
<1>6. lfu_cache[k].node \in DOMAIN lfu_node
  BY <1>1, <1>3 DEF Placed
<1>7. lfu_cache'[k].node = n
  <2>1. lfu_cache'[k] = Frequent!touch(lfu_list, b, n, new).at
    BY <1>1, <1>2
  <2>2. Frequent!touch(lfu_list, b, n, new).at.node = n
    BY DEF Frequent!touch
  <2> QED BY <2>1, <2>2, Zenon
<1>8. \A x \in DOMAIN lfu_cache : x # k => lfu_cache'[x] = lfu_cache[x]
  BY <1>2
<1> QED BY <1>1, <1>4, <1>5, <1>6, <1>7, <1>8

LEMMA GetIsSafe ==
  ASSUME BucketsSafe, NEW k \in Keys, Frequent!Get(k)
  PROVE  BucketsSafe'
<1>1. CASE Frequent!Use(k) /\ UNCHANGED lfu_node
  BY <1>1, UseKeepsPlaces DEF BucketsSafe
<1>2. CASE UNCHANGED <<lfu_list, lfu_node, lfu_cache>>
  BY <1>2 DEF BucketsSafe
<1> QED BY <1>1, <1>2 DEF Frequent!Get

LEMMA ReplaceIsSafe ==
  ASSUME BucketsSafe, NEW k \in Keys, NEW d \in Data, Frequent!Replace(k, d)
  PROVE  BucketsSafe'
<1>1. Frequent!Use(k) /\ lfu_node' = [lfu_node EXCEPT ![lfu_cache[k].node].data = d]
  BY DEF Frequent!Replace
<1>2. /\ Placed(lfu_list', lfu_node, lfu_cache') /\ NoneEmpty(lfu_list')
      /\ DOMAIN lfu_cache' = DOMAIN lfu_cache /\ lfu_cache[k].node \in DOMAIN lfu_node
  BY <1>1, UseKeepsPlaces
<1>3. Placed(lfu_list', lfu_node', lfu_cache')
  BY <1>1, <1>2, Rewritten
<1> QED BY <1>2, <1>3 DEF BucketsSafe

LEMMA EraseBucketsIsSafe ==
  ASSUME BucketsSafe, NEW ks, Frequent!Erase(ks)
  PROVE  /\ BucketsSafe'
         /\ Lost(lfu_list, lfu_list', NodesAt(lfu_cache, ks \cap DOMAIN lfu_cache))
         /\ lfu_node' = Without(lfu_node, NodesAt(lfu_cache, ks \cap DOMAIN lfu_cache))
         /\ lfu_cache' = Without(lfu_cache, ks \cap DOMAIN lfu_cache)
<1> DEFINE gone == ks \cap DOMAIN lfu_cache
<1>1. /\ lfu_list' = AllDetached(lfu_list, lfu_cache, gone)
      /\ lfu_node' = Without(lfu_node, NodesAt(lfu_cache, gone))
      /\ lfu_cache' = Without(lfu_cache, gone)
  BY SameOperators, Zenon DEF Frequent!Erase, AllDetached, NodesAt
<1>2. IsFiniteSet(gone) /\ gone \subseteq DOMAIN lfu_cache
  BY FS_Subset DEF BucketsSafe
<1> HIDE DEF gone
<1>3. /\ Placed(lfu_list', lfu_node', lfu_cache') /\ NoneEmpty(lfu_list')
      /\ Lost(lfu_list, lfu_list', NodesAt(lfu_cache, gone))
  <2>1. Placed(lfu_list, lfu_node, lfu_cache) /\ NoneEmpty(lfu_list)
    BY DEF BucketsSafe
  <2> QED BY <1>1, <1>2, <2>1, SomeDetached, Zenon
<1>4. DOMAIN lfu_cache' = DOMAIN lfu_cache \ gone
  BY <1>1, WithoutIs
<1>5. /\ IsFiniteSet(DOMAIN lfu_cache \ gone)
      /\ Cardinality(DOMAIN lfu_cache \ gone) <= Cardinality(DOMAIN lfu_cache)
      /\ Cardinality(DOMAIN lfu_cache \ gone) \in Nat /\ Cardinality(DOMAIN lfu_cache) \in Nat
  BY FS_Subset, FS_CardinalityType DEF BucketsSafe
<1>6. Cardinality(DOMAIN lfu_cache \ gone) <= LenMax
  BY <1>5, LenMaxAssumption DEF BucketsSafe
<1> QED BY <1>1, <1>3, <1>4, <1>5, <1>6 DEF BucketsSafe, gone

(* The entry that makes room is the last one of the first bucket.          *)
LEMMA VictimIs ==
  ASSUME BucketsSafe, Frequent!full
  PROVE  LET first == Head(lfu_list)
             o     == Frequent!Last(first.nodes)
         IN  /\ o \in DOMAIN lfu_node /\ lfu_node[o].key \in DOMAIN lfu_cache
             /\ lfu_cache[lfu_node[o].key].bucket = first.id
             /\ lfu_cache[lfu_node[o].key].node = o
             /\ Cardinality(DOMAIN lfu_cache) = LenMax
<1>1. Cardinality(DOMAIN lfu_cache) = LenMax
  <2>1. Cardinality(DOMAIN lfu_cache) \in Nat
    BY FS_CardinalityType DEF BucketsSafe
  <2>2. ~(Cardinality(DOMAIN lfu_cache) < LenMax)
    BY SameOperators, Zenon DEF Frequent!full
  <2> QED BY <2>1, <2>2, LenMaxAssumption DEF BucketsSafe
<1>2. DOMAIN lfu_cache # {}
  BY <1>1, LenMaxAssumption, FS_EmptySet
<1>3. PICK i \in DOMAIN lfu_list : TRUE
  BY <1>2 DEF BucketsSafe, Placed
<1>4. /\ lfu_list \in Seq(BucketRecord) /\ 1 \in DOMAIN lfu_list /\ Head(lfu_list) = lfu_list[1]
      /\ lfu_list[1] \in BucketRecord /\ lfu_list[1].nodes # <<>>
  <2>1. lfu_list \in Seq(BucketRecord)
    BY DEF BucketsSafe, Placed
  <2>2. 1 \in DOMAIN lfu_list
    BY <1>3, <2>1
  <2> QED BY <2>1, <2>2 DEF BucketsSafe, NoneEmpty
<1> DEFINE s == lfu_list[1].nodes
<1>5. s \in Seq(Nodes) /\ s # <<>>
  BY <1>4 DEF BucketRecord
<1> HIDE DEF s
<1>6. Frequent!Last(s) = s[Len(s)] /\ Len(s) \in DOMAIN s
  BY <1>5 DEF Frequent!Last
<1>7. Frequent!Last(s) \in Range(s)
  BY <1>6 DEF Range
<1> DEFINE o == Frequent!Last(s)
<1> HIDE DEF o
<1>8. /\ o \in DOMAIN lfu_node /\ lfu_node[o].key \in DOMAIN lfu_cache
      /\ lfu_cache[lfu_node[o].key].bucket = lfu_list[1].id
      /\ lfu_cache[lfu_node[o].key].node = o
  BY <1>4, <1>7 DEF BucketsSafe, Placed, o, s
<1> QED BY <1>1, <1>4, <1>8, Zenon DEF o, s

LEMMA WithOverNone ==
  ASSUME NEW f, NEW x, NEW y
  PROVE  With(Without(f, {}), x, y) = With(f, x, y)
<1>1. DOMAIN f \ {} = DOMAIN f
  OBVIOUS
<1> QED BY <1>1 DEF With, Without, Restrict

(* The node that is thrown out to make room, if any, and its key.          *)
Thrown == IF Frequent!full THEN {Frequent!Last(Head(lfu_list).nodes)} ELSE {}

ThrownKeys == {lfu_node[o].key : o \in Thrown}

(* How an insertion leaves the list, the heap and the map.                 *)
Entered(n, k, d) ==
    /\ n \notin DOMAIN lfu_node \ Thrown
    /\ \E between : Lost(lfu_list, between, Thrown) /\ Gained(between, lfu_list', 1, n)
    /\ lfu_node' = With(Without(lfu_node, Thrown), n, [key |-> k, data |-> d])
    /\ \E b : lfu_cache' = With(Without(lfu_cache, ThrownKeys), k, [bucket |-> b, node |-> n])

LEMMA InsertIntoBucketsIsSafe ==
  ASSUME BucketsSafe, NEW k \in Keys, NEW d \in Data, Frequent!Insert(k, d)
  PROVE  BucketsSafe' /\ \E n \in Nodes : Entered(n, k, d)
<1> DEFINE first == Head(lfu_list)
           o == Frequent!Last(first.nodes)
           e == [key |-> k, data |-> d]
<1>1. k \notin DOMAIN lfu_cache
  BY DEF Frequent!Insert, Frequent!Hit
<1>2. e \in Entry /\ e.key = k
  BY DEF Entry
<1>3. Placed(lfu_list, lfu_node, lfu_cache) /\ NoneEmpty(lfu_list) /\ IsFiniteSet(DOMAIN lfu_cache)
  BY DEF BucketsSafe
<1>4. ASSUME NEW list, NEW nodes, NEW map, Placed(list, nodes, map), NoneEmpty(list),
             NEW n \in Nodes \ DOMAIN nodes,
             NEW new \in Frequent!Fresh(list, Frequent!LacksFirst(list)),
             k \notin DOMAIN map,
             lfu_list' = Frequent!lfu_attach(list, new, n),
             lfu_node' = With(nodes, n, e),
             lfu_cache' = With(map, k, [bucket |-> Head(lfu_list').id, node |-> n])
      PROVE  /\ Placed(lfu_list', lfu_node', lfu_cache') /\ NoneEmpty(lfu_list')
             /\ DOMAIN lfu_cache' = DOMAIN map \cup {k}
             /\ Gained(list, lfu_list', 1, n)
  <2> HIDE DEF e
  <2>1. /\ Placed(Frequent!lfu_attach(list, new, n), With(nodes, n, e),
                  With(map, e.key,
                       [bucket |-> Head(Frequent!lfu_attach(list, new, n)).id, node |-> n]))
        /\ NoneEmpty(Frequent!lfu_attach(list, new, n))
        /\ Gained(list, Frequent!lfu_attach(list, new, n), 1, n)
    BY <1>2, <1>4, Attached, Zenon
  <2>2. DOMAIN lfu_cache' = DOMAIN map \cup {k}
    BY <1>4, WithIs
  <2> QED BY <1>2, <1>4, <2>1, <2>2, Zenon
<1>5. CASE Frequent!full
  <2> DEFINE v == lfu_node[o].key
             list == Frequent!lfu_detach(lfu_list, first.id, o)
  <2>1. /\ o \in DOMAIN lfu_node /\ v \in DOMAIN lfu_cache
        /\ lfu_cache[v].bucket = first.id /\ lfu_cache[v].node = o
        /\ Cardinality(DOMAIN lfu_cache) = LenMax
    BY <1>5, VictimIs, Zenon
  <2>2. /\ Placed(list, Without(lfu_node, {o}), Without(lfu_cache, {v}))
        /\ NoneEmpty(list) /\ Lost(lfu_list, list, {o})
    <3>1. /\ Placed(Frequent!lfu_detach(lfu_list, lfu_cache[v].bucket, lfu_cache[v].node),
                    Without(lfu_node, {lfu_cache[v].node}), Without(lfu_cache, {v}))
          /\ NoneEmpty(Frequent!lfu_detach(lfu_list, lfu_cache[v].bucket, lfu_cache[v].node))
          /\ Lost(lfu_list, Frequent!lfu_detach(lfu_list, lfu_cache[v].bucket, lfu_cache[v].node),
                  {lfu_cache[v].node})
      BY <1>3, <2>1, Detached, Zenon
    <3> QED BY <2>1, <3>1, Zenon
  <2>3. PICK n \in Nodes \ (DOMAIN lfu_node \ {o}), new \in Frequent!Fresh(list, Frequent!LacksFirst(list)) :
           /\ lfu_list' = Frequent!lfu_attach(list, new, n)
           /\ lfu_node' = With(Without(lfu_node, {o}), n, e)
           /\ lfu_cache' = With(Without(lfu_cache, {lfu_node[x].key : x \in {o}}),
                                k, [bucket |-> Head(lfu_list').id, node |-> n])
    BY <1>5, SameOperators, Zenon DEF Frequent!Insert
  <2>4. {lfu_node[x].key : x \in {o}} = {v}
    OBVIOUS
  <2>5. /\ DOMAIN Without(lfu_node, {o}) = DOMAIN lfu_node \ {o}
        /\ DOMAIN Without(lfu_cache, {v}) = DOMAIN lfu_cache \ {v}
    BY WithoutIs
  <2>8. Thrown = {o} /\ ThrownKeys = {v}
    BY <1>5, Zenon DEF Thrown, ThrownKeys
  <2> HIDE DEF list, o, v, e
  <2>6. /\ Placed(lfu_list', lfu_node', lfu_cache') /\ NoneEmpty(lfu_list')
        /\ DOMAIN lfu_cache' = DOMAIN Without(lfu_cache, {v}) \cup {k}
        /\ Gained(list, lfu_list', 1, n)
    <3>1. lfu_cache' = With(Without(lfu_cache, {v}), k, [bucket |-> Head(lfu_list').id, node |-> n])
      BY <2>3, <2>4, Zenon
    <3>2. n \in Nodes \ DOMAIN Without(lfu_node, {o}) /\ k \notin DOMAIN Without(lfu_cache, {v})
      BY <1>1, <2>5
    <3> QED BY <1>4, <2>2, <2>3, <3>1, <3>2, Zenon
  <2>7. /\ IsFiniteSet(DOMAIN lfu_cache') /\ Cardinality(DOMAIN lfu_cache') = LenMax
    <3> DEFINE s == DOMAIN lfu_cache \ {v}
    <3>1. IsFiniteSet(s) /\ Cardinality(s) = LenMax - 1 /\ k \notin s
      BY <1>1, <1>3, <2>1, FS_RemoveElement
    <3>2. DOMAIN lfu_cache' = s \cup {k}
      BY <2>5, <2>6
    <3> HIDE DEF s
    <3>3. IsFiniteSet(s \cup {k}) /\ Cardinality(s \cup {k}) = Cardinality(s) + 1
      BY <3>1, FS_AddElement
    <3> QED BY <3>1, <3>2, <3>3, LenMaxAssumption
  <2>9. Entered(n, k, d)
    <3>1. lfu_cache' = With(Without(lfu_cache, {v}), k, [bucket |-> Head(lfu_list').id, node |-> n])
      BY <2>3, <2>4, Zenon
    <3>2. n \notin DOMAIN lfu_node \ {o}
      OBVIOUS
    <3> QED BY <2>2, <2>3, <2>6, <2>8, <3>1, <3>2, Zenon DEF Entered, e
  <2> QED BY <2>6, <2>7, <2>9, LenMaxAssumption DEF BucketsSafe
<1>6. CASE ~Frequent!full
  <2>1. PICK n \in Nodes \ (DOMAIN lfu_node \ {}), new \in Frequent!Fresh(lfu_list, Frequent!LacksFirst(lfu_list)) :
           /\ lfu_list' = Frequent!lfu_attach(lfu_list, new, n)
           /\ lfu_node' = With(Without(lfu_node, {}), n, e)
           /\ lfu_cache' = With(Without(lfu_cache, {lfu_node[x].key : x \in {}}),
                                k, [bucket |-> Head(lfu_list').id, node |-> n])
    BY <1>6, SameOperators, Zenon DEF Frequent!Insert
  <2>2. {lfu_node[x].key : x \in {}} = {}
    OBVIOUS
  <2> HIDE DEF e
  <2>3. /\ lfu_node' = With(lfu_node, n, e)
        /\ lfu_cache' = With(lfu_cache, k, [bucket |-> Head(lfu_list').id, node |-> n])
    BY <2>1, <2>2, WithOverNone, ZenonT(60)
  <2>4. n \in Nodes \ DOMAIN lfu_node
    BY <2>1
  <2>5. /\ Placed(lfu_list', lfu_node', lfu_cache') /\ NoneEmpty(lfu_list')
        /\ DOMAIN lfu_cache' = DOMAIN lfu_cache \cup {k}
        /\ Gained(lfu_list, lfu_list', 1, n)
    BY <1>1, <1>3, <1>4, <2>1, <2>3, <2>4, Zenon
  <2>6. IsFiniteSet(DOMAIN lfu_cache') /\ Cardinality(DOMAIN lfu_cache') <= LenMax
    <3>1. Cardinality(DOMAIN lfu_cache) \in Nat /\ Cardinality(DOMAIN lfu_cache) < LenMax
      <4>1. Cardinality(DOMAIN lfu_cache) < LenMax
        BY <1>6, SameOperators, Zenon DEF Frequent!full
      <4> QED BY <1>3, <4>1, FS_CardinalityType
    <3>2. /\ IsFiniteSet(DOMAIN lfu_cache \cup {k})
          /\ Cardinality(DOMAIN lfu_cache \cup {k}) = Cardinality(DOMAIN lfu_cache) + 1
      BY <1>1, <1>3, FS_AddElement
    <3> QED BY <2>5, <3>1, <3>2, LenMaxAssumption
  <2>7. Entered(n, k, d)
    <3>1. Thrown = {}
      BY <1>6 DEF Thrown
    <3>2. ThrownKeys = {}
      BY <3>1 DEF ThrownKeys
    <3>3. Lost(lfu_list, lfu_list, {})
      BY DEF Lost
    <3>4. n \notin DOMAIN lfu_node \ {}
      BY <2>4
    <3> QED BY <2>1, <2>2, <2>5, <3>1, <3>2, <3>3, <3>4, Zenon DEF Entered, e
  <2> QED BY <2>5, <2>6, <2>7 DEF BucketsSafe
<1> QED BY <1>5, <1>6

LEMMA LFUStepIsSafe == BucketsSafe /\ [MCNext]_<<kind, vars, lfuVars>> => BucketsSafe'
<1> SUFFICES ASSUME BucketsSafe, [MCNext]_<<kind, vars, lfuVars>> PROVE BucketsSafe'
  OBVIOUS
<1>1. CASE UNCHANGED <<lfu_list, lfu_node, lfu_cache>>
  BY <1>1 DEF BucketsSafe
<1>2. CASE Frequent!Next
  <2>1. ASSUME NEW k \in Keys, Frequent!Get(k) PROVE BucketsSafe'
    BY <2>1, GetIsSafe
  <2>2. ASSUME NEW k \in Keys, Frequent!Exists(k) PROVE BucketsSafe'
    BY <1>1, <2>2 DEF Frequent!Exists
  <2>3. ASSUME NEW k \in Keys, Frequent!Invalidate(k) PROVE BucketsSafe'
    BY <2>3, EraseBucketsIsSafe DEF Frequent!Invalidate
  <2>4. ASSUME NEW k \in Keys, NEW d \in Data, Frequent!Put(k, d) PROVE BucketsSafe'
    BY <2>4, ReplaceIsSafe, InsertIntoBucketsIsSafe DEF Frequent!Put
  <2>5. ASSUME NEW lo \in Keys, NEW hi \in Keys, Frequent!InvalidateRange(lo, hi) PROVE BucketsSafe'
    BY <2>5, EraseBucketsIsSafe DEF Frequent!InvalidateRange
  <2> QED BY <1>2, <2>1, <2>2, <2>3, <2>4, <2>5, Zenon DEF Frequent!Next
<1> QED BY <1>1, <1>2 DEF MCNext, lfuVars

LEMMA LFUInitIsSafe == MCInit => BucketsSafe
<1> SUFFICES ASSUME MCInit PROVE BucketsSafe
  OBVIOUS
<1>1. lfu_list = <<>> /\ DOMAIN lfu_node = {} /\ DOMAIN lfu_cache = {}
  BY DEF MCInit, Frequent!Init
<1>2. Placed(lfu_list, lfu_node, lfu_cache) /\ NoneEmpty(lfu_list)
  BY <1>1 DEF Placed, NoneEmpty
<1>3. IsFiniteSet(DOMAIN lfu_cache) /\ Cardinality(DOMAIN lfu_cache) <= LenMax
  BY <1>1, FS_EmptySet, LenMaxAssumption
<1> QED BY <1>2, <1>3 DEF BucketsSafe

(* The buckets of generic_lfu are in the order of their frequencies, one   *)
(* each and none empty, and every iterator in its map leads to the node of *)
(* its key, whatever lookups, insertions and invalidations come.           *)
THEOREM BucketsMatchMapAlways == MCSpec => []LFUSafe
<1>1. MCInit => BucketsSafe
  BY LFUInitIsSafe
<1>2. BucketsSafe /\ [MCNext]_<<kind, vars, lfuVars>> => BucketsSafe'
  BY LFUStepIsSafe
<1>3. BucketsSafe => LFUSafe
  BY BucketsSafeIsEnough
<1> QED BY <1>1, <1>2, <1>3, PTL DEF MCSpec

-----------------------------------------------------------------------------
(* How often a key has been used, and that the history agrees with the     *)
(* order within each bucket.                                               *)

FreqAt(list, map, k) ==
    IF map[k].bucket \in Frequent!BucketIds(list)
    THEN list[Frequent!At(list, map[k].bucket)].freq ELSE 0

LEMMA FreqNow == \A k : FreqOf(k) = FreqAt(lfu_list, lfu_cache, k)
BY Zenon DEF FreqOf, FreqAt

LEMMA FreqNext == \A k : FreqOf(k)' = FreqAt(lfu_list', lfu_cache', k)
BY Zenon DEF FreqOf, FreqAt

(* A key has been used as often as the bucket says that its node is in.    *)
LEMMA FreqSits ==
  ASSUME NEW list, NEW nodes, NEW map, Placed(list, nodes, map), NEW k \in DOMAIN map
  PROVE  /\ Sits(list, FreqAt(list, map, k), map[k].node)
         /\ \A f : Sits(list, f, map[k].node) => f = FreqAt(list, map, k)
<1>1. PICK i \in DOMAIN list : /\ map[k].bucket = list[i].id /\ map[k].node \in Range(list[i].nodes)
                               /\ nodes[map[k].node].key = k
  BY DEF Placed
<1>2. Frequent!At(list, list[i].id) = i
  BY AtIs DEF Placed
<1>3. list[i].id \in Frequent!BucketIds(list)
  BY SameOperators DEF Frequent!BucketIds, Range
<1>4. FreqAt(list, map, k) = list[i].freq
  BY <1>1, <1>2, <1>3, Zenon DEF FreqAt
<1>5. \A j \in DOMAIN list : map[k].node \in Range(list[j].nodes) => j = i
  BY <1>1, OneBucket, Zenon
<1> QED BY <1>1, <1>4, <1>5, Zenon DEF Sits

LEMMA FreqIs ==
  ASSUME NEW list, NEW nodes, NEW map, Placed(list, nodes, map), NEW k \in DOMAIN map,
         NEW f, NEW n, n = map[k].node, Sits(list, f, n)
  PROVE  FreqAt(list, map, k) = f
BY FreqSits, Zenon

LEMMA FreqType ==
  ASSUME NEW list, NEW nodes, NEW map, Placed(list, nodes, map), NEW k \in DOMAIN map
  PROVE  FreqAt(list, map, k) \in 1 .. MaxFreq
<1>1. PICK i \in DOMAIN list : map[k].node \in Range(list[i].nodes)
  BY DEF Placed
<1>2. Sits(list, list[i].freq, map[k].node)
  BY <1>1, Zenon DEF Sits
<1>3. FreqAt(list, map, k) = list[i].freq
  BY <1>2, FreqIs
<1>4. list[i].freq \in 1 .. MaxFreq
  <2>1. list \in Seq(BucketRecord)
    BY DEF Placed
  <2>2. list[i] \in BucketRecord
    BY <2>1
  <2> QED BY <2>2 DEF BucketRecord
<1> QED BY <1>3, <1>4

LEMMA InFrontSits ==
  ASSUME NEW list, NEW x, NEW y, InFront(list, x, y)
  PROVE  \E f : Sits(list, f, x) /\ Sits(list, f, y)
<1>1. PICK i \in DOMAIN list : StandsBefore(list[i].nodes, x, y)
  BY DEF InFront
<1>2. x \in Range(list[i].nodes) /\ y \in Range(list[i].nodes)
  BY <1>1 DEF StandsBefore, Range
<1> QED BY <1>1, <1>2, Zenon DEF Sits

LEMMA SitsAllocated ==
  ASSUME NEW list, NEW nodes, NEW map, Placed(list, nodes, map), NEW f, NEW x, Sits(list, f, x)
  PROVE  x \in DOMAIN nodes /\ nodes[x].key \in DOMAIN map /\ map[nodes[x].key].node = x
BY Zenon DEF Placed, Sits

LEMMA InFrontApart ==
  ASSUME NEW list, NEW nodes, NEW map, Placed(list, nodes, map), NEW x, NEW y, InFront(list, x, y)
  PROVE  x # y
<1>1. PICK i \in DOMAIN list : StandsBefore(list[i].nodes, x, y)
  BY DEF InFront
<1>2. /\ list[i].nodes \in Seq(Nodes)
      /\ \A a, b \in DOMAIN list[i].nodes : list[i].nodes[a] = list[i].nodes[b] => a = b
  <2>1. list \in Seq(BucketRecord) /\ IsInjective(list[i].nodes)
    BY DEF Placed
  <2>2. list[i] \in BucketRecord
    BY <2>1
  <2> QED BY <2>1, <2>2 DEF BucketRecord, IsInjective
<1> QED BY <1>1, <1>2 DEF StandsBefore

(* A node that joins a bucket comes first in it.                           *)
JoinsFirst(list, other, n) ==
    \A x, y : InFront(other, x, y) => x = n \/ (InFront(list, x, y) /\ y # n)

LEMMA InFrontThen ==
  ASSUME NEW list, NEW between, NEW other, NEW gone, NEW f, NEW n,
         Lost(list, between, gone), Gained(between, other, f, n),
         \A g : ~Sits(between, g, n)
  PROVE  JoinsFirst(list, other, n)
<1> SUFFICES ASSUME NEW x, NEW y, InFront(other, x, y), x # n
             PROVE  InFront(list, x, y) /\ y # n
  BY Zenon DEF JoinsFirst
<1>1. InFront(between, x, y)
  BY Zenon DEF Gained
<1>2. y # n
  BY <1>1, InFrontSits, Zenon
<1> QED BY <1>1, <1>2, Zenon DEF Lost

(* order has the keys of map, and those of a bucket as the bucket does.    *)
Remembered(order, list, nodes, map) ==
    /\ order \in Seq(Keys) /\ IsInjective(order) /\ Range(order) = DOMAIN map
    /\ \A x, y : InFront(list, x, y) => StandsBefore(order, nodes[x].key, nodes[y].key)

LEMMA UsedIsRemembered ==
  ASSUME NEW order, NEW list, NEW nodes, NEW map, Remembered(order, list, nodes, map),
         NEW other, NEW heap, NEW table, Placed(other, heap, table),
         NEW k \in Keys, NEW n \in DOMAIN heap, heap[n].key = k,
         NEW gone, k \in gone \/ k \notin DOMAIN map,
         DOMAIN table = (DOMAIN map \ gone) \cup {k},
         JoinsFirst(list, other, n),
         \A x \in DOMAIN heap : x # n => heap[x].key = nodes[x].key
  PROVE  Remembered(<<k>> \o Dropping(order, gone), other, heap, table)
<1> DEFINE u == Dropping(order, gone)
           w == <<k>> \o u
<1>1. order \in Seq(Keys) /\ IsInjective(order) /\ Range(order) = DOMAIN map
  BY DEF Remembered
<1>2. u \in Seq(Keys) /\ Range(u) = DOMAIN map \ gone /\ IsInjective(u)
  BY <1>1, DroppingRange, DroppingInjective
<1>3. \A x, y : StandsBefore(u, x, y) <=> StandsBefore(order, x, y) /\ x \notin gone /\ y \notin gone
  BY <1>1, DroppingOrder, Zenon
<1> HIDE DEF u
<1>4. k \notin Range(u)
  BY <1>2
<1>5. w \in Seq(Keys) /\ IsInjective(w) /\ Range(w) = DOMAIN table
  BY <1>2, <1>4, PutFirst
<1>6. \A x, y : StandsBefore(w, x, y) <=> StandsBefore(u, x, y) \/ (x = k /\ y \in Range(u))
  BY <1>2, BeforeFirst
<1> HIDE DEF w
<1>7. ASSUME NEW x, NEW y, InFront(other, x, y) PROVE StandsBefore(w, heap[x].key, heap[y].key)
  <2>1. x # y
    BY <1>7, InFrontApart, Zenon
  <2>2. /\ x \in DOMAIN heap /\ heap[x].key \in DOMAIN table /\ table[heap[x].key].node = x
        /\ y \in DOMAIN heap /\ heap[y].key \in DOMAIN table /\ table[heap[y].key].node = y
    <3>1. PICK f : Sits(other, f, x) /\ Sits(other, f, y)
      BY <1>7, InFrontSits, Zenon
    <3>2. x \in DOMAIN heap /\ heap[x].key \in DOMAIN table /\ table[heap[x].key].node = x
      BY <3>1, SitsAllocated
    <3>3. y \in DOMAIN heap /\ heap[y].key \in DOMAIN table /\ table[heap[y].key].node = y
      BY <3>1, SitsAllocated
    <3> QED BY <3>2, <3>3
  <2>3. \A z \in DOMAIN heap : table[heap[z].key].node = z /\ z # n => heap[z].key # k
    BY Zenon DEF Placed
  <2>4. CASE x = n
    <3>1. heap[y].key # k
      BY <2>1, <2>2, <2>3, <2>4
    <3>2. heap[y].key \in Range(u)
      BY <1>2, <2>2, <3>1
    <3> QED BY <1>6, <2>4, <3>2
  <2>5. CASE x # n
    <3>1. InFront(list, x, y) /\ y # n
      BY <1>7, <2>5, Zenon DEF JoinsFirst
    <3>2. heap[x].key = nodes[x].key /\ heap[y].key = nodes[y].key
      BY <2>2, <2>5, <3>1
    <3>3. StandsBefore(order, heap[x].key, heap[y].key)
      BY <3>1, <3>2, Zenon DEF Remembered
    <3>4. heap[x].key # k /\ heap[y].key # k
      BY <2>2, <2>3, <2>5, <3>1
    <3>5. heap[x].key \notin gone /\ heap[y].key \notin gone
      BY <2>2, <3>4
    <3> QED BY <1>3, <1>6, <3>3, <3>5, Zenon
  <2> QED BY <2>4, <2>5
<1> QED BY <1>5, <1>7, Zenon DEF Remembered, w, u

LEMMA ErasedIsRemembered ==
  ASSUME NEW order, NEW list, NEW nodes, NEW map, Remembered(order, list, nodes, map),
         NEW other, NEW heap, NEW table, Placed(other, heap, table),
         NEW gone, DOMAIN table = DOMAIN map \ gone,
         \A x, y : InFront(other, x, y) => InFront(list, x, y),
         \A x \in DOMAIN heap : heap[x].key = nodes[x].key
  PROVE  Remembered(Dropping(order, gone), other, heap, table)
<1> DEFINE u == Dropping(order, gone)
<1>1. order \in Seq(Keys) /\ IsInjective(order) /\ Range(order) = DOMAIN map
  BY DEF Remembered
<1>2. u \in Seq(Keys) /\ Range(u) = DOMAIN table /\ IsInjective(u)
  BY <1>1, DroppingRange, DroppingInjective
<1>3. \A x, y : StandsBefore(u, x, y) <=> StandsBefore(order, x, y) /\ x \notin gone /\ y \notin gone
  BY <1>1, DroppingOrder, Zenon
<1> HIDE DEF u
<1>4. ASSUME NEW x, NEW y, InFront(other, x, y) PROVE StandsBefore(u, heap[x].key, heap[y].key)
  <2>1. /\ x \in DOMAIN heap /\ heap[x].key \in DOMAIN table
        /\ y \in DOMAIN heap /\ heap[y].key \in DOMAIN table
    <3>1. PICK f : Sits(other, f, x) /\ Sits(other, f, y)
      BY <1>4, InFrontSits, Zenon
    <3> QED BY <3>1, SitsAllocated, Zenon
  <2>2. StandsBefore(order, heap[x].key, heap[y].key)
    BY <1>4, <2>1, Zenon DEF Remembered
  <2>3. heap[x].key \notin gone /\ heap[y].key \notin gone
    BY <2>1
  <2> QED BY <1>3, <2>2, <2>3, Zenon
<1> QED BY <1>2, <1>4, Zenon DEF Remembered, u

-----------------------------------------------------------------------------
(* The refinement: what each call of generic_lfu is to AbstractLFU. *)

LEMMA SameInLeast ==
  /\ \A s, gone : Least!Dropping(s, gone) = Dropping(s, gone)
  /\ \A s : Least!Cardinality(s) = Cardinality(s)
  /\ \A f, s : Least!Restrict(f, s) = Restrict(f, s)
  /\ \A op, got, evicted : Least!Reply(op, got, evicted) = Frequent!Reply(op, got, evicted)
<1>1. \A s, gone : Least!Dropping(s, gone) = Dropping(s, gone)
  BY Zenon DEF Least!Dropping, Dropping
<1>2. \A s : Least!Cardinality(s) = Cardinality(s)
  BY Zenon DEF Least!Cardinality, Cardinality
<1>3. \A f, s : Least!Restrict(f, s) = Restrict(f, s)
  BY Zenon DEF Least!Restrict, Restrict
<1>4. \A op, got, evicted : Least!Reply(op, got, evicted) = Frequent!Reply(op, got, evicted)
  BY Zenon DEF Least!Reply, Frequent!Reply
<1> QED BY <1>1, <1>2, <1>3, <1>4

(* What the caller has put in, and how often it has used it.               *)
Holds == [k \in DOMAIN lfu_cache |-> lfu_node[lfu_cache[k].node].data]

Counts == [k \in DOMAIN lfu_cache |-> FreqOf(k)]

(* The inductive invariant of the refinement.                              *)
InStep == BucketsSafe /\ Remembered(used, lfu_list, lfu_node, lfu_cache)

LEMMA SequenceOfOne ==
  ASSUME NEW k
  PROVE  SetToSeq({k}) = <<k>>
<1> DEFINE F == {f \in [1 .. 1 -> {k}] : IsInjective(f)}
<1>1. Cardinality({k}) = 1
  BY FS_Singleton
<1>2. <<k>> \in [1 .. 1 -> {k}] /\ IsInjective(<<k>>)
  BY DEF IsInjective
<1>3. \A f \in [1 .. 1 -> {k}] : f = <<k>>
  OBVIOUS
<1>4. (CHOOSE f \in [1 .. 1 -> {k}] : IsInjective(f)) = <<k>>
  BY <1>2, <1>3
<1> QED BY <1>1, <1>4 DEF SetToSeq

LEMMA SequenceOfNone == SetToSeq({}) = <<>>
<1>1. Cardinality({}) = 0
  BY FS_EmptySet
<1>2. <<>> \in [1 .. 0 -> {}] /\ IsInjective(<<>>)
  BY DEF IsInjective
<1>3. \A f \in [1 .. 0 -> {}] : f = <<>>
  OBVIOUS
<1>4. (CHOOSE f \in [1 .. 0 -> {}] : IsInjective(f)) = <<>>
  BY <1>2, <1>3
<1> QED BY <1>1, <1>4 DEF SetToSeq

(* How the history goes on.                                                *)
HistoryStep ==
    used' = SetToSeq(UsedNow) \o Dropping(used, UsedNow \cup (DOMAIN lfu_cache \ DOMAIN lfu_cache'))

LEMMA HistoryOfUse ==
  ASSUME InStep, HistoryStep, NEW k, UsedNow = {k},
         NEW gone, DOMAIN lfu_cache \ DOMAIN lfu_cache' = gone
  PROVE  used' = <<k>> \o Dropping(used, gone \cup {k})
<1>1. UsedNow \cup (DOMAIN lfu_cache \ DOMAIN lfu_cache') = gone \cup {k}
  OBVIOUS
<1> QED BY <1>1, SequenceOfOne, Zenon DEF HistoryStep

LEMMA HistoryOfNone ==
  ASSUME InStep, HistoryStep, UsedNow = {},
         NEW gone, DOMAIN lfu_cache \ DOMAIN lfu_cache' = gone \cap DOMAIN lfu_cache
  PROVE  used' = Dropping(used, gone)
<1> DEFINE out == UsedNow \cup (DOMAIN lfu_cache \ DOMAIN lfu_cache')
<1>1. used \in Seq(Keys) /\ Range(used) = DOMAIN lfu_cache
  BY DEF InStep, Remembered
<1>2. \A x \in Range(used) : x \in gone <=> x \in out
  BY <1>1
<1>3. used' = <<>> \o Dropping(used, out)
  BY SequenceOfNone, Zenon DEF HistoryStep
<1> HIDE DEF out
<1>4. Dropping(used, out) = Dropping(used, gone) /\ Dropping(used, gone) \in Seq(Keys)
  BY <1>1, <1>2, DroppingSame, DroppingRange
<1> QED BY <1>3, <1>4

(* No key has been used when none is new and none is used more often.      *)
LEMMA NobodyUsed ==
  ASSUME \A x \in DOMAIN lfu_cache' :
            x \in DOMAIN lfu_cache /\ FreqOf(x)' = FreqOf(x) /\ FreqOf(x) \in Nat
  PROVE  UsedNow = {}
BY DEF UsedNow

(* A hit: the key is used once more, and is the last one used.             *)
LEMMA UseImplements ==
  ASSUME InStep, HistoryStep, NEW k \in Keys, Frequent!Use(k), BucketsSafe',
         DOMAIN lfu_node' = DOMAIN lfu_node,
         \A x \in DOMAIN lfu_node : lfu_node'[x].key = lfu_node[x].key
  PROVE  /\ Least!Use(k)
         /\ Remembered(used', lfu_list', lfu_node', lfu_cache')
         /\ DOMAIN lfu_cache' = DOMAIN lfu_cache
         /\ \A x \in DOMAIN lfu_cache : lfu_cache'[x].node = lfu_cache[x].node
<1> DEFINE n == lfu_cache[k].node
<1>1. /\ Placed(lfu_list, lfu_node, lfu_cache) /\ Placed(lfu_list', lfu_node', lfu_cache')
      /\ Remembered(used, lfu_list, lfu_node, lfu_cache)
  BY DEF InStep, BucketsSafe
<1>2. /\ DOMAIN lfu_cache' = DOMAIN lfu_cache /\ k \in DOMAIN lfu_cache
      /\ \A x \in DOMAIN lfu_cache : lfu_cache'[x].node = lfu_cache[x].node
      /\ n \in DOMAIN lfu_node
      /\ lfu_list[Frequent!At(lfu_list, lfu_cache[k].bucket)].freq < MaxFreq
      /\ Moved(lfu_list, lfu_list', n)
  BY UseKeepsPlaces, Zenon DEF InStep
<1>3. PICK f, between :
         /\ f \in 1 .. MaxFreq /\ f < MaxFreq /\ Sits(lfu_list, f, n)
         /\ Lost(lfu_list, between, {n}) /\ Gained(between, lfu_list', f + 1, n)
  BY <1>2, Zenon DEF Moved
<1>4. /\ lfu_node[n].key = k
      /\ \A x \in DOMAIN lfu_cache : lfu_node[lfu_cache[x].node].key = x
  BY <1>1, <1>2 DEF Placed
<1> HIDE DEF n
<1>5. FreqOf(k) = f /\ FreqOf(k)' = f + 1
  <2>1. FreqAt(lfu_list, lfu_cache, k) = f
    <3>1. n = lfu_cache[k].node /\ k \in DOMAIN lfu_cache
      BY <1>2 DEF n
    <3> QED BY <1>1, <1>3, <3>1, FreqIs, Zenon
  <2>2. Sits(lfu_list', f + 1, n)
    BY <1>3, Zenon DEF Gained
  <2>3. FreqAt(lfu_list', lfu_cache', k) = f + 1
    <3>1. n = lfu_cache'[k].node /\ k \in DOMAIN lfu_cache'
      BY <1>2, Zenon DEF n
    <3> QED BY <1>1, <2>2, <3>1, FreqIs, Zenon
  <2> QED BY <2>1, <2>3, FreqNow, FreqNext, Zenon
<1>6. ASSUME NEW x \in DOMAIN lfu_cache, x # k
      PROVE  FreqOf(x) \in Nat /\ FreqOf(x)' = FreqOf(x)
  <2> DEFINE g == FreqAt(lfu_list, lfu_cache, x)
  <2>1. g \in 1 .. MaxFreq
    BY <1>1, FreqType
  <2>2. Sits(lfu_list, g, lfu_cache[x].node)
    BY <1>1, FreqSits, Zenon
  <2> HIDE DEF g
  <2>3. lfu_cache[x].node # n
    BY <1>4, <1>6
  <2>4. Sits(lfu_list', g, lfu_cache[x].node)
    <3>1. lfu_cache[x].node \notin {n}
      BY <2>3
    <3> QED BY <1>3, <2>2, <3>1, Zenon DEF Lost, Gained
  <2>5. FreqAt(lfu_list', lfu_cache', x) = g
    <3>1. lfu_cache[x].node = lfu_cache'[x].node /\ x \in DOMAIN lfu_cache'
      BY <1>2, Zenon
    <3> QED BY <1>1, <2>4, <3>1, FreqIs, Zenon
  <2>6. FreqOf(x) = g /\ FreqOf(x)' = g
    BY <2>5, FreqNow, FreqNext, Zenon DEF g
  <2> QED BY <2>1, <2>6, MaxFreqAssumption
<1>7. UsedNow = {k}
  <2>1. FreqOf(k)' > FreqOf(k)
    BY <1>3, <1>5
  <2>2. \A x \in DOMAIN lfu_cache : x # k => ~(FreqOf(x)' > FreqOf(x))
    BY <1>6
  <2> QED BY <1>2, <2>1, <2>2 DEF UsedNow
<1>8. used' = <<k>> \o Dropping(used, {k})
  <2>1. DOMAIN lfu_cache \ DOMAIN lfu_cache' = {}
    BY <1>2
  <2>2. used' = <<k>> \o Dropping(used, {} \cup {k})
    BY <1>7, <2>1, HistoryOfUse, Zenon
  <2>3. {} \cup {k} = {k}
    OBVIOUS
  <2> QED BY <2>2, <2>3, Zenon
<1>9. Remembered(used', lfu_list', lfu_node', lfu_cache')
  <2>1. \A g : ~Sits(between, g, n)
    <3>1. n \in {n}
      OBVIOUS
    <3> QED BY <1>3, <3>1, Zenon DEF Lost
  <2>2. JoinsFirst(lfu_list, lfu_list', n)
    BY <1>3, <2>1, InFrontThen
  <2>3. PICK gone : gone = {k}
    OBVIOUS
  <2>4. DOMAIN lfu_cache' = (DOMAIN lfu_cache \ gone) \cup {k} /\ (k \in gone \/ k \notin DOMAIN lfu_cache)
    BY <1>2, <2>3
  <2>5. n \in DOMAIN lfu_node' /\ lfu_node'[n].key = k
    BY <1>2, <1>4
  <2>6. \A x \in DOMAIN lfu_node' : x # n => lfu_node'[x].key = lfu_node[x].key
    OBVIOUS
  <2>7. Remembered(<<k>> \o Dropping(used, gone), lfu_list', lfu_node', lfu_cache')
    BY <1>1, <2>2, <2>4, <2>5, <2>6, UsedIsRemembered, ZenonT(60)
  <2> QED BY <1>8, <2>3, <2>7, Zenon
<1>10. Counts' = [Counts EXCEPT ![k] = @ + 1] /\ Counts[k] < MaxFreq
  <2>1. Counts' = [x \in DOMAIN lfu_cache |-> FreqOf(x)']
    BY <1>2, Zenon DEF Counts
  <2>2. DOMAIN Counts = DOMAIN lfu_cache /\ \A x \in DOMAIN lfu_cache : Counts[x] = FreqOf(x)
    BY DEF Counts
  <2> HIDE DEF Counts
  <2>3. [Counts EXCEPT ![k] = @ + 1] = [x \in DOMAIN lfu_cache |-> IF x = k THEN FreqOf(k) + 1 ELSE FreqOf(x)]
    BY <1>2, <2>2
  <2>4. \A x \in DOMAIN lfu_cache : FreqOf(x)' = IF x = k THEN FreqOf(k) + 1 ELSE FreqOf(x)
    BY <1>5, <1>6
  <2> QED BY <1>2, <1>3, <1>5, <2>1, <2>2, <2>3, <2>4
<1>11. Least!Use(k)
  <2>1. k \in Least!Cached
    BY <1>2 DEF Least!Cached
  <2> QED BY <1>8, <1>10, <2>1, SameInLeast, Zenon DEF Least!Use, Counts
<1> QED BY <1>2, <1>9, <1>11

(* generic_lfu throws out what AbstractLFU does.                           *)
LEMMA VictimsAre ==
  ASSUME InStep
  PROVE  Least!Victims = ThrownKeys
<1>1. /\ Placed(lfu_list, lfu_node, lfu_cache) /\ BucketsSafe
      /\ Remembered(used, lfu_list, lfu_node, lfu_cache)
  BY DEF InStep, BucketsSafe
<1>2. CASE ~Frequent!full
  <2>1. Cardinality(DOMAIN lfu_cache) < LenMax
    BY <1>2, SameOperators, Zenon DEF Frequent!full
  <2>2. Least!Victims = {}
    BY <2>1, SameInLeast DEF Least!Victims, Least!Cached
  <2>3. Thrown = {}
    BY <1>2 DEF Thrown
  <2> QED BY <2>2, <2>3 DEF ThrownKeys
<1>3. CASE Frequent!full
  <2> DEFINE o == Frequent!Last(Head(lfu_list).nodes)
             v == lfu_node[o].key
             s == lfu_list[1].nodes
             low == lfu_list[1].freq
  <2>1. /\ o \in DOMAIN lfu_node /\ v \in DOMAIN lfu_cache
        /\ lfu_cache[v].bucket = Head(lfu_list).id /\ lfu_cache[v].node = o
        /\ Cardinality(DOMAIN lfu_cache) = LenMax
    BY <1>1, <1>3, VictimIs, Zenon
  <2>2. /\ lfu_list \in Seq(BucketRecord) /\ 1 \in DOMAIN lfu_list /\ Head(lfu_list) = lfu_list[1]
        /\ s \in Seq(Nodes) /\ s # <<>>
    <3>1. lfu_list \in Seq(BucketRecord)
      BY <1>1 DEF Placed
    <3>2. PICK i \in DOMAIN lfu_list : TRUE
      BY <1>1, <2>1 DEF Placed
    <3>3. 1 \in DOMAIN lfu_list
      BY <3>1, <3>2
    <3>4. lfu_list[1] \in BucketRecord /\ s # <<>>
      BY <1>1, <3>1, <3>3 DEF BucketsSafe, NoneEmpty
    <3> QED BY <3>1, <3>3, <3>4 DEF BucketRecord
  <2>3. o = s[Len(s)] /\ Len(s) \in DOMAIN s /\ DOMAIN s = 1 .. Len(s) /\ Len(s) \in Nat
    BY <2>2 DEF Frequent!Last
  <2>4. Thrown = {o} /\ ThrownKeys = {v}
    BY <1>3, Zenon DEF Thrown, ThrownKeys
  <2> HIDE DEF o, v, s
  <2>5. \A f \in DOMAIN lfu_list : lfu_list[f].freq \in Nat
    <3>1. \A i \in DOMAIN lfu_list : lfu_list[i] \in BucketRecord
      BY <2>2
    <3> QED BY <3>1, MaxFreqAssumption DEF BucketRecord
  <2>6. FreqOf(v) = low
    <3>1. o \in Range(s)
      BY <2>3 DEF Range
    <3>2. Sits(lfu_list, low, o)
      BY <2>2, <3>1, Zenon DEF Sits, s
    <3>3. FreqAt(lfu_list, lfu_cache, v) = low
      BY <1>1, <2>1, <3>2, FreqIs, Zenon
    <3> QED BY <3>3, FreqNow, Zenon
  <2>7. ASSUME NEW x \in DOMAIN lfu_cache
        PROVE  /\ FreqOf(x) \in Nat /\ low <= FreqOf(x)
               /\ FreqOf(x) <= low /\ x # v => StandsBefore(used, x, v)
    <3> DEFINE n == lfu_cache[x].node
    <3>1. PICK i \in DOMAIN lfu_list : n \in Range(lfu_list[i].nodes) /\ lfu_node[n].key = x
      BY <1>1 DEF Placed
    <3>2. FreqOf(x) = lfu_list[i].freq
      <4>1. Sits(lfu_list, lfu_list[i].freq, n)
        BY <3>1, Zenon DEF Sits
      <4>2. FreqAt(lfu_list, lfu_cache, x) = lfu_list[i].freq
        BY <1>1, <4>1, FreqIs, Zenon
      <4> QED BY <4>2, FreqNow, Zenon
    <3>3. i = 1 \/ low < lfu_list[i].freq
      <4>1. i = 1 \/ 1 < i
        BY <2>2
      <4> QED BY <1>1, <2>2, <4>1 DEF Placed
    <3> HIDE DEF n
    <3>4. ASSUME FreqOf(x) <= low, x # v PROVE StandsBefore(used, x, v)
      <4>1. i = 1
        BY <2>2, <2>5, <3>2, <3>3, <3>4
      <4>2. PICK a \in DOMAIN s : s[a] = n
        BY <3>1, <4>1 DEF Range, s
      <4>3. n # o
        BY <3>1, <3>4 DEF v
      <4>4. a < Len(s)
        BY <2>3, <4>2, <4>3
      <4>5. InFront(lfu_list, n, o)
        BY <2>2, <2>3, <4>2, <4>4 DEF InFront, StandsBefore, s
      <4> QED BY <1>1, <3>1, <4>5, Zenon DEF Remembered, v
    <3> QED BY <2>2, <2>5, <3>2, <3>3, <3>4
  <2>8. /\ Least!Cached = DOMAIN lfu_cache
        /\ Least!LeastUsed = {k \in DOMAIN lfu_cache : \A x \in DOMAIN lfu_cache : FreqOf(k) <= FreqOf(x)}
    <3>1. Least!Cached = DOMAIN lfu_cache
      BY DEF Least!Cached
    <3> QED BY <3>1 DEF Least!LeastUsed
  <2>9. v \in Least!LeastUsed
    BY <2>1, <2>6, <2>7, <2>8
  <2>10. ASSUME NEW x \in Least!LeastUsed, x # v PROVE StandsBefore(used, x, v)
    <3>1. x \in DOMAIN lfu_cache /\ FreqOf(x) <= FreqOf(v)
      BY <2>1, <2>8
    <3> QED BY <2>6, <2>7, <2>10, <3>1
  <2>11. ASSUME NEW x, NEW a \in DOMAIN used, used[a] = x PROVE Least!Age(x) = a
    <3>1. \A i \in DOMAIN used : used[i] = x => i = a
      BY <1>1, <2>11 DEF Remembered, IsInjective
    <3> QED BY <2>11, <3>1 DEF Least!Age
  <2>12. ASSUME NEW x \in Least!LeastUsed, x # v
         PROVE  Least!Age(x) \in Nat /\ Least!Age(v) \in Nat /\ Least!Age(x) < Least!Age(v)
    <3>1. PICK a \in DOMAIN used, b \in DOMAIN used : a < b /\ used[a] = x /\ used[b] = v
      BY <2>10, <2>12 DEF StandsBefore
    <3>2. Least!Age(x) = a /\ Least!Age(v) = b
      BY <2>11, <3>1
    <3>3. DOMAIN used \subseteq Nat
      <4>1. used \in Seq(Keys)
        BY <1>1 DEF Remembered
      <4> QED BY <4>1
    <3> QED BY <3>1, <3>2, <3>3
  <2>13. Least!Age(v) \in Nat
    <3>1. PICK a \in DOMAIN used : used[a] = v
      BY <1>1, <2>1 DEF Remembered, Range
    <3>2. used \in Seq(Keys)
      BY <1>1 DEF Remembered
    <3>3. a \in Nat
      BY <3>2
    <3> QED BY <2>11, <3>1, <3>3
  <2>14. Least!Victims = {k \in Least!LeastUsed : \A x \in Least!LeastUsed : Least!Age(k) >= Least!Age(x)}
    <3>1. ~(Cardinality(DOMAIN lfu_cache) < LenMax)
      BY <2>1, LenMaxAssumption
    <3>2. ~(Least!Cardinality(Least!Cached) < LenMax)
      BY <2>8, <3>1, SameInLeast, Zenon
    <3> QED BY <3>2, Zenon DEF Least!Victims
  <2>15. \A x \in Least!LeastUsed : Least!Age(v) >= Least!Age(x)
    <3> TAKE x \in Least!LeastUsed
    <3>1. CASE x = v
      BY <2>13, <3>1
    <3>2. CASE x # v
      BY <2>12, <3>2
    <3> QED BY <3>1, <3>2
  <2>16. \A x \in Least!LeastUsed : x # v => ~(Least!Age(x) >= Least!Age(v))
    BY <2>12
  <2>17. Least!Victims = {v}
    BY <2>9, <2>14, <2>15, <2>16
  <2> QED BY <2>4, <2>17
<1> QED BY <1>2, <1>3

(* The calls that use no key leave the others as often used as they were.  *)
LEMMA StillAsOften ==
  ASSUME InStep, BucketsSafe', NEW x \in DOMAIN lfu_cache, x \in DOMAIN lfu_cache',
         lfu_cache'[x].node = lfu_cache[x].node,
         \A f : Sits(lfu_list, f, lfu_cache[x].node) => Sits(lfu_list', f, lfu_cache[x].node)
  PROVE  FreqOf(x) \in Nat /\ FreqOf(x)' = FreqOf(x)
<1> DEFINE g == FreqAt(lfu_list, lfu_cache, x)
<1>1. Placed(lfu_list, lfu_node, lfu_cache) /\ Placed(lfu_list', lfu_node', lfu_cache')
  BY DEF InStep, BucketsSafe
<1>2. g \in 1 .. MaxFreq
  BY <1>1, FreqType
<1>3. Sits(lfu_list, g, lfu_cache[x].node)
  BY <1>1, FreqSits, Zenon
<1> HIDE DEF g
<1>4. FreqAt(lfu_list', lfu_cache', x) = g
  <2>1. Sits(lfu_list', g, lfu_cache[x].node)
    BY <1>3
  <2>2. lfu_cache[x].node = lfu_cache'[x].node
    OBVIOUS
  <2> QED BY <1>1, <2>1, <2>2, FreqIs, Zenon
<1>5. FreqOf(x) = g /\ FreqOf(x)' = g
  BY <1>4, FreqNow, FreqNext, Zenon DEF g
<1> QED BY <1>2, <1>5, MaxFreqAssumption

LEMMA LFUInsertImplements ==
  ASSUME InStep, HistoryStep, NEW k \in Keys, NEW d \in Data, Frequent!Insert(k, d)
  PROVE  Least!Put(k, d) /\ InStep'
<1>1. /\ Placed(lfu_list, lfu_node, lfu_cache) /\ Remembered(used, lfu_list, lfu_node, lfu_cache)
      /\ BucketsSafe
  BY DEF InStep, BucketsSafe
<1>2. k \notin DOMAIN lfu_cache
  BY DEF Frequent!Insert, Frequent!Hit
<1>3. BucketsSafe' /\ \E n \in Nodes : Entered(n, k, d)
  BY <1>1, InsertIntoBucketsIsSafe
<1>4. PICK n \in Nodes : Entered(n, k, d)
  BY <1>3
<1>5. Placed(lfu_list', lfu_node', lfu_cache')
  BY <1>3 DEF BucketsSafe
<1>6. PICK between : Lost(lfu_list, between, Thrown) /\ Gained(between, lfu_list', 1, n)
  BY <1>4, Zenon DEF Entered
<1>7. PICK b : lfu_cache' = With(Without(lfu_cache, ThrownKeys), k, [bucket |-> b, node |-> n])
  BY <1>4, Zenon DEF Entered
<1>8. /\ lfu_node' = With(Without(lfu_node, Thrown), n, [key |-> k, data |-> d])
      /\ n \notin DOMAIN lfu_node \ Thrown
  BY <1>4, Zenon DEF Entered
<1>9. /\ DOMAIN lfu_cache' = (DOMAIN lfu_cache \ ThrownKeys) \cup {k} /\ lfu_cache'[k].node = n
      /\ \A x \in DOMAIN lfu_cache \ ThrownKeys : lfu_cache'[x] = lfu_cache[x]
  <2> DEFINE m == Without(lfu_cache, ThrownKeys)
  <2>1. DOMAIN m = DOMAIN lfu_cache \ ThrownKeys /\ \A x \in DOMAIN lfu_cache \ ThrownKeys : m[x] = lfu_cache[x]
    BY WithoutIs
  <2> HIDE DEF m
  <2>2. /\ DOMAIN lfu_cache' = DOMAIN m \cup {k} /\ lfu_cache'[k] = [bucket |-> b, node |-> n]
        /\ \A x \in DOMAIN m \ {k} : lfu_cache'[x] = m[x]
    <3>1. PICK at : at = [bucket |-> b, node |-> n] /\ lfu_cache' = With(m, k, at)
      BY <1>7, Zenon DEF m
    <3>2. /\ DOMAIN lfu_cache' = DOMAIN m \cup {k} /\ lfu_cache'[k] = at
          /\ \A x \in DOMAIN m \ {k} : lfu_cache'[x] = m[x]
      BY <3>1 DEF With
    <3> QED BY <3>1, <3>2, Zenon
  <2> QED BY <1>2, <2>1, <2>2
<1>10. /\ DOMAIN lfu_node' = (DOMAIN lfu_node \ Thrown) \cup {n}
       /\ lfu_node'[n].key = k /\ lfu_node'[n].data = d
       /\ \A x \in DOMAIN lfu_node \ Thrown : lfu_node'[x] = lfu_node[x]
  <2> DEFINE m == Without(lfu_node, Thrown)
  <2>1. DOMAIN m = DOMAIN lfu_node \ Thrown /\ \A x \in DOMAIN lfu_node \ Thrown : m[x] = lfu_node[x]
    BY WithoutIs
  <2> HIDE DEF m
  <2>2. /\ DOMAIN lfu_node' = DOMAIN m \cup {n} /\ lfu_node'[n] = [key |-> k, data |-> d]
        /\ \A x \in DOMAIN m \ {n} : lfu_node'[x] = m[x]
    <3>1. PICK e : e = [key |-> k, data |-> d] /\ lfu_node' = With(m, n, e)
      BY <1>8, Zenon DEF m
    <3>2. /\ DOMAIN lfu_node' = DOMAIN m \cup {n} /\ lfu_node'[n] = e
          /\ \A x \in DOMAIN m \ {n} : lfu_node'[x] = m[x]
      BY <3>1 DEF With
    <3> QED BY <3>1, <3>2, Zenon
  <2> QED BY <1>8, <2>1, <2>2
<1>11. /\ ThrownKeys \subseteq DOMAIN lfu_cache /\ k \notin ThrownKeys /\ Thrown \subseteq DOMAIN lfu_node
       /\ \A o \in Thrown : lfu_cache[lfu_node[o].key].node = o
  <2>1. CASE Frequent!full
    <3> DEFINE o == Frequent!Last(Head(lfu_list).nodes)
    <3>1. /\ o \in DOMAIN lfu_node /\ lfu_node[o].key \in DOMAIN lfu_cache
          /\ lfu_cache[lfu_node[o].key].node = o
      BY <1>1, <2>1, VictimIs, Zenon
    <3>2. Thrown = {o}
      BY <2>1 DEF Thrown
    <3> HIDE DEF o
    <3> QED BY <1>2, <3>1, <3>2 DEF ThrownKeys
  <2>2. CASE ~Frequent!full
    BY <2>2 DEF Thrown, ThrownKeys
  <2> QED BY <2>1, <2>2
<1>12. ASSUME NEW x \in DOMAIN lfu_cache \ ThrownKeys
       PROVE  /\ lfu_cache[x].node \in DOMAIN lfu_node \ Thrown
              /\ lfu_cache'[x].node = lfu_cache[x].node
              /\ x # k /\ FreqOf(x) \in Nat /\ FreqOf(x)' = FreqOf(x)
  <2>1. lfu_cache[x].node \in DOMAIN lfu_node /\ lfu_node[lfu_cache[x].node].key = x
    BY <1>1 DEF Placed
  <2>2. lfu_cache[x].node \notin Thrown
    BY <2>1 DEF ThrownKeys
  <2>3. \A f : Sits(lfu_list, f, lfu_cache[x].node) => Sits(lfu_list', f, lfu_cache[x].node)
    BY <1>6, <2>2, Zenon DEF Lost, Gained
  <2>4. lfu_cache'[x].node = lfu_cache[x].node /\ x \in DOMAIN lfu_cache'
    BY <1>9
  <2> QED BY <1>2, <1>3, <2>1, <2>2, <2>3, <2>4, StillAsOften
<1>13. FreqOf(k)' = 1
  <2>1. Sits(lfu_list', 1, n)
    BY <1>6, Zenon DEF Gained
  <2>2. n = lfu_cache'[k].node /\ k \in DOMAIN lfu_cache'
    BY <1>9
  <2>3. FreqAt(lfu_list', lfu_cache', k) = 1
    BY <1>5, <2>1, <2>2, FreqIs, Zenon
  <2> QED BY <2>3, FreqNext, Zenon
<1>14. UsedNow = {k}
  <2>1. \A x \in DOMAIN lfu_cache' : x = k \/ x \in DOMAIN lfu_cache \ ThrownKeys
    BY <1>9
  <2>2. \A x \in DOMAIN lfu_cache \ ThrownKeys : ~(FreqOf(x)' > FreqOf(x))
    BY <1>12
  <2>3. k \in DOMAIN lfu_cache'
    BY <1>9
  <2> QED BY <1>2, <2>1, <2>2, <2>3 DEF UsedNow
<1>15. used' = <<k>> \o Dropping(used, ThrownKeys)
  <2>1. DOMAIN lfu_cache \ DOMAIN lfu_cache' = ThrownKeys
    BY <1>2, <1>9, <1>11
  <2>2. used' = <<k>> \o Dropping(used, ThrownKeys \cup {k})
    BY <1>14, <2>1, HistoryOfUse, Zenon
  <2>3. used \in Seq(Keys) /\ Range(used) = DOMAIN lfu_cache
    BY <1>1 DEF Remembered
  <2>4. \A x \in Range(used) : x \in ThrownKeys <=> x \in ThrownKeys \cup {k}
    BY <1>2, <2>3
  <2>5. Dropping(used, ThrownKeys \cup {k}) = Dropping(used, ThrownKeys)
    BY <2>3, <2>4, DroppingSame, Zenon
  <2> QED BY <2>2, <2>5, Zenon
<1>16. Remembered(used', lfu_list', lfu_node', lfu_cache')
  <2>1. \A g : ~Sits(between, g, n)
    <3> SUFFICES ASSUME NEW g, Sits(between, g, n) PROVE FALSE
      OBVIOUS
    <3>1. Sits(lfu_list, g, n) /\ n \notin Thrown
      BY <1>6, Zenon DEF Lost
    <3>2. n \in DOMAIN lfu_node
      BY <1>1, <3>1, SitsAllocated, Zenon
    <3> QED BY <1>8, <3>1, <3>2
  <2>2. JoinsFirst(lfu_list, lfu_list', n)
    BY <1>6, <2>1, InFrontThen
  <2>3. n \in DOMAIN lfu_node' /\ lfu_node'[n].key = k
    BY <1>10
  <2>4. \A x \in DOMAIN lfu_node' : x # n => lfu_node'[x].key = lfu_node[x].key
    BY <1>10
  <2>5. PICK gone : gone = ThrownKeys
    OBVIOUS
  <2>6. DOMAIN lfu_cache' = (DOMAIN lfu_cache \ gone) \cup {k} /\ (k \in gone \/ k \notin DOMAIN lfu_cache)
    BY <1>2, <1>9, <2>5
  <2>7. Remembered(<<k>> \o Dropping(used, gone), lfu_list', lfu_node', lfu_cache')
    BY <1>1, <1>5, <2>2, <2>3, <2>4, <2>6, UsedIsRemembered, ZenonT(60)
  <2> QED BY <1>15, <2>5, <2>7, Zenon
<1>17. /\ Holds' = [x \in (DOMAIN lfu_cache \ ThrownKeys) \cup {k} |-> IF x = k THEN d ELSE Holds[x]]
       /\ Counts' = [x \in (DOMAIN lfu_cache \ ThrownKeys) \cup {k} |-> IF x = k THEN 1 ELSE Counts[x]]
  <2>1. \A x \in DOMAIN lfu_cache \ ThrownKeys :
           lfu_node'[lfu_cache'[x].node].data = Holds[x] /\ FreqOf(x)' = Counts[x] /\ x # k
    BY <1>10, <1>12 DEF Holds, Counts
  <2>2. lfu_node'[lfu_cache'[k].node].data = d
    BY <1>9, <1>10
  <2>3. Holds' = [x \in (DOMAIN lfu_cache \ ThrownKeys) \cup {k} |-> IF x = k THEN d ELSE Holds[x]]
    <3>1. Holds' = [x \in DOMAIN lfu_cache' |-> lfu_node'[lfu_cache'[x].node].data]
      BY DEF Holds
    <3> HIDE DEF Holds
    <3> QED BY <1>9, <2>1, <2>2, <3>1
  <2>4. Counts' = [x \in (DOMAIN lfu_cache \ ThrownKeys) \cup {k} |-> IF x = k THEN 1 ELSE Counts[x]]
    <3>1. Counts' = [x \in DOMAIN lfu_cache' |-> FreqOf(x)']
      BY Zenon DEF Counts
    <3> HIDE DEF Counts
    <3> QED BY <1>9, <1>13, <2>1, <3>1
  <2> QED BY <2>3, <2>4
<1>18. lfu_reply' = Frequent!Reply("put", NoData, {<<x, Holds[x]>> : x \in ThrownKeys})
  <2>1. lfu_reply' = Frequent!Reply("put", NoData, {<<lfu_node[o].key, lfu_node[o].data>> : o \in Thrown})
    BY Zenon DEF Frequent!Insert, Thrown
  <2>2. \A o \in Thrown : Holds[lfu_node[o].key] = lfu_node[o].data
    BY <1>11 DEF Holds, ThrownKeys
  <2>3. {<<lfu_node[o].key, lfu_node[o].data>> : o \in Thrown} = {<<x, Holds[x]>> : x \in ThrownKeys}
    <3> HIDE DEF Holds
    <3> QED BY <2>2 DEF ThrownKeys
  <2> QED BY <2>1, <2>3, Zenon
<1>19. Least!Put(k, d)
  <2>1. Least!Victims = ThrownKeys /\ Least!Cached = DOMAIN lfu_cache
    BY VictimsAre DEF Least!Cached
  <2> HIDE DEF Least!Victims
  <2>2. lfu_reply' = Least!Reply("put", NoData, {<<x, Holds[x]>> : x \in Least!Victims})
    BY <1>18, <2>1, SameInLeast, Zenon
  <2>3. used' = <<k>> \o Least!Dropping(used, Least!Victims)
    BY <1>15, <2>1, SameInLeast, Zenon
  <2>4. /\ Holds' = [x \in (Least!Cached \ Least!Victims) \cup {k} |-> IF x = k THEN d ELSE Holds[x]]
        /\ Counts' = [x \in (Least!Cached \ Least!Victims) \cup {k} |-> IF x = k THEN 1 ELSE Counts[x]]
        /\ k \notin Least!Cached
    BY <1>2, <1>17, <2>1, Zenon
  <2> QED BY <2>2, <2>3, <2>4, Zenon DEF Least!Put, Holds, Counts
<1> QED BY <1>3, <1>16, <1>19 DEF InStep

LEMMA LFUEraseImplements ==
  ASSUME InStep, HistoryStep, NEW ks, Frequent!Erase(ks)
  PROVE  /\ InStep'
         /\ Holds' = [x \in DOMAIN lfu_cache \ ks |-> Holds[x]]
         /\ Counts' = [x \in DOMAIN lfu_cache \ ks |-> Counts[x]]
         /\ used' = Dropping(used, ks)
<1> DEFINE gone == ks \cap DOMAIN lfu_cache
           out == NodesAt(lfu_cache, gone)
<1>1. /\ Placed(lfu_list, lfu_node, lfu_cache) /\ Remembered(used, lfu_list, lfu_node, lfu_cache)
      /\ BucketsSafe
  BY DEF InStep, BucketsSafe
<1>2. /\ BucketsSafe' /\ Lost(lfu_list, lfu_list', out)
      /\ lfu_node' = Without(lfu_node, out) /\ lfu_cache' = Without(lfu_cache, gone)
  BY <1>1, EraseBucketsIsSafe
<1>3. Placed(lfu_list', lfu_node', lfu_cache')
  BY <1>2 DEF BucketsSafe
<1>4. /\ DOMAIN lfu_cache' = DOMAIN lfu_cache \ ks
      /\ \A x \in DOMAIN lfu_cache \ ks : lfu_cache'[x] = lfu_cache[x]
  <2>1. /\ DOMAIN lfu_cache' = DOMAIN lfu_cache \ gone
        /\ \A x \in DOMAIN lfu_cache \ gone : lfu_cache'[x] = lfu_cache[x]
    BY <1>2, WithoutIs, Zenon
  <2>2. DOMAIN lfu_cache \ gone = DOMAIN lfu_cache \ ks
    OBVIOUS
  <2> QED BY <2>1, <2>2, Zenon
<1>5. /\ DOMAIN lfu_node' = DOMAIN lfu_node \ out
      /\ \A n \in DOMAIN lfu_node \ out : lfu_node'[n] = lfu_node[n]
  BY <1>2, WithoutIs, Zenon
<1>6. ASSUME NEW x \in DOMAIN lfu_cache \ ks
      PROVE  /\ lfu_cache[x].node \in DOMAIN lfu_node \ out
             /\ FreqOf(x) \in Nat /\ FreqOf(x)' = FreqOf(x)
  <2>1. \A y \in DOMAIN lfu_cache : /\ lfu_cache[y].node \in DOMAIN lfu_node
                                    /\ lfu_node[lfu_cache[y].node].key = y
    BY <1>1 DEF Placed
  <2>2. lfu_cache[x].node \notin out
    BY <2>1 DEF NodesAt
  <2>3. \A f : Sits(lfu_list, f, lfu_cache[x].node) => Sits(lfu_list', f, lfu_cache[x].node)
    <3> HIDE DEF out
    <3> QED BY <1>2, <2>2, Zenon DEF Lost
  <2>4. lfu_cache'[x].node = lfu_cache[x].node /\ x \in DOMAIN lfu_cache'
    BY <1>4
  <2> QED BY <1>2, <2>1, <2>2, <2>3, <2>4, StillAsOften
<1> HIDE DEF out
<1>7. UsedNow = {}
  <2>1. \A x \in DOMAIN lfu_cache' :
           x \in DOMAIN lfu_cache /\ FreqOf(x)' = FreqOf(x) /\ FreqOf(x) \in Nat
    BY <1>4, <1>6
  <2> QED BY <2>1, NobodyUsed
<1>8. used' = Dropping(used, ks)
  <2>1. DOMAIN lfu_cache \ DOMAIN lfu_cache' = ks \cap DOMAIN lfu_cache
    BY <1>4
  <2> QED BY <1>7, <2>1, HistoryOfNone, Zenon
<1>9. Remembered(used', lfu_list', lfu_node', lfu_cache')
  <2>1. \A x, y : InFront(lfu_list', x, y) => InFront(lfu_list, x, y)
    BY <1>2, Zenon DEF Lost
  <2>2. \A n \in DOMAIN lfu_node' : lfu_node'[n].key = lfu_node[n].key
    BY <1>5
  <2>3. Remembered(Dropping(used, ks), lfu_list', lfu_node', lfu_cache')
    BY <1>1, <1>3, <1>4, <2>1, <2>2, ErasedIsRemembered, Zenon
  <2> QED BY <1>8, <2>3, Zenon
<1>10. Holds' = [x \in DOMAIN lfu_cache \ ks |-> Holds[x]]
  <2>1. \A x \in DOMAIN lfu_cache \ ks : lfu_node'[lfu_cache'[x].node].data = Holds[x]
    BY <1>4, <1>5, <1>6 DEF Holds
  <2>2. Holds' = [x \in DOMAIN lfu_cache' |-> lfu_node'[lfu_cache'[x].node].data]
    BY DEF Holds
  <2> HIDE DEF Holds
  <2> QED BY <1>4, <2>1, <2>2
<1>11. Counts' = [x \in DOMAIN lfu_cache \ ks |-> Counts[x]]
  <2>1. \A x \in DOMAIN lfu_cache \ ks : FreqOf(x)' = Counts[x]
    BY <1>6 DEF Counts
  <2>2. Counts' = [x \in DOMAIN lfu_cache' |-> FreqOf(x)']
    BY Zenon DEF Counts
  <2> HIDE DEF Counts
  <2> QED BY <1>4, <2>1, <2>2
<1> QED BY <1>2, <1>8, <1>9, <1>10, <1>11 DEF InStep

LEMMA LFUForgetImplements ==
  ASSUME InStep, HistoryStep, NEW ks, NEW op, Frequent!Erase(ks),
         lfu_reply' = Frequent!Reply(op, NoData, {})
  PROVE  InStep' /\ Least!Forget(ks, op)
<1>1. /\ InStep'
      /\ Holds' = [x \in DOMAIN lfu_cache \ ks |-> Holds[x]]
      /\ Counts' = [x \in DOMAIN lfu_cache \ ks |-> Counts[x]]
      /\ used' = Dropping(used, ks)
  BY LFUEraseImplements
<1>2. Least!Cached = DOMAIN lfu_cache
  BY DEF Least!Cached
<1>3. /\ Least!Restrict(Holds, Least!Cached \ ks) = [x \in DOMAIN lfu_cache \ ks |-> Holds[x]]
      /\ Least!Restrict(Counts, Least!Cached \ ks) = [x \in DOMAIN lfu_cache \ ks |-> Counts[x]]
  BY <1>2, Zenon DEF Least!Restrict
<1>4. /\ Holds' = Least!Restrict(Holds, Least!Cached \ ks)
      /\ Counts' = Least!Restrict(Counts, Least!Cached \ ks)
      /\ used' = Least!Dropping(used, ks) /\ lfu_reply' = Least!Reply(op, NoData, {})
  BY <1>1, <1>3, SameInLeast, Zenon
<1> QED BY <1>1, <1>4, Zenon DEF Least!Forget, Holds, Counts

(* A call that changes nothing.                                            *)
LEMMA NothingForgotten ==
  ASSUME InStep, HistoryStep, UNCHANGED <<lfu_list, lfu_node, lfu_cache>>
  PROVE  InStep' /\ Holds' = Holds /\ Counts' = Counts /\ used' = used
<1>1. \A x : FreqOf(x)' = FreqOf(x)
  BY DEF FreqOf
<1>2. \A x \in DOMAIN lfu_cache : FreqOf(x) \in Nat
  <2> TAKE x \in DOMAIN lfu_cache
  <2>1. Placed(lfu_list, lfu_node, lfu_cache)
    BY DEF InStep, BucketsSafe
  <2>2. FreqAt(lfu_list, lfu_cache, x) \in 1 .. MaxFreq
    BY <2>1, FreqType
  <2> QED BY <2>2, FreqNow, MaxFreqAssumption
<1>3. UsedNow = {}
  BY <1>1, <1>2, NobodyUsed
<1>4. used' = Dropping(used, {})
  <2>1. DOMAIN lfu_cache \ DOMAIN lfu_cache' = {} \cap DOMAIN lfu_cache
    OBVIOUS
  <2> QED BY <1>3, <2>1, HistoryOfNone, Zenon
<1>5. used' = used
  <2>1. used \in Seq(Keys)
    BY DEF InStep, Remembered
  <2>2. Range(used) \cap {} = {}
    OBVIOUS
  <2> QED BY <1>4, <2>1, <2>2, DroppingNothing
<1>6. Counts' = Counts
  <2>1. Counts' = [x \in DOMAIN lfu_cache |-> FreqOf(x)']
    BY Zenon DEF Counts
  <2> QED BY <1>1, <2>1 DEF Counts
<1> QED BY <1>5, <1>6 DEF InStep, BucketsSafe, Holds

LEMMA LFUGetImplements ==
  ASSUME InStep, HistoryStep, NEW k \in Keys, Frequent!Get(k)
  PROVE  InStep' /\ Least!Get(k)
<1>1. CASE Frequent!Use(k) /\ UNCHANGED lfu_node
           /\ lfu_reply' = Frequent!Reply("get", lfu_node[lfu_cache[k].node].data, {})
  <2>1. BucketsSafe'
    BY GetIsSafe DEF InStep
  <2>2. /\ Least!Use(k) /\ Remembered(used', lfu_list', lfu_node', lfu_cache')
        /\ DOMAIN lfu_cache' = DOMAIN lfu_cache
        /\ \A x \in DOMAIN lfu_cache : lfu_cache'[x].node = lfu_cache[x].node
    BY <1>1, <2>1, UseImplements
  <2>3. k \in DOMAIN lfu_cache
    BY <1>1 DEF Frequent!Use, Frequent!Hit
  <2>4. Holds' = Holds
    BY <1>1, <2>2 DEF Holds
  <2>5. lfu_reply' = Least!Reply("get", Holds[k], {}) /\ k \in Least!Cached
    <3>1. Holds[k] = lfu_node[lfu_cache[k].node].data
      BY <2>3 DEF Holds
    <3>2. k \in Least!Cached
      BY <2>3 DEF Least!Cached
    <3> QED BY <1>1, <3>1, <3>2, SameInLeast, Zenon
  <2>6. Least!Get(k)
    BY <2>2, <2>4, <2>5, Zenon DEF Least!Get, Holds
  <2> QED BY <2>1, <2>2, <2>6 DEF InStep
<1>2. CASE /\ ~Frequent!Hit(k) /\ lfu_reply' = Frequent!Reply("get", NoData, {})
           /\ UNCHANGED <<lfu_list, lfu_node, lfu_cache>>
  <2>1. InStep' /\ Holds' = Holds /\ Counts' = Counts /\ used' = used
    BY <1>2, NothingForgotten
  <2>2. k \notin Least!Cached
    BY <1>2 DEF Least!Cached, Frequent!Hit
  <2>3. lfu_reply' = Least!Reply("get", NoData, {})
    BY <1>2, SameInLeast, Zenon
  <2>4. Least!Get(k)
    BY <2>1, <2>2, <2>3, Zenon DEF Least!Get, Holds, Counts
  <2> QED BY <2>1, <2>4
<1> QED BY <1>1, <1>2, Zenon DEF Frequent!Get

LEMMA LFUExistsImplements ==
  ASSUME InStep, HistoryStep, NEW k \in Keys, Frequent!Exists(k)
  PROVE  InStep' /\ Least!Exists(k)
<1>1. UNCHANGED <<lfu_list, lfu_node, lfu_cache>>
      /\ lfu_reply' = Frequent!Reply("exists", Frequent!Hit(k), {})
  BY Zenon DEF Frequent!Exists
<1>2. InStep' /\ Holds' = Holds /\ Counts' = Counts /\ used' = used
  BY <1>1, NothingForgotten
<1>3. Least!Cached = DOMAIN lfu_cache
  BY DEF Least!Cached
<1>4. lfu_reply' = Least!Reply("exists", k \in Least!Cached, {})
  BY <1>1, <1>3, SameInLeast, Zenon DEF Frequent!Hit
<1>5. Least!Exists(k)
  BY <1>2, <1>4, Zenon DEF Least!Exists, Holds, Counts
<1> QED BY <1>2, <1>5

LEMMA LFUReplaceImplements ==
  ASSUME InStep, HistoryStep, NEW k \in Keys, NEW d \in Data, Frequent!Replace(k, d)
  PROVE  InStep' /\ Least!Put(k, d)
<1> DEFINE n == lfu_cache[k].node
<1>1. /\ Frequent!Use(k) /\ lfu_node' = [lfu_node EXCEPT ![n].data = d]
      /\ lfu_reply' = Frequent!Reply("put", NoData, {})
  BY Zenon DEF Frequent!Replace
<1>2. BucketsSafe' /\ BucketsSafe
  BY ReplaceIsSafe DEF InStep
<1>3. /\ k \in DOMAIN lfu_cache /\ n \in DOMAIN lfu_node
      /\ \A x \in DOMAIN lfu_node : lfu_node[x] \in Entry
      /\ \A x \in DOMAIN lfu_cache : /\ lfu_cache[x].node \in DOMAIN lfu_node
                                     /\ lfu_node[lfu_cache[x].node].key = x
  <2>1. k \in DOMAIN lfu_cache
    BY <1>1 DEF Frequent!Use, Frequent!Hit
  <2> QED BY <1>2, <2>1 DEF BucketsSafe, Placed
<1>4. /\ DOMAIN lfu_node' = DOMAIN lfu_node
      /\ \A x \in DOMAIN lfu_node : lfu_node'[x].key = lfu_node[x].key
      /\ \A x \in DOMAIN lfu_node : x # n => lfu_node'[x] = lfu_node[x]
      /\ lfu_node'[n].data = d
  <2> HIDE DEF n
  <2> QED BY <1>1, <1>3 DEF Entry
<1>5. /\ Least!Use(k) /\ Remembered(used', lfu_list', lfu_node', lfu_cache')
      /\ DOMAIN lfu_cache' = DOMAIN lfu_cache
      /\ \A x \in DOMAIN lfu_cache : lfu_cache'[x].node = lfu_cache[x].node
  BY <1>1, <1>2, <1>4, UseImplements
<1>6. Holds' = [Holds EXCEPT ![k] = d]
  <2>1. Holds' = [x \in DOMAIN lfu_cache |-> lfu_node'[lfu_cache'[x].node].data]
    BY <1>5 DEF Holds
  <2>2. \A x \in DOMAIN lfu_cache : x # k => lfu_cache[x].node # n
    BY <1>3
  <2>3. \A x \in DOMAIN lfu_cache : x # k => lfu_node'[lfu_cache'[x].node].data = Holds[x]
    BY <1>3, <1>4, <1>5, <2>2 DEF Holds
  <2>4. lfu_node'[lfu_cache'[k].node].data = d
    BY <1>3, <1>4, <1>5
  <2>5. DOMAIN Holds = DOMAIN lfu_cache
    BY DEF Holds
  <2> HIDE DEF Holds
  <2> QED BY <1>3, <2>1, <2>3, <2>4, <2>5
<1>7. Least!Put(k, d)
  <2>1. lfu_reply' = Least!Reply("put", NoData, {})
    BY <1>1, SameInLeast, Zenon
  <2> QED BY <1>5, <1>6, <2>1, Zenon DEF Least!Put, Holds
<1> QED BY <1>2, <1>5, <1>7 DEF InStep

LEMMA LFUNextImplements ==
  ASSUME InStep, HistoryStep, Frequent!Next
  PROVE  InStep' /\ Least!Next
<1>1. ASSUME NEW k \in Keys, Frequent!Get(k) \/ Frequent!Exists(k) PROVE InStep' /\ Least!Next
  BY <1>1, LFUGetImplements, LFUExistsImplements, Zenon DEF Least!Next
<1>2. ASSUME NEW k \in Keys, Frequent!Invalidate(k) PROVE InStep' /\ Least!Next
  <2>1. InStep' /\ Least!Forget({k}, "invalidate")
    BY <1>2, LFUForgetImplements, Zenon DEF Frequent!Invalidate
  <2> QED BY <2>1, Zenon DEF Least!Invalidate, Least!Next
<1>3. ASSUME NEW k \in Keys, NEW d \in Data, Frequent!Put(k, d) PROVE InStep' /\ Least!Next
  <2>1. InStep' /\ Least!Put(k, d)
    BY <1>3, LFUReplaceImplements, LFUInsertImplements, Zenon DEF Frequent!Put
  <2> QED BY <2>1, Zenon DEF Least!Next
<1>4. ASSUME NEW lo \in Keys, NEW hi \in Keys, Frequent!InvalidateRange(lo, hi)
      PROVE  InStep' /\ Least!Next
  <2>1. /\ lo < hi /\ Frequent!Erase(lo .. (hi - 1))
        /\ lfu_reply' = Frequent!Reply("invalidate_range", NoData, {})
    BY <1>4, Zenon DEF Frequent!InvalidateRange
  <2>2. InStep' /\ Least!Forget(lo .. (hi - 1), "invalidate_range")
    BY <2>1, LFUForgetImplements, Zenon
  <2> QED BY <2>1, <2>2, Zenon DEF Least!InvalidateRange, Least!Next
<1> QED BY <1>1, <1>2, <1>3, <1>4, Zenon DEF Frequent!Next

LEMMA InStepInit == MCInit => InStep
<1> SUFFICES ASSUME MCInit PROVE InStep
  OBVIOUS
<1>1. lfu_list = <<>> /\ DOMAIN lfu_cache = {} /\ used = <<>>
  BY DEF MCInit, Frequent!Init
<1>2. \A x, y : ~InFront(lfu_list, x, y)
  BY <1>1 DEF InFront
<1>3. used \in Seq(Keys) /\ IsInjective(used) /\ Range(used) = DOMAIN lfu_cache
  BY <1>1 DEF IsInjective, Range
<1> QED BY <1>2, <1>3, LFUInitIsSafe DEF InStep, Remembered

LEMMA InStepStep == InStep /\ [MCNext]_<<kind, vars, lfuVars>> => InStep'
<1> SUFFICES ASSUME InStep, [MCNext]_<<kind, vars, lfuVars>> PROVE InStep'
  OBVIOUS
<1>1. CASE UNCHANGED lfuVars
  BY <1>1 DEF lfuVars, InStep, BucketsSafe
<1>2. CASE Frequent!Next /\ HistoryStep
  BY <1>2, LFUNextImplements
<1> QED BY <1>1, <1>2 DEF MCNext, HistoryStep

(* generic_lfu is an exact least-frequently-used cache: every call answers *)
(* as that of AbstractLFU does, and a full cache throws out the entry that *)
(* was used least often and, among those, the one used longest ago.        *)
THEOREM ExactLFU == MCSpec => ImplementsLFU
<1>1. MCInit => Least!Init
  BY DEF MCInit, Frequent!Init, Least!Init, Least!Reply, Least!Created, Frequent!Created, Frequent!Reply
<1>2. InStep /\ [MCNext]_<<kind, vars, lfuVars>>
        => [kind = "generic_lfu" => [Least!Next]_(Least!vars)]_<<kind, vars, lfuVars>>
  <2>1. ASSUME InStep, kind = "generic_lfu", MCNext PROVE Least!Next
    <3>1. Frequent!Next /\ HistoryStep
      BY <2>1 DEF MCNext, HistoryStep
    <3> QED BY <2>1, <3>1, LFUNextImplements
  <2> QED BY <2>1
<1> QED BY <1>1, <1>2, InStepInit, InStepStep, PTL DEF MCSpec, ImplementsLFU
=============================================================================
