--------------------------------- MODULE LFU ---------------------------------
(***************************************************************************)
(* generic_lfu of cache/lfu/lfu.hpp: a list of buckets, one per use count  *)
(* that some entry has, in increasing order; each bucket is a list of the  *)
(* entries used that often, the most recently used first; and a hash map   *)
(* from a key to the pair of iterators (bucket, entry).  Buckets and nodes *)
(* carry their identity, so that an iterator can dangle.                   *)
(***************************************************************************)
EXTENDS CacheParameters

CONSTANTS
    Nodes,    \* the addresses a node of a bucket may get
    Buckets,  \* the addresses a bucket may get
    MaxFreq   \* bound of the model: no entry is used more often

VARIABLES
    lfu_list,  \* lfu_list_: the buckets [id, freq, nodes], lowest freq first
    node,      \* what each allocated node holds: [key, data]
    cache,     \* cache_: a cached key |-> its iterators [bucket, node]
    reply      \* the last call and what it returned to its caller

vars == <<lfu_list, node, cache, reply>>

-----------------------------------------------------------------------------
Hit(k) == k \in DOMAIN cache

full == ~(Cardinality(DOMAIN cache) < LenMax)

BucketIds(list) == {b.id : b \in Range(list)}

At(list, b) == CHOOSE i \in DOMAIN list : list[i].id = b

Bucket(b, freq) == [id |-> b, freq |-> freq, nodes |-> <<>>]

(* Mutant: a node joins its bucket behind those used before it.            *)
AddLast(list, i, n) == [list EXCEPT ![i].nodes = Append(@, n)]

AddFirst(list, i, n) == [list EXCEPT ![i].nodes = <<n>> \o @]

(* lfu_detach: a bucket that becomes empty goes with its last node.        *)
lfu_detach(list, b, n) ==
    LET i    == At(list, b)
        rest == Dropping(list[i].nodes, {n})
    IN  IF rest = <<>> THEN RemoveAt(list, i) ELSE [list EXCEPT ![i].nodes = rest]

(* Whether a node of bucket i finds no bucket of the next frequency.       *)
LacksNext(list, i) == i = Len(list) \/ list[i].freq + 1 < list[i + 1].freq

LacksFirst(list) == list = <<>> \/ Head(list).freq > 1

(* The address of a bucket, if one is made: any that is free.              *)
Fresh(list, needed) == IF needed THEN Buckets \ BucketIds(list) ELSE {NoData}

(* lfu_attach: into the bucket of frequency 1, made from new if there is   *)
(* none.                                                                   *)
lfu_attach(list, new, n) ==
    AddFirst(IF LacksFirst(list) THEN <<Bucket(new, 1)>> \o list ELSE list, 1, n)

(* touch: the node moves to the bucket of the next frequency, made from    *)
(* new if there is none, and its old bucket goes if it was the only one.   *)
(* The iterators returned are to the next bucket and its first node.       *)
touch(list, b, n, new) ==
    LET i      == At(list, b)
        f      == list[i].freq + 1
        opened == IF LacksNext(list, i) THEN InsertAt(list, i + 1, Bucket(new, f)) ELSE list
    IN  [list |-> lfu_detach(AddFirst(opened, i + 1, n), b, n),
         at   |-> [bucket |-> opened[i + 1].id, node |-> n]]

-----------------------------------------------------------------------------
Init == /\ lfu_list = <<>>
        /\ node  = [n \in {} |-> NoData]
        /\ cache = [k \in {} |-> NoData]
        /\ reply = Created

(* Mutant: the iterators that touch() returns are dropped.                 *)
UseKeepingIterators(k) ==
    LET b == cache[k].bucket
        n == cache[k].node
    IN  /\ Hit(k)
        /\ lfu_list[At(lfu_list, b)].freq < MaxFreq
        /\ \E new \in Fresh(lfu_list, LacksNext(lfu_list, At(lfu_list, b))) :
              lfu_list' = touch(lfu_list, b, n, new).list
        /\ cache' = cache

(* What get() and put() of a key that is there have in common: the node is *)
(* touched and the map gets the iterators that touch() returned.           *)
Use(k) ==
    LET b == cache[k].bucket
        n == cache[k].node
    IN  /\ Hit(k)
        /\ lfu_list[At(lfu_list, b)].freq < MaxFreq
        /\ \E new \in Fresh(lfu_list, LacksNext(lfu_list, At(lfu_list, b))) :
              LET t == touch(lfu_list, b, n, new)
              IN  lfu_list' = t.list /\ cache' = [cache EXCEPT ![k] = t.at]

Get(k) ==
    \/ /\ Use(k)
       /\ reply' = Reply("get", node[cache[k].node].data, {})
       /\ UNCHANGED node
    \/ /\ ~Hit(k)
       /\ reply' = Reply("get", NoData, {})
       /\ UNCHANGED <<lfu_list, node, cache>>

Exists(k) == /\ reply' = Reply("exists", Hit(k), {})
             /\ UNCHANGED <<lfu_list, node, cache>>

Replace(k, d) ==
    /\ Use(k)
    /\ node'  = [node EXCEPT ![cache[k].node].data = d]
    /\ reply' = Reply("put", NoData, {})

(* The last node of the first bucket makes room when the cache is full.    *)
Insert(k, d) ==
    LET first == Head(lfu_list)
        out   == IF full THEN {Last(first.nodes)} ELSE {}
        list  == IF full THEN lfu_detach(lfu_list, first.id, Last(first.nodes))
                 ELSE lfu_list
    IN  /\ ~Hit(k)
        /\ \E n \in Nodes \ (DOMAIN node \ out), new \in Fresh(list, LacksFirst(list)) :
              /\ lfu_list' = lfu_attach(list, new, n)
              /\ node'  = With(Without(node, out), n, [key |-> k, data |-> d])
              /\ cache' = With(Without(cache, {node[o].key : o \in out}),
                               k, [bucket |-> Head(lfu_list').id, node |-> n])
        /\ reply' = Reply("put", NoData, {<<node[o].key, node[o].data>> : o \in out})

Put(k, d) == Replace(k, d) \/ Insert(k, d)

(* invalidate() and invalidate_range() detach, key by key, the entries of  *)
(* the keys that are there and erase them from the map.                    *)
Erase(ks) ==
    LET gone == ks \cap DOMAIN cache
    IN  /\ lfu_list' = FoldSet(LAMBDA k, list :
                                  lfu_detach(list, cache[k].bucket, cache[k].node),
                               lfu_list, gone)
        /\ node'  = Without(node, {cache[k].node : k \in gone})
        /\ cache' = Without(cache, gone)

Invalidate(k) == /\ Erase({k})
                 /\ reply' = Reply("invalidate", NoData, {})

InvalidateRange(lo, hi) == /\ lo < hi
                           /\ Erase(lo .. (hi - 1))
                           /\ reply' = Reply("invalidate_range", NoData, {})

Next == \/ \E k \in Keys : Get(k) \/ Exists(k) \/ Invalidate(k)
        \/ \E k \in Keys, d \in Data : Put(k, d)
        \/ \E lo, hi \in Keys : InvalidateRange(lo, hi)

Spec == Init /\ [][Next]_vars
-----------------------------------------------------------------------------
TypeOK ==
    /\ lfu_list \in Seq([id : Buckets, freq : 1 .. MaxFreq, nodes : Seq(Nodes)])
    /\ DOMAIN node \subseteq Nodes
    /\ \A n \in DOMAIN node : node[n] \in [key : Keys, data : Data]
    /\ DOMAIN cache \subseteq Keys
    /\ \A k \in DOMAIN cache : cache[k] \in [bucket : Buckets, node : Nodes]

(* The buckets are in strictly increasing order of their frequency and     *)
(* none is empty, so the victim is in the first one: what lfu_detach()     *)
(* without arguments relies on when it takes the end of the first bucket.  *)
BucketsOrdered ==
    /\ \A i, j \in DOMAIN lfu_list : i < j => lfu_list[i].freq < lfu_list[j].freq
    /\ \A i \in DOMAIN lfu_list : lfu_list[i].nodes # <<>>

(* Each allocated node is in exactly one place of exactly one bucket, and  *)
(* the iterators of its key in the map lead to that bucket and that node;  *)
(* the map has no other entry, and never more than LenMax.                 *)
IteratorsValid ==
    /\ \A i, j \in DOMAIN lfu_list :
          /\ i # j => /\ lfu_list[i].id # lfu_list[j].id
                      /\ Range(lfu_list[i].nodes) \cap Range(lfu_list[j].nodes) = {}
          /\ IsInjective(lfu_list[i].nodes)
    /\ DOMAIN node = UNION {Range(b.nodes) : b \in Range(lfu_list)}
    /\ \A b \in Range(lfu_list) : \A n \in Range(b.nodes) :
          node[n].key \in DOMAIN cache /\ cache[node[n].key] = [bucket |-> b.id, node |-> n]
    /\ \A k \in DOMAIN cache : cache[k].node \in DOMAIN node /\ node[cache[k].node].key = k
    /\ Cardinality(DOMAIN cache) <= LenMax

SafeCache == TypeOK /\ BucketsOrdered /\ IteratorsValid
=============================================================================
