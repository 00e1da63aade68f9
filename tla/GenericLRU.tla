----------------------------- MODULE GenericLRU ------------------------------
(***************************************************************************)
(* generic_lru of cache/lru/generic_lru.hpp: an LRU cache kept twice, as a *)
(* list of entries in the order of their last uses and as a hash map from  *)
(* a key to an iterator into that list.  What can go wrong is a map entry  *)
(* that outlives its list node, or a node no map entry leads to: a node is *)
(* therefore modelled with its identity, which splicing preserves and      *)
(* erasing gives back to the allocator.                                    *)
(***************************************************************************)
EXTENDS CacheParameters

CONSTANT Nodes   \* the addresses a list node may get

VARIABLES
    recent_list,  \* recent_list_: the nodes, the most recently used first
    node,         \* what each allocated node holds: [key, data]
    cache,        \* cache_: a cached key |-> the node its iterator points to
    reply         \* the last call and what it returned to its caller

vars == <<recent_list, node, cache, reply>>

Entry == [key : Keys, data : Data]

Pair(n) == <<node[n].key, node[n].data>>

-----------------------------------------------------------------------------
Hit(k) == k \in DOMAIN cache

full == ~(Cardinality(DOMAIN cache) < LenMax)

(* list::splice of one node to the front.                                  *)
touch(n) == recent_list' = <<n>> \o Dropping(recent_list, {n})

Init == /\ recent_list = <<>>
        /\ node  = [n \in {} |-> NoData]
        /\ cache = [k \in {} |-> NoData]
        /\ reply = Created

Miss(op, k) == /\ ~Hit(k)
               /\ reply' = Reply(op, NoData, {})
               /\ UNCHANGED <<recent_list, node, cache>>

(* Mutant: a lookup does not count as a use.                               *)
FindUntouched(k) ==
    \/ /\ Hit(k)
       /\ reply' = Reply("find", node[cache[k]].data, {})
       /\ UNCHANGED <<recent_list, node, cache>>
    \/ Miss("find", k)

Find(k) ==
    \/ /\ Hit(k)
       /\ touch(cache[k])
       /\ reply' = Reply("find", node[cache[k]].data, {})
       /\ UNCHANGED <<node, cache>>
    \/ Miss("find", k)

(* find_mutable, and the caller's write through the span it gives.         *)
FindMutable(k, d) ==
    \/ /\ Hit(k)
       /\ touch(cache[k])
       /\ node'  = [node EXCEPT ![cache[k]].data = d]
       /\ reply' = Reply("find_mutable", node[cache[k]].data, {})
       /\ UNCHANGED cache
    \/ Miss("find_mutable", k)

Exists(k) == /\ reply' = Reply("exists", Hit(k), {})
             /\ UNCHANGED <<recent_list, node, cache>>

(* put() of a key that is there: the old datum goes back to the caller.    *)
Replace(k, d) ==
    /\ Hit(k)
    /\ touch(cache[k])
    /\ node'  = [node EXCEPT ![cache[k]].data = d]
    /\ reply' = Reply("update", NoData, {Pair(cache[k])})
    /\ UNCHANGED cache

(* Mutant: the key of the node thrown out stays in the map.                *)
InsertKeepingKey(k, d) ==
    LET out == IF full THEN {Last(recent_list)} ELSE {}
    IN  /\ ~Hit(k)
        /\ \E n \in Nodes \ (DOMAIN node \ out) :
              /\ recent_list' = <<n>> \o (IF full THEN Front(recent_list) ELSE recent_list)
              /\ node'  = With(Without(node, out), n, [key |-> k, data |-> d])
              /\ cache' = With(cache, k, n)
        /\ reply' = Reply("update", NoData, {Pair(o) : o \in out})

(* put() of a key that is not: when the map is full the last node goes,    *)
(* its key first, then a node is allocated at the front.                   *)
Insert(k, d) ==
    LET out == IF full THEN {Last(recent_list)} ELSE {}
    IN  /\ ~Hit(k)
        /\ \E n \in Nodes \ (DOMAIN node \ out) :
              /\ recent_list' = <<n>> \o (IF full THEN Front(recent_list) ELSE recent_list)
              /\ node'  = With(Without(node, out), n, [key |-> k, data |-> d])
              /\ cache' = With(Without(cache, {node[o].key : o \in out}), k, n)
        /\ reply' = Reply("update", NoData, {Pair(o) : o \in out})

Update(k, d) == Replace(k, d) \/ Insert(k, d)

(* Both invalidate() and invalidate_range() erase, key by key, the list    *)
(* node and then the map entry of each key that is there.                  *)
Erase(ks) ==
    LET gone == {cache[k] : k \in ks \cap DOMAIN cache}
    IN  /\ recent_list' = Dropping(recent_list, gone)
        /\ node'  = Without(node, gone)
        /\ cache' = Without(cache, ks)

Invalidate(k) == /\ Erase({k})
                 /\ reply' = Reply("invalidate", NoData, {})

InvalidateRange(lo, hi) == /\ lo < hi
                           /\ Erase(lo .. (hi - 1))
                           /\ reply' = Reply("invalidate_range", NoData, {})

Next == \/ \E k \in Keys : Find(k) \/ Exists(k) \/ Invalidate(k)
        \/ \E k \in Keys, d \in Data : FindMutable(k, d) \/ Update(k, d)
        \/ \E lo, hi \in Keys : InvalidateRange(lo, hi)

Spec == Init /\ [][Next]_vars
-----------------------------------------------------------------------------
TypeOK == /\ recent_list \in Seq(Nodes)
          /\ DOMAIN node \subseteq Nodes /\ \A n \in DOMAIN node : node[n] \in Entry
          /\ DOMAIN cache \subseteq Keys /\ \A k \in DOMAIN cache : cache[k] \in Nodes

(* The list and the map describe the same entries: no node is linked twice *)
(* or leaked, every iterator in the map points to a linked node that holds *)
(* its key, and every node is reachable from the map.                      *)
ListMatchesMap ==
    /\ IsInjective(recent_list)
    /\ Range(recent_list) = DOMAIN node
    /\ \A k \in DOMAIN cache : cache[k] \in DOMAIN node /\ node[cache[k]].key = k
    /\ \A n \in DOMAIN node : node[n].key \in DOMAIN cache /\ cache[node[n].key] = n

WithinLenMax == Cardinality(DOMAIN cache) <= LenMax

SafeCache == TypeOK /\ ListMatchesMap /\ WithinLenMax

Exact == INSTANCE AbstractLRU WITH
    content <- [k \in DOMAIN cache |-> node[cache[k]].data],
    order   <- [i \in DOMAIN recent_list |-> node[recent_list[i]].key]
=============================================================================
