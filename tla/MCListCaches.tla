---------------------------- MODULE MCListCaches -----------------------------
(***************************************************************************)
(* generic_lru and generic_lfu, the caches that keep lists and a map of    *)
(* iterators into them, for TLC: an instance is one or the other.          *)
(***************************************************************************)
EXTENDS GenericLRU

CONSTANTS Buckets, MaxFreq

ASSUME MaxFreqAssumption == MaxFreq \in Nat \ {0}

VARIABLES
    kind,       \* which cache the caller has created
    lfu_list, lfu_node, lfu_cache, lfu_reply,
    used        \* history: the keys of the LFU cache, the last used first

Frequent == INSTANCE LFU WITH node <- lfu_node, cache <- lfu_cache, reply <- lfu_reply

(* 0 for an iterator that dangles, of which LFUSafe knows.                 *)
FreqOf(k) ==
    LET b == lfu_cache[k].bucket
    IN  IF b \in Frequent!BucketIds(lfu_list)
        THEN lfu_list[Frequent!At(lfu_list, b)].freq ELSE 0

(* The key that a step used, if any: it is new, or its frequency rose.     *)
UsedNow == {k \in DOMAIN lfu_cache' : k \notin DOMAIN lfu_cache \/ FreqOf(k)' > FreqOf(k)}

lfuVars == <<lfu_list, lfu_node, lfu_cache, lfu_reply, used>>

MCInit == /\ kind \in {"generic_lru", "generic_lfu"}
          /\ Init
          /\ Frequent!Init /\ used = <<>>

MCNext ==
    /\ UNCHANGED kind
    /\ \/ /\ kind = "generic_lru"
          /\ Next
          /\ UNCHANGED lfuVars
       \/ /\ kind = "generic_lfu"
          /\ Frequent!Next
          /\ used' = SetToSeq(UsedNow)
                      \o Dropping(used, UsedNow \cup (DOMAIN lfu_cache \ DOMAIN lfu_cache'))
          /\ UNCHANGED vars

MCSpec == MCInit /\ [][MCNext]_<<kind, vars, lfuVars>>

(* The buckets of generic_lfu are in the order of their frequencies, one   *)
(* each and none empty, and every iterator leads to the node of its key.   *)
LFUSafe == Frequent!SafeCache

Least == INSTANCE AbstractLFU WITH
    content <- [k \in DOMAIN lfu_cache |-> lfu_node[lfu_cache[k].node].data],
    freq    <- [k \in DOMAIN lfu_cache |-> FreqOf(k)],
    order   <- used,
    reply   <- lfu_reply

(* generic_lru is an exact least-recently-used cache: the entries that it  *)
(* throws out when full leave in the order in which they were last used.   *)
(* EvictValidEntriesInOrder tests this for entries never looked up again.  *)
ImplementsLRU ==
    Exact!Init /\ [][kind = "generic_lru" => [Exact!Next]_(Exact!vars)]_(<<kind, vars, lfuVars>>)

(* generic_lfu throws out the least frequently used entry and, among those *)
(* used equally often, the least recently used one.  The code keeps the    *)
(* order of uses only within a bucket; used keeps it for all keys, so that *)
(* the two can be compared.                                                *)
ImplementsLFU ==
    Least!Init /\ [][kind = "generic_lfu" => [Least!Next]_(Least!vars)]_(<<kind, vars, lfuVars>>)

(* Buffers and addresses are interchangeable.                              *)
Symmetry == Permutations(Data) \cup Permutations(Nodes) \cup Permutations(Buckets)
=============================================================================
