----------------------------- MODULE AbstractLRU -----------------------------
(***************************************************************************)
(* What a least-recently-used cache promises its callers, independent of   *)
(* how it is stored: which keys it holds, the datum each was last given,   *)
(* and the order of their last uses.  GenericLRU implements it, and so     *)
(* does FlatLRU as long as nobody invalidates an entry.                    *)
(***************************************************************************)
EXTENDS CacheParameters

VARIABLES
    content,  \* function: the cached keys |-> the datum each holds
    order,    \* the cached keys, the most recently used first
    reply     \* the last call and what it returned

vars == <<content, order, reply>>

Cached == DOMAIN content

Used(k) == <<k>> \o Dropping(order, {k})

Init == /\ content = [k \in {} |-> NoData]
        /\ order   = <<>>
        /\ reply   = Created

(* A lookup makes the key the most recently used one.                      *)
Find(k) ==
    \/ /\ k \in Cached
       /\ reply' = Reply("find", content[k], {})
       /\ order' = Used(k)
       /\ UNCHANGED content
    \/ /\ k \notin Cached
       /\ reply' = Reply("find", NoData, {})
       /\ UNCHANGED <<content, order>>

(* A lookup through which the caller overwrites the datum.                 *)
FindMutable(k, d) ==
    \/ /\ k \in Cached
       /\ reply'   = Reply("find_mutable", content[k], {})
       /\ order'   = Used(k)
       /\ content' = [content EXCEPT ![k] = d]
    \/ /\ k \notin Cached
       /\ reply' = Reply("find_mutable", NoData, {})
       /\ UNCHANGED <<content, order>>

(* Asking is not using.                                                    *)
Exists(k) == /\ reply' = Reply("exists", k \in Cached, {})
             /\ UNCHANGED <<content, order>>

(* The pair that an insertion throws out: the old datum of the same key,   *)
(* else, when the cache is full, the least recently used entry.            *)
Victims(k) == IF k \in Cached THEN {k}
              ELSE IF Len(order) = LenMax THEN {Last(order)}
              ELSE {}

Update(k, d) ==
    LET out  == Victims(k)
        kept == (Cached \ out) \cup {k}
    IN  /\ reply'   = Reply("update", NoData, {<<x, content[x]>> : x \in out})
        /\ content' = [x \in kept |-> IF x = k THEN d ELSE content[x]]
        /\ order'   = <<k>> \o Dropping(order, out)

Forget(gone, op) ==
    /\ reply'   = Reply(op, NoData, {})
    /\ content' = [x \in Cached \ gone |-> content[x]]
    /\ order'   = Dropping(order, gone)

Invalidate(k) == Forget({k}, "invalidate")

InvalidateRange(lo, hi) == /\ lo < hi
                           /\ Forget(lo .. (hi - 1), "invalidate_range")

Next == \/ \E k \in Keys : Find(k) \/ Exists(k) \/ Invalidate(k)
        \/ \E k \in Keys, d \in Data : FindMutable(k, d) \/ Update(k, d)
        \/ \E lo, hi \in Keys : InvalidateRange(lo, hi)

Spec == Init /\ [][Next]_vars
=============================================================================
