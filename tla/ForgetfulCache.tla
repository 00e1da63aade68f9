--------------------------- MODULE ForgetfulCache ----------------------------
(***************************************************************************)
(* What flat_lru promises once entries may be invalidated: a key shows the *)
(* datum it was last given or nothing.  Inserting a missing key may forget *)
(* one other entry without telling the caller; the buffer of a forgotten   *)
(* entry is handed out by a later insertion, or dropped when a range that  *)
(* holds its key is invalidated.                                           *)
(***************************************************************************)
EXTENDS CacheParameters

VARIABLES
    store,   \* function: a key |-> the datum it shows, NoData for none
    lost,    \* the pairs forgotten whose buffers the cache still owns
    reply    \* the last call and what it returned

vars == <<store, lost, reply>>

Cached == {k \in Keys : store[k] # NoData}

AtMostOne(S) == {{}} \cup {{x} : x \in S}

Full == Cardinality(Cached) = LenMax

Pairs(ks) == {<<k, store[k]>> : k \in ks}

Init == /\ store = [k \in Keys |-> NoData]
        /\ lost  = {}
        /\ reply = Created

Find(k) == /\ reply' = Reply("find", store[k], {})
           /\ UNCHANGED <<store, lost>>

FindMutable(k, d) ==
    /\ reply' = Reply("find_mutable", store[k], {})
    /\ store' = IF k \in Cached THEN [store EXCEPT ![k] = d] ELSE store
    /\ UNCHANGED lost

Exists(k) == /\ reply' = Reply("exists", k \in Cached, {})
             /\ UNCHANGED <<store, lost>>

Overwrite(k, d) ==
    /\ k \in Cached
    /\ reply' = Reply("update", NoData, Pairs({k}))
    /\ store' = [store EXCEPT ![k] = d]
    /\ UNCHANGED lost

(* out is handed to the caller: an entry only if the cache is full of live *)
(* entries, else the buffer of one forgotten before.  forgot is the entry  *)
(* lost by the way, which takes a slot that is not live.                   *)
Insert(k, d) ==
    /\ k \notin Cached
    /\ \E out \in AtMostOne(IF Full THEN Pairs(Cached) ELSE lost),
          forgot \in AtMostOne(Cached) :
          /\ reply' = Reply("update", NoData, out)
          /\ Full => out # {} /\ forgot = {}
          /\ store' = [x \in Keys |-> IF x = k THEN d
                                      ELSE IF x \in forgot \/ (Full /\ <<x, store[x]>> \in out)
                                           THEN NoData ELSE store[x]]
          /\ lost'  = (lost \ out) \cup Pairs(forgot)

Invalidate(k) == /\ reply' = Reply("invalidate", NoData, {})
                 /\ store' = [store EXCEPT ![k] = NoData]
                 /\ UNCHANGED lost

InvalidateRange(lo, hi) ==
    /\ lo < hi
    /\ reply' = Reply("invalidate_range", NoData, {})
    /\ store' = [k \in Keys |-> IF k \in lo .. (hi - 1) THEN NoData ELSE store[k]]
    /\ lost'  = {p \in lost : p[1] \notin lo .. (hi - 1)}

Next == \/ \E k \in Keys : Find(k) \/ Exists(k) \/ Invalidate(k)
        \/ \E k \in Keys, d \in Data : FindMutable(k, d) \/ Overwrite(k, d) \/ Insert(k, d)
        \/ \E lo, hi \in Keys : InvalidateRange(lo, hi)

Spec == Init /\ [][Next]_vars
=============================================================================
