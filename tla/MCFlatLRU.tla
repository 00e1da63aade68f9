------------------------------ MODULE MCFlatLRU ------------------------------
(***************************************************************************)
(* FlatLRU for TLC, with the two specifications it implements.             *)
(***************************************************************************)
EXTENDS FlatLRU

VARIABLE tainted   \* history: whether the caller has invalidated anything

MCInit == Init /\ tainted = FALSE

MCNext == /\ Next
          /\ tainted' = (tainted \/ reply'.op \in {"invalidate", "invalidate_range"})

MCSpec == MCInit /\ [][MCNext]_<<vars, tainted>>

Symmetry == Permutations(Data)

Live == {s \in Range(cache) : IsValid(s)}

Kept == {s \in Range(cache) : ~IsValid(s) /\ s.data # NoData}

LiveAt(k) == {s \in Live : s.key = k}

DataOf(slots) == (CHOOSE s \in slots : TRUE).data

(* Without invalidations the order of use can be read off the counters.    *)
Older(a, b) == a.refs < b.refs

Exact == INSTANCE AbstractLRU WITH
    content <- [k \in {s.key : s \in Live} |-> DataOf(LiveAt(k))],
    order   <- LET aged == SortSeq(cache, Older)
               IN  [i \in DOMAIN aged |-> aged[i].key]

Forgetful == INSTANCE ForgetfulCache WITH
    store <- [k \in Keys |-> IF LiveAt(k) # {} THEN DataOf(LiveAt(k)) ELSE NoData],
    lost  <- {<<s.key, s.data>> : s \in Kept}

(* Until the first invalidation flat_lru is an exact least-recently-used   *)
(* cache.                                                                  *)
ImplementsExactLRU ==
    Exact!Init /\ [][~tainted' => [Exact!Next]_(Exact!vars)]_<<vars, tainted>>

(* With invalidations it still never shows a stale or an invalidated datum *)
(* and never evicts while it has room, but an insertion may forget an entry*)
(* without handing it out.                                                 *)
ImplementsForgetfulCache == Forgetful!Spec
=============================================================================
