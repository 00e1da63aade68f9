--------------------------- MODULE CacheParameters ---------------------------
(***************************************************************************)
(* What the caches of cache/lru and cache/lfu, and their abstract          *)
(* specifications, have in common: the values they are given and the shape *)
(* of what a call returns.                                                 *)
(***************************************************************************)
EXTENDS Integers, SequencesExt, Dropping

CONSTANTS
    Keys,     \* the integer keys callers use
    Data,     \* the data callers hand in; buffers are never null
    NoData,   \* the null buffer, and the empty view that a missed lookup gives
    LenMax    \* how many entries the cache may hold

(* create() returns no cache at all for a length of zero.                  *)
ASSUME LenMaxAssumption == LenMax \in Nat \ {0}
ASSUME KeysAssumption   == Keys \subseteq Nat
ASSUME DataAssumption   == NoData \notin Data

(* The last call and what it returned: got by a lookup, evicted (a set of  *)
(* at most one pair, for an optional) by an insertion.                     *)
Reply(op, got, evicted) ==
    [op |-> op, got |-> got, evicted |-> evicted]

(* What a hash map f, or the heap, is without some of its keys, and with a *)
(* new one.                                                                *)
Without(f, gone) == Restrict(f, DOMAIN f \ gone)

With(f, x, y) == [z \in DOMAIN f \cup {x} |-> IF z = x THEN y ELSE f[z]]

Created == Reply("create", NoData, {})
=============================================================================
