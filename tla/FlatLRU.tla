------------------------------- MODULE FlatLRU -------------------------------
(***************************************************************************)
(* flat_lru of cache/lru/flat_lru.hpp: an LRU cache kept in one vector of  *)
(* slots sorted by key.  A slot's age counter refs orders the entries from *)
(* the most recently used (0) on; refs = LenMax marks a slot invalid.  An  *)
(* invalid slot stays in the vector, and keeps its place in the sort.      *)
(*                                                                         *)
(* Indices are those of TLA+ sequences: one more than the code's.          *)
(***************************************************************************)
EXTENDS CacheParameters

VARIABLES
    cache,   \* cache_: a sequence of [key, data, refs]
    reply    \* the last call and what it returned to its caller

vars == <<cache, reply>>

Slot == [key : Keys, data : Data \cup {NoData}, refs : 0 .. LenMax]

-----------------------------------------------------------------------------
IsValid(slot) == slot.refs # LenMax

Invalidated(slot) == [slot EXCEPT !.refs = LenMax, !.data = NoData]

(* std::ranges::lower_bound over the whole vector, with the projection to  *)
(* the key: the first slot whose key is not below k, else one past the end.*)
LowerBound(k) ==
    CHOOSE i \in 1 .. Len(cache) + 1 :
        /\ \A j \in 1 .. i - 1 : cache[j].key < k
        /\ i <= Len(cache) => cache[i].key >= k

(* Mutant: the validity of the slot found is not looked at.                *)
HitInvalidToo(k) == LET i == LowerBound(k)
                    IN  i <= Len(cache) /\ cache[i].key = k

Hit(k) == LET i == LowerBound(k)
          IN  i <= Len(cache) /\ cache[i].key = k /\ IsValid(cache[i])

(* Mutant: the scan for the oldest slot is left out.                       *)
EvictFirst == 1

(* The slot to recycle in a full vector: the first one of the highest refs.*)
(* No refs exceeds that of an invalid slot, so this is the first invalid   *)
(* slot where there is one; there the code's scan stops early.             *)
EvictIndex ==
    CHOOSE i \in DOMAIN cache :
        \A j \in DOMAIN cache : /\ cache[j].refs <= cache[i].refs
                                /\ j < i => cache[j].refs < cache[i].refs

(* Slot i becomes the youngest; those that were younger than it age by 1.  *)
Touch(slots, i) ==
    [j \in DOMAIN slots |->
        IF j = i THEN [slots[j] EXCEPT !.refs = 0]
        ELSE IF slots[j].refs < slots[i].refs THEN [slots[j] EXCEPT !.refs = @ + 1]
        ELSE slots[j]]

(* std::rotate: the slot at position e moves to position i, and the slots  *)
(* between the two move over by one.                                       *)
Rotate(slots, e, i) == InsertAt(RemoveAt(slots, e), i, slots[e])

-----------------------------------------------------------------------------
Init == cache = <<>> /\ reply = Created

Find(k) ==
    LET i == LowerBound(k)
    IN  \/ /\ Hit(k)
           /\ cache' = Touch(cache, i)
           /\ reply' = Reply("find", cache[i].data, {})
        \/ /\ ~Hit(k)
           /\ reply' = Reply("find", NoData, {})
           /\ UNCHANGED cache

(* find_mutable, and the caller's write through the span it gives.         *)
FindMutable(k, d) ==
    LET i == LowerBound(k)
    IN  \/ /\ Hit(k)
           /\ cache' = Touch([cache EXCEPT ![i].data = d], i)
           /\ reply' = Reply("find_mutable", cache[i].data, {})
        \/ /\ ~Hit(k)
           /\ reply' = Reply("find_mutable", NoData, {})
           /\ UNCHANGED cache

Exists(k) == /\ reply' = Reply("exists", Hit(k), {})
             /\ UNCHANGED cache

(* The common end of update when a slot is recycled: its key and data are  *)
(* exchanged, a non-null old datum goes to the caller with its old key,    *)
(* and the slot is touched from the age it had.                            *)
Recycle(slots, i, k, d) ==
    /\ cache' = Touch([slots EXCEPT ![i] = [@ EXCEPT !.key = k, !.data = d]], i)
    /\ reply' = Reply("update", NoData,
                      IF slots[i].data = NoData THEN {}
                      ELSE {<<slots[i].key, slots[i].data>>})

(* The slot found is the key's own, or an invalid one in the right place.  *)
UpdateInPlace(k, d) ==
    LET i == LowerBound(k)
    IN  /\ i <= Len(cache)
        /\ Hit(k) \/ ~IsValid(cache[i])
        /\ Recycle(cache, i, k, d)

NeedsSlot(k) == LET i == LowerBound(k)
                IN  /\ ~Hit(k)
                    /\ i <= Len(cache) => IsValid(cache[i])

(* Mutant: the slot is recycled where it is.                               *)
UpdateUnrotated(k, d) == /\ NeedsSlot(k)
                         /\ Len(cache) >= LenMax
                         /\ Recycle(cache, EvictIndex, k, d)

UpdateRotate(k, d) ==
    LET e == EvictIndex
        i == LowerBound(k)
        p == IF e < i THEN i - 1 ELSE i
    IN  /\ NeedsSlot(k)
        /\ Len(cache) >= LenMax
        /\ Recycle(Rotate(cache, e, p), p, k, d)

(* A new slot is born invalid, so that touching it ages every valid entry. *)
UpdateEmplace(k, d) ==
    LET i == LowerBound(k)
    IN  /\ NeedsSlot(k)
        /\ Len(cache) < LenMax
        /\ cache' = Touch(InsertAt(cache, i, [key |-> k, data |-> d, refs |-> LenMax]), i)
        /\ reply' = Reply("update", NoData, {})

Update(k, d) == UpdateInPlace(k, d) \/ UpdateRotate(k, d) \/ UpdateEmplace(k, d)

Invalidate(k) ==
    LET i == LowerBound(k)
    IN  /\ cache' = IF Hit(k) THEN [cache EXCEPT ![i] = Invalidated(@)] ELSE cache
        /\ reply' = Reply("invalidate", NoData, {})

(* Every slot from the lower bound of lo to that of hi, valid or not.      *)
InvalidateRange(lo, hi) ==
    /\ lo < hi
    /\ cache' = [i \in DOMAIN cache |->
                    IF i \in LowerBound(lo) .. (LowerBound(hi) - 1)
                    THEN Invalidated(cache[i]) ELSE cache[i]]
    /\ reply' = Reply("invalidate_range", NoData, {})

Next == \/ \E k \in Keys : Find(k) \/ Exists(k) \/ Invalidate(k)
        \/ \E k \in Keys, d \in Data : FindMutable(k, d) \/ Update(k, d)
        \/ \E lo, hi \in Keys : InvalidateRange(lo, hi)

Spec == Init /\ [][Next]_vars
-----------------------------------------------------------------------------
TypeOK == /\ cache \in Seq(Slot)
          /\ reply \in [op : {"create", "find", "find_mutable", "exists", "update",
                              "invalidate", "invalidate_range"},
                        got : Data \cup {NoData} \cup BOOLEAN,
                        evicted : SUBSET (Keys \X Data)]

(* The assertions that close update(): the vector stays strictly sorted by *)
(* key across overwrites, rotations and insertions, and never outgrows the *)
(* length that was reserved for it.                                        *)
SortedByKey == \A i, j \in DOMAIN cache : i < j => cache[i].key < cache[j].key

WithinLenMax == Len(cache) <= LenMax

(* No two live entries have the same age, so the victim of an eviction is  *)
(* unique; a live entry always has its buffer.                             *)
LiveSlotsSound ==
    \A i \in DOMAIN cache : IsValid(cache[i]) =>
        /\ cache[i].data # NoData
        /\ \A j \in DOMAIN cache \ {i} : cache[i].refs # cache[j].refs

SafeCache == TypeOK /\ WithinLenMax /\ SortedByKey /\ LiveSlotsSound

LiveKeys == {k \in Keys : Hit(k)}

(* An entry that is no longer there was invalidated or handed back to the  *)
(* caller of update(): the Invalidate test expects every other key to be   *)
(* still there.                                                            *)
NoSilentLoss ==
    [][\A k \in LiveKeys \ LiveKeys' :
          \/ reply'.op \in {"invalidate", "invalidate_range"}
          \/ \E d \in Data : <<k, d>> \in reply'.evicted]_vars
=============================================================================
