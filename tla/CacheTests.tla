------------------------------ MODULE CacheTests ------------------------------
(***************************************************************************)
(* The unit tests of the caches, cache/lru/ut.cpp and cache/lfu/ut.cpp: a  *)
(* test is a script of calls, each with the answers that it expects.  All  *)
(* tests use the length 8 here, where some use 16 or 32.                   *)
(***************************************************************************)
EXTENDS Integers, SequencesExt

CONSTANT NoBuffer   \* what a lookup gives that finds nothing

VARIABLES
    suite,        \* the type that is tested
    script,       \* the calls yet to be made
    unexpected,   \* the calls whose answers were not as expected
    flat_cache,                      \* the state of a flat_lru,
    recent_list, node, cache,        \* of a generic_lru,
    lfu_list, lfu_node, lfu_cache,   \* and of a generic_lfu
    reply

caches == <<flat_cache, recent_list, node, cache, lfu_list, lfu_node, lfu_cache, reply>>
vars == <<suite, script, unexpected, caches>>

kCacheLenMax == 8

Keys  == 0 .. 2 * kCacheLenMax
Data  == 0 .. 4 * kCacheLenMax
Nodes == 1 .. kCacheLenMax

Flat    == INSTANCE FlatLRU WITH NoData <- NoBuffer, LenMax <- kCacheLenMax, cache <- flat_cache
Generic == INSTANCE GenericLRU WITH NoData <- NoBuffer, LenMax <- kCacheLenMax
Frequent == INSTANCE LFU WITH NoData <- NoBuffer, LenMax <- kCacheLenMax, Buckets <- 1 .. 3,
                MaxFreq <- 2, node <- lfu_node, cache <- lfu_cache

-----------------------------------------------------------------------------
Call(op, key, arg, expected) == [op |-> op, key |-> key, arg |-> arg, expected |-> expected]

Up(a, b) == [i \in 1 .. b - a + 1 |-> a + i - 1]

Each(keys, Script(_)) == FlattenSeq([i \in DOMAIN keys |-> Script(keys[i])])

Datum(k) == 2 * kCacheLenMax - k

Unchecked == {}     \* the test does not look at the answer
NoEviction == {{}}  \* no key is evicted

(* An insertion, expected to evict the keys of one of sets.                *)
Insert(k, sets) == <<Call("insert", k, Datum(k), sets)>>
Fill(keys, sets) == Each(keys, LAMBDA k : Insert(k, sets))

Exists(k, b)  == <<Call("exists", k, 0, {b})>>
Find(k, d)    == <<Call("find", k, 0, {d})>>
Gone(k)       == Exists(k, FALSE) \o Find(k, NoBuffer)
Invalidate(k) == <<Call("invalidate", k, 0, Unchecked)>>

AllKeys == Up(0, kCacheLenMax - 1)

(* Three of the orders that a shuffle may give.                            *)
Shuffles == {AllKeys, Reverse(AllKeys), <<3, 0, 6, 1, 7, 2, 5, 4>>}

InsertAndFindNonExistent == Fill(AllKeys, Unchecked) \o Each(<<8, 13>>, Gone)

InsertAndFind(shuffled) ==
    Fill(shuffled, NoEviction) \o Each(AllKeys, LAMBDA k : Find(k, Datum(k)))

FindMutableAndCheckMutation(shuffled) ==
    Fill(shuffled, NoEviction)
      \o Each(AllKeys, LAMBDA k : <<Call("find_mutable", k, 3 * kCacheLenMax + k, Data)>>)
      \o Each(AllKeys, LAMBDA k : Find(k, 3 * kCacheLenMax + k))

(* One key after the other, from the last inserted on.                     *)
InvalidateEach(shuffled, inserted) ==
    Fill(shuffled, inserted)
      \o Each(Reverse(AllKeys), LAMBDA i :
              Each(SubSeq(shuffled, 1, i + 1), LAMBDA k : Exists(k, TRUE))
                \o Invalidate(shuffled[i + 1])
                \o Each(SubSeq(shuffled, i + 1, kCacheLenMax), Gone))

InvalidateRange(shuffled, inserted) ==
    Fill(shuffled, inserted) \o Each(shuffled, LAMBDA k : Exists(k, TRUE))
      \o <<Call("invalidate_range", 0, kCacheLenMax, Unchecked)>>
      \o Each(shuffled, Gone)

EvictValidEntriesInOrder ==
    Fill(AllKeys, NoEviction)
      \o Each(Up(kCacheLenMax, 2 * kCacheLenMax - 1), LAMBDA k : Insert(k, {{k - kCacheLenMax}}))

(* A full cache loses the entry of one key and gets that of another.       *)
InsertAfterInvalidate(kKeyStride, kKeyToInvalidate, kKeyToInsert) ==
    Each(AllKeys, LAMBDA k : Insert(kKeyStride * k, NoEviction))
      \o Invalidate(kKeyToInvalidate) \o Exists(kKeyToInvalidate, FALSE)
      \o Insert(kKeyToInsert, NoEviction)

EvictInsertInvalidatedEntry                == InsertAfterInvalidate(1, 6, 6)
EvictInvalidatedEntryInsertOffByOneEntry   == InsertAfterInvalidate(2, 6, 5)
InvalidateLessInsertEntryEvictInvalidated    == InsertAfterInvalidate(2, 4, 7)
InvalidateGreaterInsertEntryEvictInvalidated == InsertAfterInvalidate(2, 12, 7)

LRUTests ==
    {InsertAndFindNonExistent, EvictValidEntriesInOrder, EvictInsertInvalidatedEntry,
     EvictInvalidatedEntryInsertOffByOneEntry, InvalidateLessInsertEntryEvictInvalidated,
     InvalidateGreaterInsertEntryEvictInvalidated}
      \cup UNION {{InsertAndFind(s), FindMutableAndCheckMutation(s),
                   InvalidateEach(s, Unchecked), InvalidateRange(s, Unchecked)} : s \in Shuffles}

(* The tests of generic_lfu are the same for put() and get(), but those    *)
(* that invalidate do look at what the insertions before evict.            *)
LFUFindTests ==
    {InsertAndFindNonExistent} \cup {InsertAndFind(s) : s \in Shuffles}

LFUInvalidateTests ==
    UNION {{InvalidateEach(s, NoEviction), InvalidateRange(s, NoEviction)} : s \in Shuffles}

LFUEvictTests ==
    {EvictValidEntriesInOrder, EvictInsertInvalidatedEntry,
     EvictInvalidatedEntryInsertOffByOneEntry, InvalidateLessInsertEntryEvictInvalidated,
     InvalidateGreaterInsertEntryEvictInvalidated}

Init == /\ \/ suite \in {"flat_lru", "generic_lru"} /\ script \in LRUTests
           \/ /\ suite = "generic_lfu"
              /\ script \in LFUFindTests \cup LFUInvalidateTests \cup LFUEvictTests
        /\ unexpected = {}
        /\ Flat!Init /\ Generic!Init /\ Frequent!Init

-----------------------------------------------------------------------------
(* What the caches are asked to do.                                        *)
FlatDoes(c) == \/ c.op = "insert" /\ Flat!Update(c.key, c.arg)
               \/ c.op = "find" /\ Flat!Find(c.key)
               \/ c.op = "find_mutable" /\ Flat!FindMutable(c.key, c.arg)
               \/ c.op = "exists" /\ Flat!Exists(c.key)
               \/ c.op = "invalidate" /\ Flat!Invalidate(c.key)
               \/ c.op = "invalidate_range" /\ Flat!InvalidateRange(c.key, c.arg)

GenericDoes(c) == \/ c.op = "insert" /\ Generic!Update(c.key, c.arg)
                  \/ c.op = "find" /\ Generic!Find(c.key)
                  \/ c.op = "find_mutable" /\ Generic!FindMutable(c.key, c.arg)
                  \/ c.op = "exists" /\ Generic!Exists(c.key)
                  \/ c.op = "invalidate" /\ Generic!Invalidate(c.key)
                  \/ c.op = "invalidate_range" /\ Generic!InvalidateRange(c.key, c.arg)

FrequentDoes(c) == \/ c.op = "insert" /\ Frequent!Put(c.key, c.arg)
                   \/ c.op = "find" /\ Frequent!Get(c.key)
                   \/ c.op = "exists" /\ Frequent!Exists(c.key)
                   \/ c.op = "invalidate" /\ Frequent!Invalidate(c.key)
                   \/ c.op = "invalidate_range" /\ Frequent!InvalidateRange(c.key, c.arg)

(* Addresses are interchangeable: the lowest that are free will do.        *)
LowestAddresses(used) == \A n \in used' \ used : 1 .. n \subseteq used \cup used'

Answer == IF reply.op \in {"update", "put"} THEN {e[1] : e \in reply.evicted} ELSE reply.got

Step ==
    LET c == Head(script)
    IN  /\ script # <<>>
        /\ \/ /\ suite = "flat_lru" /\ FlatDoes(c)
              /\ UNCHANGED <<recent_list, node, cache, lfu_list, lfu_node, lfu_cache>>
           \/ /\ suite = "generic_lru" /\ GenericDoes(c) /\ LowestAddresses(DOMAIN node)
              /\ UNCHANGED <<flat_cache, lfu_list, lfu_node, lfu_cache>>
           \/ /\ suite = "generic_lfu" /\ FrequentDoes(c) /\ LowestAddresses(DOMAIN lfu_node)
              /\ UNCHANGED <<flat_cache, recent_list, node, cache>>
        /\ script' = Tail(script)
        /\ unexpected' = IF c.expected = Unchecked \/ Answer' \in c.expected
                         THEN unexpected ELSE unexpected \cup {c}
        /\ UNCHANGED suite

(* The test has been made.                                                 *)
Over == script = <<>> /\ UNCHANGED vars

Next == Step \/ Over

Spec == Init /\ [][Next]_vars
-----------------------------------------------------------------------------
(* Every call of every test gets an answer that the test expects: the      *)
(* models of the caches pass the tests of the code.                        *)
TestsPass == unexpected = {}
=============================================================================
