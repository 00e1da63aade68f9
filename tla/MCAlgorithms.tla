----------------------------- MODULE MCAlgorithms -----------------------------
(***************************************************************************)
(* What runs by itself, for TLC: an execution is a call of one of the      *)
(* algorithms, or one of the tests of the caches.                          *)
(***************************************************************************)
EXTENDS Algorithms

CONSTANT NoBuffer

VARIABLES
    suite, script, unexpected,                                     \* CacheTests
    flat_cache, recent_list, node, cache, lfu_list, lfu_node, lfu_cache, reply

testing == <<suite, script, unexpected, flat_cache, recent_list, node, cache,
             lfu_list, lfu_node, lfu_cache, reply>>

Tests == INSTANCE CacheTests

Testing == algorithm = "ut"

(* No algorithm is called, and no test is made.                            *)
NoAlgorithm == /\ Testing /\ returned = TRUE
               /\ input = Nothing /\ local = Nothing /\ result = Nothing
NoTest == /\ suite = Nothing /\ script = Nothing /\ unexpected = Nothing
          /\ flat_cache = Nothing /\ recent_list = Nothing /\ node = Nothing
          /\ cache = Nothing /\ lfu_list = Nothing /\ lfu_node = Nothing
          /\ lfu_cache = Nothing /\ reply = Nothing

MCInit == \/ Init /\ NoTest
          \/ Tests!Init /\ NoAlgorithm

MCNext == \/ ~Testing /\ Next /\ UNCHANGED testing
          \/ Testing /\ Tests!Next /\ UNCHANGED vars

MCSpec == MCInit /\ [][MCNext]_<<vars, testing>> /\ WF_vars(Round)
-----------------------------------------------------------------------------
(* The models of the caches pass the tests of the code.                    *)
TestsPass == Testing => Tests!TestsPass
=============================================================================
