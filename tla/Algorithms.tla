------------------------------ MODULE Algorithms ------------------------------
(***************************************************************************)
(* The pure algorithms, one at a time: what each returns is compared with  *)
(* its reference definition, for every input up to a size.                 *)
(***************************************************************************)
EXTENDS Searching, Sorting, ShortestPaths, Trees, CommandLine, Crc32c

Init == \/ binary_search_starts \/ simple_search_starts \/ xor_search_starts
        \/ log_search_starts \/ getNums_starts
        \/ qsort_starts \/ insertion_starts \/ sums_start
        \/ deykstra_starts \/ deykstra_py_starts
        \/ preorder_starts \/ inorder_starts
        \/ db_starts
        \/ tls_starts \/ sort_starts
        \/ crc32c_starts

Insert == \E index \in Words, val \in Payloads : insert_at_once(index, val)

(* An algorithm that has returned does nothing more.                       *)
Over == returned /\ UNCHANGED vars

Round == \/ binary_search_round \/ simple_search_round \/ xor_search_round
         \/ log_search_round \/ getNums_runs
         \/ qsort_runs \/ insertion_round \/ search2_runs \/ search3_runs \/ sum3_runs
         \/ deykstra_round \/ deykstra_py_round
         \/ preorder_round \/ inorder_round
         \/ tls_round \/ sort_round

Next == Round \/ crc32c_round \/ Insert \/ Over

Spec == Init /\ [][Next]_vars /\ WF_vars(Round)
-----------------------------------------------------------------------------
(* The search for a value finds it exactly if it is there, and never reads *)
(* beside the array, as long as the sum of two indices fits an int; the    *)
(* three searches for the number without a twin agree on it; and getNums() *)
(* makes arrays that have one.                                             *)
SearchesRight ==
    /\ Returned("binary_search") /\ Size(input.a) <= IntMax \div 2 + 1 =>
          IF \E i \in DOMAIN input.a : input.a[i] = input.v
          THEN result \in DOMAIN input.a /\ input.a[result] = input.v
          ELSE result = -1
    /\ returned /\ algorithm \in {"simple_search", "xor_search", "log_search"} =>
          \E at \in DOMAIN input :
             input[at] = result /\ \A i \in DOMAIN input \ {at} : input[i] # result
    /\ Returned("getNums") =>
          /\ Size(result) \in {input.qty, input.qty + 1}
          /\ \E at \in DOMAIN result : \A i \in DOMAIN result :
                (Cardinality({j \in DOMAIN result : result[j] = result[i]}) = 1) <=> i = at

(* What the algorithms on numbers return is what their names promise.      *)
ResultsRight == SearchesRight /\ SortsSort /\ SumsFound

(* Every algorithm returns.  (The rounds of crc32c take one byte at least  *)
(* or go on to the next stage; they are left out, as what they compute is  *)
(* too much to be computed again for the question whether one is enabled.) *)
Returns == <>(returned \/ algorithm \in {"db", "crc32c"})
=============================================================================
