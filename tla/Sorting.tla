------------------------------- MODULE Sorting -------------------------------
(***************************************************************************)
(* Sorting and summing: python/algo/qsort.py, insertion_sort_one_by_one of *)
(* algo/sorting, and the programs search2, search3 and sum3 of             *)
(* boost/my_algo, which look for numbers with a given sum.                 *)
(***************************************************************************)
EXTENDS Loops, Integers, SequencesExt, FiniteSetsExt

CONSTANT LongestList   \* bound of the model: the length of a list of numbers

Lists(S) == UNION {[1 .. n -> S] : n \in 0 .. LongestList}

-----------------------------------------------------------------------------
RECURSIVE qsort(_)

(* The pivot is the first element; its equals go to the right.             *)
qsort(array) ==
    IF Len(array) < 2 THEN array
    ELSE LET pivot   == Head(array)
             less    == SelectSeq(Tail(array), LAMBDA i : i < pivot)
             greater == SelectSeq(Tail(array), LAMBDA i : i >= pivot)
         IN  qsort(less) \o <<pivot>> \o qsort(greater)

qsort_starts == Given("qsort", Lists(1 .. 3)) /\ local = <<>>

qsort_runs == Runs("qsort") /\ Return(qsort(input))

-----------------------------------------------------------------------------
(* Mutant: each value is put in front.                                     *)
InsertedFirst(v, in_value) == <<in_value>> \o v

(* v.insert(upper_bound(v, in_value), in_value), for each value read.      *)
Inserted(v, in_value) ==
    InsertAt(v, 1 + Cardinality({i \in DOMAIN v : \A j \in 1 .. i : v[j] <= in_value}), in_value)

insertion_starts == Given("insertion", Lists(1 .. 3)) /\ local = [read |-> 0, v |-> <<>>]

insertion_round ==
    /\ Runs("insertion")
    /\ IF local.read = Len(input) THEN Return(local.v)
       ELSE Continue([read |-> local.read + 1, v |-> Inserted(local.v, input[local.read + 1])])

-----------------------------------------------------------------------------
(* Each program puts the sums of two numbers, or the numbers, in a map and *)
(* asks it for what is missing to the target.                              *)
search2(A, B, target) ==
    LET found == SelectSeq(A, LAMBDA a : target - a \in Range(B))
    IN  [i \in DOMAIN found |-> <<found[i], target - found[i]>>]

search3(A, B, C, target) ==
    LET m == {<<A[i] + B[j], A[i]>> : i \in DOMAIN A, j \in DOMAIN B}
    IN  {<<p[2], p[1] - p[2], target - p[1]>> : p \in {q \in m : target - q[1] \in Range(C)}}

(* The pairs of places with i < j are kept by their sum; a third place     *)
(* counts only behind both.  The triples are sorted and are a set.         *)
sum3(nums, target) ==
    LET m == {<<i, j>> \in (DOMAIN nums) \X (DOMAIN nums) : i < j}
    IN  {SortSeq(<<nums[p[1]], nums[p[2]], nums[k]>>, <) :
            <<p, k>> \in {<<q, i>> \in m \X (DOMAIN nums) :
                            /\ nums[q[1]] + nums[q[2]] = target - nums[i]
                            /\ i > q[1] /\ i > q[2]}}

Summands == Lists({-1, 0, 2})

search2_runs == Runs("search2") /\ Return(search2(input.A, input.B, 1))

search3_runs == Runs("search3") /\ Return(search3(input.A, input.B, input.C, 1))

sum3_runs == Runs("sum3") /\ Return(sum3(input, 1))

(* sum3 is given no empty list: nums.size() - 1 would be the largest size_t*)
(* (sum3.cpp:16), and i would count until it overflows.                    *)
sums_start == /\ \/ Given("search2", [A : Summands, B : Summands])
                 \/ Given("search3", [A : Summands, B : {<<0, 2>>, <<-1>>}, C : {<<>>, <<2, -1>>}])
                 \/ Given("sum3", Summands \ {<<>>})
              /\ local = <<>>
-----------------------------------------------------------------------------
Increasing(v) == \A i, j \in DOMAIN v : i < j => v[i] <= v[j]

SameNumbers(v, w) == \A x \in Range(v) \cup Range(w) :
                        Cardinality({i \in DOMAIN v : v[i] = x}) = Cardinality({i \in DOMAIN w : w[i] = x})

(* Both sorts return the numbers they were given in increasing order; the  *)
(* insertion sort has those it has read in order all the time.             *)
SortsSort ==
    /\ Returned("qsort") => Increasing(result) /\ SameNumbers(result, input)
    /\ algorithm = "insertion" =>
          Increasing(local.v) /\ SameNumbers(local.v, SubSeq(input, 1, local.read))
    /\ Returned("insertion") => SameNumbers(result, input) /\ Increasing(result)

(* The programs find exactly the numbers with the sum.                     *)
SumsFound ==
    /\ Returned("search2") =>
          Range(result) = {ab \in Range(input.A) \X Range(input.B) : ab[1] + ab[2] = 1}
    /\ Returned("search3") =>
          result = {abc \in Range(input.A) \X Range(input.B) \X Range(input.C) :
                       abc[1] + abc[2] + abc[3] = 1}
    /\ Returned("sum3") =>
          result = {t \in {SortSeq(<<input[i], input[j], input[k]>>, <) : <<i, j, k>> \in
                             {x \in (DOMAIN input) \X (DOMAIN input) \X (DOMAIN input) :
                                 x[1] # x[2] /\ x[1] # x[3] /\ x[2] # x[3]}} :
                       t[1] + t[2] + t[3] = 1}
=============================================================================
