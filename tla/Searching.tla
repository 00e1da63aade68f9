------------------------------ MODULE Searching ------------------------------
(***************************************************************************)
(* The searches: algo/binary_search/binary_search.c, the three searches of *)
(* boost/my_algo/solution.cpp for the one number that has no twin, and the *)
(* function there that makes their inputs.  Arrays are functions from      *)
(* 0 .. n - 1, as in the code; an int overflows at IntMax.                 *)
(***************************************************************************)
EXTENDS Loops, Integers, SequencesExt, FiniteSetsExt, Bitwise

CONSTANTS
    IntMax,      \* the largest int, here 7 for 2^31 - 1
    LongestRun   \* bound of the model: the length of an array to search

Array(s) == [i \in 0 .. Len(s) - 1 |-> s[i + 1]]

Size(a) == Cardinality(DOMAIN a)

Sorted(a) == \A i, j \in DOMAIN a : i < j => a[i] <= a[j]

ArraysOf(n, S) == [0 .. n - 1 -> S]

-----------------------------------------------------------------------------
(* binary_search(): the sum of two ints wraps around, as compiled; a       *)
(* division by two rounds towards zero.                                    *)
OutOfBounds == -2   \* what happens is undefined

Wrapped(x) == ((x + IntMax + 1) % (2 * (IntMax + 1))) - (IntMax + 1)

Half(x) == IF x >= 0 THEN x \div 2 ELSE -((-x) \div 2)

BinaryInputs ==
    {[a |-> a, v |-> v] : a \in {b \in UNION {ArraysOf(n, 0 .. 2) : n \in 0 .. LongestRun} : Sorted(b)},
                          v \in -1 .. 3}

binary_search_starts == /\ Given("binary_search", BinaryInputs)
                        /\ local = [l |-> 0, r |-> Size(input.a) - 1]

(* Mutant: the right end is kept in the interval.                          *)
binary_search_round_kept ==
    LET m == Half(Wrapped(local.l + local.r))
    IN  /\ Runs("binary_search")
        /\ \/ local.l > local.r /\ Return(-1)
           \/ /\ local.l <= local.r
              /\ \/ m \notin DOMAIN input.a /\ Return(OutOfBounds)
                 \/ /\ m \in DOMAIN input.a
                    /\ \/ input.v < input.a[m] /\ Continue([local EXCEPT !.r = m])
                       \/ input.v > input.a[m] /\ Continue([local EXCEPT !.l = m + 1])
                       \/ input.v = input.a[m] /\ Return(m)

binary_search_round ==
    LET m == Half(Wrapped(local.l + local.r))
    IN  /\ Runs("binary_search")
        /\ \/ local.l > local.r /\ Return(-1)
           \/ /\ local.l <= local.r
              /\ \/ m \notin DOMAIN input.a /\ Return(OutOfBounds)
                 \/ /\ m \in DOMAIN input.a
                    /\ \/ input.v < input.a[m] /\ Continue([local EXCEPT !.r = m - 1])
                       \/ input.v > input.a[m] /\ Continue([local EXCEPT !.l = m + 1])
                       \/ input.v = input.a[m] /\ Return(m)

-----------------------------------------------------------------------------
(* solution.cpp: equal numbers are neighbours, and one has no twin.        *)
Pairs(n) == {Array(InsertAt([i \in 1 .. 2 * n |-> (i - 1) \div 2], at, n)) :
               at \in {2 * i + 1 : i \in 0 .. n}}

Twinned == UNION {Pairs(n) : n \in 0 .. (LongestRun - 1) \div 2}

simple_search_starts == Given("simple_search", Twinned) /\ local = [i |-> 0]

simple_search_round ==
    LET last == Size(input) - 1
    IN  /\ Runs("simple_search")
        /\ \/ last = 0 /\ Return(input[0])
           \/ /\ last # 0
              /\ \/ local.i >= last /\ Return(input[last])
                 \/ /\ local.i < last
                    /\ IF input[local.i] # input[local.i + 1] THEN Return(input[local.i])
                       ELSE Continue([local EXCEPT !.i = @ + 2])

xor_search_starts == Given("xor_search", Twinned) /\ local = [i |-> 0, acc |-> 0]

xor_search_round ==
    /\ Runs("xor_search")
    /\ IF local.i = Size(input) THEN Return(local.acc)
       ELSE Continue([i |-> local.i + 1, acc |-> local.acc ^^ input[local.i]])

log_search_starts == /\ Given("log_search", Twinned)
                     /\ local = [first |-> 0, last |-> Size(input)]

Even(n) == n % 2 = 0

(* The middle is between a pair and its first half, or it is the number.   *)
log_search_round ==
    LET mid == local.first + (local.last - local.first) \div 2
    IN  /\ Runs("log_search")
        /\ \/ local.last - local.first <= 1 /\ Return(input[local.first])
           \/ /\ local.last - local.first > 1
              /\ \/ /\ input[mid] = input[mid + 1]
                    /\ Continue(IF Even(mid) THEN [local EXCEPT !.first = mid + 2]
                                ELSE [local EXCEPT !.last = mid])
                 \/ /\ input[mid] # input[mid + 1] /\ input[mid - 1] = input[mid]
                    /\ Continue(IF Even(mid) THEN [local EXCEPT !.last = mid - 1]
                                ELSE [local EXCEPT !.first = mid + 1])
                 \/ /\ input[mid] # input[mid + 1] /\ input[mid - 1] # input[mid]
                    /\ Return(input[mid])

(* getNums(): as many numbers as asked for, or one more to make them odd.  *)
getNums(qty) ==
    LET size == IF Even(qty) THEN qty + 1 ELSE qty
    IN  [i \in 0 .. size - 1 |-> IF i = size - 1 THEN i ELSE 2 * (i \div 2)]

getNums_starts == /\ Given("getNums", {[qty |-> n] : n \in 0 .. LongestRun})
                  /\ local = <<>>

getNums_runs == /\ Runs("getNums")
                /\ Return(getNums(input.qty))
=============================================================================
