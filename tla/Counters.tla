------------------------------- MODULE Counters -------------------------------
(***************************************************************************)
(* Four programs with one plan: main starts a worker for each hardware     *)
(* thread; a semaphore admits some of them; who is admitted increments a   *)
(* plain int many times; main waits for all and compares the sum.          *)
(*   posix/semaphore/interprocessbinarysemaphore.cpp   "processes"         *)
(*   posix/semaphore/interthreadbinarysemaphore.cpp    "threads"           *)
(*   cpp20/semaphore/cpp20binarysemaphore.cpp          "threads", std::    *)
(*   cpp20/semaphore/cpp20countingsemaphore.cpp        "pool"              *)
(* The first three have one int and a binary semaphore.  The last admits   *)
(* as many workers as it has counters; each takes one from a stack guarded *)
(* by a mutex, and puts it back.                                           *)
(***************************************************************************)
EXTENDS ProgramParameters

Slots == 1 .. Permits

VARIABLES
    program,  \* which of them runs
    vths,     \* the vector main fills: hardware_concurrency() workers
    sem,      \* the permits left
    owner,    \* items_pool_lock: the thread that holds it, or None
    pool,     \* items_pool: a stack of counters, the top last
    v,        \* the counters; the binary programs have the first only
    p_cnt,    \* the counter each worker has taken, or None
    reg,      \* what a worker loaded from its counter to increment it
    todo,     \* how many increments each worker still makes
    pc        \* where each worker and main are

setup == <<program, vths>>
stack == <<owner, pool, p_cnt>>
vars  == <<setup, sem, stack, v, reg, todo, pc>>

Pooled == program = "pool"

Admitted == IF Pooled THEN Permits ELSE 1

Goto(p, l) == pc' = [pc EXCEPT ![p] = l]

(* A signed int that overflows: as the machine adds, it wraps around.      *)
Incremented(n) == IF n = IntMax THEN -IntMax - 1 ELSE n + 1

Init == /\ program \in {"processes", "threads", "pool"}
        /\ vths \in SUBSET Workers \ {{}}
        /\ sem = Admitted /\ owner = None
        /\ pool  = [i \in Slots |-> i]
        /\ v     = [s \in Slots |-> 0]
        /\ p_cnt = [w \in Workers |-> None]
        /\ reg   = [w \in Workers |-> 0]
        /\ todo  = [w \in Workers |-> PerWorker]
        /\ pc    = [p \in Workers \cup {Main} |-> IF p = Main THEN "start" ELSE "unborn"]

-----------------------------------------------------------------------------
(* main() *)
Start(w) == /\ pc[Main] = "start" /\ w \in vths
            /\ pc[w] = "unborn"
            /\ Goto(w, "acquire")
            /\ UNCHANGED <<setup, sem, stack, v, reg, todo>>

(* fork() < 0: the loop ends, and main goes on with the children it has.   *)
ForkFails == /\ program = "processes"
             /\ pc[Main] = "start"
             /\ \E w \in vths : pc[w] = "unborn"
             /\ Goto(Main, "join")
             /\ UNCHANGED <<setup, sem, stack, v, reg, todo>>

AllStarted == /\ pc[Main] = "start"
              /\ \A w \in vths : pc[w] # "unborn"
              /\ Goto(Main, "join")
              /\ UNCHANGED <<setup, sem, stack, v, reg, todo>>

(* Mutant: main joins the first worker that is over, and no other.         *)
JoinOne == /\ pc[Main] = "join"
           /\ \E w \in Workers : pc[w] = "exited"
           /\ Goto(Main, "assert")
           /\ UNCHANGED <<setup, sem, stack, v, reg, todo>>

(* join() of every thread; waitpid() of every child there is: the ids that *)
(* no fork filled in make waitpid() fail at once.                          *)
Join == /\ pc[Main] = "join"
        /\ \A w \in vths : pc[w] \in {"unborn", "exited"}
        /\ Goto(Main, "assert")
        /\ UNCHANGED <<setup, sem, stack, v, reg, todo>>

-----------------------------------------------------------------------------
(* The worker. *)

(* Mutant: the worker does not wait for the semaphore.                     *)
AcquireAtOnce(w) == /\ pc[w] = "acquire"
                    /\ Goto(w, IF Pooled THEN "lock" ELSE "load")
                    /\ UNCHANGED <<setup, sem, stack, v, reg, todo>>

Acquire(w) == /\ pc[w] = "acquire" /\ sem > 0
              /\ sem' = sem - 1
              /\ Goto(w, IF Pooled THEN "lock" ELSE "load")
              /\ UNCHANGED <<setup, stack, v, reg, todo>>

LockPool(w, from, to) == /\ pc[w] = from /\ owner = None
                         /\ owner' = w
                         /\ Goto(w, to)
                         /\ UNCHANGED <<setup, sem, pool, v, p_cnt, reg, todo>>

(* Mutant: the lock is taken without waiting for its owner.                *)
LockAtOnce(w) == /\ pc[w] = "lock"
                 /\ owner' = w
                 /\ Goto(w, "top")
                 /\ UNCHANGED <<setup, sem, pool, v, p_cnt, reg, todo>>

Lock(w) == LockPool(w, "lock", "top")

(* assert(!items_pool.empty()) and top().                                  *)
Top(w) == /\ pc[w] = "top" /\ pool # <<>>
          /\ p_cnt' = [p_cnt EXCEPT ![w] = Last(pool)]
          /\ Goto(w, "pop")
          /\ UNCHANGED <<setup, sem, owner, pool, v, reg, todo>>

(* Mutant: the counter is read with top() and left in the pool.            *)
PopForgotten(w) == /\ pc[w] = "pop"
                   /\ owner' = None
                   /\ Goto(w, "load")
                   /\ UNCHANGED <<setup, sem, pool, v, p_cnt, reg, todo>>

(* pop() and the unlocking.                                                *)
Pop(w) == /\ pc[w] = "pop"
          /\ pool'  = Front(pool)
          /\ owner' = None
          /\ Goto(w, "load")
          /\ UNCHANGED <<setup, sem, v, p_cnt, reg, todo>>

Counter(w) == IF Pooled THEN p_cnt[w] ELSE 1

(* ++ of a plain int is a load and a store.                                *)
Load(w) == /\ pc[w] = "load"
           /\ reg' = [reg EXCEPT ![w] = v[Counter(w)]]
           /\ Goto(w, "store")
           /\ UNCHANGED <<setup, sem, stack, v, todo>>

Store(w) == /\ pc[w] = "store"
            /\ v'    = [v EXCEPT ![Counter(w)] = Incremented(reg[w])]
            /\ todo' = [todo EXCEPT ![w] = @ - 1]
            /\ Goto(w, IF todo[w] > 1 THEN "load" ELSE IF Pooled THEN "relock" ELSE "release")
            /\ UNCHANGED <<setup, sem, stack, reg>>

Relock(w) == LockPool(w, "relock", "give")

(* push() and the unlocking; the pointer the worker keeps is dead.         *)
Give(w) == /\ pc[w] = "give"
           /\ pool'  = Append(pool, p_cnt[w])
           /\ p_cnt' = [p_cnt EXCEPT ![w] = None]
           /\ owner' = None
           /\ Goto(w, "release")
           /\ UNCHANGED <<setup, sem, v, reg, todo>>

(* Mutant: the permit is kept.                                             *)
ReleaseForgotten(w) == /\ pc[w] = "release"
                       /\ Goto(w, "exited")
                       /\ UNCHANGED <<setup, sem, stack, v, reg, todo>>

(* The semaphore is released last: in the pool its guard is destroyed last.*)
Release(w) == /\ pc[w] = "release"
              /\ sem' = sem + 1
              /\ Goto(w, "exited")
              /\ UNCHANGED <<setup, stack, v, reg, todo>>

-----------------------------------------------------------------------------
Parent == (\E w \in Workers : Start(w)) \/ ForkFails \/ AllStarted \/ Join

Worker(w) == \/ Acquire(w) \/ Lock(w) \/ Top(w) \/ Pop(w) \/ Load(w) \/ Store(w)
             \/ Relock(w) \/ Give(w) \/ Release(w)

(* After the comparison main returns.                                      *)
Terminated == pc[Main] = "assert" /\ UNCHANGED vars

Next == Parent \/ (\E w \in Workers : Worker(w)) \/ Terminated

Spec == Init /\ [][Next]_vars

(* The system runs every thread or process that can run.  Each acquires    *)
(* the semaphore once and locks the mutex twice, so that nobody needs more *)
(* than weak fairness to get them.                                         *)
FairSpec == Spec /\ WF_vars(Parent) /\ \A w \in Workers : WF_vars(Worker(w))
-----------------------------------------------------------------------------
Ints == (-IntMax - 1) .. IntMax

MainLabels   == {"start", "join", "assert"}
WorkerLabels == {"unborn", "acquire", "lock", "top", "pop", "load", "store", "relock",
                 "give", "release", "exited"}

TypeOK ==
    /\ program \in {"processes", "threads", "pool"}
    /\ vths \subseteq Workers
    /\ sem \in 0 .. Admitted
    /\ owner \in Workers \cup {None}
    /\ pool \in Seq(Slots)
    /\ v \in [Slots -> Ints]
    /\ p_cnt \in [Workers -> Slots \cup {None}]
    /\ reg \in [Workers -> Ints]
    /\ todo \in [Workers -> 0 .. PerWorker]
    /\ pc \in [Workers \cup {Main} -> MainLabels \cup WorkerLabels]
    /\ pc[Main] \in MainLabels /\ \A w \in Workers : pc[w] \in WorkerLabels

Incrementing(w) == pc[w] \in {"load", "store"}

(* No two workers increment the same counter at the same time, and what    *)
(* one has loaded is what its counter still holds when it stores: a plain  *)
(* int is enough.                                                          *)
Exclusive ==
    \A w \in Workers : Incrementing(w) =>
        /\ \A x \in Workers \ {w} : Incrementing(x) => Counter(x) # Counter(w)
        /\ pc[w] = "store" => reg[w] = v[Counter(w)]

(* The workers that have taken their counter out of the pool.              *)
Holders == {w \in Workers : p_cnt[w] # None /\ pc[w] # "pop"}

(* A counter is in the pool once, or belongs to exactly one worker.        *)
CountersOwnedOnce ==
    Pooled =>
        /\ IsInjective(pool)
        /\ \A w \in Holders : p_cnt[w] \notin ToSet(pool)
        /\ \A w, x \in Holders : w # x => p_cnt[w] # p_cnt[x]
        /\ ToSet(pool) \cup {p_cnt[w] : w \in Holders} = Slots
        /\ \A w \in Workers : pc[w] = "pop" => pool # <<>> /\ p_cnt[w] = Last(pool)

(* The workers that the semaphore has admitted: it counts them.            *)
Inside == {w \in Workers : pc[w] \notin {"unborn", "acquire", "exited"}}

PermitsCounted == sem + Cardinality(Inside) = Admitted

(* Where a worker is tells what it has: the mutex, a counter of its own,   *)
(* and how much is left to do.  Only workers of the vector are started, and*)
(* main compares the sums when all that were started are over.             *)
WorkersStand ==
    /\ \A w \in Workers :
          /\ w \notin vths => pc[w] = "unborn"
          /\ owner = w <=> pc[w] \in {"top", "pop", "give"}
          /\ p_cnt[w] # None <=> Pooled /\ pc[w] \in {"pop", "load", "store", "relock", "give"}
          /\ pc[w] \in {"lock", "top", "pop", "relock", "give"} => Pooled
          /\ pc[w] \in {"unborn", "acquire", "lock", "top", "pop"} => todo[w] = PerWorker
          /\ pc[w] \in {"load", "store"} => todo[w] > 0
          /\ pc[w] \in {"relock", "give", "release", "exited"} => todo[w] = 0
    /\ pc[Main] = "assert" => \A w \in vths : pc[w] \in {"unborn", "exited"}

Sum(f) == SumFunction(f)

Made == Sum([w \in Workers |-> PerWorker - todo[w]])

(* As long as all increments fit an int no counter has wrapped around.     *)
CountersGrow == Made <= IntMax => \A s \in Slots : v[s] >= 0

Inv == /\ TypeOK /\ Exclusive /\ CountersOwnedOnce
       /\ PermitsCounted /\ WorkersStand /\ CountersGrow

(* assert(!items_pool.empty()): whoever is admitted finds a counter.       *)
PoolSuffices == \A w \in Workers : pc[w] = "top" => pool # <<>>

(* No increment is lost, whichever counters the workers got: the counters  *)
(* sum up to the increments made, as long as those fit an int.             *)
NoLostUpdate == Made <= IntMax => Sum(v) = Made

(* What an int holds of a sum.                                             *)
Wrapped(n) == ((n + IntMax + 1) % (2 * (IntMax + 1))) - (IntMax + 1)

(* The assertion that closes each program compares the int, or the sum of  *)
(* the ints, with the full sum.  It holds if every worker was started and  *)
(* the sum fits an int, and only then: after a failed fork, or from 22     *)
(* hardware threads on, the program ends in a failed assertion.            *)
AssertionIffAllFits ==
    LET expected == PerWorker * Cardinality(vths)
    IN  pc[Main] = "assert" =>
            (Wrapped(Sum(v)) = expected <=>
                expected <= IntMax /\ \A w \in vths : pc[w] = "exited")

(* Every run ends with all permits and counters given back.                *)
Ended == pc[Main] = "assert" /\ sem = Admitted /\ ToSet(pool) = Slots
=============================================================================
