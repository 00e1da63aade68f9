------------------------------ MODULE SemQueue -------------------------------
(***************************************************************************)
(* posix/semaphore/interprocesscountingsemaphore.cpp: a parent forks       *)
(* consumers and then produces values for them through a ring in shared    *)
(* memory, guarded by three POSIX semaphores.  As in the code, empty       *)
(* counts the values that may be taken and full the slots that may be      *)
(* filled.  A process's pc names the call it is about to make.             *)
(***************************************************************************)
EXTENDS Integers, FiniteSets

CONSTANTS
    Children,    \* the processes the parent may fork: argv[1] of them
    Main,        \* the parent
    Values,      \* what rand() % 100 may give
    Capacity,    \* the size of the ring: 5
    Iterations   \* kConsumerIterationsCount: 10

ASSUME ProcsAssumption      == IsFiniteSet(Children) /\ Main \notin Children
ASSUME CapacityAssumption   == Capacity \in Nat \ {0}
ASSUME IterationsAssumption == Iterations \in Nat \ {0}

VARIABLES
    empty, full, mutex,       \* the values of the semaphores
    head, tail, size, item,   \* communication_queue
    pc,        \* where each process is
    left,      \* how many iterations of its loop each process still has
    got,       \* what each consumer read with q.front()
    children   \* the children the parent has forked and not yet reaped

sems == <<empty, full, mutex>>
ring == <<head, tail, size, item>>
vars == <<sems, ring, pc, left, got, children>>

Procs == Children \cup {Main}
Slots == 0 .. Capacity - 1

Goto(p, l) == pc' = [pc EXCEPT ![p] = l]

(* Mutant: the initial values of empty and full the other way round.       *)
InitSwapped ==
        /\ empty = Capacity /\ full = 0 /\ mutex = 1
        /\ head = 0 /\ tail = 0 /\ size = 0
        /\ item = [i \in Slots |-> 0]
        /\ pc   = [p \in Procs |-> IF p = Main THEN "fork" ELSE "unborn"]
        /\ left = [p \in Procs |-> IF p = Main THEN Cardinality(Children) ELSE Iterations]
        /\ got  = [c \in Children |-> 0]
        /\ children = {}

(* The value-initialised queue is all zeroes, whatever Values is.          *)
Init == /\ empty = 0 /\ full = Capacity /\ mutex = 1
        /\ head = 0 /\ tail = 0 /\ size = 0
        /\ item = [i \in Slots |-> 0]
        /\ pc   = [p \in Procs |-> IF p = Main THEN "fork" ELSE "unborn"]
        /\ left = [p \in Procs |-> IF p = Main THEN Cardinality(Children) ELSE Iterations]
        /\ got  = [c \in Children |-> 0]
        /\ children = {}

-----------------------------------------------------------------------------
(* main(): the forking loop.  left[Main] counts the attempts still to make.*)
ForkChild(c) ==
    /\ pc[Main] = "fork" /\ left[Main] > 0
    /\ pc[c] = "unborn"
    /\ Goto(c, "wait_empty")
    /\ children' = children \cup {c}
    /\ left' = [left EXCEPT ![Main] = @ - 1]
    /\ UNCHANGED <<sems, ring, got>>

(* fork() fails: assert(0) aborts the parent, unless the build leaves      *)
(* assertions out.                                                         *)
ForkFails ==
    /\ pc[Main] = "fork" /\ left[Main] > 0
    /\ left' = [left EXCEPT ![Main] = @ - 1]
    /\ Goto(Main, "aborted") \/ UNCHANGED pc
    /\ UNCHANGED <<sems, ring, got, children>>

(* Mutant: it produces for the children it was asked for.                  *)
StartProducingForAll ==
    /\ pc[Main] = "fork" /\ left[Main] = 0
    /\ left' = [left EXCEPT ![Main] = Cardinality(Children) * Iterations]
    /\ Goto(Main, IF children = {} THEN "reap" ELSE "wait_full")
    /\ UNCHANGED <<sems, ring, got, children>>

(* The parent produces as much as the children it has will consume.        *)
StartProducing ==
    /\ pc[Main] = "fork" /\ left[Main] = 0
    /\ left' = [left EXCEPT ![Main] = Cardinality(children) * Iterations]
    /\ Goto(Main, IF children = {} THEN "reap" ELSE "wait_full")
    /\ UNCHANGED <<sems, ring, got, children>>

-----------------------------------------------------------------------------
(* producer() *)
WaitFull == /\ pc[Main] = "wait_full" /\ full > 0
            /\ full' = full - 1
            /\ Goto(Main, "lock_push")
            /\ UNCHANGED <<empty, mutex, ring, left, got, children>>

LockPush == /\ pc[Main] = "lock_push" /\ mutex > 0
            /\ mutex' = mutex - 1
            /\ Goto(Main, "push")
            /\ UNCHANGED <<empty, full, ring, left, got, children>>

Push == /\ pc[Main] = "push"
        /\ \E v \in Values : item' = [item EXCEPT ![tail] = v]
        /\ tail' = (tail + 1) % Capacity
        /\ size' = size + 1
        /\ Goto(Main, "unlock_push")
        /\ UNCHANGED <<sems, head, left, got, children>>

UnlockPush == /\ pc[Main] = "unlock_push"
              /\ mutex' = mutex + 1
              /\ Goto(Main, "post_empty")
              /\ UNCHANGED <<empty, full, ring, left, got, children>>

PostEmpty == /\ pc[Main] = "post_empty"
             /\ empty' = empty + 1
             /\ left' = [left EXCEPT ![Main] = @ - 1]
             /\ Goto(Main, IF left[Main] = 1 THEN "reap" ELSE "wait_full")
             /\ UNCHANGED <<full, mutex, ring, got, children>>

-----------------------------------------------------------------------------
(* consumer() *)
WaitEmpty(c) == /\ pc[c] = "wait_empty" /\ empty > 0
                /\ empty' = empty - 1
                /\ Goto(c, "lock_pop")
                /\ UNCHANGED <<full, mutex, ring, left, got, children>>

(* Mutant: the consumer does not wait for the mutex.                       *)
LockPopAtOnce(c) ==
                /\ pc[c] = "lock_pop"
                /\ Goto(c, "front")
                /\ UNCHANGED <<sems, ring, left, got, children>>

LockPop(c) == /\ pc[c] = "lock_pop" /\ mutex > 0
              /\ mutex' = mutex - 1
              /\ Goto(c, "front")
              /\ UNCHANGED <<empty, full, ring, left, got, children>>

Front(c) == /\ pc[c] = "front"
            /\ got' = [got EXCEPT ![c] = item[head]]
            /\ Goto(c, "pop")
            /\ UNCHANGED <<sems, ring, left, children>>

(* Mutant: the value that was read is not removed.                         *)
PopNothing(c) ==
          /\ pc[c] = "pop"
          /\ size' = size - 1
          /\ Goto(c, "unlock_pop")
          /\ UNCHANGED <<sems, head, tail, item, left, got, children>>

Pop(c) == /\ pc[c] = "pop"
          /\ head' = (head + 1) % Capacity
          /\ size' = size - 1
          /\ Goto(c, "unlock_pop")
          /\ UNCHANGED <<sems, tail, item, left, got, children>>

UnlockPop(c) == /\ pc[c] = "unlock_pop"
                /\ mutex' = mutex + 1
                /\ Goto(c, "post_full")
                /\ UNCHANGED <<empty, full, ring, left, got, children>>

(* Mutant: the consumer posts the semaphore it has waited on.              *)
PostEmptyAgain(c) ==
               /\ pc[c] = "post_full"
               /\ empty' = empty + 1
               /\ left' = [left EXCEPT ![c] = @ - 1]
               /\ Goto(c, IF left[c] = 1 THEN "exited" ELSE "wait_empty")
               /\ UNCHANGED <<full, mutex, ring, got, children>>

PostFull(c) == /\ pc[c] = "post_full"
               /\ full' = full + 1
               /\ left' = [left EXCEPT ![c] = @ - 1]
               /\ Goto(c, IF left[c] = 1 THEN "exited" ELSE "wait_empty")
               /\ UNCHANGED <<empty, mutex, ring, got, children>>

-----------------------------------------------------------------------------
(* main(): waitpid(-1) returns a child that has exited.                    *)
(* Mutant: the parent does not wait for the child to exit.                 *)
ReapAtOnce(c) == /\ pc[Main] = "reap"
                 /\ c \in children
                 /\ children' = children \ {c}
                 /\ UNCHANGED <<sems, ring, pc, left, got>>

Reap(c) == /\ pc[Main] = "reap"
           /\ c \in children /\ pc[c] = "exited"
           /\ children' = children \ {c}
           /\ UNCHANGED <<sems, ring, pc, left, got>>

Finish == /\ pc[Main] = "reap" /\ children = {}
          /\ Goto(Main, "done")
          /\ UNCHANGED <<sems, ring, left, got, children>>

Parent == \/ (\E c \in Children : ForkChild(c)) \/ ForkFails \/ StartProducing
          \/ WaitFull \/ LockPush \/ Push \/ UnlockPush \/ PostEmpty
          \/ (\E c \in Children : Reap(c)) \/ Finish

Consumer(c) == \/ WaitEmpty(c) \/ LockPop(c) \/ Front(c) \/ Pop(c)
               \/ UnlockPop(c) \/ PostFull(c)

(* The parent is over: the run may stay as it is.                          *)
Terminated == pc[Main] \in {"done", "aborted"} /\ UNCHANGED vars

Next == Parent \/ (\E c \in Children : Consumer(c)) \/ Terminated

Spec == Init /\ [][Next]_vars

(* The system runs every process that can run, sooner or later.            *)
FairSpec == Spec /\ WF_vars(Parent) /\ \A c \in Children : WF_vars(Consumer(c))
-----------------------------------------------------------------------------
MainLabels  == {"fork", "wait_full", "lock_push", "push", "unlock_push", "post_empty",
                "reap", "done", "aborted"}
ChildLabels == {"unborn", "wait_empty", "lock_pop", "front", "pop", "unlock_pop",
                "post_full", "exited"}

TypeOK ==
    /\ empty \in Nat /\ full \in Nat /\ mutex \in Nat
    /\ head \in Slots /\ tail \in Slots /\ size \in Nat
    /\ item \in [Slots -> Values \cup {0}]
    /\ pc \in [Procs -> MainLabels \cup ChildLabels]
    /\ pc[Main] \in MainLabels /\ \A c \in Children : pc[c] \in ChildLabels
    /\ left \in [Procs -> Nat]
    /\ got \in [Children -> Values \cup {0}]
    /\ children \subseteq Children

Critical == {"push", "unlock_push", "front", "pop", "unlock_pop"}

(* The ring is only ever touched by one process at a time.                 *)
MutualExclusion ==
    \A p, q \in Procs : p # q => ~(pc[p] \in Critical /\ pc[q] \in Critical)

(* assert(!q.full()) in producer() and assert(!q.empty()) in consumer().   *)
AssertsHold == /\ pc[Main] = "push" => size < Capacity
               /\ \A c \in Children : pc[c] \in {"front", "pop"} => size > 0

(* The value a consumer has processed is still the one that it removes.    *)
ReadStaysFront == \A c \in Children : pc[c] = "pop" => got[c] = item[head]

SafeQueue == MutualExclusion /\ AssertsHold /\ ReadStaysFront

-----------------------------------------------------------------------------
(* Between a wait and the post that answers it a process holds a value of  *)
(* the ring, or a free slot of it, that no semaphore counts.               *)
ValueHeld == {"lock_pop", "front", "pop", "unlock_push", "post_empty"}
SlotHeld  == {"lock_push", "push", "unlock_pop", "post_full"}

Number(labels) == Cardinality({p \in Procs : pc[p] \in labels})

(* The semaphores and what the processes hold account for the whole ring.  *)

Accounting ==
    /\ mutex + Number(Critical) = 1
    /\ size = empty + Number(ValueHeld)
    /\ Capacity = size + full + Number(SlotHeld)

(* A process inside its loop has an iteration to do, so left never wraps.  *)
LoopsRun ==
    /\ pc[Main] \in {"wait_full", "lock_push", "push", "unlock_push", "post_empty"}
          => left[Main] > 0
    /\ \A c \in Children : pc[c] # "exited" => left[c] > 0

(* What the exclusion of the processes from the ring rests on.             *)
QueueInv == TypeOK /\ LoopsRun /\ Accounting /\ ReadStaysFront

(* The ends of the ring are as far apart as there are values in it.        *)
EndsMatch == tail = (head + size) % Capacity

(* Until the parent produces, which it never does once it has aborted, the *)
(* children wait at the start of their first iteration.                    *)
BeforeProducing ==
    pc[Main] \in {"fork", "aborted"} =>
        /\ empty = 0
        /\ \A c \in Children : pc[c] \in {"unborn", "wait_empty"} /\ left[c] = Iterations

(* The children are those that were forked; only who exited may be missing.*)
ChildrenKnown ==
    /\ \A c \in children : pc[c] # "unborn"
    /\ \A c \in Children \ children : pc[c] \in {"unborn", "exited"}
    /\ pc[Main] = "done" => children = {}

(* The iterations that the children have still to complete.                *)
Owed == {o \in Children \X (1 .. Iterations) : pc[o[1]] # "unborn" /\ o[2] <= left[o[1]]}

(* A value that is pushed and not yet counted as produced is in the ring,  *)
(* one that is popped and not yet counted as consumed is not.              *)
Pushed == {"unlock_push", "post_empty"}
Popped == {"unlock_pop", "post_full"}

(* The children wait for exactly what the parent has still to make and     *)
(* what is in the ring.                                                    *)
Balance ==
    /\ pc[Main] \in {"reap", "done"} => left[Main] = 0
    /\ \A c \in Children : left[c] <= Iterations /\ (pc[c] = "exited" => left[c] = 0)
    /\ pc[Main] \notin {"fork", "aborted"} =>
          Cardinality(Owed) + Number(Pushed) = left[Main] + size + Number(Popped)

(* The inductive invariant from which the safety of the program follows.   *)
Inv == QueueInv /\ EndsMatch /\ BeforeProducing /\ ChildrenKnown /\ Balance

-----------------------------------------------------------------------------
Fifo == INSTANCE BoundedFifo WITH
    queue <- [i \in 1 .. size |-> item[(head + i - 1) % Capacity]]

(* Values leave the ring in the order in which they entered it.            *)
ImplementsFifo == Fifo!Spec

(* When the parent is done every child that was forked has exited, and     *)
(* nothing that was produced is left behind.                               *)
AllConsumed ==
    pc[Main] = "done" => /\ \A c \in Children : pc[c] \in {"unborn", "exited"}
                         /\ size = 0 /\ empty = 0 /\ full = Capacity

(* The run ends, however many forks failed, unless the parent aborts: it   *)
(* produces for the children it has, and they all come home.               *)
Termination == <>(pc[Main] \in {"done", "aborted"})

(* A failed fork that aborts the parent does so before anything has been   *)
(* produced, and the children forked until then wait for ever.             *)
AbortStrandsChildren ==
    pc[Main] = "aborted" ~> [](\A c \in children : pc[c] = "wait_empty")
=============================================================================
