------------------------------ MODULE PollQueue ------------------------------
(***************************************************************************)
(* lockless/spscqueue/interprocessspscqueue.cpp and                        *)
(* lockless/spmcqueue/interprocessspmcqueue.cpp: a parent forks consumers  *)
(* and passes them numbered values through a lock-free queue in shared     *)
(* memory.  Nobody blocks: a push into a full queue and a pop from an empty*)
(* one fail, and are tried again after a sleep.  The queue itself is a     *)
(* library, of which the programs only use that push() and pop() are atomic*)
(* and say whether they succeeded.                                         *)
(***************************************************************************)
EXTENDS ProgramParameters

VARIABLES
    program,   \* which of the two runs: "spsc" or "spmc"
    queue,     \* the numbers of the values in the queue
    i,         \* the producer's loop: the number of the next value
    count,     \* how many values the producer makes
    todo,      \* how many values each consumer still waits for
    popped,    \* history: the numbers each consumer has popped, in order
    children,  \* the children forked and not yet reaped
    forks,     \* how many times the parent still forks
    pc         \* where each process is

vars == <<program, queue, i, count, todo, popped, children, forks, pc>>

Goto(p, l) == pc' = [pc EXCEPT ![p] = l]

Init == /\ program \in {"spsc", "spmc"}
        /\ queue = <<>> /\ i = 0 /\ count = 0
        /\ todo   = [c \in Consumers |-> Iterations]
        /\ popped = [c \in Consumers |-> <<>>]
        /\ children = {}
        /\ forks = IF program = "spsc" THEN 1 ELSE Cardinality(Consumers)
        /\ pc = [p \in Consumers \cup {Main} |-> IF p = Main THEN "fork" ELSE "unborn"]

-----------------------------------------------------------------------------
(* main() *)
Fork(c) == /\ pc[Main] = "fork" /\ forks > 0
           /\ pc[c] = "unborn"
           /\ forks' = forks - 1
           /\ children' = children \cup {c}
           /\ Goto(c, "pop")
           /\ UNCHANGED <<program, queue, i, count, todo, popped>>

(* A failed fork aborts the parent, unless the build leaves assertions out.*)
ForkFails == /\ pc[Main] = "fork" /\ forks > 0
             /\ forks' = forks - 1
             /\ Goto(Main, "aborted") \/ UNCHANGED pc
             /\ UNCHANGED <<program, queue, i, count, todo, popped, children>>

(* Mutant: the producer makes values for all the children asked for.       *)
StartProducingForAll ==
    /\ pc[Main] = "fork" /\ forks = 0
    /\ count' = Cardinality(Consumers) * Iterations
    /\ Goto(Main, "push")
    /\ UNCHANGED <<program, queue, i, todo, popped, children, forks>>

(* The single-consumer program counts on its child, the other counts the   *)
(* children it has.                                                        *)
StartProducing ==
    /\ pc[Main] = "fork" /\ forks = 0
    /\ count' = IF program = "spsc" THEN Iterations ELSE Cardinality(children) * Iterations
    /\ Goto(Main, "push")
    /\ UNCHANGED <<program, queue, i, todo, popped, children, forks>>

(* Mutant: the producer goes on although the queue was full.               *)
PushUnchecked ==
    /\ pc[Main] = "push" /\ i < count
    /\ queue' = IF Len(queue) < Capacity THEN Append(queue, i) ELSE queue
    /\ i' = i + 1
    /\ UNCHANGED <<program, count, todo, popped, children, forks, pc>>

Push == /\ pc[Main] = "push" /\ i < count
        /\ Len(queue) < Capacity
        /\ queue' = Append(queue, i)
        /\ i' = i + 1
        /\ UNCHANGED <<program, count, todo, popped, children, forks, pc>>

(* The producer sleeps and tries the same number again.                    *)
PushFails == /\ pc[Main] = "push" /\ i < count
             /\ Len(queue) = Capacity
             /\ UNCHANGED vars

StopProducing == /\ pc[Main] = "push" /\ i = count
                 /\ Goto(Main, "reap")
                 /\ UNCHANGED <<program, queue, i, count, todo, popped, children, forks>>

(* Mutant: the parent does not wait for the child to exit.                 *)
ReapAtOnce(c) == /\ pc[Main] = "reap" /\ c \in children
                 /\ children' = children \ {c}
                 /\ UNCHANGED <<program, queue, i, count, todo, popped, forks, pc>>

(* waitpid() returns a child that has exited.                              *)
Reap(c) == /\ pc[Main] = "reap"
           /\ c \in children /\ pc[c] = "exited"
           /\ children' = children \ {c}
           /\ UNCHANGED <<program, queue, i, count, todo, popped, forks, pc>>

Finish == /\ pc[Main] = "reap" /\ children = {}
          /\ Goto(Main, "done")
          /\ UNCHANGED <<program, queue, i, count, todo, popped, children, forks>>

-----------------------------------------------------------------------------
(* consumer() *)

Pop(c) == /\ pc[c] = "pop" /\ todo[c] > 0
          /\ queue # <<>>
          /\ queue'  = Tail(queue)
          /\ popped' = [popped EXCEPT ![c] = Append(@, Head(queue))]
          /\ todo'   = [todo EXCEPT ![c] = @ - 1]
          /\ UNCHANGED <<program, i, count, children, forks, pc>>

(* The consumer sleeps and tries again: the attempt does not count.        *)
PopFails(c) == /\ pc[c] = "pop" /\ todo[c] > 0
               /\ queue = <<>>
               /\ UNCHANGED vars

Exit(c) == /\ pc[c] = "pop" /\ todo[c] = 0
           /\ Goto(c, "exited")
           /\ UNCHANGED <<program, queue, i, count, todo, popped, children, forks>>

-----------------------------------------------------------------------------
Parent == \/ (\E c \in Consumers : Fork(c)) \/ ForkFails \/ StartProducing
          \/ Push \/ PushFails \/ StopProducing \/ (\E c \in Consumers : Reap(c)) \/ Finish

Consumer(c) == Pop(c) \/ PopFails(c) \/ Exit(c)

(* The parent is over: the run may stay as it is.                          *)
Terminated == pc[Main] \in {"done", "aborted"} /\ UNCHANGED vars

Next == Parent \/ (\E c \in Consumers : Consumer(c)) \/ Terminated

Spec == Init /\ [][Next]_vars

(* The system runs every process that can do something, sooner or later.   *)
FairSpec == Spec /\ WF_vars(Parent) /\ \A c \in Consumers : WF_vars(Consumer(c))
-----------------------------------------------------------------------------
TypeOK ==
    /\ program \in {"spsc", "spmc"}
    /\ queue \in Seq(Nat) /\ Len(queue) <= Capacity
    /\ i \in Nat /\ count \in Nat /\ forks \in Nat /\ i <= count
    /\ todo \in [Consumers -> 0 .. Iterations]
    /\ popped \in [Consumers -> Seq(Nat)]
    /\ children \subseteq Consumers
    /\ pc \in [Consumers \cup {Main} -> {"fork", "push", "reap", "done", "aborted",
                                         "unborn", "pop", "exited"}]

Increasing(s) == \A j, k \in DOMAIN s : j < k => s[j] < s[k]

(* Every value pushed was popped by exactly one consumer or is still in the*)
(* queue, and each consumer sees its share in the order of production.     *)
ConsumedOnce ==
    /\ (UNION {ToSet(popped[c]) : c \in Consumers}) \cup ToSet(queue) = 0 .. i - 1
    /\ i = Len(queue) + SumFunction([c \in Consumers |-> Len(popped[c])])
    /\ \A c \in Consumers :
          /\ Increasing(popped[c] \o queue)
          /\ Len(popped[c]) + todo[c] = Iterations

Born == {c \in Consumers : pc[c] # "unborn"}

(* A consumer ends when it has what it waits for, and only a consumer that *)
(* has ended is reaped.  What the parent makes is what the children that   *)
(* it has forked wait for, or, in the single-consumer program, what one    *)
(* would; and all of it has been pushed before the first is reaped.        *)
ChildrenCounted ==
    /\ pc[Main] \in {"fork", "push", "reap", "done", "aborted"}
    /\ \A c \in Consumers : pc[c] \in {"unborn", "pop", "exited"}
    /\ \A c \in Consumers : /\ pc[c] = "unborn" => todo[c] = Iterations
                            /\ pc[c] = "exited" => todo[c] = 0
    /\ children \subseteq Born /\ \A c \in Born \ children : pc[c] = "exited"
    /\ program = "spsc" => Cardinality(Born) + forks <= 1
    /\ pc[Main] \in {"fork", "aborted"} => i = 0 /\ count = 0
    /\ pc[Main] = "fork" => children = Born
    /\ pc[Main] \in {"push", "reap", "done"} =>
          count = IF program = "spsc" THEN Iterations ELSE Cardinality(Born) * Iterations
    /\ pc[Main] \in {"reap", "done"} => i = count
    /\ pc[Main] = "done" => children = {}

Inv == TypeOK /\ ConsumedOnce /\ ChildrenCounted

(* When the parent is done nothing is left in the queue and no child runs. *)
AllConsumed ==
    pc[Main] = "done"
        => queue = <<>> /\ \A c \in Consumers : pc[c] \in {"unborn", "exited"}

(* Without its child, in a build without assertions, the single-consumer   *)
(* program fills the queue and then retries for ever.                      *)
Orphaned == program = "spsc" /\ forks = 0 /\ children = {}
                /\ \A c \in Consumers : pc[c] = "unborn"

(* Apart from that every run ends, however many forks failed: what the     *)
(* parent makes is what its children wait for.                             *)
Ended == pc[Main] \in {"done", "aborted"} \/ Orphaned
=============================================================================
