----------------------------- MODULE SharedObject -----------------------------
(***************************************************************************)
(* shared_memory/main.cpp: a parent builds an object with a virtual method *)
(* in an anonymous shared mapping and forks; parent and child both call    *)
(* the method.  The child ends with _Exit(), which destroys nothing; the   *)
(* parent waits for it and then destroys the object and unmaps its view.   *)
(***************************************************************************)
EXTENDS Integers

VARIABLES
    asserts,   \* whether the build checks assertions
    object,    \* the Shared in the mapping: "none", "live" or "destroyed"
    misused,   \* history: the object was called or destroyed when not live
    pc         \* where the parent and the child are

vars == <<asserts, object, misused, pc>>

Init == /\ asserts \in BOOLEAN
        /\ object = "none" /\ misused = FALSE
        /\ pc = [parent |-> "map", child |-> "unborn"]

Goto(p, l) == pc' = [pc EXCEPT ![p] = l]

(* A failed mmap() gives an address at which nothing can be built: without *)
(* the assertion the program crashes there.                                *)
Map == /\ pc.parent = "map"
       /\ \/ Goto("parent", "fork") /\ object' = "live"
          \/ Goto("parent", "died") /\ UNCHANGED object
       /\ UNCHANGED <<asserts, misused>>

Fork == /\ pc.parent = "fork"
        /\ \/ pc' = [parent |-> "print", child |-> "print"]
           \/ Goto("parent", IF asserts THEN "died" ELSE "print")
        /\ UNCHANGED <<asserts, object, misused>>

CallPrint(p, to) == /\ pc[p] = "print"
                    /\ misused' = (misused \/ object # "live")
                    /\ Goto(p, to)
                    /\ UNCHANGED <<asserts, object>>

(* Mutant: the parent does not wait for the child.                         *)
WaitForNobody == /\ pc.parent = "wait"
                 /\ Goto("parent", "destroy")
                 /\ UNCHANGED <<asserts, object, misused>>

(* Without a child waitpid(-1) fails at once; in a build that gets here    *)
(* with no child there is no assertion to fail.                            *)
Wait == /\ pc.parent = "wait" /\ pc.child \in {"unborn", "over"}
        /\ Goto("parent", "destroy")
        /\ UNCHANGED <<asserts, object, misused>>

(* process_shared_data_deleter: the destructor and munmap().               *)
Destroy(p) == /\ pc[p] = "destroy"
              /\ misused' = (misused \/ object # "live")
              /\ object' = "destroyed"
              /\ Goto(p, "over")
              /\ UNCHANGED asserts

Parent == Map \/ Fork \/ CallPrint("parent", "wait") \/ Wait \/ Destroy("parent")

Child == CallPrint("child", "over")

Ended == pc.parent \in {"over", "died"} /\ pc.child \in {"unborn", "over"}

Next == Parent \/ Child \/ (Ended /\ UNCHANGED vars)
-----------------------------------------------------------------------------
(* Where the parent is tells whether the object lives; the child is over   *)
(* before the parent destroys it.                                          *)
Inv == /\ asserts \in BOOLEAN
       /\ pc \in [parent : {"map", "fork", "print", "wait", "destroy", "over", "died"},
                 child : {"unborn", "print", "over"}]
       /\ ~misused
       /\ object = CASE pc.parent = "map" -> "none"
                     [] pc.parent = "over" -> "destroyed"
                     [] pc.parent \in {"fork", "print", "wait", "destroy"} -> "live"
                     [] OTHER -> object
       /\ pc.parent \in {"map", "fork"} => pc.child = "unborn"
       /\ pc.child = "print" => pc.parent \in {"print", "wait"}

(* The object is called only while it lives, and destroyed once; it is     *)
(* destroyed whenever the parent comes to its end.                         *)
ObjectUsedAlive == ~misused /\ (pc.parent = "over" => object = "destroyed")
=============================================================================
