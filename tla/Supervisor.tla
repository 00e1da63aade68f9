------------------------------ MODULE Supervisor ------------------------------
(***************************************************************************)
(* class Process of boost/child/process/src/main.cpp: an object that       *)
(* launches a child process, runs an io_service in a thread of its own to  *)
(* hear of the child's exit, and stops both.  Its caller may call Spawn(), *)
(* Join(), Stop() and the destructor in any order, from one thread; the    *)
(* io_service thread and the children run beside it.                       *)
(***************************************************************************)
EXTENDS Integers, FiniteSets, Sequences

CONSTANTS
    Children,   \* the processes that Spawn() may launch, one after another
    NoChild     \* what a new child_process_ stands for

ASSUME ChildrenAssumption == IsFiniteSet(Children) /\ NoChild \notin Children

VARIABLES
    child_process_,     \* the child the object knows of
    state,              \* each child: "unborn", "running", "zombie", "reaped"
    watched,            \* the children whose exit handler waits in io_service_
    handling,           \* the child whose exit handler run() is about to call, or NoChild
    stopped,            \* io_service_: stop() was called, or run() ran out of work
    io_service_thread_, \* "none": not joinable; "running"; "returned" from run()
    handled,            \* how often the exit handler was called for each child
    timed_out,          \* the children that Stop() said it is terminating
    caller              \* where the caller is

vars == <<child_process_, state, watched, handling, stopped, io_service_thread_, handled,
          timed_out, caller>>

(* The code's child_process_.joinable() holds of every child object here:  *)
(* a new one counts as attached, and nothing detaches one.                 *)
Joinable == io_service_thread_ # "none"

Running(c) == c \in Children /\ state[c] = "running"

Reaped(c) == [state EXCEPT ![c] = "reaped"]

Init == /\ child_process_ = NoChild
        /\ state   = [c \in Children |-> "unborn"]
        /\ watched = {} /\ handling = NoChild /\ stopped = FALSE
        /\ io_service_thread_ = "none"
        /\ handled = [c \in Children |-> 0]
        /\ timed_out = {}
        /\ caller  = "idle"

-----------------------------------------------------------------------------
(* The child. *)
Exit(c) == /\ Running(c)
           /\ state' = [state EXCEPT ![c] = "zombie"]
           /\ UNCHANGED <<child_process_, watched, handling, stopped, io_service_thread_,
                          handled, timed_out, caller>>

(* The io_service thread.  SIGCHLD makes it wait for the children it       *)
(* watches and call the handler.  run() first takes what is to be done from*)
(* its queue, and stop() does not take it back.                            *)
Dequeue(c) ==
    /\ io_service_thread_ = "running" /\ ~stopped /\ handling = NoChild
    /\ c \in watched /\ state[c] \in {"zombie", "reaped"}
    /\ handling' = c
    /\ watched'  = watched \ {c}
    /\ UNCHANGED <<child_process_, state, stopped, io_service_thread_, handled, timed_out,
                   caller>>

(* Where the caller has reaped the child first, the wait for it fails:     *)
(* releases of the library differ in whether the handler is then called    *)
(* with an error or not at all.                                            *)
Handle(c) ==
    /\ handling = c
    /\ handling' = NoChild
    /\ state'    = Reaped(c)
    /\ \E called \in IF state[c] = "zombie" THEN {1} ELSE {0, 1} :
          handled' = [handled EXCEPT ![c] = @ + called]
    /\ UNCHANGED <<child_process_, watched, stopped, io_service_thread_, timed_out, caller>>

(* run() returns when the service is stopped, and at once if it was        *)
(* stopped before; when no work is left it stops the service itself.       *)
IoServiceThread ==
    /\ io_service_thread_ = "running" /\ handling = NoChild
    /\ stopped \/ watched = {}
    /\ stopped' = TRUE
    /\ io_service_thread_' = "returned"
    /\ UNCHANGED <<child_process_, state, watched, handling, handled, timed_out, caller>>

-----------------------------------------------------------------------------
(* The caller. *)

(* Mutant: Spawn() does not ask whether a child is being looked after.     *)
SpawnAnyway(c) ==
    /\ caller = "idle"
    /\ state[c] = "unborn"
    /\ child_process_' = c
    /\ state'   = [state EXCEPT ![c] = "running"]
    /\ watched' = watched \cup {c}
    /\ io_service_thread_' = "running"
    /\ UNCHANGED <<handling, stopped, handled, timed_out, caller>>

(* A refused and a failed launch change nothing, and return the same empty *)
(* error code as this one.                                                 *)
Spawn(c) ==
    /\ caller = "idle" /\ ~Joinable
    /\ state[c] = "unborn"
    /\ child_process_' = c
    /\ state'   = [state EXCEPT ![c] = "running"]
    /\ watched' = watched \cup {c}
    /\ io_service_thread_' = "running"
    /\ UNCHANGED <<handling, stopped, handled, timed_out, caller>>

Join == /\ caller = "idle" /\ Joinable
        /\ caller' = IF state[child_process_] = "reaped" THEN "idle" ELSE "join"
        /\ UNCHANGED <<child_process_, state, watched, handling, stopped, io_service_thread_,
                       handled, timed_out>>

(* The caller reaps the child; or the io_service thread has been faster,   *)
(* and waiting for a child that is gone throws.                            *)
Joined == /\ caller = "join" /\ ~Running(child_process_)
          /\ state'  = Reaped(child_process_)
          /\ caller' = "idle"
          /\ UNCHANGED <<child_process_, watched, handling, stopped, io_service_thread_,
                         handled, timed_out>>

(* Stop(), also from the destructor; then is where the caller goes on.     *)
Stopping(then) == IF then = "idle" THEN "stop" ELSE "stop to destroy"

Waiting(then) == IF then = "idle" THEN "wait" ELSE "wait to destroy"

Stop(then) ==
    /\ caller = "idle" /\ Joinable
    /\ stopped' = TRUE
    /\ caller'  = Stopping(then)
    /\ UNCHANGED <<child_process_, state, watched, handling, io_service_thread_, handled,
                   timed_out>>

(* Mutant: Stop() does not wait for the thread.                            *)
ForgetThread(then) ==
    /\ caller = Stopping(then)
    /\ caller' = Waiting(then)
    /\ UNCHANGED <<child_process_, state, watched, handling, stopped, io_service_thread_,
                   handled, timed_out>>

JoinThread(then) ==
    /\ caller = Stopping(then) /\ io_service_thread_ = "returned"
    /\ io_service_thread_' = "none"
    /\ caller' = Waiting(then)
    /\ UNCHANGED <<child_process_, state, watched, handling, stopped, handled, timed_out>>

(* Mutant: Stop() does not look at what wait_for() returns.                *)
ExitedOrNot(then) ==
    /\ caller = Waiting(then)
    /\ caller' = then
    /\ UNCHANGED <<child_process_, state, watched, handling, stopped, io_service_thread_,
                   handled, timed_out>>

(* wait_for() the child, which reaps it.                                   *)
Exited(then) ==
    /\ caller = Waiting(then) /\ ~Running(child_process_)
    /\ state'  = Reaped(child_process_)
    /\ caller' = then
    /\ UNCHANGED <<child_process_, watched, handling, stopped, io_service_thread_, handled,
                   timed_out>>

(* Terminate() kills the child, if it gets as far as that.                 *)
Terminate == state' = IF Joinable THEN Reaped(child_process_) ELSE state

(* Mutant: wait() in the place of wait_for().                              *)
WaitForEver(then) == Exited(then)

Timeout(then) ==
    /\ caller = Waiting(then) /\ Running(child_process_)
    /\ timed_out' = timed_out \cup {child_process_}
    /\ Terminate
    /\ caller' = then
    /\ UNCHANGED <<child_process_, watched, handling, stopped, io_service_thread_, handled>>

(* ~Process() after its Stop(): the child object terminates a child that   *)
(* still runs, and the watches go with io_service_.                        *)
Destroy == /\ \/ caller = "idle" /\ ~Joinable
              \/ caller = "destroy"
           /\ state'   = IF Running(child_process_) THEN Reaped(child_process_) ELSE state
           /\ watched' = {}
           /\ caller'  = "destroyed"
           /\ UNCHANGED <<child_process_, handling, stopped, io_service_thread_, handled,
                          timed_out>>

Gone == caller = "destroyed" /\ UNCHANGED vars
-----------------------------------------------------------------------------
(* Within a call. *)
Stops == \E then \in {"idle", "destroy"} : JoinThread(then) \/ Exited(then) \/ Timeout(then)

Calls == \/ \E c \in Children : Spawn(c)
         \/ Join
         \/ \E then \in {"idle", "destroy"} : Stop(then)

Next == \/ Calls \/ Joined \/ Stops \/ Destroy \/ Gone
        \/ IoServiceThread
        \/ \E c \in Children : Exit(c) \/ Dequeue(c) \/ Handle(c)

Spec == Init /\ [][Next]_vars

(* The two threads run, and 30 seconds pass.  No child has to exit, and no *)
(* caller has to call.                                                     *)
FairSpec == /\ Spec
            /\ WF_vars(IoServiceThread)
            /\ WF_vars(Stops)
            /\ WF_vars(caller = "destroy" /\ Destroy)
            /\ \A c \in Children : WF_vars(Dequeue(c)) /\ WF_vars(Handle(c))
-----------------------------------------------------------------------------
Callers == {"idle", "join", "stop", "wait",
            "stop to destroy", "wait to destroy", "destroy", "destroyed"}

TypeOK ==
    /\ child_process_ \in Children \cup {NoChild}
    /\ state \in [Children -> {"unborn", "running", "zombie", "reaped"}]
    /\ watched \subseteq Children /\ handling \in Children \cup {NoChild}
    /\ stopped \in BOOLEAN
    /\ io_service_thread_ \in {"none", "running", "returned"}
    /\ handled \in [Children -> 0 .. 1]
    /\ timed_out \subseteq Children
    /\ caller \in Callers

(* The object never loses a child: one that runs is the one it knows, and  *)
(* is over when the object is gone.  The exception are the children that   *)
(* Stop() gave up on.                                                      *)
NoOrphan ==
    \A c \in Children : Running(c) =>
        c \in timed_out \/ (c = child_process_ /\ caller # "destroyed")

(* While Stop() waits for the child, the thread has been joined; while it  *)
(* waits for the thread, and in Join(), there is one.                      *)
ThreadOfCaller ==
    /\ caller \in {"join", "stop", "stop to destroy"} => io_service_thread_ # "none"
    /\ caller \in {"stop", "stop to destroy"} => stopped
    /\ caller \in {"wait", "wait to destroy", "destroy", "destroyed"} => io_service_thread_ = "none"
    /\ io_service_thread_ # "none" \/ caller \in {"wait", "wait to destroy"} => child_process_ \in Children

(* Without the thread, the object has no child left that it has not given  *)
(* up on.                                                                  *)
GivenUp == io_service_thread_ = "none" /\ caller \in {"idle", "destroy"} /\ Running(child_process_)
              => child_process_ \in timed_out

(* Until it is stopped, the service watches the current child at most.     *)
Watching ==
    /\ ~stopped => watched \subseteq {child_process_} /\ io_service_thread_ # "returned"
    /\ ~stopped /\ io_service_thread_ = "none" => watched = {}
    /\ \A c \in Children : handled[c] # 0 =>
          state[c] \in {"zombie", "reaped"} /\ c \notin watched /\ c # handling

(* A handler that is about to be called is that of the current child, which*)
(* has exited.  It may outlast stop(), but not the wait for the thread.    *)
Handling ==
    handling # NoChild =>
        /\ io_service_thread_ = "running" /\ handling = child_process_
        /\ state[handling] \in {"zombie", "reaped"} /\ handling \notin watched
        /\ stopped => caller \in {"stop", "stop to destroy"}

Inv == TypeOK /\ NoOrphan /\ ThreadOfCaller /\ GivenUp /\ Watching /\ Handling

(* A std::thread that is assigned to or destroyed while joinable ends the  *)
(* program: whatever is called, the io_service thread has been joined      *)
(* before Spawn() makes another and before the object is gone.             *)
ThreadJoinedFirst ==
    [][/\ (io_service_thread_ # "running" /\ io_service_thread_' = "running"
             => io_service_thread_ = "none")
       /\ (caller' = "destroyed" => io_service_thread_ = "none")
       /\ (child_process_' # child_process_ => io_service_thread_ = "none")]_vars

(* The exit handler is bound to the object: it is called at most once for  *)
(* a child, not before that has exited, not for a child before the current *)
(* one, and once the service is stopped only while Stop() waits for the    *)
(* thread, so never after Stop() or the destructor has returned.           *)
HandlerInTime ==
    [][\A c \in Children : handled'[c] # handled[c] =>
          /\ handled[c] = 0 /\ ~Running(c) /\ c = child_process_
          /\ stopped => caller \in {"stop", "stop to destroy"}
          /\ caller # "destroyed"]_vars

(* Stop() returns, also when the child does not exit.                      *)
StopReturns == caller \notin {"idle", "join", "destroyed"} ~> caller \in {"idle", "destroyed"}

(* What Stop() says of a child that has not exited in time: that it is     *)
(* being terminated and has finished.  When Stop() has returned it should  *)
(* be over.                                                                *)
TimedOutIsOver == caller = "idle" => \A c \in timed_out : ~Running(c)
=============================================================================
