-------------------------- MODULE Supervisor_proofs ---------------------------
(***************************************************************************)
(* Proofs about Supervisor, for any number of launches: Inv is inductive,  *)
(* and the two promises about the io_service thread follow from it.        *)
(***************************************************************************)
EXTENDS Supervisor, TLAPS

(* A new object has no child.                                              *)
LEMMA NoChildIsNone == NoChild \notin Children
  BY ChildrenAssumption

(* The one call that a handler may get.                                    *)
LEMMA OneCall == ASSUME NEW called \in {0, 1}, NEW calls, calls = 0
                 PROVE  calls + called \in 0 .. 1
  OBVIOUS

(* A new object satisfies the invariant.                                   *)
LEMMA InitInv == Init => Inv
<1> SUFFICES ASSUME Init PROVE Inv
  OBVIOUS
<1>1. TypeOK
  <2>1. handled \in [Children -> 0 .. 1]
    BY DEF Init
  <2>2. state \in [Children -> {"unborn", "running", "zombie", "reaped"}]
    BY DEF Init
  <2>3. stopped \in BOOLEAN /\ caller \in Callers
    BY DEF Init, Callers
  <2> QED BY <2>1, <2>2, <2>3 DEF Init, TypeOK
<1>2. NoOrphan /\ GivenUp
  BY NoChildIsNone DEF Init, NoOrphan, GivenUp, Running
<1>3. ThreadOfCaller
  BY DEF Init, ThreadOfCaller
<1>4. Watching /\ Handling
  BY DEF Init, Watching, Handling
<1> QED BY <1>1, <1>2, <1>3, <1>4 DEF Inv

(* What the child and the io_service thread do.                            *)
LEMMA BackgroundPreserves ==
  ASSUME Inv, IoServiceThread \/ \E c \in Children : Exit(c) \/ Dequeue(c) \/ Handle(c)
  PROVE  Inv'
<1> USE NoChildIsNone
    DEF Inv, TypeOK, NoOrphan, ThreadOfCaller, GivenUp, Watching, Handling, Running, Reaped,
        Callers
<1>1. CASE IoServiceThread
  BY <1>1 DEF IoServiceThread
<1>2. ASSUME NEW c \in Children, Exit(c) PROVE Inv'
  BY <1>2 DEF Exit
<1>3. ASSUME NEW c \in Children, Dequeue(c) PROVE Inv'
  BY <1>3 DEF Dequeue
<1>4. ASSUME NEW c \in Children, Handle(c) PROVE Inv'
  <2>1. PICK called \in {0, 1} : handled' = [handled EXCEPT ![c] = @ + called]
    BY <1>4 DEF Handle
  <2>2. handled[c] = 0 /\ c = child_process_ /\ c \notin watched /\ state[c] \in {"zombie", "reaped"}
    BY <1>4 DEF Handle
  <2>3. TypeOK'
    <3>1. handled' \in [Children -> 0 .. 1]
      <4>1. handled[c] + called \in 0 .. 1
        BY <2>2, OneCall
      <4>2. handled' = [handled EXCEPT ![c] = handled[c] + called]
        BY <2>1
      <4> QED BY <4>1, <4>2 DEF TypeOK
    <3>2. state' \in [Children -> {"unborn", "running", "zombie", "reaped"}]
      BY <1>4 DEF Handle
    <3> QED BY <1>4, <3>1, <3>2 DEF Handle
  <2>4. Watching'
    BY <1>4, <2>1, <2>2 DEF Handle
  <2>5. (NoOrphan /\ ThreadOfCaller /\ GivenUp /\ Handling)'
    BY <1>4, <2>2 DEF Handle
  <2> QED BY <2>3, <2>4, <2>5
<1> QED BY <1>1, <1>2, <1>3, <1>4

(* What the caller does outside Stop().                                    *)
LEMMA CallsPreserve ==
  ASSUME Inv, Calls \/ Joined \/ Destroy \/ Gone
  PROVE  Inv'
<1> USE NoChildIsNone
    DEF Inv, TypeOK, NoOrphan, ThreadOfCaller, GivenUp, Watching, Handling, Running, Reaped,
        Callers
<1>1. ASSUME NEW c \in Children, Spawn(c) PROVE Inv'
  BY <1>1 DEF Spawn, Joinable
<1>2. CASE Join
  BY <1>2 DEF Join, Joinable
<1>3. ASSUME NEW then \in {"idle", "destroy"}, Stop(then) PROVE Inv'
  BY <1>3 DEF Stop, Stopping, Joinable
<1>4. CASE Joined
  BY <1>4 DEF Joined
<1>5. CASE Destroy
  BY <1>5 DEF Destroy, Joinable
<1>6. CASE Gone
  BY <1>6 DEF Gone, vars
<1> QED BY <1>1, <1>2, <1>3, <1>4, <1>5, <1>6 DEF Calls

(* Stop() from its first wait on.                                          *)
LEMMA StopsPreserve ==
  ASSUME Inv, Stops
  PROVE  Inv'
<1> USE NoChildIsNone
    DEF Inv, TypeOK, NoOrphan, ThreadOfCaller, GivenUp, Watching, Handling, Running, Reaped,
        Callers
<1>1. ASSUME NEW then \in {"idle", "destroy"}, JoinThread(then) PROVE Inv'
  BY <1>1 DEF JoinThread, Stopping, Waiting
<1>2. ASSUME NEW then \in {"idle", "destroy"}, Exited(then) PROVE Inv'
  BY <1>2 DEF Exited, Waiting
<1>3. ASSUME NEW then \in {"idle", "destroy"}, Timeout(then) PROVE Inv'
  <2>1. ~Joinable
    BY <1>3 DEF Timeout, Waiting, Joinable
  <2> QED BY <1>3, <2>1 DEF Timeout, Terminate, Waiting
<1> QED BY <1>1, <1>2, <1>3 DEF Stops

(* Inv is inductive.                                                       *)
LEMMA NextPreserves == Inv /\ [Next]_vars => Inv'
<1> SUFFICES ASSUME Inv, [Next]_vars PROVE Inv'
  OBVIOUS
<1>1. CASE UNCHANGED vars
  BY <1>1 DEF vars, Inv, TypeOK, NoOrphan, ThreadOfCaller, GivenUp, Watching, Handling, Running
<1> QED BY <1>1, BackgroundPreserves, CallsPreserve, StopsPreserve DEF Next

(* No child is lost that Stop() has not given up on, for any number of     *)
(* launches.                                                               *)
THEOREM Invariance == Spec => []Inv
  BY InitInv, NextPreserves, PTL DEF Spec

(* Spawn() never replaces, and the destructor never destroys, a thread     *)
(* that has not been joined.                                               *)
THEOREM JoinedFirst == Spec => ThreadJoinedFirst
<1>1. Inv /\ [Next]_vars =>
        [/\ (io_service_thread_ # "running" /\ io_service_thread_' = "running"
               => io_service_thread_ = "none")
         /\ (caller' = "destroyed" => io_service_thread_ = "none")
         /\ (child_process_' # child_process_ => io_service_thread_ = "none")]_vars
  <2> SUFFICES ASSUME Inv, Next
               PROVE  /\ (io_service_thread_ # "running" /\ io_service_thread_' = "running"
                            => io_service_thread_ = "none")
                      /\ (caller' = "destroyed" => io_service_thread_ = "none")
                      /\ (child_process_' # child_process_ => io_service_thread_ = "none")
    OBVIOUS
  <2> USE DEF Inv, TypeOK, ThreadOfCaller, Joinable
  <2>1. CASE Calls
    BY <2>1 DEF Calls, Spawn, Join, Stop, Stopping
  <2>2. CASE Joined \/ Destroy \/ Gone
    BY <2>2 DEF Joined, Destroy, Gone, vars
  <2>3. CASE Stops
    BY <2>3 DEF Stops, JoinThread, Exited, Timeout, Stopping, Waiting
  <2>4. CASE IoServiceThread \/ \E c \in Children : Exit(c) \/ Dequeue(c) \/ Handle(c)
    BY <2>4 DEF IoServiceThread, Exit, Dequeue, Handle
  <2> QED BY <2>1, <2>2, <2>3, <2>4 DEF Next
<1> QED BY <1>1, Invariance, PTL DEF Spec, ThreadJoinedFirst

(* The exit handler, which is bound to the object, is called once at most  *)
(* for a child, for the current one only, and after the service has been   *)
(* stopped only while Stop() still waits for the thread.                   *)
THEOREM CalledInTime == Spec => HandlerInTime
<1>1. Inv /\ [Next]_vars =>
        [\A c \in Children : handled'[c] # handled[c] =>
            /\ handled[c] = 0 /\ ~Running(c) /\ c = child_process_
            /\ stopped => caller \in {"stop", "stop to destroy"}
            /\ caller # "destroyed"]_vars
  <2> SUFFICES ASSUME Inv, Next, NEW c \in Children, handled'[c] # handled[c]
               PROVE  /\ handled[c] = 0 /\ ~Running(c) /\ c = child_process_
                      /\ stopped => caller \in {"stop", "stop to destroy"}
                      /\ caller # "destroyed"
    OBVIOUS
  <2>1. PICK d \in Children : Handle(d)
    BY DEF Next, Calls, Spawn, Join, Stop, Joined, Stops, JoinThread, Exited, Timeout,
           Destroy, Gone, IoServiceThread, Exit, Dequeue, vars
  <2>2. c = d
    BY <2>1 DEF Handle, Inv, TypeOK
  <2>3. c = handling /\ handling # NoChild
    BY <2>1, <2>2, NoChildIsNone DEF Handle
  <2>4. handled[c] = 0
    <3>1. handled[c] # 0 => c # handling
      BY DEF Inv, Watching
    <3> QED BY <2>3, <3>1
  <2>5. /\ io_service_thread_ = "running" /\ c = child_process_
        /\ state[c] \in {"zombie", "reaped"}
        /\ stopped => caller \in {"stop", "stop to destroy"}
    BY <2>3 DEF Inv, Handling
  <2> QED BY <2>4, <2>5 DEF Inv, ThreadOfCaller, Running
<1> QED BY <1>1, Invariance, PTL DEF Spec, HandlerInTime
=============================================================================
