------------------------------ MODULE EventLoops ------------------------------
(***************************************************************************)
(* The programs of boost/asio: each starts a few operations on an          *)
(* io_service and lets one thread run the handlers of those that complete; *)
(* a handler may start another.  run() returns when the io_service was     *)
(* stopped, or when no operation, handler or work is left.                 *)
(*                                                                         *)
(*   asio, io_service   posted handlers, work, a thread that is joined;    *)
(*                      only the first program stops the io_service        *)
(*   timer, timer2      a timer that is always armed again; two timers     *)
(*   tcp                resolve, connect, then read until the peer closes  *)
(*   asio3              accept a client and write it the time              *)
(*   asio2              the same in coroutines, for two clients            *)
(***************************************************************************)
EXTENDS Integers, SequencesExt

VARIABLES
    program,
    pending,   \* the operations that have been started and have not completed
    ready,     \* the handlers to be run: [op, ec], ec being TRUE for an error
    stopped,   \* io_service::stop() was called
    ran,       \* history: the handlers that have run, in the order of their first run
    thread,    \* the thread that calls run()
    main       \* where main() is

vars == <<program, pending, ready, stopped, ran, thread, main>>

Programs == {"asio", "io_service", "timer", "timer2", "tcp", "asio2", "asio3"}

(* An operation; n is the socket of an accept or a write, or the seconds   *)
(* of a timer.                                                             *)
Op(name, n) == [name |-> name, n |-> n]

Handler(name) == [op |-> Op(name, 0), ec |-> FALSE]

Posted == <<Handler("hello"), Handler(", "), Handler("world")>>

HasWork == program \in {"asio", "io_service", "timer"}

(* What is started before run().  The coroutine of asio2 waits for run().  *)
Init == /\ program \in Programs
        /\ pending = CASE program = "timer"  -> {Op("wait", 3)}
                       [] program = "timer2" -> {Op("wait", 3), Op("wait", 4)}
                       [] program = "tcp"    -> {Op("resolve", 0)}
                       [] program = "asio3"  -> {Op("accept", 1)}
                       [] OTHER              -> {}
        /\ ready = CASE program \in {"asio", "io_service"} -> Posted
                     [] program = "asio2"                  -> <<Handler("do_accept")>>
                     [] OTHER                              -> <<>>
        /\ stopped = FALSE /\ ran = <<>> /\ thread = "running"
        /\ main = IF program = "asio" THEN "stop" ELSE "join"

-----------------------------------------------------------------------------
(* Timers complete in the order of their times, and without an error;      *)
(* whatever a peer has part in may fail.                                   *)
Complete(op) ==
    /\ op.name = "wait" => \A o \in pending : op.n <= o.n
    /\ \E ec \in BOOLEAN : /\ ec => op.name # "wait"
                           /\ ready' = Append(ready, [op |-> op, ec |-> ec])
    /\ pending' = pending \ {op}
    /\ UNCHANGED <<program, stopped, ran, thread, main>>

(* Mutant: the coroutine that writes starts after the next accept, when    *)
(* tcp_sockets.back() is another socket.                                   *)
CoroutineLater(op) ==
    CASE op.name = "do_accept" -> {Op("accept", 1)}
      [] op.name = "accept"    -> IF op.n < 2 THEN {Op("accept", op.n + 1), Op("write", op.n + 1)}
                                  ELSE {Op("write", op.n)}
      [] OTHER                 -> {}

(* do_accept() and do_write(): within run() spawn() starts a coroutine at  *)
(* once, so that tcp_sockets.back() is the socket just accepted.           *)
Coroutine(op) ==
    CASE op.name = "do_accept" -> {Op("accept", 1)}
      [] op.name = "accept"    -> {Op("write", op.n)}
                                    \cup (IF op.n < 2 THEN {Op("accept", op.n + 1)} ELSE {})
      [] OTHER                 -> {}

(* What the handlers of the other programs start.  A write is the end.     *)
Starts(op) == CASE op.name = "resolve"                   -> {Op("connect", 0)}
                [] op.name \in {"connect", "read"}       -> {Op("read", 0)}
                [] op.name = "accept"                    -> {Op("write", op.n)}
                [] op.name = "wait" /\ program = "timer" -> {op}
                [] OTHER                                 -> {}

Remember(h) == ran' = IF h \in ToSet(ran) THEN ran ELSE Append(ran, h)

(* The calls that a handler makes without an error code: the write of      *)
(* connect_handler, and shutdown once a client has been written to.        *)
MayThrow(op) == op.name \in {"connect", "write"}

(* Handlers look at the error first and do nothing if there is one; in a   *)
(* coroutine it is thrown.  What is thrown leaves run() and main().        *)
RunHandler ==
    LET h == Head(ready)
    IN  /\ thread = "running" /\ ~stopped /\ ready # <<>>
        /\ ready' = Tail(ready)
        /\ \/ /\ ~h.ec
              /\ pending' = pending \cup IF program = "asio2" THEN Coroutine(h.op) ELSE Starts(h.op)
              /\ UNCHANGED thread
           \/ /\ h.ec
              /\ thread' = IF program = "asio2" THEN "terminated" ELSE "running"
              /\ UNCHANGED pending
           \/ /\ ~h.ec /\ MayThrow(h.op)
              /\ thread' = "terminated"
              /\ UNCHANGED pending
        /\ Remember(h)
        /\ UNCHANGED <<program, stopped, main>>

Return == /\ thread = "running"
          /\ stopped \/ (ready = <<>> /\ pending = {} /\ ~HasWork)
          /\ thread' = "returned"
          /\ UNCHANGED <<program, pending, ready, stopped, ran, main>>

(* Mutant: the io_service is not stopped.                                  *)
StopForgotten == main = "stop" /\ main' = "join"
                     /\ UNCHANGED <<program, pending, ready, stopped, ran, thread>>

Stop == /\ main = "stop"
        /\ stopped' = TRUE /\ main' = "join"
        /\ UNCHANGED <<program, pending, ready, ran, thread>>

(* Also the programs that call run() in main() go on when it returns.      *)
Join == /\ main = "join" /\ thread = "returned"
        /\ main' = "over"
        /\ UNCHANGED <<program, pending, ready, stopped, ran, thread>>

Over == main = "over" \/ thread = "terminated"

Thread == RunHandler \/ Return

Step == (\E op \in pending : Complete(op)) \/ Thread \/ Stop \/ Join

(* A program with work waits for ever when nothing is left to be done.     *)
Next == \/ Step
        \/ (Over \/ (HasWork /\ pending = {} /\ ready = <<>>)) /\ UNCHANGED vars
-----------------------------------------------------------------------------
RanOk(name, n) == [op |-> Op(name, n), ec |-> FALSE] \in ToSet(ran)

(* Handlers posted by one thread run in its order, whenever stop() comes,  *)
(* and the timers in the order of their times.                             *)
HandlersInOrder ==
    /\ program \in {"asio", "io_service"} => IsPrefix(ran, Posted)
    /\ RanOk("wait", 4) => RanOk("wait", 3)

(* Only who was accepted is written to, and who was accepted is answered   *)
(* by the end, unless the program has died of an error.                    *)
ClientsAnswered ==
    \A n \in 1 .. 2 :
        /\ Op("write", n) \in pending => RanOk("accept", n)
        /\ main = "over" /\ RanOk("accept", n) =>
              \E h \in ToSet(ran) : h.op = Op("write", n)

(* main() comes to its end only where nothing is left to wait for, or      *)
(* stop() was called: with work it never does, although all is done.       *)
WorkHoldsRun ==
    main = "over" => \/ program = "asio"
                     \/ program \notin {"io_service", "timer"} /\ pending = {} /\ ready = <<>>

(* The operations that have been started, whatever has become of them.     *)
Started == pending \cup {h.op : h \in ToSet(ready)} \cup {h.op : h \in ToSet(ran)}

TypeOK ==
    LET Ops == [name : {"wait", "resolve", "connect", "read", "accept", "write",
                        "do_accept", "hello", ", ", "world"}, n : Nat]
    IN  /\ program \in Programs
        /\ pending \subseteq Ops
        /\ ready \in Seq([op : Ops, ec : BOOLEAN]) /\ ran \in Seq([op : Ops, ec : BOOLEAN])
        /\ stopped \in BOOLEAN /\ thread \in {"running", "returned", "terminated"}
        /\ main \in {"stop", "join", "over"}

(* What has run is followed by what is ready: together they are what was   *)
(* posted, or the timers in the order of their times.                      *)
Queued ==
    /\ program \in {"asio", "io_service"} => pending = {} /\ ran \o ready = Posted
    /\ program = "timer2" =>
          LET first == [op |-> Op("wait", 3), ec |-> FALSE]
              second == [op |-> Op("wait", 4), ec |-> FALSE]
          IN  \/ pending = {first.op, second.op} /\ ran \o ready = <<>>
              \/ pending = {second.op} /\ ran \o ready = <<first>>
              \/ pending = {} /\ ran \o ready = <<first, second>>
    /\ program # "timer2" => Op("wait", 4) \notin Started

(* A write is started by an accept that has succeeded.                     *)
WritesFollow == \A n \in 1 .. 2 : Op("write", n) \in Started <=> RanOk("accept", n)

(* run() returns where nothing is left, and then nothing comes any more.   *)
Returned ==
    /\ main = "stop" \/ stopped => program = "asio"
    /\ thread = "returned" => stopped \/ (ready = <<>> /\ pending = {} /\ ~HasWork)
    /\ main = "over" => thread = "returned"

Inv == TypeOK /\ Queued /\ WritesFollow /\ Returned

EventLoopsSafe == HandlersInOrder /\ ClientsAnswered /\ WorkHoldsRun

(* The programs that end by themselves if their peers do something.  That  *)
(* of tcp goes on as long as its peer sends, and two have work for ever;   *)
(* one of those has run all three handlers.                                *)
Ended == \/ Over
         \/ program \in {"tcp", "timer"}
         \/ program = "io_service" /\ Len(ran) = 3
=============================================================================
