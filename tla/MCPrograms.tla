------------------------------ MODULE MCPrograms ------------------------------
(***************************************************************************)
(* Programs that are small each, checked together: an execution runs one   *)
(* of them, which program names, and the variables of the others are Idle. *)
(***************************************************************************)
EXTENDS ProgramParameters

CONSTANT Idle

VARIABLES
    program,
    pc, todo,                                      \* of several programs
    vths, sem, owner, pool, v, p_cnt, reg,         \* Counters
    queue, i, count, popped, children, forks,      \* PollQueue
    incoming_period, processing_period,            \* Pipeline
    processors_in_use, frames_pending, frame_nr,
    incoming_timer, timers, processed,
    pending, ready, stopped, ran, thread, main,    \* EventLoops
    argc, proc,                                    \* Daemon
    asserts, object, misused                       \* SharedObject

shared   == <<pc, todo>>
counting == <<vths, sem, owner, pool, v, p_cnt, reg>>
polling  == <<queue, i, count, popped, children, forks>>
piping   == <<incoming_period, processing_period, processors_in_use, frames_pending,
              frame_nr, incoming_timer, timers, processed>>
looping  == <<pending, ready, stopped, ran, thread, main>>
forking  == <<argc, proc>>
sharing  == <<asserts, object, misused>>
vars     == <<program, shared, counting, polling, piping, looping, forking, sharing>>

Count == INSTANCE Counters
Poll  == INSTANCE PollQueue
Pipe  == INSTANCE Pipeline
Loop  == INSTANCE EventLoops
Back  == INSTANCE Daemon
Obj   == INSTANCE SharedObject

countVars == <<program, shared, counting>>
pollVars  == <<program, shared, polling>>
pipeVars  == piping
loopVars  == <<program, looping>>
objVars   == <<pc, sharing>>

Counts == program \in {"processes", "threads", "pool"}
Polls  == program \in {"spsc", "spmc"}
Pipes  == program = "pipeline"
Loops  == program \in Loop!Programs
Backs  == program = "daemon"
Shares == program = "shared_memory"

-----------------------------------------------------------------------------
IdleShared   == pc = Idle /\ todo = Idle
IdleCounting == /\ vths = Idle /\ sem = Idle /\ owner = Idle /\ pool = Idle /\ v = Idle
                /\ p_cnt = Idle /\ reg = Idle
IdlePolling  == /\ queue = Idle /\ i = Idle /\ count = Idle /\ popped = Idle
                /\ children = Idle /\ forks = Idle
IdlePiping   == /\ incoming_period = Idle /\ processing_period = Idle
                /\ processors_in_use = Idle /\ frames_pending = Idle /\ frame_nr = Idle
                /\ incoming_timer = Idle /\ timers = Idle /\ processed = Idle
IdleLooping  == /\ pending = Idle /\ ready = Idle /\ stopped = Idle /\ ran = Idle
                /\ thread = Idle /\ main = Idle
IdleForking  == argc = Idle /\ proc = Idle
IdleSharing  == asserts = Idle /\ object = Idle /\ misused = Idle

Init ==
    \/ /\ Count!Init
       /\ IdlePolling /\ IdlePiping /\ IdleLooping /\ IdleForking /\ IdleSharing
    \/ /\ Poll!Init
       /\ IdleCounting /\ IdlePiping /\ IdleLooping /\ IdleForking /\ IdleSharing
    \/ /\ program = "pipeline" /\ Pipe!Init /\ IdleShared
       /\ IdleCounting /\ IdlePolling /\ IdleLooping /\ IdleForking /\ IdleSharing
    \/ /\ Loop!Init /\ IdleShared
       /\ IdleCounting /\ IdlePolling /\ IdlePiping /\ IdleForking /\ IdleSharing
    \/ /\ program = "daemon" /\ Back!Init /\ IdleShared
       /\ IdleCounting /\ IdlePolling /\ IdlePiping /\ IdleLooping /\ IdleSharing
    \/ /\ program = "shared_memory" /\ Obj!Init /\ todo = Idle
       /\ IdleCounting /\ IdlePolling /\ IdlePiping /\ IdleLooping /\ IdleForking

CountNext == /\ Counts /\ Count!Next
             /\ UNCHANGED <<polling, piping, looping, forking, sharing>>
PollNext  == /\ Polls /\ Poll!Next
             /\ UNCHANGED <<counting, piping, looping, forking, sharing>>
PipeNext  == /\ Pipes /\ Pipe!Next
             /\ UNCHANGED <<program, shared, counting, polling, looping, forking, sharing>>
LoopNext  == /\ Loops /\ Loop!Next
             /\ UNCHANGED <<shared, counting, polling, piping, forking, sharing>>
BackNext  == /\ Backs /\ Back!Next
             /\ UNCHANGED <<program, shared, counting, polling, piping, looping, sharing>>
ShareNext == /\ Shares /\ Obj!Next
             /\ UNCHANGED <<program, todo, counting, polling, piping, looping, forking>>

Next == \/ CountNext \/ PollNext \/ PipeNext \/ LoopNext \/ BackNext \/ ShareNext

(* What the program that runs assumes, and nothing of the others.          *)
Fairness ==
    /\ WF_countVars(Counts /\ Count!Parent)
    /\ \A w \in Workers : WF_countVars(Counts /\ Count!Worker(w))
    /\ WF_pollVars(Polls /\ Poll!Parent)
    /\ \A c \in Consumers : WF_pollVars(Polls /\ Poll!Consumer(c))
    /\ WF_pipeVars(Pipes /\ Pipe!Next)
    /\ WF_loopVars(Loops /\ Loop!Thread)
    /\ WF_loopVars(Loops /\ (Loop!Stop \/ Loop!Join))
    /\ WF_loopVars(Loops /\ \E op \in pending : Loop!Complete(op))
    /\ WF_forking(Backs /\ \E p \in DOMAIN proc : Back!Step(p))
    /\ WF_objVars(Shares /\ Obj!Parent)
    /\ WF_objVars(Shares /\ Obj!Child)

Spec == Init /\ [][Next]_vars

FairSpec == Spec /\ Fairness
-----------------------------------------------------------------------------
(* Workers increment a counter one at a time, whoever is admitted finds a  *)
(* counter in the pool, and no increment is lost (Counters).               *)
CountersSafe == Counts => Count!Inv /\ Count!PoolSuffices /\ Count!NoLostUpdate

(* The final assertion holds exactly if all workers ran and the sum fits.  *)
AssertionIffAllFits == Counts => Count!AssertionIffAllFits

(* Each value pushed is popped once, and none is left (PollQueue).         *)
QueueSafe == Polls => Poll!Inv /\ Poll!AllConsumed

(* A taken slot has one timer, no frame waits beside an idle processor, and*)
(* none is lost or overtaken (Pipeline).                                   *)
PipelineSafe == Pipes => Pipe!Inv /\ Pipe!NoIdleWhilePending /\ Pipe!InOrder

(* The queue of frames does not grow while the processors are fast enough. *)
KeepsUp == Pipes => Pipe!KeepsUp

(* Handlers run in order, accepted clients are answered, and work keeps    *)
(* run() from returning (EventLoops).                                      *)
EventLoopsSafe == Loops => Loop!Inv /\ Loop!EventLoopsSafe

(* A daemon is detached from all that its starter had (Daemon), and an     *)
(* object shared with a child lives as long as the child may use it        *)
(* (SharedObject).                                                         *)
ForksSafe == /\ Backs => Back!Inv /\ Back!DaemonSafe
             /\ Shares => Obj!Inv /\ Obj!ObjectUsedAlive

(* Whichever forks fail, the programs end, with permits and counters given *)
(* back and every child reaped; and every frame that arrives is processed. *)
EveryProgramEnds == <>(/\ Counts => Count!Ended
                       /\ Polls => Poll!Ended
                       /\ Pipes => Pipe!AllProcessed
                       /\ Loops => Loop!Ended
                       /\ Backs => Back!Ended
                       /\ Shares => Obj!Ended)
=============================================================================
