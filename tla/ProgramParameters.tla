-------------------------- MODULE ProgramParameters --------------------------
(***************************************************************************)
(* The sizes of the programs that share nothing but their kind: a main     *)
(* program, and the processes, threads or timers that it starts.           *)
(***************************************************************************)
EXTENDS Integers, FiniteSetsExt, SequencesExt

CONSTANTS
    Main,        \* the process or thread that main() runs in

    (* posix/semaphore and cpp20/semaphore *)
    Workers,     \* one for each of the most hardware threads there may be
    Permits,     \* kConcurrencyLevelMax: 5
    PerWorker,   \* kPerThreadCount, kPerProcessCount: 100000000
    IntMax,      \* the largest int

    (* lockless *)
    Consumers,   \* the children the parent may fork: argv[1] of them, or one
    Capacity,    \* what the queue holds: 5
    Iterations,  \* kConsumerIterationsCount: 100 and 10

    (* pipeline_model *)
    IncomingPeriods,    \* values of argv[1]
    ProcessingPeriods,  \* values of argv[2]
    ProcessorCounts,    \* values of argv[3]
    MaxFrames           \* bound of the model: the frames that arrive

None == 0

ASSUME WorkersAssumption   == IsFiniteSet(Workers) /\ Main \notin Workers /\ None \notin Workers
ASSUME PermitsAssumption   == Permits \in Nat \ {0}
ASSUME PerWorkerAssumption == PerWorker \in Nat \ {0} /\ IntMax \in Nat /\ PerWorker <= IntMax

ASSUME ConsumersAssumption == IsFiniteSet(Consumers) /\ Consumers # {} /\ Main \notin Consumers
(* 10 or 100 values for each consumer do not fit the queue of 5.           *)
ASSUME SizesAssumption     == Capacity \in Nat \ {0} /\ Iterations \in Nat /\ Iterations > Capacity

(* With a period of 0 frames would arrive without end at the same instant. *)
ASSUME PeriodsAssumption ==
    IncomingPeriods \subseteq Nat \ {0} /\ ProcessingPeriods \subseteq Nat
ASSUME CountsAssumption  == ProcessorCounts \subseteq Nat
ASSUME FramesAssumption  == MaxFrames \in Nat
=============================================================================
