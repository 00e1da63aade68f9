------------------------------ MODULE Pipeline -------------------------------
(***************************************************************************)
(* pipeline_model/pipeline_model.cpp: frames arrive at a fixed period and  *)
(* each holds a processor for a fixed time; a frame that finds none free   *)
(* waits in a queue.  One thread runs the handlers of the timers, one at a *)
(* time.  Time is in seconds and left is what a timer has left; time goes  *)
(* on only when no timer has expired: handlers take no time, and those due *)
(* at the same time run in any order.                                      *)
(***************************************************************************)
EXTENDS ProgramParameters, Dropping

VARIABLES
    incoming_period, processing_period,
    processors_in_use,  \* processors_in_use: which slot is taken
    frames_pending,     \* frames_pending: the numbers of the waiting frames
    frame_nr,           \* the number of the next frame
    incoming_timer,     \* what incoming_timer has left
    timers,             \* the armed processing timers: [frame, slot, left]
    processed           \* history: the frames processed

args == <<incoming_period, processing_period>>
vars == <<args, processors_in_use, frames_pending, frame_nr, incoming_timer, timers,
          processed>>

Slots == DOMAIN processors_in_use

Free(in_use) == {s \in DOMAIN in_use : ~in_use[s]}

Init == /\ incoming_period \in IncomingPeriods
        /\ processing_period \in ProcessingPeriods
        /\ \E n \in ProcessorCounts : processors_in_use = [s \in 1 .. n |-> FALSE]
        /\ frames_pending = <<>> /\ frame_nr = 0
        /\ incoming_timer = 0
        /\ timers = {} /\ processed = {}

(* frame_submit of several frames, each to the next of the free slots: the *)
(* timers it arms, and the slots it takes.                                 *)
Armed(frames, slots) ==
    {[frame |-> frames[i], slot |-> slots[i], left |-> processing_period] :
        i \in DOMAIN frames}

Taken(in_use, slots) == [s \in DOMAIN in_use |-> in_use[s] \/ s \in ToSet(slots)]

(* The first slots that find() gives, so many as there are frames for.     *)
FirstFree(in_use, n) ==
    LET free == Dropping([s \in DOMAIN in_use |-> s], DOMAIN in_use \ Free(in_use))
    IN  SubSeq(free, 1, Min({n, Len(free)}))

(* Mutant: a frame that finds no processor goes to the front of the queue. *)
frame_receive_lifo ==
    LET slots == FirstFree(processors_in_use, 1)
    IN  /\ incoming_timer = 0 /\ frame_nr < MaxFrames
        /\ timers' = timers \cup Armed(SubSeq(<<frame_nr>>, 1, Len(slots)), slots)
        /\ processors_in_use' = Taken(processors_in_use, slots)
        /\ frames_pending' = IF slots # <<>> THEN frames_pending
                                             ELSE <<frame_nr>> \o frames_pending
        /\ frame_nr' = frame_nr + 1
        /\ incoming_timer' = incoming_period
        /\ UNCHANGED <<args, processed>>

frame_receive ==
    LET slots == FirstFree(processors_in_use, 1)
    IN  /\ incoming_timer = 0 /\ frame_nr < MaxFrames
        /\ \/ /\ slots # <<>>
              /\ timers' = timers \cup Armed(<<frame_nr>>, slots)
              /\ processors_in_use' = Taken(processors_in_use, slots)
              /\ UNCHANGED frames_pending
           \/ /\ slots = <<>>
              /\ frames_pending' = Append(frames_pending, frame_nr)
              /\ UNCHANGED <<timers, processors_in_use>>
        /\ frame_nr' = frame_nr + 1
        /\ incoming_timer' = incoming_period
        /\ UNCHANGED <<args, processed>>

(* Mutant: the waiting frames are left to the next frame_receive.          *)
frame_processed_undrained(t) ==
    /\ t.left = 0
    /\ processors_in_use' = [processors_in_use EXCEPT ![t.slot] = FALSE]
    /\ timers' = timers \ {t}
    /\ processed' = processed \cup {t.frame}
    /\ UNCHANGED <<args, frames_pending, frame_nr, incoming_timer>>

(* Mutant: the slot stays taken.                                           *)
frame_processed_unfreed(t) ==
    /\ t.left = 0
    /\ timers' = timers \ {t}
    /\ processed' = processed \cup {t.frame}
    /\ UNCHANGED <<args, processors_in_use, frames_pending, frame_nr, incoming_timer>>

(* The slot is freed, then waiting frames are submitted while there is a   *)
(* free slot.                                                              *)
frame_processed(t) ==
    LET freed == [processors_in_use EXCEPT ![t.slot] = FALSE]
        slots == FirstFree(freed, Len(frames_pending))
        next  == SubSeq(frames_pending, 1, Len(slots))
    IN  /\ t.left = 0
        /\ processors_in_use' = Taken(freed, slots)
        /\ timers' = (timers \ {t}) \cup Armed(next, slots)
        /\ frames_pending' = SubSeq(frames_pending, Len(slots) + 1, Len(frames_pending))
        /\ processed' = processed \cup {t.frame}
        /\ UNCHANGED <<args, frame_nr, incoming_timer>>

Expired == (incoming_timer = 0 /\ frame_nr < MaxFrames) \/ \E t \in timers : t.left = 0

(* A second passes for every timer.                                        *)
Tick == /\ ~Expired
        /\ incoming_timer' = IF incoming_timer > 0 THEN incoming_timer - 1 ELSE 0
        /\ timers' = {[t EXCEPT !.left = @ - 1] : t \in timers}
        /\ UNCHANGED <<args, processors_in_use, frames_pending, frame_nr, processed>>

Next == frame_receive \/ (\E t \in timers : frame_processed(t)) \/ Tick

Spec == Init /\ [][Next]_vars

(* io_context::run() runs the handlers that are due, and time goes on.     *)
FairSpec == Spec /\ WF_vars(Next)
-----------------------------------------------------------------------------
TypeOK ==
    /\ incoming_period \in IncomingPeriods /\ processing_period \in ProcessingPeriods
    /\ \E n \in ProcessorCounts : processors_in_use \in [1 .. n -> BOOLEAN]
    /\ frames_pending \in Seq(0 .. MaxFrames) /\ frame_nr \in 0 .. MaxFrames
    /\ incoming_timer \in 0 .. incoming_period
    /\ timers \subseteq [frame : 0 .. MaxFrames, slot : Slots, left : 0 .. processing_period]
    /\ processed \subseteq 0 .. MaxFrames

(* The assertions of frame_submit() and frame_processed(): a slot is taken *)
(* exactly as long as one timer is armed for it.                           *)
OneTimerPerTakenSlot ==
    \A s \in Slots : Cardinality({t \in timers : t.slot = s})
                        = IF processors_in_use[s] THEN 1 ELSE 0

Inv == TypeOK /\ OneTimerPerTakenSlot

(* No frame waits while a processor is idle.                               *)
NoIdleWhilePending == frames_pending # <<>> => Free(processors_in_use) = {}

(* Each frame that has arrived is in exactly one place, and frames get a   *)
(* processor in the order of their arrival: those that wait are the last.  *)
InOrder ==
    LET waiting == ToSet(frames_pending)
        running == {t.frame : t \in timers}
    IN  /\ processed \cup running \cup waiting = 0 .. frame_nr - 1
        /\ Cardinality(processed) + Cardinality(timers) + Len(frames_pending) = frame_nr
        /\ \A f \in waiting, g \in processed \cup running : g < f
        /\ \A i, j \in DOMAIN frames_pending : i < j => frames_pending[i] < frames_pending[j]

(* The two examples in the comment above main() differ in this: where the  *)
(* processors together are fast enough the queue does not grow; at most    *)
(* one frame waits, for a processor that falls free at the same instant.   *)
KeepsUp ==
    LET capacity == incoming_period * Len(processors_in_use)
    IN  /\ processing_period < capacity => frames_pending = <<>>
        /\ processing_period = capacity /\ capacity > 0 => Len(frames_pending) <= 1

(* Every frame that arrives is processed, however long the queue gets, if  *)
(* there is a processor at all.                                            *)
AllProcessed == Len(processors_in_use) > 0 => processed = 0 .. MaxFrames - 1
=============================================================================
