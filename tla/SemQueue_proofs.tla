--------------------------- MODULE SemQueue_proofs ---------------------------
(***************************************************************************)
(* Proofs about SemQueue, for any number of children, any capacity and any *)
(* number of iterations.  QueueInv is inductive by itself and keeps the    *)
(* processes apart; with it Inv is inductive, which accounts for every     *)
(* value, and the ring implements BoundedFifo.                             *)
(***************************************************************************)
EXTENDS SemQueue, Sequences, FiniteSetTheorems, TLAPS

Labels == MainLabels \cup ChildLabels

(* How membership of a label in a set of labels counts.                    *)
In(l, labels) == IF l \in labels THEN 1 ELSE 0

LEMMA ProcsFinite == IsFiniteSet(Procs)
  BY ProcsAssumption, FS_AddElement DEF Procs

(* The number of processes at some labels is a number.                     *)
LEMMA NumberType == ASSUME NEW labels PROVE Number(labels) \in Nat
<1>1. IsFiniteSet({p \in Procs : pc[p] \in labels})
  BY ProcsFinite, FS_Subset
<1> QED BY <1>1, FS_CardinalityType DEF Number

(* It is at least one when a process is at one of them.                    *)
LEMMA NumberOne ==
  ASSUME NEW labels, NEW p \in Procs, pc[p] \in labels
  PROVE  Number(labels) >= 1
<1> DEFINE S == {q \in Procs : pc[q] \in labels}
<1>1. IsFiniteSet(S) /\ p \in S
  BY ProcsFinite, FS_Subset
<1>2. Cardinality(S \ {p}) = Cardinality(S) - 1 /\ Cardinality(S \ {p}) \in Nat
  BY <1>1, FS_RemoveElement, FS_CardinalityType
<1>3. Cardinality(S) \in Nat
  BY <1>1, FS_CardinalityType
<1> QED BY <1>2, <1>3 DEF Number

(* It is at least two when two processes are.                              *)
LEMMA NumberTwo ==
  ASSUME NEW labels, NEW p \in Procs, NEW q \in Procs, p # q,
         pc[p] \in labels, pc[q] \in labels
  PROVE  Number(labels) >= 2
<1> DEFINE S == {x \in Procs : pc[x] \in labels}
<1>1. IsFiniteSet(S) /\ p \in S /\ q \in S \ {p}
  BY ProcsFinite, FS_Subset
<1>2. IsFiniteSet(S \ {p}) /\ Cardinality(S \ {p}) = Cardinality(S) - 1
  BY <1>1, FS_RemoveElement
<1>3. /\ IsFiniteSet((S \ {p}) \ {q})
      /\ Cardinality((S \ {p}) \ {q}) = Cardinality(S \ {p}) - 1
  BY <1>1, <1>2, FS_RemoveElement
<1>4. Cardinality((S \ {p}) \ {q}) \in Nat /\ Cardinality(S) \in Nat
  BY <1>1, <1>3, FS_CardinalityType
<1> QED BY <1>2, <1>3, <1>4 DEF Number

(* When one process moves, the number changes by what it leaves and enters.*)
LEMMA NumberMoves ==
  ASSUME pc \in [Procs -> Labels], NEW p \in Procs, NEW l \in Labels, Goto(p, l),
         NEW labels
  PROVE  /\ Number(labels) \in Nat /\ Number(labels)' \in Nat
         /\ Number(labels)' = Number(labels) + In(l, labels) - In(pc[p], labels)
<1> DEFINE S == {q \in Procs : pc[q] \in labels}
           T == {q \in Procs : pc'[q] \in labels}
           R == S \ {p}
<1>1. pc' = [pc EXCEPT ![p] = l]
  BY DEF Goto
<1>2. IsFiniteSet(S) /\ IsFiniteSet(T) /\ IsFiniteSet(R)
  BY ProcsFinite, FS_Subset
<1>3. Cardinality(S) \in Nat /\ Cardinality(T) \in Nat /\ Cardinality(R) \in Nat
  BY <1>2, FS_CardinalityType
<1>4. Cardinality(S) = Cardinality(R) + In(pc[p], labels)
  <2>1. Cardinality(R) = IF p \in S THEN Cardinality(S) - 1 ELSE Cardinality(S)
    BY <1>2, FS_RemoveElement
  <2>2. p \in S <=> pc[p] \in labels
    OBVIOUS
  <2> QED BY <2>1, <2>2, <1>3 DEF In
<1>5. Cardinality(T) = Cardinality(R) + In(l, labels)
  <2>1. R = T \ {p}
    BY <1>1
  <2>2. p \in T <=> l \in labels
    BY <1>1
  <2>3. Cardinality(T \ {p}) = IF p \in T THEN Cardinality(T) - 1 ELSE Cardinality(T)
    BY <1>2, FS_RemoveElement
  <2> QED BY <2>1, <2>2, <2>3, <1>3 DEF In
<1>6. Number(labels) = Cardinality(S) /\ Number(labels)' = Cardinality(T)
  BY DEF Number
<1> HIDE DEF S, T, R
<1>7. In(l, labels) \in {0, 1} /\ In(pc[p], labels) \in {0, 1}
  BY DEF In
<1> QED BY <1>3, <1>4, <1>5, <1>6, <1>7

-----------------------------------------------------------------------------
(* The accounting rules out two processes in the ring, an overflow by the  *)
(* parent and an underflow by a child.                                     *)
LEMMA InvImpliesSafe == QueueInv => SafeQueue
<1> SUFFICES ASSUME QueueInv PROVE SafeQueue
  OBVIOUS
<1> USE DEF QueueInv, TypeOK, Accounting
<1>1. MutualExclusion
  <2> SUFFICES ASSUME NEW p \in Procs, NEW q \in Procs, p # q,
                      pc[p] \in Critical, pc[q] \in Critical
               PROVE  FALSE
    BY DEF MutualExclusion
  <2>1. Number(Critical) >= 2 /\ Number(Critical) \in Nat
    BY NumberTwo, NumberType
  <2> QED BY <2>1
<1>2. AssertsHold
  <2>1. ASSUME pc[Main] = "push" PROVE size < Capacity
    <3>1. Number(SlotHeld) >= 1 /\ Number(SlotHeld) \in Nat
      BY <2>1, NumberOne, NumberType DEF Procs, SlotHeld
    <3> QED BY <3>1 DEF SlotHeld
  <2>2. ASSUME NEW c \in Children, pc[c] \in {"front", "pop"} PROVE size > 0
    <3>1. Number(ValueHeld) >= 1 /\ Number(ValueHeld) \in Nat
      BY <2>2, NumberOne, NumberType DEF Procs, ValueHeld
    <3> QED BY <3>1 DEF ValueHeld
  <2> QED BY <2>1, <2>2 DEF AssertsHold
<1> QED BY <1>1, <1>2 DEF SafeQueue

LEMMA InitQueueInv == Init => QueueInv
<1> SUFFICES ASSUME Init PROVE QueueInv
  OBVIOUS
<1> USE DEF Init
<1>1. Cardinality(Children) \in Nat
  BY ProcsAssumption, FS_CardinalityType
<1>2. TypeOK
  BY <1>1, CapacityAssumption, IterationsAssumption, ProcsAssumption
  DEF TypeOK, Slots, Procs, MainLabels, ChildLabels
<1>3. LoopsRun
  BY IterationsAssumption, ProcsAssumption DEF LoopsRun, Procs
<1>4. ASSUME NEW labels, "fork" \notin labels, "unborn" \notin labels
      PROVE  Number(labels) = 0
  <2>1. {p \in Procs : pc[p] \in labels} = {}
    BY <1>4
  <2> QED BY <2>1, FS_EmptySet DEF Number
<1>5. Accounting
  <2>1. Number(Critical) = 0
    BY <1>4 DEF Critical
  <2>2. Number(ValueHeld) = 0
    BY <1>4 DEF ValueHeld
  <2>3. Number(SlotHeld) = 0
    BY <1>4 DEF SlotHeld
  <2> QED BY <2>1, <2>2, <2>3, CapacityAssumption DEF Accounting
<1>6. ReadStaysFront
  BY ProcsAssumption DEF ReadStaysFront, Procs
<1> QED BY <1>2, <1>3, <1>5, <1>6 DEF QueueInv

-----------------------------------------------------------------------------
(* The three numbers of Accounting after process p has moved to label l.   *)
LEMMA Counts ==
  ASSUME TypeOK, NEW p \in Procs, NEW l \in Labels, Goto(p, l)
  PROVE  /\ Number(Critical) \in Nat /\ Number(ValueHeld) \in Nat /\ Number(SlotHeld) \in Nat
         /\ Number(Critical)'  = Number(Critical)  + In(l, Critical)  - In(pc[p], Critical)
         /\ Number(ValueHeld)' = Number(ValueHeld) + In(l, ValueHeld) - In(pc[p], ValueHeld)
         /\ Number(SlotHeld)'  = Number(SlotHeld)  + In(l, SlotHeld)  - In(pc[p], SlotHeld)
<1>1. pc \in [Procs -> Labels]
  BY DEF TypeOK, Labels
<1>2. \A labels : /\ Number(labels) \in Nat
                  /\ Number(labels)' = Number(labels) + In(l, labels) - In(pc[p], labels)
  BY <1>1, NumberMoves
<1> QED BY <1>2

(* A move between labels that hold nothing leaves the numbers as they are. *)
LEMMA CountsSame ==
  ASSUME pc' = pc
  PROVE  /\ Number(Critical)' = Number(Critical)
         /\ Number(ValueHeld)' = Number(ValueHeld)
         /\ Number(SlotHeld)' = Number(SlotHeld)
  BY DEF Number

-----------------------------------------------------------------------------
(* Every step of main() preserves the invariant.                           *)
LEMMA ForkPreserves ==
  ASSUME QueueInv, ForkFails \/ StartProducing \/ \E c \in Children : ForkChild(c)
  PROVE  QueueInv'
<1> USE DEF QueueInv, sems, ring
<1>a. Main \in Procs /\ \A c \in Children : c \in Procs /\ c # Main
  BY ProcsAssumption DEF Procs
<1>1. CASE ForkFails
  <2>1. CASE pc' = pc
    <3>1. (TypeOK /\ LoopsRun)'
      BY <1>1, <2>1, <1>a DEF ForkFails, TypeOK, LoopsRun
    <3> QED BY <1>1, <2>1, <3>1, CountsSame DEF ForkFails, Accounting, ReadStaysFront
  <2>2. CASE Goto(Main, "aborted")
    <3>1. (TypeOK /\ LoopsRun)'
      BY <1>1, <2>2, <1>a DEF ForkFails, TypeOK, LoopsRun, Goto, MainLabels
    <3>2. Accounting'
      BY <1>1, <2>2, <1>a, Counts
      DEF ForkFails, Accounting, In, Critical, ValueHeld, SlotHeld, Labels, MainLabels
    <3>3. ReadStaysFront'
      BY <1>1, <2>2, <1>a DEF ForkFails, ReadStaysFront, Goto, TypeOK
    <3> QED BY <3>1, <3>2, <3>3
  <2> QED BY <1>1, <2>1, <2>2 DEF ForkFails, Goto
<1>2. CASE StartProducing
  <2>1. Cardinality(children) \in Nat /\ (children # {} => Cardinality(children) > 0)
    <3>1. IsFiniteSet(children)
      BY ProcsAssumption, FS_Subset DEF TypeOK
    <3> QED BY <3>1, FS_CardinalityType, FS_EmptySet
  <2>2. /\ Cardinality(children) * Iterations \in Nat
        /\ children # {} => Cardinality(children) * Iterations > 0
    BY <2>1, IterationsAssumption
  <2>3. (TypeOK /\ LoopsRun)'
    BY <1>2, <2>2, <1>a DEF StartProducing, TypeOK, LoopsRun, Goto, MainLabels
  <2>4. Accounting'
    BY <1>2, <1>a, Counts
    DEF StartProducing, Accounting, In, Critical, ValueHeld, SlotHeld, Labels, MainLabels
  <2>5. ReadStaysFront'
    BY <1>2, <1>a DEF StartProducing, ReadStaysFront, Goto, TypeOK
  <2> QED BY <2>3, <2>4, <2>5
<1>3. ASSUME NEW c \in Children, ForkChild(c) PROVE QueueInv'
  <2>1. (TypeOK /\ LoopsRun)'
    BY <1>3, <1>a DEF ForkChild, TypeOK, LoopsRun, Goto, ChildLabels
  <2>2. Accounting'
    BY <1>3, <1>a, Counts
    DEF ForkChild, Accounting, In, Critical, ValueHeld, SlotHeld, Labels, ChildLabels
  <2>3. ReadStaysFront'
    BY <1>3, <1>a DEF ForkChild, ReadStaysFront, Goto, TypeOK
  <2> QED BY <2>1, <2>2, <2>3
<1> QED BY <1>1, <1>2, <1>3

(* Every step of producer() preserves the invariant: when the ring is      *)
(* written no child stands between its reading and its removing.           *)
LEMMA ProducerPreserves ==
  ASSUME QueueInv, WaitFull \/ LockPush \/ Push \/ UnlockPush \/ PostEmpty
  PROVE  QueueInv'
<1> USE DEF QueueInv, sems, ring
<1>a. Main \in Procs /\ \A c \in Children : c \in Procs /\ c # Main
  BY ProcsAssumption DEF Procs
<1>b. SafeQueue
  BY InvImpliesSafe
<1>c. \A i \in Slots : (i + 1) % Capacity \in Slots
  BY CapacityAssumption DEF Slots
<1>1. CASE WaitFull
  <2>1. (TypeOK /\ LoopsRun)'
    BY <1>1, <1>a DEF WaitFull, TypeOK, LoopsRun, Goto, MainLabels
  <2>2. Accounting'
    BY <1>1, <1>a, Counts
    DEF WaitFull, Accounting, In, Critical, ValueHeld, SlotHeld, Labels, MainLabels, TypeOK
  <2>3. ReadStaysFront'
    BY <1>1, <1>a DEF WaitFull, ReadStaysFront, Goto, TypeOK
  <2> QED BY <2>1, <2>2, <2>3
<1>2. CASE LockPush
  <2>1. (TypeOK /\ LoopsRun)'
    BY <1>2, <1>a DEF LockPush, TypeOK, LoopsRun, Goto, MainLabels
  <2>2. Accounting'
    BY <1>2, <1>a, Counts
    DEF LockPush, Accounting, In, Critical, ValueHeld, SlotHeld, Labels, MainLabels, TypeOK
  <2>3. ReadStaysFront'
    BY <1>2, <1>a DEF LockPush, ReadStaysFront, Goto, TypeOK
  <2> QED BY <2>1, <2>2, <2>3
<1>3. CASE Push
  <2>1. (TypeOK /\ LoopsRun)'
    BY <1>3, <1>a, <1>c DEF Push, TypeOK, LoopsRun, Goto, MainLabels
  <2>2. Accounting'
    BY <1>3, <1>a, Counts
    DEF Push, Accounting, In, Critical, ValueHeld, SlotHeld, Labels, MainLabels, TypeOK
  <2>3. ReadStaysFront'
    BY <1>3, <1>a, <1>b DEF Push, ReadStaysFront, Goto, TypeOK, SafeQueue, MutualExclusion, Critical
  <2> QED BY <2>1, <2>2, <2>3
<1>4. CASE UnlockPush
  <2>1. (TypeOK /\ LoopsRun)'
    BY <1>4, <1>a DEF UnlockPush, TypeOK, LoopsRun, Goto, MainLabels
  <2>2. Accounting'
    BY <1>4, <1>a, Counts
    DEF UnlockPush, Accounting, In, Critical, ValueHeld, SlotHeld, Labels, MainLabels, TypeOK
  <2>3. ReadStaysFront'
    BY <1>4, <1>a DEF UnlockPush, ReadStaysFront, Goto, TypeOK
  <2> QED BY <2>1, <2>2, <2>3
<1>5. CASE PostEmpty
  <2>1. (TypeOK /\ LoopsRun)'
    BY <1>5, <1>a DEF PostEmpty, TypeOK, LoopsRun, Goto, MainLabels
  <2>2. Accounting'
    <3>1. PICK l \in {"reap", "wait_full"} : Goto(Main, l)
      BY <1>5 DEF PostEmpty
    <3> QED
      BY <1>5, <1>a, <3>1, Counts
      DEF PostEmpty, Accounting, In, Critical, ValueHeld, SlotHeld, Labels, MainLabels, TypeOK
  <2>3. ReadStaysFront'
    BY <1>5, <1>a DEF PostEmpty, ReadStaysFront, Goto, TypeOK
  <2> QED BY <2>1, <2>2, <2>3
<1> QED BY <1>1, <1>2, <1>3, <1>4, <1>5

(* Every step of consumer() preserves the invariant: only the child that   *)
(* has read the front can move it.                                         *)
LEMMA ConsumerPreserves ==
  ASSUME QueueInv, \E c \in Children : Consumer(c)
  PROVE  QueueInv'
<1> USE DEF QueueInv, sems, ring
<1>a. \A c \in Children : c \in Procs /\ c # Main
  BY ProcsAssumption DEF Procs
<1>b. SafeQueue
  BY InvImpliesSafe
<1>c. \A i \in Slots : (i + 1) % Capacity \in Slots
  BY CapacityAssumption DEF Slots
<1>1. ASSUME NEW c \in Children, WaitEmpty(c) PROVE QueueInv'
  <2>1. (TypeOK /\ LoopsRun)'
    BY <1>1, <1>a DEF WaitEmpty, TypeOK, LoopsRun, Goto, ChildLabels
  <2>2. Accounting'
    BY <1>1, <1>a, Counts
    DEF WaitEmpty, Accounting, In, Critical, ValueHeld, SlotHeld, Labels, ChildLabels, TypeOK
  <2>3. ReadStaysFront'
    BY <1>1, <1>a DEF WaitEmpty, ReadStaysFront, Goto, TypeOK
  <2> QED BY <2>1, <2>2, <2>3
<1>2. ASSUME NEW c \in Children, LockPop(c) PROVE QueueInv'
  <2>1. (TypeOK /\ LoopsRun)'
    BY <1>2, <1>a DEF LockPop, TypeOK, LoopsRun, Goto, ChildLabels
  <2>2. Accounting'
    BY <1>2, <1>a, Counts
    DEF LockPop, Accounting, In, Critical, ValueHeld, SlotHeld, Labels, ChildLabels, TypeOK
  <2>3. ReadStaysFront'
    BY <1>2, <1>a DEF LockPop, ReadStaysFront, Goto, TypeOK
  <2> QED BY <2>1, <2>2, <2>3
<1>3. ASSUME NEW c \in Children, Front(c) PROVE QueueInv'
  <2>1. (TypeOK /\ LoopsRun)'
    BY <1>3, <1>a DEF Front, TypeOK, LoopsRun, Goto, ChildLabels
  <2>2. Accounting'
    BY <1>3, <1>a, Counts
    DEF Front, Accounting, In, Critical, ValueHeld, SlotHeld, Labels, ChildLabels, TypeOK
  <2>3. ReadStaysFront'
    BY <1>3, <1>a DEF Front, ReadStaysFront, Goto, TypeOK
  <2> QED BY <2>1, <2>2, <2>3
<1>4. ASSUME NEW c \in Children, Pop(c) PROVE QueueInv'
  <2>1. (TypeOK /\ LoopsRun)'
    BY <1>4, <1>a, <1>b, <1>c DEF Pop, TypeOK, LoopsRun, Goto, ChildLabels,
       SafeQueue, AssertsHold
  <2>2. Accounting'
    BY <1>4, <1>a, Counts
    DEF Pop, Accounting, In, Critical, ValueHeld, SlotHeld, Labels, ChildLabels, TypeOK
  <2>3. ReadStaysFront'
    BY <1>4, <1>a, <1>b DEF Pop, ReadStaysFront, Goto, TypeOK, SafeQueue, MutualExclusion, Critical
  <2> QED BY <2>1, <2>2, <2>3
<1>5. ASSUME NEW c \in Children, UnlockPop(c) PROVE QueueInv'
  <2>1. (TypeOK /\ LoopsRun)'
    BY <1>5, <1>a DEF UnlockPop, TypeOK, LoopsRun, Goto, ChildLabels
  <2>2. Accounting'
    BY <1>5, <1>a, Counts
    DEF UnlockPop, Accounting, In, Critical, ValueHeld, SlotHeld, Labels, ChildLabels, TypeOK
  <2>3. ReadStaysFront'
    BY <1>5, <1>a DEF UnlockPop, ReadStaysFront, Goto, TypeOK
  <2> QED BY <2>1, <2>2, <2>3
<1>6. ASSUME NEW c \in Children, PostFull(c) PROVE QueueInv'
  <2>1. (TypeOK /\ LoopsRun)'
    BY <1>6, <1>a DEF PostFull, TypeOK, LoopsRun, Goto, ChildLabels
  <2>2. Accounting'
    BY <1>6, <1>a, Counts
    DEF PostFull, Accounting, In, Critical, ValueHeld, SlotHeld, Labels, ChildLabels, TypeOK
  <2>3. ReadStaysFront'
    BY <1>6, <1>a DEF PostFull, ReadStaysFront, Goto, TypeOK
  <2> QED BY <2>1, <2>2, <2>3
<1> QED BY <1>1, <1>2, <1>3, <1>4, <1>5, <1>6 DEF Consumer

(* Reaping changes nothing the invariant speaks of but the set of children.*)
LEMMA ReapPreserves ==
  ASSUME QueueInv, Finish \/ \E c \in Children : Reap(c)
  PROVE  QueueInv'
<1> USE DEF QueueInv, sems, ring
<1>a. Main \in Procs /\ \A c \in Children : c \in Procs /\ c # Main
  BY ProcsAssumption DEF Procs
<1>1. CASE Finish
  <2>1. (TypeOK /\ LoopsRun)'
    BY <1>1, <1>a DEF Finish, TypeOK, LoopsRun, Goto, MainLabels
  <2>2. Accounting'
    BY <1>1, <1>a, Counts
    DEF Finish, Accounting, In, Critical, ValueHeld, SlotHeld, Labels, MainLabels, TypeOK
  <2>3. ReadStaysFront'
    BY <1>1, <1>a DEF Finish, ReadStaysFront, Goto, TypeOK
  <2> QED BY <2>1, <2>2, <2>3
<1>2. ASSUME NEW c \in Children, Reap(c) PROVE QueueInv'
  BY <1>2, CountsSame DEF Reap, TypeOK, LoopsRun, Accounting, ReadStaysFront
<1> QED BY <1>1, <1>2

-----------------------------------------------------------------------------
(* An index that ran past the end of the ring at most once comes back by   *)
(* one subtraction.                                                        *)
Wrapped(n) == IF n < Capacity THEN n ELSE n - Capacity

LEMMA Wraps == \A n \in Nat : n < 2 * Capacity => n % Capacity = Wrapped(n)
  BY CapacityAssumption DEF Wrapped

(* The iterations owed are finitely many.                                  *)
LEMMA OwedFinite == IsFiniteSet(Owed) /\ Cardinality(Owed) \in Nat
<1>1. IsFiniteSet(Children \X (1 .. Iterations))
  <2>1. IsFiniteSet(1 .. Iterations)
    BY IterationsAssumption, FS_Interval
  <2> QED BY <2>1, ProcsAssumption, FS_Product
<1>2. IsFiniteSet(Owed)
  BY <1>1, FS_Subset DEF Owed
<1> QED BY <1>2, FS_CardinalityType

(* They are the same as long as no child is born or completes one.         *)
LEMMA OwedSame ==
  ASSUME \A c \in Children : left'[c] = left[c] /\ (pc'[c] = "unborn" <=> pc[c] = "unborn")
  PROVE  Owed' = Owed
  BY DEF Owed

(* A child that completes an iteration owes one less.                      *)
LEMMA OwedLess ==
  ASSUME TypeOK, NEW c \in Children, pc[c] # "unborn", pc'[c] # "unborn",
         left[c] \in 1 .. Iterations, left' = [left EXCEPT ![c] = @ - 1],
         \A d \in Children \ {c} : pc'[d] = pc[d]
  PROVE  Cardinality(Owed') = Cardinality(Owed) - 1
<1> USE DEF TypeOK
<1>1. \A d \in Children : d \in Procs /\ left[d] \in Nat
  BY DEF Procs
<1>2. <<c, left[c]>> \in Owed
  BY DEF Owed
<1>3. ASSUME NEW o \in Children \X (1 .. Iterations)
      PROVE  o \in Owed' <=> o \in Owed \ {<<c, left[c]>>}
  <2>1. PICK d \in Children, n \in 1 .. Iterations : o = <<d, n>>
    OBVIOUS
  <2>2. o \in Owed <=> pc[d] # "unborn" /\ n <= left[d]
    BY <2>1 DEF Owed
  <2>3. o \in Owed' <=> pc'[d] # "unborn" /\ n <= left'[d]
    BY <2>1 DEF Owed
  <2>4. o = <<c, left[c]>> <=> d = c /\ n = left[c]
    BY <2>1
  <2> QED BY <1>1, <2>2, <2>3, <2>4
<1>4. Owed' = Owed \ {<<c, left[c]>>}
  <2>1. Owed' \subseteq Children \X (1 .. Iterations) /\ Owed \subseteq Children \X (1 .. Iterations)
    BY DEF Owed
  <2> QED BY <1>3, <2>1
<1> QED BY <1>2, <1>4, OwedFinite, FS_RemoveElement

(* The two numbers of Balance after process p has moved to label l.        *)
LEMMA BalanceCounts ==
  ASSUME TypeOK, NEW p \in Procs, NEW l \in Labels, Goto(p, l)
  PROVE  /\ Number(Pushed) \in Nat /\ Number(Popped) \in Nat
         /\ Number(Pushed)' = Number(Pushed) + In(l, Pushed) - In(pc[p], Pushed)
         /\ Number(Popped)' = Number(Popped) + In(l, Popped) - In(pc[p], Popped)
<1>1. pc \in [Procs -> Labels]
  BY DEF TypeOK, Labels
<1>2. \A labels : /\ Number(labels) \in Nat
                  /\ Number(labels)' = Number(labels) + In(l, labels) - In(pc[p], labels)
  BY <1>1, NumberMoves
<1> QED BY <1>2

(* Where nobody has pushed or popped the numbers are zero.                 *)
LEMMA NumberZero ==
  ASSUME NEW labels, \A p \in Procs : pc[p] \notin labels
  PROVE  Number(labels) = 0
<1>1. {p \in Procs : pc[p] \in labels} = {}
  OBVIOUS
<1> QED BY <1>1, FS_EmptySet DEF Number

LEMMA InitInv == Init => Inv
<1> SUFFICES ASSUME Init PROVE Inv
  OBVIOUS
<1>1. QueueInv
  BY InitQueueInv
<1>2. EndsMatch
  <2>1. 0 % Capacity = 0
    BY CapacityAssumption
  <2> QED BY <2>1 DEF Init, EndsMatch
<1>3. BeforeProducing /\ ChildrenKnown
  BY ProcsAssumption DEF Init, BeforeProducing, ChildrenKnown, Procs
<1>4. Balance
  BY ProcsAssumption, IterationsAssumption DEF Init, Balance, Procs
<1> QED BY <1>1, <1>2, <1>3, <1>4 DEF Inv

-----------------------------------------------------------------------------
(* The steps of main() preserve what the invariant says beside QueueInv.   *)
LEMMA ForkKeepsBalance ==
  ASSUME Inv, ForkFails \/ StartProducing \/ \E c \in Children : ForkChild(c)
  PROVE  Inv'
<1> USE DEF sems, ring
<1>q. QueueInv' /\ TypeOK
  BY ForkPreserves DEF Inv, QueueInv
<1>a. Main \in Procs /\ \A c \in Children : c \in Procs /\ c # Main
  BY ProcsAssumption DEF Procs
<1>e. EndsMatch'
  BY DEF Inv, EndsMatch, ForkFails, StartProducing, ForkChild
<1>1. CASE ForkFails
  BY <1>1, <1>q, <1>e, <1>a
  DEF ForkFails, Goto, Inv, BeforeProducing, ChildrenKnown, Balance, TypeOK
<1>2. CASE StartProducing
  <2>1. BeforeProducing' /\ ChildrenKnown'
    BY <1>2, <1>a DEF StartProducing, Goto, Inv, BeforeProducing, ChildrenKnown, TypeOK
  <2>2. /\ Number(Pushed)' = 0 /\ Number(Popped)' = 0
        /\ Number(ValueHeld) = 0
    <3>1. \A p \in Procs : pc[p] \in {"fork", "unborn", "wait_empty"}
      BY <1>2, <1>a DEF StartProducing, Inv, BeforeProducing, Procs
    <3>2. \A p \in Procs : pc[p] \notin Pushed \cup Popped \cup ValueHeld
      BY <3>1 DEF Pushed, Popped, ValueHeld
    <3>3. Number(Pushed) = 0 /\ Number(Popped) = 0 /\ Number(ValueHeld) = 0
      BY <3>2, NumberZero
    <3>4. \E l \in {"reap", "wait_full"} : Goto(Main, l)
      BY <1>2 DEF StartProducing
    <3> QED BY <1>a, <1>q, <3>1, <3>3, <3>4, BalanceCounts
            DEF In, Pushed, Popped, Labels, MainLabels
  <2>3. size' = 0
    BY <1>2, <2>2 DEF StartProducing, Inv, QueueInv, Accounting, BeforeProducing, TypeOK
  <2>4. Owed' = children \X (1 .. Iterations)
    <3>1. ASSUME NEW c \in Children, NEW n \in 1 .. Iterations
          PROVE  pc'[c] # "unborn" /\ n <= left'[c] <=> c \in children
      BY <1>2, <1>a DEF StartProducing, Goto, Inv, BeforeProducing, ChildrenKnown, TypeOK
    <3>2. children \subseteq Children
      BY <1>q DEF TypeOK
    <3> QED BY <3>1, <3>2 DEF Owed
  <2>5. Cardinality(Owed') = left'[Main] /\ left'[Main] \in Nat
    <3>1. IsFiniteSet(children)
      BY <1>q, ProcsAssumption, FS_Subset DEF TypeOK
    <3>2. IsFiniteSet(1 .. Iterations) /\ Cardinality(1 .. Iterations) = Iterations
      BY IterationsAssumption, FS_Interval
    <3>3. Cardinality(children \X (1 .. Iterations)) = Cardinality(children) * Iterations
      BY <3>1, <3>2, FS_Product
    <3>4. left'[Main] = Cardinality(children) * Iterations
      BY <1>2, <1>a, <1>q DEF StartProducing, TypeOK
    <3>5. Cardinality(children) \in Nat
      BY <3>1, FS_CardinalityType
    <3> QED BY <2>4, <3>3, <3>4, <3>5, IterationsAssumption
  <2>6. children = {} => left'[Main] = 0
    BY <1>2, <1>a, <1>q, FS_EmptySet, IterationsAssumption DEF StartProducing, TypeOK
  <2>7. pc'[Main] = "reap" => children = {}
    BY <1>2, <1>a, <1>q DEF StartProducing, Goto, TypeOK
  <2>8. \A c \in Children : left'[c] <= Iterations /\ pc'[c] # "exited"
    BY <1>2, <1>a, IterationsAssumption
    DEF StartProducing, Goto, Inv, BeforeProducing, QueueInv, TypeOK
  <2>9. pc'[Main] # "done"
    BY <1>2, <1>a, <1>q DEF StartProducing, Goto, TypeOK
  <2>10. Balance'
    BY <2>2, <2>3, <2>5, <2>6, <2>7, <2>8, <2>9 DEF Balance
  <2> QED BY <1>q, <1>e, <2>1, <2>10 DEF Inv
<1>3. ASSUME NEW c \in Children, ForkChild(c) PROVE Inv'
  BY <1>3, <1>q, <1>e, <1>a
  DEF ForkChild, Goto, Inv, BeforeProducing, ChildrenKnown, Balance, TypeOK
<1> QED BY <1>1, <1>2, <1>3

(* Pushing a value is what the parent owes the children less of, once it   *)
(* has posted it.                                                          *)
LEMMA ProducerKeepsBalance ==
  ASSUME Inv, WaitFull \/ LockPush \/ Push \/ UnlockPush \/ PostEmpty
  PROVE  Inv'
<1> USE DEF sems, ring
<1>q. QueueInv' /\ TypeOK
  BY ProducerPreserves DEF Inv, QueueInv
<1>a. Main \in Procs /\ \A c \in Children : c \in Procs /\ c # Main
  BY ProcsAssumption DEF Procs
<1>s. SafeQueue
  BY InvImpliesSafe DEF Inv
<1>c. Capacity \in Nat /\ Capacity > 0
  BY CapacityAssumption
<1>e. EndsMatch'
  <2>1. CASE Push
    <3>1. /\ size \in Nat /\ size < Capacity /\ head \in 0 .. Capacity - 1
          /\ tail = (head + size) % Capacity /\ head' = head
          /\ tail' = (tail + 1) % Capacity /\ size' = size + 1
      BY <2>1, <1>s, <1>q DEF Push, SafeQueue, AssertsHold, Inv, EndsMatch, TypeOK, Slots
    <3>2. tail = Wrapped(head + size)
      BY <3>1, <1>c, Wraps
    <3>3. (head + size + 1) % Capacity = Wrapped(head + size + 1)
      BY <3>1, <1>c, Wraps
    <3>4. tail \in Nat /\ tail < Capacity
      BY <3>1, <3>2, <1>c DEF Wrapped
    <3>5. (tail + 1) % Capacity = Wrapped(tail + 1)
      BY <3>4, <1>c, Wraps
    <3>6. (tail + 1) % Capacity = (head + size + 1) % Capacity
      BY <3>1, <3>2, <3>3, <3>5, <1>c DEF Wrapped
    <3>7. head + (size + 1) = head + size + 1
      BY <3>1
    <3> QED BY <3>1, <3>6, <3>7 DEF EndsMatch
  <2>2. CASE ~Push
    BY <2>2 DEF Inv, EndsMatch, WaitFull, LockPush, UnlockPush, PostEmpty
  <2> QED BY <2>1, <2>2
<1>o. Owed' = Owed
  <2>1. \A c \in Children : left'[c] = left[c] /\ pc'[c] = pc[c]
    BY <1>a, <1>q DEF TypeOK, WaitFull, LockPush, Push, UnlockPush, PostEmpty, Goto
  <2> QED BY <2>1, OwedSame
<1>b. BeforeProducing' /\ ChildrenKnown'
  BY <1>a, <1>q DEF Inv, BeforeProducing, ChildrenKnown, TypeOK,
     WaitFull, LockPush, Push, UnlockPush, PostEmpty, Goto
<1>1. CASE WaitFull
  <2>1. Goto(Main, "lock_push") /\ left' = left /\ size' = size
    BY <1>1 DEF WaitFull
  <2>2. /\ Number(Pushed) \in Nat /\ Number(Popped) \in Nat
        /\ Number(Pushed)' = Number(Pushed) /\ Number(Popped)' = Number(Popped)
    BY <1>1, <2>1, <1>a, <1>q, BalanceCounts DEF WaitFull, In, Pushed, Popped, Labels, MainLabels
  <2>3. /\ pc'[Main] = "lock_push" /\ pc[Main] \notin {"fork", "aborted"}
        /\ \A c \in Children : pc'[c] = pc[c]
    BY <1>1, <2>1, <1>a, <1>q DEF WaitFull, TypeOK, Goto
  <2>4. Balance'
    BY <2>1, <2>2, <2>3, <1>o, <1>a, <1>q, OwedFinite DEF Inv, Balance, TypeOK
  <2> QED BY <2>4, <1>q, <1>e, <1>b DEF Inv
<1>2. CASE LockPush
  <2>1. Goto(Main, "push") /\ left' = left /\ size' = size
    BY <1>2 DEF LockPush
  <2>2. /\ Number(Pushed) \in Nat /\ Number(Popped) \in Nat
        /\ Number(Pushed)' = Number(Pushed) /\ Number(Popped)' = Number(Popped)
    BY <1>2, <2>1, <1>a, <1>q, BalanceCounts DEF LockPush, In, Pushed, Popped, Labels, MainLabels
  <2>3. /\ pc'[Main] = "push" /\ pc[Main] \notin {"fork", "aborted"}
        /\ \A c \in Children : pc'[c] = pc[c]
    BY <1>2, <2>1, <1>a, <1>q DEF LockPush, TypeOK, Goto
  <2>4. Balance'
    BY <2>1, <2>2, <2>3, <1>o, <1>a, <1>q, OwedFinite DEF Inv, Balance, TypeOK
  <2> QED BY <2>4, <1>q, <1>e, <1>b DEF Inv
<1>3. CASE Push
  <2>1. Goto(Main, "unlock_push") /\ left' = left /\ size' = size + 1
    BY <1>3 DEF Push
  <2>2. /\ Number(Pushed) \in Nat /\ Number(Popped) \in Nat
        /\ Number(Pushed)' = Number(Pushed) + 1 /\ Number(Popped)' = Number(Popped)
    BY <1>3, <2>1, <1>a, <1>q, BalanceCounts DEF Push, In, Pushed, Popped, Labels, MainLabels
  <2>3. /\ pc'[Main] = "unlock_push" /\ pc[Main] \notin {"fork", "aborted"}
        /\ \A c \in Children : pc'[c] = pc[c]
    BY <1>3, <2>1, <1>a, <1>q DEF Push, TypeOK, Goto
  <2>4. Balance'
    BY <2>1, <2>2, <2>3, <1>o, <1>a, <1>q, OwedFinite DEF Inv, Balance, TypeOK
  <2> QED BY <2>4, <1>q, <1>e, <1>b DEF Inv
<1>4. CASE UnlockPush
  <2>1. Goto(Main, "post_empty") /\ left' = left /\ size' = size
    BY <1>4 DEF UnlockPush
  <2>2. /\ Number(Pushed) \in Nat /\ Number(Popped) \in Nat
        /\ Number(Pushed)' = Number(Pushed) /\ Number(Popped)' = Number(Popped)
    BY <1>4, <2>1, <1>a, <1>q, BalanceCounts DEF UnlockPush, In, Pushed, Popped, Labels, MainLabels
  <2>3. /\ pc'[Main] = "post_empty" /\ pc[Main] \notin {"fork", "aborted"}
        /\ \A c \in Children : pc'[c] = pc[c]
    BY <1>4, <2>1, <1>a, <1>q DEF UnlockPush, TypeOK, Goto
  <2>4. Balance'
    BY <2>1, <2>2, <2>3, <1>o, <1>a, <1>q, OwedFinite DEF Inv, Balance, TypeOK
  <2> QED BY <2>4, <1>q, <1>e, <1>b DEF Inv
<1>5. CASE PostEmpty
  <2>1. PICK l \in {"reap", "wait_full"} : Goto(Main, l) /\ (l = "reap" => left[Main] = 1)
    BY <1>5 DEF PostEmpty
  <2>2. /\ Number(Pushed) \in Nat /\ Number(Popped) \in Nat
        /\ Number(Pushed)' = Number(Pushed) - 1 /\ Number(Popped)' = Number(Popped)
    BY <1>5, <2>1, <1>a, <1>q, BalanceCounts
    DEF PostEmpty, In, Pushed, Popped, Labels, MainLabels
  <2>3. left'[Main] = left[Main] - 1 /\ \A c \in Children : left'[c] = left[c] /\ pc'[c] = pc[c]
    BY <1>5, <2>1, <1>a, <1>q DEF PostEmpty, TypeOK, Goto
  <2>4. pc'[Main] = l /\ pc[Main] = "post_empty" /\ size' = size /\ left[Main] \in Nat
    BY <1>5, <2>1, <1>a, <1>q DEF PostEmpty, TypeOK, Goto
  <2>5. Balance'
    BY <2>1, <2>2, <2>3, <2>4, <1>o, <1>q, OwedFinite DEF Inv, Balance, TypeOK
  <2> QED BY <2>5, <1>q, <1>e, <1>b DEF Inv
<1> QED BY <1>1, <1>2, <1>3, <1>4, <1>5

(* Popping a value is one iteration less that is owed, once it is posted.  *)
LEMMA ConsumerKeepsBalance ==
  ASSUME Inv, \E c \in Children : Consumer(c)
  PROVE  Inv'
<1> USE DEF sems, ring
<1>q. QueueInv' /\ TypeOK
  BY ConsumerPreserves DEF Inv, QueueInv
<1>a. Main \in Procs /\ \A c \in Children : c \in Procs /\ c # Main
  BY ProcsAssumption DEF Procs
<1>s. SafeQueue
  BY InvImpliesSafe DEF Inv
<1>c. Capacity \in Nat /\ Capacity > 0
  BY CapacityAssumption
<1>b. pc[Main] \notin {"fork", "aborted"}
  BY DEF Inv, BeforeProducing, Consumer, WaitEmpty, LockPop, Front, Pop, UnlockPop, PostFull
<1>e. ASSUME NEW c \in Children, Pop(c) PROVE EndsMatch'
  <2>1. /\ size \in Nat /\ size > 0 /\ size <= Capacity /\ head \in 0 .. Capacity - 1
        /\ tail = (head + size) % Capacity /\ tail' = tail
        /\ head' = (head + 1) % Capacity /\ size' = size - 1
    <3>1. size \in Nat /\ full \in Nat /\ Number(SlotHeld) \in Nat
      BY <1>q, NumberType DEF TypeOK
    <3>2. size <= Capacity
      BY <3>1, <1>c DEF Inv, QueueInv, Accounting
    <3>3. size > 0
      BY <1>e, <1>s DEF Pop, SafeQueue, AssertsHold
    <3> QED BY <3>1, <3>2, <3>3, <1>e, <1>q DEF Pop, Inv, EndsMatch, TypeOK, Slots
  <2>2. tail = Wrapped(head + size)
    BY <2>1, <1>c, Wraps
  <2>3. head' = Wrapped(head + 1)
    BY <2>1, <1>c, Wraps
  <2>4. head' \in Nat /\ head' < Capacity
    BY <2>1, <2>3, <1>c DEF Wrapped
  <2>5. (head' + size') % Capacity = Wrapped(head' + size')
    BY <2>1, <2>4, <1>c, Wraps
  <2>6. Wrapped(head' + size') = Wrapped(head + size)
    BY <2>1, <2>3, <1>c DEF Wrapped
  <2> QED BY <2>1, <2>2, <2>5, <2>6 DEF EndsMatch
<1>1. ASSUME NEW c \in Children, WaitEmpty(c) PROVE Inv'
  <2>1. /\ Goto(c, "lock_pop") /\ left' = left /\ size' = size
        /\ pc[c] \notin {"unborn", "wait_empty", "exited"} \/ empty > 0
    BY <1>1 DEF WaitEmpty
  <2>2. /\ Number(Pushed) \in Nat /\ Number(Popped) \in Nat
        /\ Number(Pushed)' = Number(Pushed) /\ Number(Popped)' = Number(Popped)
    BY <1>1, <2>1, <1>a, <1>q, BalanceCounts DEF WaitEmpty, In, Pushed, Popped, Labels, ChildLabels
  <2>3. /\ pc[c] # "unborn" /\ pc'[c] = "lock_pop" /\ pc'[Main] = pc[Main]
        /\ \A d \in Children \ {c} : pc'[d] = pc[d]
    BY <1>1, <2>1, <1>a, <1>q DEF WaitEmpty, TypeOK, Goto
  <2>4. Owed' = Owed
    BY <2>1, <2>3, OwedSame
  <2>5. Balance'
    BY <2>1, <2>2, <2>3, <2>4, <1>a, <1>q, OwedFinite, <1>b, <1>1 DEF Inv, Balance, TypeOK
  <2>6. BeforeProducing' /\ ChildrenKnown' /\ EndsMatch'
    BY <1>1, <2>3, <1>a, <1>b, <1>q, <1>e DEF WaitEmpty, Inv, BeforeProducing, ChildrenKnown, EndsMatch, TypeOK
  <2> QED BY <2>5, <2>6, <1>q DEF Inv
<1>2. ASSUME NEW c \in Children, LockPop(c) PROVE Inv'
  <2>1. /\ Goto(c, "front") /\ left' = left /\ size' = size
        /\ pc[c] \notin {"unborn", "wait_empty", "exited"} \/ empty > 0
    BY <1>2 DEF LockPop
  <2>2. /\ Number(Pushed) \in Nat /\ Number(Popped) \in Nat
        /\ Number(Pushed)' = Number(Pushed) /\ Number(Popped)' = Number(Popped)
    BY <1>2, <2>1, <1>a, <1>q, BalanceCounts DEF LockPop, In, Pushed, Popped, Labels, ChildLabels
  <2>3. /\ pc[c] # "unborn" /\ pc'[c] = "front" /\ pc'[Main] = pc[Main]
        /\ \A d \in Children \ {c} : pc'[d] = pc[d]
    BY <1>2, <2>1, <1>a, <1>q DEF LockPop, TypeOK, Goto
  <2>4. Owed' = Owed
    BY <2>1, <2>3, OwedSame
  <2>5. Balance'
    BY <2>1, <2>2, <2>3, <2>4, <1>a, <1>q, OwedFinite, <1>b, <1>2 DEF Inv, Balance, TypeOK
  <2>6. BeforeProducing' /\ ChildrenKnown' /\ EndsMatch'
    BY <1>2, <2>3, <1>a, <1>b, <1>q, <1>e DEF LockPop, Inv, BeforeProducing, ChildrenKnown, EndsMatch, TypeOK
  <2> QED BY <2>5, <2>6, <1>q DEF Inv
<1>3. ASSUME NEW c \in Children, Front(c) PROVE Inv'
  <2>1. /\ Goto(c, "pop") /\ left' = left /\ size' = size
        /\ pc[c] \notin {"unborn", "wait_empty", "exited"} \/ empty > 0
    BY <1>3 DEF Front
  <2>2. /\ Number(Pushed) \in Nat /\ Number(Popped) \in Nat
        /\ Number(Pushed)' = Number(Pushed) /\ Number(Popped)' = Number(Popped)
    BY <1>3, <2>1, <1>a, <1>q, BalanceCounts DEF Front, In, Pushed, Popped, Labels, ChildLabels
  <2>3. /\ pc[c] # "unborn" /\ pc'[c] = "pop" /\ pc'[Main] = pc[Main]
        /\ \A d \in Children \ {c} : pc'[d] = pc[d]
    BY <1>3, <2>1, <1>a, <1>q DEF Front, TypeOK, Goto
  <2>4. Owed' = Owed
    BY <2>1, <2>3, OwedSame
  <2>5. Balance'
    BY <2>1, <2>2, <2>3, <2>4, <1>a, <1>q, OwedFinite, <1>b, <1>3 DEF Inv, Balance, TypeOK
  <2>6. BeforeProducing' /\ ChildrenKnown' /\ EndsMatch'
    BY <1>3, <2>3, <1>a, <1>b, <1>q, <1>e DEF Front, Inv, BeforeProducing, ChildrenKnown, EndsMatch, TypeOK
  <2> QED BY <2>5, <2>6, <1>q DEF Inv
<1>4. ASSUME NEW c \in Children, Pop(c) PROVE Inv'
  <2>1. /\ Goto(c, "unlock_pop") /\ left' = left /\ size' = size - 1
        /\ pc[c] \notin {"unborn", "wait_empty", "exited"} \/ empty > 0
    BY <1>4 DEF Pop
  <2>2. /\ Number(Pushed) \in Nat /\ Number(Popped) \in Nat
        /\ Number(Pushed)' = Number(Pushed) /\ Number(Popped)' = Number(Popped) + 1
    BY <1>4, <2>1, <1>a, <1>q, BalanceCounts DEF Pop, In, Pushed, Popped, Labels, ChildLabels
  <2>3. /\ pc[c] # "unborn" /\ pc'[c] = "unlock_pop" /\ pc'[Main] = pc[Main]
        /\ \A d \in Children \ {c} : pc'[d] = pc[d]
    BY <1>4, <2>1, <1>a, <1>q DEF Pop, TypeOK, Goto
  <2>4. Owed' = Owed
    BY <2>1, <2>3, OwedSame
  <2>5. Balance'
    BY <2>1, <2>2, <2>3, <2>4, <1>a, <1>q, OwedFinite, <1>b, <1>4 DEF Inv, Balance, TypeOK
  <2>6. BeforeProducing' /\ ChildrenKnown' /\ EndsMatch'
    BY <1>4, <2>3, <1>a, <1>b, <1>q, <1>e DEF Pop, Inv, BeforeProducing, ChildrenKnown, EndsMatch, TypeOK
  <2> QED BY <2>5, <2>6, <1>q DEF Inv
<1>5. ASSUME NEW c \in Children, UnlockPop(c) PROVE Inv'
  <2>1. /\ Goto(c, "post_full") /\ left' = left /\ size' = size
        /\ pc[c] \notin {"unborn", "wait_empty", "exited"} \/ empty > 0
    BY <1>5 DEF UnlockPop
  <2>2. /\ Number(Pushed) \in Nat /\ Number(Popped) \in Nat
        /\ Number(Pushed)' = Number(Pushed) /\ Number(Popped)' = Number(Popped)
    BY <1>5, <2>1, <1>a, <1>q, BalanceCounts DEF UnlockPop, In, Pushed, Popped, Labels, ChildLabels
  <2>3. /\ pc[c] # "unborn" /\ pc'[c] = "post_full" /\ pc'[Main] = pc[Main]
        /\ \A d \in Children \ {c} : pc'[d] = pc[d]
    BY <1>5, <2>1, <1>a, <1>q DEF UnlockPop, TypeOK, Goto
  <2>4. Owed' = Owed
    BY <2>1, <2>3, OwedSame
  <2>5. Balance'
    BY <2>1, <2>2, <2>3, <2>4, <1>a, <1>q, OwedFinite, <1>b, <1>5 DEF Inv, Balance, TypeOK
  <2>6. BeforeProducing' /\ ChildrenKnown' /\ EndsMatch'
    BY <1>5, <2>3, <1>a, <1>b, <1>q, <1>e DEF UnlockPop, Inv, BeforeProducing, ChildrenKnown, EndsMatch, TypeOK
  <2> QED BY <2>5, <2>6, <1>q DEF Inv
<1>6. ASSUME NEW c \in Children, PostFull(c) PROVE Inv'
  <2>1. PICK l \in {"exited", "wait_empty"} : Goto(c, l) /\ (l = "exited" <=> left[c] = 1)
    BY <1>6 DEF PostFull
  <2>2. /\ Number(Pushed) \in Nat /\ Number(Popped) \in Nat
        /\ Number(Pushed)' = Number(Pushed) /\ Number(Popped)' = Number(Popped) - 1
    BY <1>6, <2>1, <1>a, <1>q, BalanceCounts
    DEF PostFull, In, Pushed, Popped, Labels, ChildLabels
  <2>3. /\ pc[c] = "post_full" /\ pc'[c] = l /\ pc'[Main] = pc[Main] /\ size' = size
        /\ \A d \in Children \ {c} : pc'[d] = pc[d]
        /\ left' = [left EXCEPT ![c] = @ - 1] /\ children' = children
    BY <1>6, <2>1, <1>a, <1>q DEF PostFull, TypeOK, Goto
  <2>4. left[c] \in 1 .. Iterations
    BY <2>3, <1>a, <1>q, IterationsAssumption DEF Inv, QueueInv, LoopsRun, Balance, TypeOK
  <2>5. /\ left'[c] = left[c] - 1 /\ left'[Main] = left[Main]
        /\ \A d \in Children \ {c} : left'[d] = left[d]
    BY <2>3, <1>a, <1>q DEF TypeOK
  <2>6. Cardinality(Owed') = Cardinality(Owed) - 1
    BY <2>1, <2>3, <2>4, <1>q, OwedLess
  <2>7. Balance'
    <3>1. Cardinality(Owed') + Number(Pushed)' = left'[Main] + size' + Number(Popped)'
      <4>1. left[Main] \in Nat /\ size \in Nat
        BY <1>a, <1>q DEF TypeOK
      <4>2. Cardinality(Owed) + Number(Pushed) = left[Main] + size + Number(Popped)
        BY <1>b DEF Inv, Balance
      <4> QED BY <4>1, <4>2, <2>2, <2>3, <2>5, <2>6, OwedFinite
    <3>2. \A d \in Children : left'[d] <= Iterations /\ (pc'[d] = "exited" => left'[d] = 0)
      BY <2>1, <2>3, <2>4, <2>5, IterationsAssumption DEF Inv, Balance
    <3>3. pc'[Main] \in {"reap", "done"} => left'[Main] = 0
      BY <2>3, <2>5 DEF Inv, Balance
    <3> QED BY <3>1, <3>2, <3>3 DEF Balance
  <2>8. BeforeProducing' /\ ChildrenKnown' /\ EndsMatch'
    BY <1>6, <2>3, <1>a, <1>b, <1>q
    DEF PostFull, Inv, BeforeProducing, ChildrenKnown, EndsMatch, TypeOK
  <2> QED BY <2>7, <2>8, <1>q DEF Inv
<1> QED BY <1>1, <1>2, <1>3, <1>4, <1>5, <1>6 DEF Consumer

(* The parent forgets only who has exited.                                 *)
LEMMA ReapKeepsBalance ==
  ASSUME Inv, Finish \/ \E c \in Children : Reap(c)
  PROVE  Inv'
<1> USE DEF sems, ring
<1>q. QueueInv' /\ TypeOK
  BY ReapPreserves DEF Inv, QueueInv
<1>a. Main \in Procs /\ \A c \in Children : c \in Procs /\ c # Main
  BY ProcsAssumption DEF Procs
<1>1. CASE Finish
  <2>1. Goto(Main, "done") /\ left' = left /\ size' = size /\ pc[Main] = "reap"
    BY <1>1 DEF Finish
  <2>2. /\ Number(Pushed)' = Number(Pushed) /\ Number(Popped)' = Number(Popped)
    BY <2>1, <1>a, <1>q, BalanceCounts DEF In, Pushed, Popped, Labels, MainLabels
  <2>3. pc'[Main] = "done" /\ \A d \in Children : pc'[d] = pc[d]
    BY <2>1, <1>a, <1>q DEF TypeOK, Goto
  <2>4. Owed' = Owed
    BY <2>1, <2>3, OwedSame
  <2>5. Balance'
    BY <2>1, <2>2, <2>3, <2>4 DEF Inv, Balance
  <2>6. BeforeProducing' /\ ChildrenKnown' /\ EndsMatch'
    BY <1>1, <2>3, <1>a, <1>q DEF Finish, Inv, BeforeProducing, ChildrenKnown, EndsMatch
  <2> QED BY <2>5, <2>6, <1>q DEF Inv
<1>2. ASSUME NEW c \in Children, Reap(c) PROVE Inv'
  <2>1. Balance'
    BY <1>2 DEF Reap, Inv, Balance, Owed, Number
  <2>2. BeforeProducing' /\ ChildrenKnown' /\ EndsMatch'
    BY <1>2, <1>q DEF Reap, Inv, BeforeProducing, ChildrenKnown, EndsMatch, TypeOK
  <2> QED BY <2>1, <2>2, <1>q DEF Inv
<1> QED BY <1>1, <1>2

-----------------------------------------------------------------------------
(* Inv is an invariant of the program for every choice of the constants.   *)
THEOREM Invariance == Spec => []Inv
<1>1. Init => Inv
  BY InitInv
<1>2. Inv /\ [Next]_vars => Inv'
  <2> SUFFICES ASSUME Inv, [Next]_vars PROVE Inv'
    OBVIOUS
  <2>1. CASE Parent
    BY <2>1, ForkKeepsBalance, ProducerKeepsBalance, ReapKeepsBalance DEF Parent
  <2>2. CASE \E c \in Children : Consumer(c)
    BY <2>2, ConsumerKeepsBalance
  <2>3. CASE UNCHANGED vars
    BY <2>3, CountsSame
    DEF Inv, QueueInv, TypeOK, LoopsRun, Accounting, ReadStaysFront, EndsMatch,
        BeforeProducing, ChildrenKnown, Balance, Owed, Number, vars, sems, ring
  <2> QED BY <2>1, <2>2, <2>3 DEF Next, Terminated
<1> QED BY <1>1, <1>2, PTL DEF Spec

(* No two processes are in the ring at once, neither assertion about the   *)
(* queue fails, and what a consumer has read is what it removes: whatever  *)
(* the number of children, the capacity, and the order of the forks.       *)
THEOREM Safety == Spec => []SafeQueue
<1>1. Inv => SafeQueue
  BY InvImpliesSafe DEF Inv
<1> QED BY <1>1, Invariance, PTL

(* When the parent is done its children have exited and taken everything   *)
(* it made with them: nothing is owed, so nothing is left in the ring.     *)
THEOREM NothingLeftBehind == Spec => []AllConsumed
<1>1. Inv => AllConsumed
  <2> SUFFICES ASSUME Inv, pc[Main] = "done"
               PROVE  /\ \A c \in Children : pc[c] \in {"unborn", "exited"}
                      /\ size = 0 /\ empty = 0 /\ full = Capacity
    BY DEF AllConsumed
  <2>1. \A c \in Children : pc[c] \in {"unborn", "exited"}
    BY DEF Inv, ChildrenKnown
  <2>2. \A p \in Procs : pc[p] \in {"unborn", "exited", "done"}
    BY <2>1 DEF Procs
  <2>3. \A p \in Procs : pc[p] \notin Pushed \cup Popped \cup ValueHeld \cup SlotHeld
    BY <2>2 DEF Pushed, Popped, ValueHeld, SlotHeld
  <2>4. /\ Number(Pushed) = 0 /\ Number(Popped) = 0
        /\ Number(ValueHeld) = 0 /\ Number(SlotHeld) = 0
    BY <2>3, NumberZero
  <2>5. Owed = {}
    BY <2>1, IterationsAssumption DEF Owed, Inv, Balance
  <2>6. Cardinality(Owed) = 0
    BY <2>5, FS_EmptySet
  <2>7. left[Main] = 0 /\ size \in Nat /\ empty \in Nat /\ full \in Nat
    BY DEF Inv, Balance, QueueInv, TypeOK
  <2>8. size = 0
    BY <2>4, <2>6, <2>7 DEF Inv, Balance
  <2> QED BY <2>1, <2>4, <2>7, <2>8, CapacityAssumption DEF Inv, QueueInv, Accounting
<1> QED BY <1>1, Invariance, PTL

(* Once the parent has aborted, the children forked before wait for ever:  *)
(* no step can take them on.                                               *)
THEOREM AbortIsForEver == Spec => AbortStrandsChildren
<1> DEFINE Aborted  == pc[Main] = "aborted"
           Stranded == \A c \in children : pc[c] = "wait_empty"
<1>1. Inv /\ Aborted => Stranded
  BY DEF Inv, QueueInv, TypeOK, BeforeProducing, ChildrenKnown
<1>2. Inv /\ Aborted /\ [Next]_vars => Aborted'
  <2> SUFFICES ASSUME Inv, Aborted, [Next]_vars PROVE Aborted'
    OBVIOUS
  <2>1. \A c \in Children : c # Main
    BY ProcsAssumption
  <2>2. \A c \in Children : ~Consumer(c)
    BY DEF Inv, BeforeProducing, Consumer, WaitEmpty, LockPop, Front, Pop, UnlockPop, PostFull
  <2> QED BY <2>1, <2>2
          DEF Next, Parent, ForkChild, ForkFails, StartProducing, WaitFull, LockPush, Push,
              UnlockPush, PostEmpty, Reap, Finish, Terminated, vars
<1> QED BY <1>1, <1>2, Invariance, PTL DEF Spec, AbortStrandsChildren

-----------------------------------------------------------------------------
(* The refinement of BoundedFifo: what is in the ring, from head on.       *)
InRing == [i \in 1 .. size |-> item[(head + i - 1) % Capacity]]

(* A push appends its value: it goes where no value of the ring is.        *)
LEMMA PushPuts ==
  ASSUME Inv, Push
  PROVE  \E v \in Values : Len(InRing) < Capacity /\ InRing' = Append(InRing, v)
<1>q. TypeOK /\ SafeQueue /\ EndsMatch
  BY InvImpliesSafe DEF Inv, QueueInv
<1>c. Capacity \in Nat /\ Capacity > 0
  BY CapacityAssumption
<1>1. PICK v \in Values : item' = [item EXCEPT ![tail] = v]
  BY DEF Push
<1>2. /\ size \in Nat /\ size < Capacity /\ head \in 0 .. Capacity - 1
      /\ size' = size + 1 /\ head' = head /\ tail = (head + size) % Capacity
  BY <1>q DEF Push, TypeOK, SafeQueue, AssertsHold, Slots, EndsMatch
<1>3. tail = Wrapped(head + size)
  BY <1>2, <1>c, Wraps
<1>4. ASSUME NEW i \in 1 .. size
      PROVE  item'[(head + i - 1) % Capacity] = item[(head + i - 1) % Capacity]
  <2>1. head + i - 1 \in Nat /\ head + i - 1 < 2 * Capacity
    BY <1>2, <1>c
  <2>2. (head + i - 1) % Capacity = Wrapped(head + i - 1)
    BY <2>1, Wraps
  <2>3. Wrapped(head + i - 1) # tail /\ Wrapped(head + i - 1) \in Slots
    BY <1>2, <1>3, <1>c DEF Wrapped, Slots
  <2> QED BY <2>2, <2>3, <1>1, <1>q DEF TypeOK
<1>5. item'[(head + (size + 1) - 1) % Capacity] = v
  <2>1. head + (size + 1) - 1 = head + size
    BY <1>2
  <2>2. tail \in Slots
    BY <1>q DEF TypeOK
  <2> QED BY <2>1, <2>2, <1>1, <1>2, <1>q DEF TypeOK
<1>6. Len(InRing) = size
  BY <1>2 DEF InRing
<1>7. InRing' = Append(InRing, v)
  <2>1. InRing' = [i \in 1 .. size + 1 |-> item'[(head + i - 1) % Capacity]]
    BY <1>2 DEF InRing
  <2>2. Append(InRing, v) = [i \in 1 .. size + 1 |-> IF i = size + 1 THEN v ELSE InRing[i]]
    BY <1>6, <1>2 DEF InRing
  <2>3. ASSUME NEW i \in 1 .. size + 1
        PROVE  item'[(head + i - 1) % Capacity] = IF i = size + 1 THEN v ELSE InRing[i]
    <3>1. CASE i = size + 1
      BY <3>1, <1>5
    <3>2. CASE i \in 1 .. size
      <4>1. InRing[i] = item[(head + i - 1) % Capacity] /\ i # size + 1
        BY <3>2, <1>2 DEF InRing
      <4> QED BY <4>1, <3>2, <1>4
    <3> QED BY <3>1, <3>2, <1>2
  <2> QED BY <2>1, <2>2, <2>3
<1> QED BY <1>2, <1>6, <1>7

(* A pop takes the first value off.                                        *)
LEMMA PopGets ==
  ASSUME Inv, NEW c \in Children, Pop(c)
  PROVE  InRing # <<>> /\ InRing' = Tail(InRing)
<1>q. TypeOK /\ SafeQueue
  BY InvImpliesSafe DEF Inv, QueueInv
<1>c. Capacity \in Nat /\ Capacity > 0
  BY CapacityAssumption
<1>1. /\ size \in Nat /\ size > 0 /\ head \in 0 .. Capacity - 1
      /\ size' = size - 1 /\ head' = (head + 1) % Capacity /\ item' = item
  BY <1>q DEF Pop, TypeOK, SafeQueue, AssertsHold, Slots
<1>2. size <= Capacity
  <2>1. full \in Nat /\ Number(SlotHeld) \in Nat
    BY <1>q, NumberType DEF TypeOK
  <2> QED BY <2>1, <1>1, <1>c DEF Inv, QueueInv, Accounting
<1>3. head' = Wrapped(head + 1)
  BY <1>1, <1>c, Wraps
<1>4. head' \in Nat /\ head' < Capacity
  BY <1>1, <1>3, <1>c DEF Wrapped
<1>5. ASSUME NEW i \in 1 .. size - 1
      PROVE  (head' + i - 1) % Capacity = (head + (i + 1) - 1) % Capacity
  <2>1. head' + i - 1 \in Nat /\ head' + i - 1 < 2 * Capacity
    BY <1>1, <1>2, <1>4, <1>c
  <2>2. head + (i + 1) - 1 \in Nat /\ head + (i + 1) - 1 < 2 * Capacity
    BY <1>1, <1>2, <1>c
  <2>3. Wrapped(head' + i - 1) = Wrapped(head + (i + 1) - 1)
    BY <1>1, <1>2, <1>3, <1>c DEF Wrapped
  <2> QED BY <2>1, <2>2, <2>3, Wraps
<1>6. Len(InRing) = size /\ InRing # <<>>
  BY <1>1 DEF InRing
<1>7. Tail(InRing) = [i \in 1 .. size - 1 |-> InRing[i + 1]]
  BY <1>1, <1>6 DEF InRing
<1>8. InRing' = [i \in 1 .. size - 1 |-> item[(head' + i - 1) % Capacity]]
  BY <1>1 DEF InRing
<1>9. ASSUME NEW i \in 1 .. size - 1
      PROVE  InRing[i + 1] = item[(head + (i + 1) - 1) % Capacity]
  BY <1>1 DEF InRing
<1> QED BY <1>5, <1>6, <1>7, <1>8, <1>9

(* The ring is a bounded queue: values leave it in the order in which they *)
(* entered, and there are never more of them than it holds.                *)
THEOREM Refinement == Spec => ImplementsFifo
<1>1. Init => Fifo!Init
  <2> SUFFICES ASSUME Init PROVE InRing = <<>>
    BY DEF Fifo!Init, InRing
  <2> QED BY DEF Init, InRing
<1>2. Inv /\ [Next]_vars => [Fifo!Next]_InRing
  <2> SUFFICES ASSUME Inv, [Next]_vars PROVE Fifo!Next \/ UNCHANGED InRing
    OBVIOUS
  <2>1. CASE Push
    BY <2>1, PushPuts DEF Fifo!Next, Fifo!Put, InRing
  <2>2. CASE \E c \in Children : Pop(c)
    BY <2>2, PopGets DEF Fifo!Next, Fifo!Get, InRing
  <2>3. CASE UNCHANGED ring
    BY <2>3 DEF ring, InRing
  <2>4. Push \/ (\E c \in Children : Pop(c)) \/ UNCHANGED ring
    BY DEF Next, Parent, Consumer, ForkChild, ForkFails, StartProducing, WaitFull, LockPush,
           UnlockPush, PostEmpty, Reap, Finish, WaitEmpty, LockPop, Front, UnlockPop, PostFull,
           Terminated, vars, ring
  <2> QED BY <2>1, <2>2, <2>3, <2>4
<1>3. InRing = [i \in 1 .. size |-> item[(head + i - 1) % Capacity]]
  BY DEF InRing
<1> QED BY <1>1, <1>2, <1>3, Invariance, PTL DEF Spec, ImplementsFifo, Fifo!Spec, InRing
=============================================================================
