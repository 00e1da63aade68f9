--------------------------- MODULE ShmemChat_proofs ---------------------------
(***************************************************************************)
(* Proofs about ShmemChat, for any number of lines: a user who waits for   *)
(* each program to be up makes the two take turns, whenever one is killed  *)
(* and started again, and neither touches an object that is still empty.   *)
(***************************************************************************)
EXTENDS ShmemChat, TLAPS

USE DEF Procs, Objects, Writes, Reads, Goto, Over, lines, vars

LEMMA InitInv == Init => Inv
  BY MaxLinesAssumption
  DEF Init, Inv, TypeOK, NoBusError, StartedInOrder, ObjectsReady, OneTurn, NoLostWakeup,
      AnswersOwnLine, AnswerOnItsWay

-----------------------------------------------------------------------------
(* The user's steps: who is started finds the other as StartedInOrder says,*)
(* and a question is asked while the client has the turn.                  *)
LEMMA UserPreserves ==
  ASSUME Patient = TRUE, Inv, StartClient \/ StartServer \/ Ask \/ Answer
  PROVE  Inv'
<1> USE DEF Inv
<1>t. TypeOK'
  <2>1. CASE Ask
    <3>1. question' \in 0 .. MaxLines
      BY <2>1, MaxLinesAssumption DEF Ask, TypeOK
    <3> QED BY <2>1, <3>1 DEF Ask, TypeOK
  <2>2. CASE StartClient \/ StartServer \/ Answer
    BY <2>2, MaxLinesAssumption DEF TypeOK, StartClient, StartServer, Answer
  <2> QED BY <2>1, <2>2
<1>1. CASE StartClient
  BY <1>1, <1>t
  DEF StartClient, TypeOK, NoBusError, StartedInOrder, ObjectsReady, OneTurn, NoLostWakeup,
      AnswersOwnLine, AnswerOnItsWay
<1>2. CASE StartServer
  BY <1>2, <1>t
  DEF StartServer, TypeOK, NoBusError, StartedInOrder, ObjectsReady, OneTurn, NoLostWakeup,
      AnswersOwnLine, AnswerOnItsWay
<1>3. CASE Ask
  BY <1>3, <1>t
  DEF Ask, TypeOK, NoBusError, StartedInOrder, ObjectsReady, OneTurn, NoLostWakeup,
      AnswersOwnLine, AnswerOnItsWay
<1>4. CASE Answer
  BY <1>4, <1>t
  DEF Answer, TypeOK, NoBusError, StartedInOrder, ObjectsReady, OneTurn, NoLostWakeup,
      AnswersOwnLine, AnswerOnItsWay
<1> QED BY <1>1, <1>2, <1>3, <1>4

(* A program that is killed leaves the objects as they are.                *)
LEMMA KillPreserves ==
  ASSUME Inv, NEW p \in Procs, Kill(p)
  PROVE  Inv'
<1> USE DEF Inv, Kill
<1>1. CASE p = "client"
  BY <1>1
  DEF TypeOK, NoBusError, StartedInOrder, ObjectsReady, OneTurn, NoLostWakeup,
      AnswersOwnLine, AnswerOnItsWay
<1>2. CASE p = "server"
  BY <1>2
  DEF TypeOK, NoBusError, StartedInOrder, ObjectsReady, OneTurn, NoLostWakeup,
      AnswersOwnLine, AnswerOnItsWay
<1> QED BY <1>1, <1>2

-----------------------------------------------------------------------------
(* The client's steps. *)
LEMMA ClientPreserves ==
  ASSUME Inv, Program("client")
  PROVE  Inv'
<1> USE DEF Inv
<1>1. CASE Open("client")
  BY <1>1
  DEF Open, TypeOK, NoBusError, StartedInOrder, ObjectsReady, OneTurn, NoLostWakeup,
      AnswersOwnLine, AnswerOnItsWay
<1>2. CASE SemInit("client")
  BY <1>2
  DEF SemInit, TypeOK, NoBusError, StartedInOrder, ObjectsReady, OneTurn, NoLostWakeup,
      AnswersOwnLine, AnswerOnItsWay
<1>3. CASE SemPost("client")
  BY <1>3
  DEF SemPost, TypeOK, NoBusError, StartedInOrder, ObjectsReady, OneTurn, NoLostWakeup,
      AnswersOwnLine, AnswerOnItsWay
<1>4. CASE SemWait("client")
  <2>1. extended["/client"] /\ sem["/client"] \in Nat
    BY <1>4 DEF SemWait, ObjectsReady, TypeOK
  <2>2. CASE /\ sem["/client"] > 0 /\ seen' = seen
             /\ sem' = [sem EXCEPT !["/client"] = @ - 1]
             /\ Goto("client", "print") /\ UNCHANGED registered
    <3>1. TypeOK'
      BY <1>4, <2>1, <2>2 DEF SemWait, TypeOK
    <3> QED
      BY <1>4, <2>1, <2>2, <3>1
      DEF SemWait, TypeOK, NoBusError, StartedInOrder, ObjectsReady, OneTurn, NoLostWakeup,
          AnswersOwnLine, AnswerOnItsWay
  <2>3. CASE /\ sem["/client"] = 0
             /\ registered' = [registered EXCEPT !["/client"] = TRUE]
             /\ Goto("client", "asleep") /\ UNCHANGED <<sem, seen>>
    BY <1>4, <2>3
    DEF SemWait, TypeOK, NoBusError, StartedInOrder, ObjectsReady, OneTurn, NoLostWakeup,
        AnswersOwnLine, AnswerOnItsWay
  <2> QED BY <1>4, <2>1, <2>2, <2>3 DEF SemWait
<1>5. CASE Printed("client")
  BY <1>5
  DEF Printed, TypeOK, NoBusError, StartedInOrder, ObjectsReady, OneTurn, NoLostWakeup,
      AnswersOwnLine, AnswerOnItsWay
<1> QED BY <1>1, <1>2, <1>3, <1>4, <1>5 DEF Program

(* The server's steps. *)
LEMMA ServerPreserves ==
  ASSUME Inv, Program("server")
  PROVE  Inv'
<1> USE DEF Inv
<1>1. CASE Open("server")
  BY <1>1
  DEF Open, TypeOK, NoBusError, StartedInOrder, ObjectsReady, OneTurn, NoLostWakeup,
      AnswersOwnLine, AnswerOnItsWay
<1>2. CASE SemInit("server")
  BY <1>2
  DEF SemInit, TypeOK, NoBusError, StartedInOrder, ObjectsReady, OneTurn, NoLostWakeup,
      AnswersOwnLine, AnswerOnItsWay
<1>3. CASE SemPost("server")
  BY <1>3
  DEF SemPost, TypeOK, NoBusError, StartedInOrder, ObjectsReady, OneTurn, NoLostWakeup,
      AnswersOwnLine, AnswerOnItsWay
<1>4. CASE SemWait("server")
  <2>1. extended["/server"] /\ sem["/server"] \in Nat
    BY <1>4 DEF SemWait, ObjectsReady, TypeOK
  <2>2. CASE /\ sem["/server"] > 0 /\ seen' = question
             /\ sem' = [sem EXCEPT !["/server"] = @ - 1]
             /\ Goto("server", "print") /\ UNCHANGED registered
    <3>1. TypeOK'
      BY <1>4, <2>1, <2>2 DEF SemWait, TypeOK
    <3> QED
      BY <1>4, <2>1, <2>2, <3>1
      DEF SemWait, TypeOK, NoBusError, StartedInOrder, ObjectsReady, OneTurn, NoLostWakeup,
          AnswersOwnLine, AnswerOnItsWay
  <2>3. CASE /\ sem["/server"] = 0
             /\ registered' = [registered EXCEPT !["/server"] = TRUE]
             /\ Goto("server", "asleep") /\ UNCHANGED <<sem, seen>>
    BY <1>4, <2>3
    DEF SemWait, TypeOK, NoBusError, StartedInOrder, ObjectsReady, OneTurn, NoLostWakeup,
        AnswersOwnLine, AnswerOnItsWay
  <2> QED BY <1>4, <2>1, <2>2, <2>3 DEF SemWait
<1>5. CASE Printed("server")
  BY <1>5
  DEF Printed, TypeOK, NoBusError, StartedInOrder, ObjectsReady, OneTurn, NoLostWakeup,
      AnswersOwnLine, AnswerOnItsWay
<1> QED BY <1>1, <1>2, <1>3, <1>4, <1>5 DEF Program

-----------------------------------------------------------------------------
(* Whoever prints, the other does not write.                               *)
LEMMA InvTakesTurns == Inv => Alternation
<1> SUFFICES ASSUME Inv PROVE BuffersExclusive
  BY DEF Inv, Alternation
<1>1. pc["client"] \in {"prompt", "post"} => pc["server"] # "print"
  BY DEF Inv, OneTurn
<1>2. pc["server"] \in {"prompt", "post"} => pc["client"] # "print"
  BY DEF Inv, OneTurn
<1> QED BY <1>1, <1>2 DEF BuffersExclusive

(* Inv is an invariant for a user who waits for each program to be up,     *)
(* wherever the programs are killed and started again.                     *)
THEOREM Invariance == ASSUME Patient = TRUE PROVE Spec => []Inv
<1>1. Init => Inv
  BY InitInv
<1>2. Inv /\ [Next]_vars => Inv'
  <2> SUFFICES ASSUME Inv, [Next]_vars PROVE Inv'
    OBVIOUS
  <2>1. CASE StartClient \/ StartServer \/ Ask \/ Answer
    BY <2>1, UserPreserves
  <2>2. CASE \E p \in Procs : Kill(p)
    BY <2>2, KillPreserves
  <2>3. CASE \E p \in Procs : Program(p)
    BY <2>3, ClientPreserves, ServerPreserves
  <2>4. CASE UNCHANGED vars
    BY <2>4 DEF Inv, TypeOK, NoBusError, StartedInOrder, ObjectsReady, OneTurn, NoLostWakeup,
                AnswersOwnLine, AnswerOnItsWay
  <2> QED BY <2>1, <2>2, <2>3, <2>4 DEF Next
<1> QED BY <1>1, <1>2, PTL DEF Spec

(* The two take turns: no buffer is written while it is read, the client   *)
(* prints the answer to its last line whatever earlier sessions left in    *)
(* the objects, and nobody sleeps through the post meant for it.           *)
THEOREM TurnsAreTaken == ASSUME Patient = TRUE PROVE Spec => []Alternation
  BY Invariance, InvTakesTurns, PTL

(* In the order of readme.txt neither program waits on an object that is   *)
(* still empty.                                                            *)
THEOREM NobodyIsTooEarly == ASSUME Patient = TRUE PROVE Spec => []NoBusError
<1>1. Inv => NoBusError
  BY DEF Inv
<1> QED BY <1>1, Invariance, PTL
=============================================================================
