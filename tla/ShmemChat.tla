------------------------------ MODULE ShmemChat ------------------------------
(***************************************************************************)
(* posix/shmem: a client and a server that talk through two shared memory  *)
(* objects, each a semaphore followed by a message.  /server carries the   *)
(* client's lines, /client the server's.  Each program extends and         *)
(* initialises the object it writes and maps the one it reads as it finds  *)
(* it.  The objects outlive the programs, which end only by being killed.  *)
(* A fresh object is empty: touching it is a bus error.  Extended, it is   *)
(* all zeroes, which makes a semaphore of value 0.                         *)
(***************************************************************************)
EXTENDS Integers

CONSTANTS
    MaxLines,   \* bound of the model: the lines typed in one session
    Patient     \* whether the user waits for each program to be up

ASSUME MaxLinesAssumption == MaxLines \in Nat
ASSUME PatientAssumption  == Patient \in BOOLEAN

Procs   == {"client", "server"}
Objects == {"/client", "/server"}

Writes == [client |-> "/server", server |-> "/client"]
Reads  == [client |-> "/client", server |-> "/server"]

VARIABLES
    extended,    \* whether each object has been given its size
    sem,         \* the value of its semaphore
    registered,  \* whether a post would wake up who sleeps on it
    question,    \* history: the number of the client's last line, 0 for an old one
    seen,        \* history: the line the server has printed last
    answered,    \* history: the line that the message in /client answers
    pc           \* where each program is

lines == <<question, seen, answered>>
vars  == <<extended, sem, registered, lines, pc>>

Goto(p, l) == pc' = [pc EXCEPT ![p] = l]

Over(p) == pc[p] \in {"off", "sigbus"}

Init == /\ extended   = [o \in Objects |-> FALSE]
        /\ sem        = [o \in Objects |-> 0]
        /\ registered = [o \in Objects |-> FALSE]
        /\ question = 0 /\ seen = 0 /\ answered = 0
        /\ pc = [p \in Procs |-> "off"]

-----------------------------------------------------------------------------
(* The user.  "The order of running": first the client, then the server.   *)
StartClient == /\ \A p \in Procs : Over(p)
               /\ pc' = [client |-> "open", server |-> "off"]
               /\ question' = 0 /\ seen' = 0 /\ answered' = 0
               /\ UNCHANGED <<extended, sem, registered>>

StartServer == /\ pc["server"] = "off" /\ ~Over("client")
               /\ Patient => pc["client"] = "prompt"
               /\ Goto("server", "open")
               /\ UNCHANGED <<extended, sem, registered, lines>>

(* Neither program ends by itself.                                         *)
Kill(p) == /\ ~Over(p)
           /\ Goto(p, "off")
           /\ UNCHANGED <<extended, sem, registered, lines>>

(* A line, or the end of the input, which leaves the message as it is.     *)
Ask == /\ pc["client"] = "prompt" /\ question < MaxLines
       /\ Patient => pc["server"] \notin {"off", "open", "init"}
       /\ question' = question + 1
       /\ Goto("client", "post")
       /\ UNCHANGED <<extended, sem, registered, seen, answered>>

Answer == /\ pc["server"] = "prompt"
          /\ answered' = seen
          /\ Goto("server", "post")
          /\ UNCHANGED <<extended, sem, registered, question, seen>>

-----------------------------------------------------------------------------
(* Mutant: neither object is extended.                                     *)
OpenOnly(p) == /\ pc[p] = "open"
               /\ Goto(p, "init")
               /\ UNCHANGED <<extended, sem, registered, lines>>

(* shmem_open() of both objects; only the one to write is extended.        *)
Open(p) == /\ pc[p] = "open"
           /\ extended' = [extended EXCEPT ![Writes[p]] = TRUE]
           /\ Goto(p, "init")
           /\ UNCHANGED <<sem, registered, lines>>

(* Mutant: the semaphore is taken as it is.                                *)
SemInitForgotten(p) ==
    /\ pc[p] = "init"
    /\ Goto(p, IF p = "client" THEN "prompt" ELSE "wait")
    /\ UNCHANGED <<extended, sem, registered, lines>>

(* sem_init() also forgets that somebody sleeps on the semaphore.          *)
SemInit(p) == /\ pc[p] = "init"
              /\ sem'        = [sem EXCEPT ![Writes[p]] = 0]
              /\ registered' = [registered EXCEPT ![Writes[p]] = FALSE]
              /\ Goto(p, IF p = "client" THEN "prompt" ELSE "wait")
              /\ UNCHANGED <<extended, lines>>

(* Mutant: the post wakes nobody.                                          *)
SemPostSilent(p) == /\ pc[p] = "post"
                    /\ sem' = [sem EXCEPT ![Writes[p]] = @ + 1]
                    /\ Goto(p, "wait")
                    /\ UNCHANGED <<extended, registered, lines>>

SemPost(p) ==
    LET o     == Writes[p]
        woken == {q \in Procs \ {p} : pc[q] = "asleep" /\ registered[o]}
    IN  /\ pc[p] = "post"
        /\ sem' = [sem EXCEPT ![o] = @ + 1]
        /\ registered' = [registered EXCEPT ![o] = FALSE]
        /\ pc' = [q \in Procs |-> IF q = p \/ q \in woken THEN "wait" ELSE pc[q]]
        /\ UNCHANGED <<extended, lines>>

(* sem_wait(): the program is killed, goes on to print what the other      *)
(* wrote, or sleeps.                                                       *)
SemWait(p) ==
    LET o == Reads[p]
    IN  /\ pc[p] = "wait"
        /\ \/ /\ ~extended[o]
              /\ Goto(p, "sigbus")
              /\ UNCHANGED <<sem, registered, seen>>
           \/ /\ extended[o] /\ sem[o] > 0
              /\ sem' = [sem EXCEPT ![o] = @ - 1]
              /\ Goto(p, "print")
              /\ seen' = IF p = "server" THEN question ELSE seen
              /\ UNCHANGED registered
           \/ /\ extended[o] /\ sem[o] = 0
              /\ registered' = [registered EXCEPT ![o] = TRUE]
              /\ Goto(p, "asleep")
              /\ UNCHANGED <<sem, seen>>
        /\ UNCHANGED <<extended, question, answered>>

Printed(p) == /\ pc[p] = "print"
              /\ Goto(p, "prompt")
              /\ UNCHANGED <<extended, sem, registered, lines>>

-----------------------------------------------------------------------------
Program(p) == Open(p) \/ SemInit(p) \/ SemPost(p) \/ SemWait(p) \/ Printed(p)

Next == \/ StartClient \/ StartServer \/ Ask \/ Answer
        \/ \E p \in Procs : Kill(p) \/ Program(p)

Spec == Init /\ [][Next]_vars

(* A program that runs goes on, and the user at the server answers.  No    *)
(* line need ever be typed at the client, and no program be started.       *)
FairSpec == Spec /\ WF_vars(Answer) /\ \A p \in Procs : WF_vars(Program(p))
-----------------------------------------------------------------------------
TypeOK ==
    /\ extended \in [Objects -> BOOLEAN]
    /\ sem \in [Objects -> Nat]
    /\ registered \in [Objects -> BOOLEAN]
    /\ {question, seen, answered} \subseteq 0 .. MaxLines
    /\ pc \in [Procs -> {"off", "sigbus", "open", "init", "prompt", "post", "wait",
                         "asleep", "print"}]

(* A message is never written while the other program prints it.           *)
BuffersExclusive ==
    \A p, q \in Procs : p # q => ~(pc[p] \in {"prompt", "post"} /\ pc[q] = "print")

(* What the client prints answers its last line, whatever earlier sessions *)
(* left behind in the objects: no program is ahead of the other.           *)
AnswersOwnLine == pc["client"] = "print" => answered = question

(* Nobody sleeps on a semaphore that could be taken, or that nobody would  *)
(* wake it from.                                                           *)
NoLostWakeup ==
    \A p \in Procs : pc[p] = "asleep" => sem[Reads[p]] = 0 /\ registered[Reads[p]]

(* The two take turns.                                                     *)
Alternation == TypeOK /\ BuffersExclusive /\ AnswersOwnLine /\ NoLostWakeup

(* Run in the order of readme.txt, neither program is killed by its peer   *)
(* not being ready.                                                        *)
NoBusError == \A p \in Procs : pc[p] # "sigbus"

-----------------------------------------------------------------------------
(* Why the two take turns, if the user waits for each program to be up.    *)

(* The server is started by who sees the client's prompt, and the client   *)
(* does not ask before the server is up.                                   *)
StartedInOrder ==
    /\ pc["client"] \in {"open", "init"} => pc["server"] = "off"
    /\ pc["client"] \in {"post", "wait", "asleep", "print"} => pc["server"] \notin {"open", "init"}

(* An object that a program may wait on has been extended by its writer.   *)
ObjectsReady ==
    /\ pc["client"] \notin {"off", "open"} \/ pc["server"] # "off" => extended["/server"]
    /\ pc["server"] \notin {"off", "open"} => extended["/client"]
    /\ pc["client"] \in {"post", "wait", "asleep", "print"} => extended["/client"]

(* While the client has the turn the server waits and no post is on its    *)
(* way; while the server has it the client waits; in between one post is.  *)
OneTurn ==
    /\ pc["client"] \in {"prompt", "post", "print"} =>
          /\ sem["/server"] = 0
          /\ pc["server"] \in {"off", "open", "init", "wait", "asleep"}
          /\ pc["client"] # "prompt" \/ pc["server"] \in {"wait", "asleep"} => sem["/client"] = 0
    /\ pc["client"] \in {"wait", "asleep"} =>
          /\ pc["server"] = "off" => sem["/client"] + sem["/server"] <= 1
          /\ pc["server"] \in {"wait", "asleep"} => sem["/client"] + sem["/server"] = 1
          /\ pc["server"] \in {"print", "prompt", "post"} => sem["/client"] + sem["/server"] = 0

(* What the server has seen, and then its answer, belong to the question.  *)
AnswerOnItsWay ==
    pc["client"] \in {"wait", "asleep"} =>
        /\ pc["server"] \in {"print", "prompt"} => seen = question
        /\ pc["server"] = "post" => answered = question
        /\ sem["/client"] > 0 => answered = question

(* The inductive invariant from which Alternation and NoBusError follow.   *)
Inv == /\ TypeOK /\ NoBusError /\ StartedInOrder /\ ObjectsReady /\ OneTurn
       /\ NoLostWakeup /\ AnswersOwnLine /\ AnswerOnItsWay

(* The client gets its answer, unless one of the two is killed.            *)
Answered == pc["client"] = "post" ~> (pc["client"] = "print" \/ \E p \in Procs : Over(p))
=============================================================================
