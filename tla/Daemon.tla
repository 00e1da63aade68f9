-------------------------------- MODULE Daemon --------------------------------
(***************************************************************************)
(* daemon/daemon.cpp: a program that puts itself into the background.  Two *)
(* forks, of which the parents exit, leave a grandchild that leads neither *)
(* a process group nor a session; it exchanges its three standard files    *)
(* for /dev/null and sleeps.  Process 1 is the one that was started.       *)
(*                                                                         *)
(* A file is "any", one that the program was started with, or              *)
(* "null_rdonly", /dev/null as open("/dev/null", 0) gives it: flag 0 is    *)
(* O_RDONLY, and what dup() gives has the access of what it is taken from. *)
(***************************************************************************)
EXTENDS Integers, FiniteSetsExt, Sequences

VARIABLES
    argc,
    proc    \* the processes there have been: where each is, and what it has

vars == <<argc, proc>>

Standard == 0 .. 2   \* STDIN_FILENO, STDOUT_FILENO, STDERR_FILENO

(* The program that starts this one may have made it the leader of a group *)
(* and may have closed any of its standard files.                          *)
Init == /\ argc \in 1 .. 2
        /\ \E g \in 0 .. 1, open \in SUBSET Standard :
              proc = <<[pc |-> "main", group |-> g, session |-> 0, cwd |-> "any",
                        files |-> [f \in open |-> "any"]]>>

At(p, l) == proc[p].pc = l

Goto(p, l) == proc' = [proc EXCEPT ![p].pc = l]

CheckArgc(p) == /\ At(p, "main")
                /\ Goto(p, IF argc < 2 THEN "failure" ELSE "fork")
                /\ UNCHANGED argc

(* childize(): what a child inherits, and where it goes on.  The parent    *)
(* calls exit(EXIT_SUCCESS); it never learns what becomes of the child.    *)
Childize(p, from, to) ==
    /\ At(p, from)
    /\ \/ proc' = Append([proc EXCEPT ![p].pc = "success"], [proc[p] EXCEPT !.pc = to])
       \/ Goto(p, "failure")
    /\ UNCHANGED argc

(* setsid() refuses the leader of a process group, which a child is not.   *)
StartSession(p, to) ==
    /\ At(p, "setsid")
    /\ proc' = IF proc[p].group = p THEN [proc EXCEPT ![p].pc = "failure"]
               ELSE [proc EXCEPT ![p].group = p, ![p].session = p, ![p].pc = to]
    /\ UNCHANGED argc

(* Mutant: there is no second fork.                                        *)
LeadSession(p) == StartSession(p, "chdir")

Setsid(p) == StartSession(p, "fork again")

(* Mutant: the standard files are left open.                               *)
ChdirOnly(p) == /\ At(p, "chdir")
                /\ proc' = [proc EXCEPT ![p].cwd = "/", ![p].pc = "open"]
                /\ UNCHANGED argc

(* current_path("/", ec), and the three files are closed.                  *)
Chdir(p) == /\ At(p, "chdir")
            /\ \/ proc' = [proc EXCEPT ![p].cwd = "/", ![p].files = <<>>, ![p].pc = "open"]
               \/ Goto(p, "failure")
            /\ UNCHANGED argc

(* open() and dup() give the lowest number that is free.                   *)
Lowest(files) == Min((0 .. 3) \ DOMAIN files)

With(files, f) ==
    [g \in DOMAIN files \cup {f} |-> IF g = f THEN "null_rdonly" ELSE files[g]]

(* A file must get the number fd, or daemonize() returns -1; it does too   *)
(* when the file cannot be had.                                            *)
Obtain(p, from, fd, to) ==
    LET f == Lowest(proc[p].files)
    IN  /\ At(p, from)
        /\ \/ proc' = [proc EXCEPT ![p].files = With(@, f),
                                   ![p].pc = IF f = fd THEN to ELSE "failure"]
           \/ Goto(p, "failure")
        /\ UNCHANGED argc

Open(p)      == Obtain(p, "open", 0, "dup stdout")
DupStdout(p) == Obtain(p, "dup stdout", 1, "dup stderr")
DupStderr(p) == Obtain(p, "dup stderr", 2, "sleep")

Sleep(p) == At(p, "sleep") /\ Goto(p, "success") /\ UNCHANGED argc

Exited(p) == proc[p].pc \in {"success", "failure"}

Step(p) == \/ CheckArgc(p) \/ Childize(p, "fork", "setsid") \/ Setsid(p)
           \/ Childize(p, "fork again", "chdir") \/ Chdir(p)
           \/ Open(p) \/ DupStdout(p) \/ DupStderr(p) \/ Sleep(p)

Over == (\A p \in DOMAIN proc : Exited(p)) /\ UNCHANGED vars

Next == (\E p \in DOMAIN proc : Step(p)) \/ Over
-----------------------------------------------------------------------------
Early  == {"main", "fork"}
Middle == {"setsid", "fork again"}
Late   == {"chdir", "open", "dup stdout", "dup stderr", "sleep"}

TypeOK ==
    /\ argc \in 1 .. 2
    /\ proc \in Seq([pc : Early \cup Middle \cup Late \cup {"success", "failure"},
                     group : 0 .. 3, session : 0 .. 3, cwd : {"any", "/"},
                     files : UNION {[S -> {"any", "null_rdonly"}] : S \in SUBSET Standard}])

(* Each process has the one before it as its parent, which has ended well. *)
(* The labels tell which of the three a process is and what it has.        *)
Stages ==
    LET Nulls(n) == [f \in 0 .. n - 1 |-> "null_rdonly"]
    IN  /\ Len(proc) \in 1 .. 3
        /\ \A p \in DOMAIN proc :
              /\ p < Len(proc) => At(p, "success")
              /\ proc[p].pc \in Early => p = 1 /\ proc[p].group \in 0 .. 1
              /\ proc[p].pc \in Middle => p = 2
              /\ proc[p].pc \in Late => p = 3
              /\ At(p, "setsid") => proc[p].group \in 0 .. 1
              /\ proc[p].pc \in Late \cup {"fork again"} =>
                    proc[p].group = 2 /\ proc[p].session = 2
              /\ proc[p].pc \in Late \ {"chdir"} => proc[p].cwd = "/"
              /\ At(p, "open") => proc[p].files = Nulls(0)
              /\ At(p, "dup stdout") => proc[p].files = Nulls(1)
              /\ At(p, "dup stderr") => proc[p].files = Nulls(2)
              /\ At(p, "sleep") => proc[p].files = Nulls(3)

Inv == TypeOK /\ Stages

(* There is one daemon at most.  While it sleeps it is in a session of its *)
(* own that it does not lead, so that no terminal can become its own; it   *)
(* keeps no directory busy, and each of its standard files is /dev/null,   *)
(* open for reading only, whichever of them the program was started        *)
(* without.                                                                *)
Detached ==
    \A p \in DOMAIN proc : At(p, "sleep") =>
        /\ proc[p].session \notin {0, p} /\ proc[p].group # p
        /\ proc[p].cwd = "/"
        /\ proc[p].files = [f \in Standard |-> "null_rdonly"]
        /\ \A q \in DOMAIN proc \ {p} : Exited(q)

(* Who started the program is told of a failure only if no child was left. *)
FailureIsFinal == At(1, "failure") => Len(proc) = 1

DaemonSafe == Detached /\ FailureIsFinal

(* All processes end: nobody is left behind where a fork or a file fails.  *)
Ended == \A p \in DOMAIN proc : Exited(p)
=============================================================================
