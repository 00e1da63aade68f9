--------------------------- MODULE Programs_proofs ---------------------------
(***************************************************************************)
(* Proofs about the programs of MCPrograms, for any number of workers,     *)
(* consumers, permits, counters, processors and frames.  An execution runs *)
(* one program, so that what is shown of a step of that program holds of   *)
(* every step: the others leave it alone.                                  *)
(***************************************************************************)
EXTENDS MCPrograms, DataLemmas

-----------------------------------------------------------------------------
(* The elements of a sequence. *)

LEMMA ToSetAppend ==
  ASSUME NEW S, NEW s \in Seq(S), NEW e \in S
  PROVE  ToSet(Append(s, e)) = ToSet(s) \cup {e}
<1>1. \A t : ToSet(t) = Range(t)
  BY DEF ToSet, Range
<1> QED BY <1>1, RangeAppend

LEMMA ToSetTail ==
  ASSUME NEW S, NEW s \in Seq(S), s # <<>>
  PROVE  ToSet(s) = {Head(s)} \cup ToSet(Tail(s))
<1> DEFINE u == Tail(s)
<1>1. /\ Len(s) \in Nat \ {0} /\ u \in Seq(S) /\ Len(u) = Len(s) - 1 /\ Head(s) = s[1]
      /\ \A a \in 1 .. Len(u) : u[a] = s[a + 1] /\ a + 1 \in 1 .. Len(s)
  OBVIOUS
<1>2. \A a \in 2 .. Len(s) : a - 1 \in 1 .. Len(u) /\ (a - 1) + 1 = a
  BY <1>1
<1> HIDE DEF u
<1>3. DOMAIN s = 1 .. Len(s) /\ DOMAIN u = 1 .. Len(u)
  BY <1>1
<1>4. \A x \in ToSet(s) : x = Head(s) \/ x \in ToSet(u)
  <2> SUFFICES ASSUME NEW a \in 1 .. Len(s) PROVE s[a] = Head(s) \/ s[a] \in ToSet(u)
    BY <1>3 DEF ToSet
  <2>1. CASE a = 1
    BY <1>1, <2>1
  <2>2. CASE a # 1
    <3>1. a - 1 \in 1 .. Len(u) /\ s[a] = u[a - 1]
      BY <1>1, <1>2, <2>2
    <3> QED BY <1>3, <3>1 DEF ToSet
  <2> QED BY <2>1, <2>2
<1>5. \A x \in ToSet(u) : x \in ToSet(s)
  BY <1>1, <1>3 DEF ToSet
<1>6. Head(s) \in ToSet(s)
  BY <1>1, <1>3 DEF ToSet
<1> QED BY <1>4, <1>5, <1>6 DEF u

-----------------------------------------------------------------------------
(* SharedObject *)

LEMMA ObjInit == Obj!Init => Obj!Inv
BY DEF Obj!Init, Obj!Inv

LEMMA ObjStep ==
  ASSUME Obj!Inv, Obj!Next
  PROVE  Obj!Inv'
<1> USE DEF Obj!Inv, Obj!Goto
<1>1. CASE Obj!Map
  BY <1>1 DEF Obj!Map
<1>2. CASE Obj!Fork
  BY <1>2 DEF Obj!Fork
<1>3. CASE Obj!CallPrint("parent", "wait")
  BY <1>3 DEF Obj!CallPrint
<1>4. CASE Obj!CallPrint("child", "over")
  BY <1>4 DEF Obj!CallPrint
<1>5. CASE Obj!Wait
  BY <1>5 DEF Obj!Wait
<1>6. CASE Obj!Destroy("parent")
  BY <1>6 DEF Obj!Destroy
<1>7. CASE UNCHANGED Obj!vars
  BY <1>7 DEF Obj!vars
<1> QED BY <1>1, <1>2, <1>3, <1>4, <1>5, <1>6, <1>7 DEF Obj!Next, Obj!Parent, Obj!Child

LEMMA ObjSafe == Obj!Inv => Obj!ObjectUsedAlive
BY DEF Obj!Inv, Obj!ObjectUsedAlive

-----------------------------------------------------------------------------
(* Daemon *)

Files == UNION {[S -> {"any", "null_rdonly"}] : S \in SUBSET (0 .. 2)}

Labels == {"main", "fork", "setsid", "fork again", "chdir", "open", "dup stdout", "dup stderr",
           "sleep", "success", "failure"}

Processes == [pc : Labels, group : 0 .. 3, session : 0 .. 3, cwd : {"any", "/"}, files : Files]

Null(n) == [f \in 0 .. n - 1 |-> "null_rdonly"]

(* What Stages says of process number p of n, whose record is r.           *)
Stands(p, n, r) ==
  /\ p < n => r.pc = "success"
  /\ r.pc \in {"main", "fork"} => p = 1 /\ r.group \in 0 .. 1
  /\ r.pc \in {"setsid", "fork again"} => p = 2
  /\ r.pc \in {"chdir", "open", "dup stdout", "dup stderr", "sleep"} => p = 3
  /\ r.pc = "setsid" => r.group \in 0 .. 1
  /\ r.pc \in {"chdir", "open", "dup stdout", "dup stderr", "sleep", "fork again"} =>
        r.group = 2 /\ r.session = 2
  /\ r.pc \in {"open", "dup stdout", "dup stderr", "sleep"} => r.cwd = "/"
  /\ r.pc = "open" => r.files = Null(0)
  /\ r.pc = "dup stdout" => r.files = Null(1)
  /\ r.pc = "dup stderr" => r.files = Null(2)
  /\ r.pc = "sleep" => r.files = Null(3)

LEMMA BackParts ==
  Back!Inv <=> /\ argc \in 1 .. 2 /\ proc \in Seq(Processes) /\ Len(proc) \in 1 .. 3
               /\ \A p \in DOMAIN proc : Stands(p, Len(proc), proc[p])
<1>1. Back!TypeOK <=> argc \in 1 .. 2 /\ proc \in Seq(Processes)
  <2>1. Back!Early \cup Back!Middle \cup Back!Late \cup {"success", "failure"} = Labels
    BY DEF Back!Early, Back!Middle, Back!Late, Labels
  <2>2. UNION {[S -> {"any", "null_rdonly"}] : S \in SUBSET Back!Standard} = Files
    BY Zenon DEF Back!Standard, Files
  <2> QED BY <2>1, <2>2, Zenon DEF Back!TypeOK, Processes
<1>2. Back!Stages <=> /\ Len(proc) \in 1 .. 3
                      /\ \A p \in DOMAIN proc : Stands(p, Len(proc), proc[p])
  BY ZenonT(60) DEF Back!Stages, Back!Early, Back!Middle, Back!Late, Back!At, Stands, Null
<1> QED BY <1>1, <1>2 DEF Back!Inv

LEMMA BackNextParts ==
  (/\ argc \in 1 .. 2 /\ proc \in Seq(Processes) /\ Len(proc) \in 1 .. 3
   /\ \A p \in DOMAIN proc : Stands(p, Len(proc), proc[p]))' => Back!Inv'
BY BackParts, PTL

LEMMA SeqChange ==
  ASSUME NEW S, NEW s \in Seq(S), NEW p \in DOMAIN s, NEW e \in S
  PROVE  /\ [s EXCEPT ![p] = e] \in Seq(S) /\ Len([s EXCEPT ![p] = e]) = Len(s)
         /\ DOMAIN [s EXCEPT ![p] = e] = DOMAIN s
         /\ [s EXCEPT ![p] = e][p] = e
         /\ \A q \in DOMAIN s \ {p} : [s EXCEPT ![p] = e][q] = s[q]
OBVIOUS

(* One process goes on, or has forked another and ended.                   *)
LEMMA BackChange ==
  ASSUME Back!Inv, UNCHANGED argc, NEW p \in DOMAIN proc, NEW r \in Processes,
         Stands(p, Len(proc), r), proc' = [proc EXCEPT ![p] = r]
  PROVE  Back!Inv'
<1>1. /\ argc \in 1 .. 2 /\ proc \in Seq(Processes) /\ Len(proc) \in 1 .. 3
      /\ \A q \in DOMAIN proc : Stands(q, Len(proc), proc[q])
  BY BackParts
<1>2. /\ proc' \in Seq(Processes) /\ Len(proc') = Len(proc) /\ DOMAIN proc' = DOMAIN proc
      /\ proc'[p] = r /\ \A q \in DOMAIN proc \ {p} : proc'[q] = proc[q]
  BY <1>1, SeqChange
<1>3. \A q \in DOMAIN proc' : Stands(q, Len(proc'), proc'[q])
  BY <1>1, <1>2
<1> QED BY <1>1, <1>2, <1>3, BackNextParts

LEMMA SeqAppend ==
  ASSUME NEW S, NEW s \in Seq(S), NEW e \in S
  PROVE  /\ Append(s, e) \in Seq(S) /\ Len(Append(s, e)) = Len(s) + 1
         /\ DOMAIN Append(s, e) = 1 .. Len(s) + 1
         /\ Append(s, e)[Len(s) + 1] = e
         /\ \A q \in 1 .. Len(s) : Append(s, e)[q] = s[q]
OBVIOUS

(* The same of the sequence that a fork makes of s.                        *)
LEMMA Forked ==
  ASSUME NEW s \in Seq(Processes), NEW p \in 1 .. 2, Len(s) = p,
         \A q \in 1 .. p : Stands(q, p, s[q]),
         NEW done \in Processes, NEW child \in Processes, done.pc = "success",
         Stands(p + 1, p + 1, child)
  PROVE  LET t == Append([s EXCEPT ![p] = done], child)
         IN  /\ t \in Seq(Processes) /\ Len(t) \in 1 .. 3
             /\ \A q \in DOMAIN t : Stands(q, Len(t), t[q])
<1> DEFINE rest == [s EXCEPT ![p] = done]
           t    == Append(rest, child)
<1>1. p \in DOMAIN s /\ DOMAIN s = 1 .. p
  OBVIOUS
<1>2. /\ rest \in Seq(Processes) /\ Len(rest) = p /\ rest[p] = done
      /\ \A q \in DOMAIN s \ {p} : rest[q] = s[q]
  BY <1>1, SeqChange
<1> HIDE DEF rest
<1>3. /\ t \in Seq(Processes) /\ Len(t) = p + 1 /\ DOMAIN t = 1 .. p + 1
      /\ t[p + 1] = child /\ \A q \in 1 .. p : t[q] = rest[q]
  BY <1>2, SeqAppend
<1> HIDE DEF t
<1>4. \A q \in 1 .. p : t[q].pc = "success"
  <2> SUFFICES ASSUME NEW q \in 1 .. p PROVE t[q].pc = "success"
    OBVIOUS
  <2>1. CASE q = p
    BY <2>1, <1>2, <1>3
  <2>2. CASE q # p
    <3>1. q < p /\ q \in DOMAIN s \ {p}
      BY <1>1, <2>2
    <3>2. s[q].pc = "success"
      BY <3>1 DEF Stands
    <3> QED BY <3>1, <3>2, <1>2, <1>3
  <2> QED BY <2>1, <2>2
<1>5. \A q \in 1 .. p + 1 : q \in 1 .. p \/ q = p + 1
  OBVIOUS
<1>6. \A q \in 1 .. p : Stands(q, p + 1, t[q])
  BY <1>4 DEF Stands
<1>7. \A q \in DOMAIN t : Stands(q, Len(t), t[q])
  <2> SUFFICES ASSUME NEW q \in 1 .. p + 1 PROVE Stands(q, p + 1, t[q])
    BY <1>3
  <2>1. CASE q \in 1 .. p
    BY <1>6, <2>1
  <2>2. CASE q = p + 1
    BY <1>3, <2>2, Zenon
  <2> QED BY <1>5, <2>1, <2>2
<1>8. Len(t) \in 1 .. 3
  BY <1>3
<1> QED BY <1>3, <1>7, <1>8, Zenon DEF t, rest

(* What a label tells, and what it asks for.                               *)
LEMMA StandsTells ==
  ASSUME NEW p \in 1 .. 3, NEW r, Stands(p, p, r)
  PROVE  /\ r.pc \in {"main", "fork"} => p = 1 /\ r.group \in 0 .. 1
         /\ r.pc \in {"setsid", "fork again"} => p = 2
         /\ r.pc \in {"chdir", "open", "dup stdout", "dup stderr", "sleep"} => p = 3
         /\ r.pc = "setsid" => r.group \in 0 .. 1
         /\ r.pc \in {"chdir", "open", "dup stdout", "dup stderr", "sleep", "fork again"} =>
               r.group = 2 /\ r.session = 2
         /\ r.pc \in {"open", "dup stdout", "dup stderr", "sleep"} => r.cwd = "/"
         /\ r.pc = "open" => r.files = Null(0)
         /\ r.pc = "dup stdout" => r.files = Null(1)
         /\ r.pc = "dup stderr" => r.files = Null(2)
BY DEF Stands

LEMMA AgainTells ==
  ASSUME NEW p \in 1 .. 3, NEW r, Stands(p, p, r), r.pc = "fork again"
  PROVE  p = 2 /\ r.group = 2 /\ r.session = 2
BY StandsTells

LEMMA ObtainTells ==
  ASSUME NEW p \in 1 .. 3, NEW r, Stands(p, p, r), NEW n \in 0 .. 2,
         \/ r.pc = "open" /\ n = 0
         \/ r.pc = "dup stdout" /\ n = 1
         \/ r.pc = "dup stderr" /\ n = 2
  PROVE  /\ p = 3 /\ r.group = 2 /\ r.session = 2 /\ r.cwd = "/"
         /\ r.files = Null(n)
<1>1. CASE r.pc = "open" /\ n = 0
  BY <1>1, StandsTells
<1>2. CASE r.pc = "dup stdout" /\ n = 1
  BY <1>2, StandsTells
<1>3. CASE r.pc = "dup stderr" /\ n = 2
  BY <1>3, StandsTells
<1> QED BY <1>1, <1>2, <1>3

LEMMA StandsAsks ==
  ASSUME NEW p \in 1 .. 3, NEW r
  PROVE  /\ r.pc \in {"success", "failure"} => Stands(p, p, r)
         /\ r.pc = "fork" /\ p = 1 /\ r.group \in 0 .. 1 => Stands(p, p, r)
         /\ r.pc = "setsid" /\ p = 2 /\ r.group \in 0 .. 1 => Stands(p, p, r)
         /\ r.pc = "fork again" /\ p = 2 /\ r.group = 2 /\ r.session = 2 => Stands(p, p, r)
         /\ p = 3 /\ r.group = 2 /\ r.session = 2 =>
               /\ r.pc = "chdir" => Stands(p, p, r)
               /\ r.cwd = "/" /\ r.pc = "open" /\ r.files = Null(0) => Stands(p, p, r)
               /\ r.cwd = "/" /\ r.pc = "dup stdout" /\ r.files = Null(1) => Stands(p, p, r)
               /\ r.cwd = "/" /\ r.pc = "dup stderr" /\ r.files = Null(2) => Stands(p, p, r)
               /\ r.cwd = "/" /\ r.pc = "sleep" /\ r.files = Null(3) => Stands(p, p, r)
<1>1. ~ (p < p)
  OBVIOUS
<1>2. /\ r.pc = "success" => Stands(p, p, r)
      /\ r.pc = "failure" => Stands(p, p, r)
  BY <1>1 DEF Stands
<1>3. r.pc = "fork" /\ p = 1 /\ r.group \in 0 .. 1 => Stands(p, p, r)
  BY <1>1 DEF Stands
<1>4. r.pc = "setsid" /\ p = 2 /\ r.group \in 0 .. 1 => Stands(p, p, r)
  BY <1>1 DEF Stands
<1>5. r.pc = "fork again" /\ p = 2 /\ r.group = 2 /\ r.session = 2 => Stands(p, p, r)
  BY <1>1 DEF Stands
<1>6. ASSUME p = 3, r.group = 2, r.session = 2
      PROVE  /\ r.pc = "chdir" => Stands(p, p, r)
             /\ r.cwd = "/" /\ r.pc = "open" /\ r.files = Null(0) => Stands(p, p, r)
             /\ r.cwd = "/" /\ r.pc = "dup stdout" /\ r.files = Null(1) => Stands(p, p, r)
             /\ r.cwd = "/" /\ r.pc = "dup stderr" /\ r.files = Null(2) => Stands(p, p, r)
             /\ r.cwd = "/" /\ r.pc = "sleep" /\ r.files = Null(3) => Stands(p, p, r)
  BY <1>1, <1>6 DEF Stands
<1> QED BY <1>2, <1>3, <1>4, <1>5, <1>6

LEMMA Counting == 0 + 1 = 1 /\ 1 + 1 = 2 /\ 2 + 1 = 3 /\ 3 \in 1 .. 3
OBVIOUS

LEMMA ObtainAsks ==
  ASSUME NEW r, NEW n \in 0 .. 2, r.group = 2, r.session = 2, r.cwd = "/",
         r.files = Null(n + 1),
         \/ r.pc = "dup stdout" /\ n = 0
         \/ r.pc = "dup stderr" /\ n = 1
         \/ r.pc = "sleep" /\ n = 2
  PROVE  Stands(3, 3, r)
<1>1. 0 + 1 = 1 /\ 1 + 1 = 2 /\ 2 + 1 = 3 /\ 3 \in 1 .. 3
  BY Counting, Zenon
<1>2. CASE r.pc = "dup stdout" /\ n = 0
  BY <1>1, <1>2, StandsAsks
<1>3. CASE r.pc = "dup stderr" /\ n = 1
  BY <1>1, <1>3, StandsAsks
<1>4. CASE r.pc = "sleep" /\ n = 2
  BY <1>1, <1>4, StandsAsks
<1> QED BY <1>2, <1>3, <1>4

LEMMA BackNow ==
  ASSUME Back!Inv, NEW p \in DOMAIN proc
  PROVE  /\ argc \in 1 .. 2 /\ proc \in Seq(Processes) /\ Len(proc) \in 1 .. 3
         /\ DOMAIN proc = 1 .. Len(proc) /\ p \in 1 .. 3
         /\ proc[p] \in Processes /\ Stands(p, Len(proc), proc[p])
         /\ proc[p].pc # "success" => p = Len(proc) /\ Stands(p, p, proc[p])
<1>1. /\ argc \in 1 .. 2 /\ proc \in Seq(Processes) /\ Len(proc) \in 1 .. 3
      /\ \A q \in DOMAIN proc : Stands(q, Len(proc), proc[q])
  BY BackParts
<1>2. DOMAIN proc = 1 .. Len(proc) /\ p \in 1 .. Len(proc) /\ proc[p] \in Processes
  BY <1>1
<1>3. Stands(p, Len(proc), proc[p])
  BY <1>1
<1>4. proc[p].pc # "success" => ~ (p < Len(proc))
  BY <1>3 DEF Stands
<1> QED BY <1>1, <1>2, <1>3, <1>4

(* The last process goes on with record r.                                 *)
LEMMA BackMoves ==
  ASSUME Back!Inv, UNCHANGED argc, NEW p \in DOMAIN proc, proc[p].pc # "success",
         NEW r \in Processes, Stands(p, p, r), proc' = [proc EXCEPT ![p] = r]
  PROVE  Back!Inv'
<1>1. p = Len(proc)
  BY BackNow, Zenon
<1>2. Stands(p, Len(proc), r)
  BY <1>1, Zenon
<1> QED BY <1>2, BackChange, Zenon

LEMMA Labelled ==
  ASSUME NEW r \in Processes, NEW l \in Labels
  PROVE  /\ [r EXCEPT !.pc = l] \in Processes
         /\ [r EXCEPT !.pc = l].pc = l
         /\ [r EXCEPT !.pc = l].group = r.group /\ [r EXCEPT !.pc = l].session = r.session
         /\ [r EXCEPT !.pc = l].cwd = r.cwd /\ [r EXCEPT !.pc = l].files = r.files
BY DEF Processes

(* Whoever has not ended may end.                                          *)
LEMMA BackEnds ==
  ASSUME Back!Inv, UNCHANGED argc, NEW p \in DOMAIN proc, proc[p].pc # "success",
         NEW l \in {"failure", "success"}, Back!Goto(p, l)
  PROVE  Back!Inv'
<1> DEFINE next == [proc[p] EXCEPT !.pc = l]
<1>1. l \in Labels
  BY DEF Labels
<1>2. proc[p] \in Processes /\ p \in 1 .. 3
  BY BackNow, Zenon
<1>3. next \in Processes /\ next.pc = l
  BY <1>1, <1>2, Labelled, Zenon
<1>4. Stands(p, p, next)
  BY <1>2, <1>3, StandsAsks, Zenon
<1>5. proc' = [proc EXCEPT ![p] = next]
  BY DEF Back!Goto
<1> QED BY <1>3, <1>4, <1>5, BackMoves, Zenon

LEMMA BackCheckArgc ==
  ASSUME Back!Inv, NEW p \in DOMAIN proc, Back!CheckArgc(p)
  PROVE  Back!Inv'
<1> DEFINE next == [proc[p] EXCEPT !.pc = "fork"]
<1>1. /\ proc[p].pc = "main" /\ argc' = argc
      /\ Back!Goto(p, "failure") \/ Back!Goto(p, "fork")
  BY DEF Back!CheckArgc, Back!At
<1>2. /\ proc[p] \in Processes /\ p \in 1 .. 3 /\ Stands(p, p, proc[p])
      /\ proc[p].pc # "success"
  BY <1>1, BackNow
<1>3. CASE Back!Goto(p, "failure")
  BY <1>1, <1>2, <1>3, BackEnds
<1>4. CASE Back!Goto(p, "fork")
  <2>1. "fork" \in Labels
    BY DEF Labels
  <2>2. next \in Processes /\ next.pc = "fork" /\ next.group = proc[p].group
    BY <1>2, <2>1, Labelled, Zenon
  <2>3. p = 1 /\ proc[p].group \in 0 .. 1
    BY <1>1, <1>2, StandsTells, Zenon
  <2>4. Stands(p, p, next)
    BY <1>2, <2>2, <2>3, StandsAsks, Zenon
  <2>5. proc' = [proc EXCEPT ![p] = next]
    BY <1>4 DEF Back!Goto
  <2> QED BY <1>1, <1>2, <2>2, <2>4, <2>5, BackMoves, Zenon
<1> QED BY <1>1, <1>3, <1>4

LEMMA Children ==
  ASSUME NEW p, p \in {1, 2}
  PROVE  p \in 1 .. 2 /\ p + 1 \in 1 .. 3 /\ (p = 1 => p + 1 = 2) /\ (p = 2 => p + 1 = 3)
OBVIOUS

LEMMA BackFork ==
  ASSUME Back!Inv, NEW p \in DOMAIN proc, NEW from, NEW to,
         \/ from = "fork" /\ to = "setsid"
         \/ from = "fork again" /\ to = "chdir",
         Back!Childize(p, from, to)
  PROVE  Back!Inv'
<1> DEFINE done  == [proc[p] EXCEPT !.pc = "success"]
           child == [proc[p] EXCEPT !.pc = to]
<1>1. /\ proc[p].pc = from /\ argc' = argc
      /\ \/ proc' = Append([proc EXCEPT ![p] = done], child)
         \/ Back!Goto(p, "failure")
  BY DEF Back!Childize, Back!At
<1>2. from \in {"fork", "fork again"} /\ from # "success" /\ to \in Labels /\ "success" \in Labels
  BY DEF Labels
<1>3. /\ argc \in 1 .. 2 /\ proc \in Seq(Processes) /\ DOMAIN proc = 1 .. Len(proc)
      /\ proc[p] \in Processes /\ p \in 1 .. 3 /\ p = Len(proc) /\ Stands(p, p, proc[p])
  BY <1>1, <1>2, BackNow, Zenon
<1>4. CASE proc' = Append([proc EXCEPT ![p] = done], child)
  <2>1. /\ done \in Processes /\ done.pc = "success"
        /\ child \in Processes /\ child.pc = to
        /\ child.group = proc[p].group /\ child.session = proc[p].session
    BY <1>2, <1>3, Labelled, Zenon
  <2> HIDE DEF child, done
  <2>2. p \in 1 .. 2 /\ p + 1 \in 1 .. 3 /\ Stands(p + 1, p + 1, child)
    <3>1. CASE from = "fork" /\ to = "setsid"
      <4>1. p = 1 /\ child.pc = "setsid" /\ child.group \in 0 .. 1
        BY <1>1, <1>3, <2>1, <3>1, StandsTells, ZenonT(60)
      <4>2. p \in 1 .. 2 /\ p + 1 \in 1 .. 3 /\ p + 1 = 2
        BY <4>1, Children, Zenon
      <4> QED BY <4>1, <4>2, StandsAsks, Zenon
    <3>2. CASE from = "fork again" /\ to = "chdir"
      <4>0. proc[p].pc = "fork again"
        BY <1>1, <3>2
      <4>1. p = 2 /\ child.pc = "chdir" /\ child.group = 2 /\ child.session = 2
        BY <4>0, <1>3, <2>1, <3>2, AgainTells, Zenon
      <4>2. p \in 1 .. 2 /\ p + 1 \in 1 .. 3 /\ p + 1 = 3
        BY <4>1, Children, Zenon
      <4> QED BY <4>1, <4>2, StandsAsks, Zenon
    <3> QED BY <3>1, <3>2
  <2>3. \A q \in 1 .. p : Stands(q, p, proc[q])
    BY <1>3, BackParts, Zenon
  <2>4. /\ proc' \in Seq(Processes) /\ Len(proc') \in 1 .. 3
        /\ \A q \in DOMAIN proc' : Stands(q, Len(proc'), proc'[q])
    BY <1>3, <1>4, <2>1, <2>2, <2>3, Forked, Zenon
  <2> QED BY <1>1, <1>3, <2>4, BackNextParts
<1>5. CASE Back!Goto(p, "failure")
  BY <1>1, <1>2, <1>5, BackEnds
<1> QED BY <1>1, <1>4, <1>5

LEMMA BackSleep ==
  ASSUME Back!Inv, NEW p \in DOMAIN proc, Back!Sleep(p)
  PROVE  Back!Inv'
<1>1. proc[p].pc = "sleep" /\ proc[p].pc # "success" /\ argc' = argc /\ Back!Goto(p, "success")
  BY DEF Back!Sleep, Back!At
<1> QED BY <1>1, BackEnds

(* A step that changes more of a process than its label.                   *)
LEMMA SessionRecord ==
  ASSUME NEW s \in Seq(Processes), NEW p \in DOMAIN s, NEW l \in Labels, p \in 1 .. 3
  PROVE  LET r == [s[p] EXCEPT !.group = p, !.session = p, !.pc = l]
         IN  /\ [s EXCEPT ![p].group = p, ![p].session = p, ![p].pc = l] = [s EXCEPT ![p] = r]
             /\ r \in Processes /\ r.pc = l /\ r.group = p /\ r.session = p
<1>1. s[p] \in Processes
  OBVIOUS
<1>2. [s EXCEPT ![p].group = p, ![p].session = p, ![p].pc = l]
         = [s EXCEPT ![p] = [s[p] EXCEPT !.group = p, !.session = p, !.pc = l]]
  OBVIOUS
<1> QED BY <1>1, <1>2 DEF Processes

Refiled(r, f, l) == [r EXCEPT !.files = f, !.pc = l]

Rooted(r) == [r EXCEPT !.cwd = "/", !.files = Null(0), !.pc = "open"]

Put(s, p, r) == [s EXCEPT ![p] = r]

LEMMA FilesRecord ==
  ASSUME NEW s \in Seq(Processes), NEW p \in DOMAIN s, NEW l \in Labels, NEW f \in Files
  PROVE  /\ Refiled(s[p], f, l) \in Processes
         /\ Refiled(s[p], f, l).pc = l /\ Refiled(s[p], f, l).files = f
         /\ Refiled(s[p], f, l).group = s[p].group
         /\ Refiled(s[p], f, l).session = s[p].session
         /\ Refiled(s[p], f, l).cwd = s[p].cwd
<1>1. s[p] \in Processes
  OBVIOUS
<1> QED BY <1>1 DEF Processes, Refiled

LEMMA SeqRecord ==
  ASSUME NEW s \in Seq(Processes), NEW p \in DOMAIN s, NEW l, NEW f
  PROVE  [s EXCEPT ![p].files = f, ![p].pc = l] = Put(s, p, Refiled(s[p], f, l))
<1>1. [s EXCEPT ![p].files = f, ![p].pc = l] = [s EXCEPT ![p] = [s[p] EXCEPT !.files = f, !.pc = l]]
  OBVIOUS
<1> QED BY <1>1, Zenon DEF Put, Refiled

(* The lowest number that is free, of the standard files in order.         *)
LEMMA NextFile ==
  ASSUME NEW n \in 0 .. 2
  PROVE  /\ Back!Lowest(Null(n)) = n
         /\ Back!With(Null(n), n) = Null(n + 1)
         /\ Null(n + 1) \in Files
<1>1. DOMAIN Null(n) = 0 .. n - 1
  BY DEF Null
<1>2. (0 .. 3) \ (0 .. n - 1) = n .. 3
  OBVIOUS
<1>3. Back!Min(n .. 3) = n
  <2>1. \A x \in n .. 3 : (\A y \in n .. 3 : x =< y) => x = n
    OBVIOUS
  <2>2. n \in n .. 3 /\ \A y \in n .. 3 : n =< y
    OBVIOUS
  <2> QED BY <2>1, <2>2 DEF Back!Min
<1>4. (0 .. n - 1) \cup {n} = 0 .. n + 1 - 1
  OBVIOUS
<1>5. Back!With(Null(n), n) = Null(n + 1)
  BY <1>1, <1>4 DEF Back!With, Null
<1>6. 0 .. n \in SUBSET (0 .. 2) /\ n + 1 - 1 = n
  OBVIOUS
<1>7. Null(n + 1) \in [0 .. n -> {"any", "null_rdonly"}]
  BY <1>6 DEF Null
<1>8. Null(n + 1) \in Files
  BY <1>6, <1>7 DEF Files
<1> QED BY <1>1, <1>2, <1>3, <1>5, <1>8 DEF Back!Lowest

LEMMA NoFiles == <<>> = Null(0) /\ <<>> \in Files
<1>1. <<>> = Null(0)
  BY DEF Null
<1>2. Null(0) \in [{} -> {"any", "null_rdonly"}]
  BY DEF Null
<1>3. {} \in SUBSET (0 .. 2)
  OBVIOUS
<1> QED BY <1>1, <1>2, <1>3 DEF Files

LEMMA ChdirRecord ==
  ASSUME NEW s \in Seq(Processes), NEW p \in DOMAIN s
  PROVE  /\ [s EXCEPT ![p].cwd = "/", ![p].files = Null(0), ![p].pc = "open"]
               = Put(s, p, Rooted(s[p]))
         /\ Rooted(s[p]) \in Processes
         /\ Rooted(s[p]).pc = "open" /\ Rooted(s[p]).cwd = "/" /\ Rooted(s[p]).files = Null(0)
         /\ Rooted(s[p]).group = s[p].group /\ Rooted(s[p]).session = s[p].session
<1>1. s[p] \in Processes
  OBVIOUS
<1>2. [s EXCEPT ![p].cwd = "/", ![p].files = Null(0), ![p].pc = "open"]
         = [s EXCEPT ![p] = [s[p] EXCEPT !.cwd = "/", !.files = Null(0), !.pc = "open"]]
  OBVIOUS
<1>3. Null(0) \in Files
  BY NoFiles
<1>4. /\ Rooted(s[p]) \in Processes
      /\ Rooted(s[p]).pc = "open" /\ Rooted(s[p]).cwd = "/" /\ Rooted(s[p]).files = Null(0)
      /\ Rooted(s[p]).group = s[p].group /\ Rooted(s[p]).session = s[p].session
  BY <1>1, <1>3 DEF Processes, Labels, Rooted
<1> QED BY <1>2, <1>4, Zenon DEF Put, Rooted

LEMMA BackSetsid ==
  ASSUME Back!Inv, NEW p \in DOMAIN proc, Back!Setsid(p)
  PROVE  Back!Inv'
<1> DEFINE r == [proc[p] EXCEPT !.group = p, !.session = p, !.pc = "fork again"]
<1>1. /\ proc[p].pc = "setsid" /\ proc[p].pc # "success" /\ argc' = argc
      /\ \/ Back!Goto(p, "failure")
         \/ proc' = [proc EXCEPT ![p].group = p, ![p].session = p, ![p].pc = "fork again"]
  BY DEF Back!Setsid, Back!StartSession, Back!At, Back!Goto
<1>2. /\ proc \in Seq(Processes) /\ p \in 1 .. 3 /\ Stands(p, p, proc[p])
  BY <1>1, BackNow, Zenon
<1>3. CASE Back!Goto(p, "failure")
  BY <1>1, <1>3, BackEnds
<1>4. CASE proc' = [proc EXCEPT ![p].group = p, ![p].session = p, ![p].pc = "fork again"]
  <2>1. "fork again" \in Labels
    BY DEF Labels
  <2>2. /\ proc' = [proc EXCEPT ![p] = r]
        /\ r \in Processes /\ r.pc = "fork again" /\ r.group = p /\ r.session = p
    BY <1>2, <1>4, <2>1, SessionRecord, ZenonT(60)
  <2>3. p = 2
    BY <1>1, <1>2, StandsTells, Zenon
  <2>4. Stands(p, p, r)
    BY <1>2, <2>2, <2>3, StandsAsks, Zenon
  <2> QED BY <1>1, <2>2, <2>4, BackMoves, Zenon
<1> QED BY <1>1, <1>3, <1>4

LEMMA BackChdir ==
  ASSUME Back!Inv, NEW p \in DOMAIN proc, Back!Chdir(p)
  PROVE  Back!Inv'
<1> DEFINE r == Rooted(proc[p])
<1>1. /\ proc[p].pc = "chdir" /\ proc[p].pc # "success" /\ argc' = argc
      /\ \/ Back!Goto(p, "failure")
         \/ proc' = [proc EXCEPT ![p].cwd = "/", ![p].files = Null(0), ![p].pc = "open"]
  BY NoFiles DEF Back!Chdir, Back!At
<1>2. /\ proc \in Seq(Processes) /\ p \in 1 .. 3 /\ Stands(p, p, proc[p])
  BY <1>1, BackNow, Zenon
<1>3. CASE Back!Goto(p, "failure")
  BY <1>1, <1>3, BackEnds
<1>4. CASE proc' = [proc EXCEPT ![p].cwd = "/", ![p].files = Null(0), ![p].pc = "open"]
  <2>2. proc' = Put(proc, p, r)
    BY <1>2, <1>4, ChdirRecord, Zenon
  <2>3. /\ r \in Processes /\ r.pc = "open" /\ r.files = Null(0) /\ r.cwd = "/"
        /\ r.group = proc[p].group /\ r.session = proc[p].session
    BY <1>2, ChdirRecord, Zenon
  <2> HIDE DEF r
  <2>4. p = 3 /\ proc[p].group = 2 /\ proc[p].session = 2
    BY <1>1, <1>2, StandsTells, ZenonT(60)
  <2>5. Stands(p, p, r)
    BY <1>2, <2>3, <2>4, StandsAsks, Zenon
  <2> QED BY <1>1, <2>2, <2>3, <2>5, BackMoves, Zenon DEF Put
<1> QED BY <1>1, <1>3, <1>4

(* A file that is had in its turn gets the number it must have.            *)
LEMMA BackObtain ==
  ASSUME Back!Inv, NEW p \in DOMAIN proc, NEW n \in 0 .. 2, NEW from, NEW to \in Labels,
         \/ from = "open" /\ n = 0 /\ to = "dup stdout"
         \/ from = "dup stdout" /\ n = 1 /\ to = "dup stderr"
         \/ from = "dup stderr" /\ n = 2 /\ to = "sleep",
         Back!Obtain(p, from, n, to)
  PROVE  Back!Inv'
<1> DEFINE f == Back!Lowest(proc[p].files)
           g == Back!With(proc[p].files, f)
           r == Refiled(proc[p], g, to)
<1>1. /\ proc[p].pc = from /\ argc' = argc
      /\ \/ Back!Goto(p, "failure")
         \/ proc' = [proc EXCEPT ![p].files = g, ![p].pc = IF f = n THEN to ELSE "failure"]
  BY DEF Back!Obtain, Back!At
<1>2. from # "success"
  OBVIOUS
<1>3. /\ proc \in Seq(Processes) /\ p \in 1 .. 3 /\ Stands(p, p, proc[p])
  BY <1>1, <1>2, BackNow, Zenon
<1>4. /\ p = 3 /\ proc[p].group = 2 /\ proc[p].session = 2 /\ proc[p].cwd = "/"
      /\ proc[p].files = Null(n)
  <2>1. \/ proc[p].pc = "open" /\ n = 0
        \/ proc[p].pc = "dup stdout" /\ n = 1
        \/ proc[p].pc = "dup stderr" /\ n = 2
    BY <1>1, Zenon
  <2> QED BY <1>3, <2>1, ObtainTells, Zenon
<1>5. f = n /\ g = Null(n + 1) /\ g \in Files
  BY <1>4, NextFile, Zenon
<1>6. CASE Back!Goto(p, "failure")
  BY <1>1, <1>2, <1>6, BackEnds
<1>7. CASE proc' = [proc EXCEPT ![p].files = g, ![p].pc = IF f = n THEN to ELSE "failure"]
  <2>1. proc' = [proc EXCEPT ![p].files = g, ![p].pc = to]
    BY <1>5, <1>7, Zenon
  <2> HIDE DEF f, g
  <2>a. proc' = Put(proc, p, r)
    BY <1>3, <2>1, SeqRecord, Zenon
  <2>2. /\ r \in Processes /\ r.pc = to /\ r.files = g
        /\ r.group = proc[p].group /\ r.session = proc[p].session /\ r.cwd = proc[p].cwd
    <3>1. \A l \in Labels, u \in Files :
             /\ Refiled(proc[p], u, l) \in Processes
             /\ Refiled(proc[p], u, l).pc = l /\ Refiled(proc[p], u, l).files = u
             /\ Refiled(proc[p], u, l).group = proc[p].group
             /\ Refiled(proc[p], u, l).session = proc[p].session
             /\ Refiled(proc[p], u, l).cwd = proc[p].cwd
      BY <1>3, FilesRecord, ZenonT(60)
    <3>2. g \in Files /\ to \in Labels
      BY <1>5
    <3> QED BY <3>1, <3>2, Zenon
  <2> HIDE DEF r
  <2>3. r.group = 2 /\ r.session = 2 /\ r.cwd = "/" /\ r.files = Null(n + 1)
    BY <1>4, <1>5, <2>2, Zenon
  <2>4. \/ r.pc = "dup stdout" /\ n = 0
        \/ r.pc = "dup stderr" /\ n = 1
        \/ r.pc = "sleep" /\ n = 2
    BY <2>2, Zenon
  <2>5. Stands(p, p, r)
    BY <1>4, <2>3, <2>4, ObtainAsks, Zenon
  <2> QED BY <1>1, <1>2, <2>a, <2>2, <2>5, BackMoves, Zenon DEF Put
<1> QED BY <1>1, <1>6, <1>7

LEMMA BackInit == Back!Init => Back!Inv
<1> SUFFICES ASSUME Back!Init PROVE Back!Inv
  OBVIOUS
<1>1. argc \in 1 .. 2
  BY DEF Back!Init
<1>2. PICK g \in 0 .. 1, open \in SUBSET (0 .. 2) :
         proc = <<[pc |-> "main", group |-> g, session |-> 0, cwd |-> "any",
                   files |-> [f \in open |-> "any"]]>>
  BY DEF Back!Init, Back!Standard
<1> DEFINE held == [f \in open |-> "any"]
           r    == [pc |-> "main", group |-> g, session |-> 0, cwd |-> "any", files |-> held]
<1>3. held \in Files
  <2>1. held \in [open -> {"any", "null_rdonly"}]
    OBVIOUS
  <2> QED BY <2>1 DEF Files
<1> HIDE DEF held
<1>4. r \in Processes
  BY <1>3 DEF Processes, Labels
<1>5. r.pc = "main" /\ r.group \in 0 .. 1
  OBVIOUS
<1>6. proc = <<r>>
  BY <1>2 DEF held
<1> HIDE DEF r
<1>7. Stands(1, 1, r)
  BY <1>5 DEF Stands
<1>8. /\ proc \in Seq(Processes) /\ Len(proc) = 1 /\ DOMAIN proc = {1} /\ proc[1] = r
  BY <1>4, <1>6
<1>9. Len(proc) \in 1 .. 3
  BY <1>8
<1>10. \A p \in DOMAIN proc : Stands(p, Len(proc), proc[p])
  BY <1>7, <1>8, Zenon
<1> QED BY <1>1, <1>8, <1>9, <1>10, BackParts

LEMMA BackStep ==
  ASSUME Back!Inv, [Back!Next]_(Back!vars)
  PROVE  Back!Inv'
<1>1. ASSUME NEW p \in DOMAIN proc, Back!Step(p) PROVE Back!Inv'
  <2>1. "dup stdout" \in Labels /\ "dup stderr" \in Labels /\ "sleep" \in Labels
    BY DEF Labels
  <2>2. 0 \in 0 .. 2 /\ 1 \in 0 .. 2 /\ 2 \in 0 .. 2
    OBVIOUS
  <2>3. CASE Back!CheckArgc(p)
    BY <2>3, BackCheckArgc
  <2>4. CASE Back!Childize(p, "fork", "setsid")
    BY <2>4, BackFork
  <2>5. CASE Back!Setsid(p)
    BY <2>5, BackSetsid
  <2>6. CASE Back!Childize(p, "fork again", "chdir")
    BY <2>6, BackFork
  <2>7. CASE Back!Chdir(p)
    BY <2>7, BackChdir
  <2>8. CASE Back!Open(p)
    BY <2>1, <2>2, <2>8, BackObtain DEF Back!Open
  <2>9. CASE Back!DupStdout(p)
    BY <2>1, <2>2, <2>9, BackObtain DEF Back!DupStdout
  <2>10. CASE Back!DupStderr(p)
    BY <2>1, <2>2, <2>10, BackObtain DEF Back!DupStderr
  <2>11. CASE Back!Sleep(p)
    BY <2>11, BackSleep
  <2> QED BY <1>1, <2>3, <2>4, <2>5, <2>6, <2>7, <2>8, <2>9, <2>10, <2>11 DEF Back!Step
<1>2. ASSUME UNCHANGED <<argc, proc>> PROVE Back!Inv'
  BY <1>2, BackParts, BackNextParts
<1> QED BY <1>1, <1>2 DEF Back!Next, Back!Over, Back!vars

LEMMA BackSafe == Back!Inv => Back!DaemonSafe
<1> SUFFICES ASSUME Back!Inv PROVE Back!DaemonSafe
  OBVIOUS
<1>1. Back!Detached
  <2> SUFFICES ASSUME NEW p \in DOMAIN proc, proc[p].pc = "sleep"
               PROVE  /\ proc[p].session \notin {0, p} /\ proc[p].group # p
                      /\ proc[p].cwd = "/" /\ proc[p].files = Null(3)
                      /\ \A q \in DOMAIN proc \ {p} : proc[q].pc = "success"
    BY DEF Back!Detached, Back!At, Back!Exited, Back!Standard, Null
  <2>1. p = Len(proc) /\ p \in 1 .. 3 /\ DOMAIN proc = 1 .. Len(proc) /\ Stands(p, p, proc[p])
    BY BackNow
  <2>2. /\ p = 3 /\ proc[p].group = 2 /\ proc[p].session = 2 /\ proc[p].cwd = "/"
        /\ proc[p].files = Null(3)
    BY <2>1 DEF Stands
  <2>3. ASSUME NEW q \in DOMAIN proc \ {p} PROVE proc[q].pc = "success"
    <3>1. q \in DOMAIN proc /\ q # Len(proc)
      BY <2>1
    <3> QED BY <3>1, BackNow, Zenon
  <2> QED BY <2>2, <2>3
<1>2. Back!FailureIsFinal
  <2> SUFFICES ASSUME proc[1].pc = "failure" PROVE Len(proc) = 1
    BY DEF Back!FailureIsFinal, Back!At
  <2>1. Len(proc) \in 1 .. 3 /\ proc \in Seq(Processes)
    BY BackParts
  <2>2. 1 \in DOMAIN proc
    BY <2>1
  <2>3. proc[1].pc # "success"
    OBVIOUS
  <2> QED BY <2>2, <2>3, BackNow, Zenon
<1> QED BY <1>1, <1>2 DEF Back!DaemonSafe

-----------------------------------------------------------------------------
(* EventLoops *)

OpNames == {"wait", "resolve", "connect", "read", "accept", "write", "do_accept",
            "hello", ", ", "world"}

Ops == [name : OpNames, n : Nat]

Handlers == [op : Ops, ec : BOOLEAN]

(* The operations of which the handlers of a sequence are.                 *)
OpsOf(s) == {h.op : h \in ToSet(s)}

Accept(n) == [name |-> "accept", n |-> n]
Write(n)  == [name |-> "write", n |-> n]
Timer(n)  == [name |-> "wait", n |-> n]

Done(op) == [op |-> op, ec |-> FALSE]

(* What is started by the handler of op, if it finds no error.             *)
Begins(op) == IF program = "asio2" THEN Loop!Coroutine(op) ELSE Loop!Starts(op)

(* The head of t goes to the end of s.                                     *)
LEMMA HandedOver ==
  ASSUME NEW S, NEW s \in Seq(S), NEW t \in Seq(S), t # <<>>
  PROVE  /\ Append(s, Head(t)) \in Seq(S) /\ Tail(t) \in Seq(S) /\ Head(t) \in S
         /\ Append(s, Head(t)) \o Tail(t) = s \o t
         /\ (s \o t)[Len(s) + 1] = Head(t) /\ Len(s) + 1 \in DOMAIN (s \o t)
<1>1. /\ Len(s) \in Nat /\ Len(t) \in Nat \ {0} /\ Head(t) = t[1] /\ Head(t) \in S
      /\ Tail(t) \in Seq(S) /\ Len(Tail(t)) = Len(t) - 1
      /\ \A k \in 1 .. Len(t) - 1 : Tail(t)[k] = t[k + 1]
  OBVIOUS
<1> DEFINE a == Append(s, Head(t))
           b == Tail(t)
<1>2. /\ a \in Seq(S) /\ Len(a) = Len(s) + 1 /\ a[Len(s) + 1] = Head(t)
      /\ \A k \in 1 .. Len(s) : a[k] = s[k]
  BY <1>1
<1>3. b \in Seq(S) /\ Len(b) = Len(t) - 1 /\ \A k \in 1 .. Len(t) - 1 : b[k] = t[k + 1]
  BY <1>1
<1> HIDE DEF a, b
<1>4. Len(a \o b) = Len(s \o t) /\ Len(s \o t) = Len(s) + Len(t)
  <2>1. Len(a \o b) = Len(a) + Len(b)
    <3>1. a \in Seq(S) /\ b \in Seq(S)
      BY <1>2, <1>3
    <3> QED BY <3>1
  <2>2. Len(s \o t) = Len(s) + Len(t)
    OBVIOUS
  <2>3. Len(a) + Len(b) = Len(s) + Len(t)
    BY <1>1, <1>2, <1>3
  <2> QED BY <2>1, <2>2, <2>3
<1>5. ASSUME NEW k \in 1 .. Len(s) + Len(t) PROVE (a \o b)[k] = (s \o t)[k]
  <2>1. CASE k <= Len(s)
    BY <1>1, <1>2, <1>3, <2>1
  <2>2. CASE k = Len(s) + 1
    BY <1>1, <1>2, <1>3, <2>2
  <2>3. CASE k > Len(s) + 1
    <3>1. (a \o b)[k] = b[k - (Len(s) + 1)]
      BY <1>1, <1>2, <1>3, <2>3
    <3>2. (s \o t)[k] = t[k - Len(s)]
      BY <1>1, <2>3
    <3>3. k - (Len(s) + 1) \in 1 .. Len(t) - 1 /\ (k - (Len(s) + 1)) + 1 = k - Len(s)
      BY <1>1, <2>3
    <3> QED BY <1>3, <3>1, <3>2, <3>3
  <2>4. k <= Len(s) \/ k = Len(s) + 1 \/ k > Len(s) + 1
    BY <1>1
  <2> QED BY <2>1, <2>2, <2>3, <2>4, Zenon
<1>6. a \o b \in Seq(S) /\ s \o t \in Seq(S)
  BY <1>2, <1>3
<1>7. a \o b = s \o t
  BY <1>4, <1>5, <1>6
<1>8. (s \o t)[Len(s) + 1] = Head(t) /\ Len(s) + 1 \in DOMAIN (s \o t)
  BY <1>1, <1>4
<1> QED BY <1>1, <1>2, <1>7, <1>8 DEF a, b

LEMMA NotYetRun ==
  ASSUME NEW S, NEW s \in Seq(S), NEW t \in Seq(S), t # <<>>, IsInjective(s \o t)
  PROVE  Head(t) \notin ToSet(s)
<1> SUFFICES ASSUME NEW k \in 1 .. Len(s), s[k] = Head(t) PROVE FALSE
  BY DEF ToSet
<1>1. (s \o t)[k] = s[k] /\ k \in DOMAIN (s \o t) /\ k # Len(s) + 1
  OBVIOUS
<1> QED BY <1>1, HandedOver DEF IsInjective

LEMMA AtTheEnd ==
  ASSUME NEW S, NEW s \in Seq(S), NEW t \in Seq(S), NEW e \in S
  PROVE  s \o Append(t, e) = Append(s \o t, e)
OBVIOUS

LEMMA OpsOfAppend ==
  ASSUME NEW s \in Seq(Handlers), NEW h \in Handlers
  PROVE  OpsOf(Append(s, h)) = OpsOf(s) \cup {h.op}
BY ToSetAppend DEF OpsOf

LEMMA OpsOfTail ==
  ASSUME NEW s \in Seq(Handlers), s # <<>>
  PROVE  OpsOf(s) = {Head(s).op} \cup OpsOf(Tail(s))
BY ToSetTail DEF OpsOf

LEMMA OpRecord ==
  ASSUME NEW n \in Nat
  PROVE  /\ [name |-> "wait", n |-> n] \in Ops /\ [name |-> "accept", n |-> n] \in Ops
         /\ [name |-> "write", n |-> n] \in Ops /\ [name |-> "resolve", n |-> n] \in Ops
         /\ [name |-> "connect", n |-> n] \in Ops /\ [name |-> "read", n |-> n] \in Ops
         /\ [name |-> "do_accept", n |-> n] \in Ops /\ [name |-> "hello", n |-> n] \in Ops
         /\ [name |-> ", ", n |-> n] \in Ops /\ [name |-> "world", n |-> n] \in Ops
BY DEF Ops, OpNames

LEMMA BeginsWhat ==
  ASSUME NEW op \in Ops
  PROVE  /\ Begins(op) \in SUBSET Ops
         /\ \A n \in 1 .. 2 : Write(n) \in Begins(op) <=> op = Accept(n)
         /\ Timer(4) \in Begins(op) => op = Timer(4)
         /\ op.name \in {"hello", ", ", "world"} => Begins(op) = {}
         /\ op.name = "wait" /\ program = "timer2" => Begins(op) = {}
<1>1. op.n \in Nat /\ op.n + 1 \in Nat
  BY DEF Ops
<1>2. \A n : /\ op = Accept(n) <=> op.name = "accept" /\ op.n = n
             /\ op = Timer(n) <=> op.name = "wait" /\ op.n = n
  BY DEF Ops, Accept, Timer
<1>3. \A n \in Nat : Accept(n) \in Ops /\ Write(n) \in Ops
  BY OpRecord, Zenon DEF Accept, Write
<1>4. \A n, m : /\ Write(n) = Write(m) <=> n = m
                /\ Write(n) # Accept(m) /\ Timer(n) # Write(m) /\ Timer(n) # Accept(m)
  BY DEF Accept, Write, Timer
<1>5. CASE program = "asio2"
  <2>1. Begins(op) = Loop!Coroutine(op)
    BY <1>5 DEF Begins
  <2>2. CASE op.name = "do_accept"
    <3>1. Begins(op) = {Accept(1)}
      BY <2>1, <2>2 DEF Loop!Coroutine, Loop!Op, Accept
    <3>2. Accept(1) \in Ops
      BY <1>3
    <3> QED BY <1>2, <1>4, <1>5, <2>2, <3>1, <3>2
  <2>3. CASE op.name = "accept"
    <3>1. Begins(op) = {Write(op.n)} \/ Begins(op) = {Write(op.n), Accept(op.n + 1)}
      BY <2>1, <2>3 DEF Loop!Coroutine, Loop!Op, Accept, Write
    <3>2. Begins(op) \in SUBSET Ops
      BY <1>1, <1>3, <3>1
    <3> QED BY <1>2, <1>4, <1>5, <2>3, <3>1, <3>2
  <2>4. CASE op.name \notin {"do_accept", "accept"}
    <3>1. Begins(op) = {}
      BY <2>1, <2>4 DEF Loop!Coroutine
    <3> QED BY <1>2, <1>5, <2>4, <3>1
  <2> QED BY <2>2, <2>3, <2>4
<1>6. CASE program # "asio2"
  <2>1. Begins(op) = Loop!Starts(op)
    BY <1>6 DEF Begins
  <2>2. CASE op.name = "resolve" \/ op.name = "connect" \/ op.name = "read"
    <3> DEFINE next == IF op.name = "resolve" THEN [name |-> "connect", n |-> 0]
                       ELSE [name |-> "read", n |-> 0]
    <3>1. Begins(op) = {next}
      BY <2>1, <2>2 DEF Loop!Starts, Loop!Op
    <3>2. next \in Ops
      <4>1. 0 \in Nat
        OBVIOUS
      <4> QED BY <4>1, OpRecord, Zenon
    <3>3. \A n : next # Write(n) /\ next # Timer(n)
      BY DEF Write, Timer
    <3> HIDE DEF next
    <3> QED BY <1>2, <2>2, <3>1, <3>2, <3>3
  <2>3. CASE op.name = "accept"
    <3>1. Begins(op) = {Write(op.n)}
      BY <2>1, <2>3 DEF Loop!Starts, Loop!Op, Write
    <3> QED BY <1>1, <1>2, <1>3, <1>4, <2>3, <3>1
  <2>4. CASE op.name = "wait"
    <3>1. Begins(op) = IF program = "timer" THEN {op} ELSE {}
      BY <2>1, <2>4 DEF Loop!Starts
    <3>2. \A n : op # Write(n)
      BY <2>4 DEF Write
    <3> QED BY <1>2, <2>4, <3>1, <3>2
  <2>5. CASE op.name \notin {"resolve", "connect", "read", "accept", "wait"}
    <3>1. Begins(op) = {}
      BY <2>1, <2>5 DEF Loop!Starts
    <3> QED BY <1>2, <2>5, <3>1
  <2> QED BY <2>2, <2>3, <2>4, <2>5
<1> QED BY <1>5, <1>6

Greeting == <<Done([name |-> "hello", n |-> 0]), Done([name |-> ", ", n |-> 0]),
              Done([name |-> "world", n |-> 0])>>

Begun == pending \cup OpsOf(ready) \cup OpsOf(ran)

(* What timer2 has still to wait for, and what has completed.              *)
Timed(waiting, completed) ==
  \/ waiting = {Timer(3), Timer(4)} /\ completed = <<>>
  \/ waiting = {Timer(4)} /\ completed = <<Done(Timer(3))>>
  \/ waiting = {} /\ completed = <<Done(Timer(3)), Done(Timer(4))>>

LoopTyped ==
  /\ program \in Loop!Programs
  /\ pending \in SUBSET Ops /\ ready \in Seq(Handlers) /\ ran \in Seq(Handlers)
  /\ stopped \in BOOLEAN /\ thread \in {"running", "returned", "terminated"}
  /\ main \in {"stop", "join", "over"}

LoopQueued ==
  /\ program \in {"asio", "io_service"} => pending = {} /\ ran \o ready = Greeting
  /\ program = "timer2" => Timed(pending, ran \o ready)
  /\ program # "timer2" => Timer(4) \notin Begun

LoopWrites == \A n \in 1 .. 2 : Write(n) \in Begun <=> Done(Accept(n)) \in ToSet(ran)

LoopReturned ==
  /\ main = "stop" \/ stopped => program = "asio"
  /\ thread = "returned" =>
        stopped \/ (ready = <<>> /\ pending = {} /\ program \notin {"asio", "io_service", "timer"})
  /\ main = "over" => thread = "returned"

LEMMA BegunIs == Loop!Started = Begun
<1>1. \A s : Loop!ToSet(s) = ToSet(s)
  BY Zenon DEF Loop!ToSet, ToSet
<1> QED BY <1>1 DEF Loop!Started, Begun, OpsOf

LEMMA LoopParts == Loop!Inv <=> LoopTyped /\ LoopQueued /\ LoopWrites /\ LoopReturned
<1>1. Loop!TypeOK <=> LoopTyped
  BY DEF Loop!TypeOK, LoopTyped, Ops, OpNames, Handlers
<1>2. Loop!Queued <=> LoopQueued
  <2>1. Loop!Posted = Greeting
    BY DEF Loop!Posted, Loop!Handler, Loop!Op, Greeting, Done
  <2>2. Loop!Op("wait", 3) = Timer(3) /\ Loop!Op("wait", 4) = Timer(4)
    BY DEF Loop!Op, Timer
  <2> QED BY <2>1, <2>2, BegunIs DEF Loop!Queued, LoopQueued, Timed, Done
<1>3. Loop!WritesFollow <=> LoopWrites
  <2>1. \A s : Loop!ToSet(s) = ToSet(s)
    BY Zenon DEF Loop!ToSet, ToSet
  <2>2. \A n : Loop!RanOk("accept", n) <=> Done(Accept(n)) \in ToSet(ran)
    BY <2>1 DEF Loop!RanOk, Loop!Op, Done, Accept
  <2>3. \A n : Loop!Op("write", n) = Write(n)
    BY DEF Loop!Op, Write
  <2> QED BY <2>2, <2>3, BegunIs DEF Loop!WritesFollow, LoopWrites
<1>4. Loop!Returned <=> LoopReturned
  BY DEF Loop!Returned, LoopReturned, Loop!HasWork
<1> QED BY <1>1, <1>2, <1>3, <1>4 DEF Loop!Inv

LEMMA LoopNextParts == (LoopTyped /\ LoopQueued /\ LoopWrites /\ LoopReturned)' => Loop!Inv'
BY LoopParts, PTL

LEMMA LoopStutter ==
  ASSUME Loop!Inv, UNCHANGED <<program, pending, ready, ran>>, LoopReturned',
         stopped' \in BOOLEAN, thread' \in {"running", "returned", "terminated"},
         main' \in {"stop", "join", "over"}
  PROVE  Loop!Inv'
<1>1. LoopTyped' /\ LoopQueued' /\ LoopWrites'
  BY LoopParts DEF LoopTyped, LoopQueued, LoopWrites, Begun
<1> QED BY <1>1, LoopNextParts

LEMMA LoopMain ==
  ASSUME Loop!Inv, Loop!Return \/ Loop!Stop \/ Loop!Join
  PROVE  Loop!Inv'
<1> USE LoopParts DEF LoopTyped, LoopReturned
<1>1. CASE Loop!Return
  BY <1>1, LoopStutter DEF Loop!Return, Loop!HasWork
<1>2. CASE Loop!Stop
  BY <1>2, LoopStutter DEF Loop!Stop
<1>3. CASE Loop!Join
  BY <1>3, LoopStutter DEF Loop!Join
<1> QED BY <1>1, <1>2, <1>3

LEMMA ThreeDiffer ==
  ASSUME NEW a, NEW b, NEW c, a # b, a # c, b # c
  PROVE  IsInjective(<<a, b, c>>) /\ IsInjective(<<a, b>>)
<1>1. /\ DOMAIN <<a, b, c>> = {1, 2, 3} /\ <<a, b, c>>[1] = a /\ <<a, b, c>>[2] = b
      /\ <<a, b, c>>[3] = c
  OBVIOUS
<1>2. DOMAIN <<a, b>> = {1, 2} /\ <<a, b>>[1] = a /\ <<a, b>>[2] = b
  OBVIOUS
<1> QED BY <1>1, <1>2 DEF IsInjective

LEMMA AppendTwo ==
  ASSUME NEW x, NEW y
  PROVE  Append(<<x>>, y) = <<x, y>>
<1> DEFINE u == Append(<<x>>, y)
           w == <<x, y>>
<1>1. <<x>> \in Seq({x, y}) /\ y \in {x, y}
  OBVIOUS
<1>2. u \in Seq({x, y}) /\ Len(u) = 2 /\ u[1] = x /\ u[2] = y
  BY <1>1
<1>3. w \in Seq({x, y}) /\ Len(w) = 2 /\ w[1] = x /\ w[2] = y
  OBVIOUS
<1> HIDE DEF u, w
<1>4. \A k \in 1 .. 2 : u[k] = w[k]
  BY <1>2, <1>3
<1>5. u = w
  BY <1>2, <1>3, <1>4
<1> QED BY <1>5 DEF u, w

LEMMA ThreeOf ==
  ASSUME NEW a, NEW b, NEW c
  PROVE  ToSet(<<a, b, c>>) = {a, b, c}
<1>1. /\ DOMAIN <<a, b, c>> = {1, 2, 3} /\ <<a, b, c>>[1] = a /\ <<a, b, c>>[2] = b
      /\ <<a, b, c>>[3] = c
  OBVIOUS
<1> QED BY <1>1 DEF ToSet

LEMMA FewOf ==
  ASSUME NEW a, NEW b
  PROVE  ToSet(<<a, b>>) = {a, b} /\ ToSet(<<a>>) = {a} /\ ToSet(<<>>) = {}
<1>1. DOMAIN <<a, b>> = {1, 2} /\ <<a, b>>[1] = a /\ <<a, b>>[2] = b
  OBVIOUS
<1>2. DOMAIN <<a>> = {1} /\ <<a>>[1] = a /\ DOMAIN <<>> = {}
  OBVIOUS
<1>3. ToSet(<<a, b>>) = {a, b}
  BY <1>1 DEF ToSet
<1>4. ToSet(<<a>>) = {a} /\ ToSet(<<>>) = {}
  BY <1>2 DEF ToSet
<1> QED BY <1>3, <1>4

(* The operations of the handlers that are posted.                         *)
LEMMA GreetingOps ==
  /\ Greeting \in Seq(Handlers)
  /\ OpsOf(Greeting) = {[name |-> "hello", n |-> 0], [name |-> ", ", n |-> 0],
                        [name |-> "world", n |-> 0]}
  /\ \A h \in ToSet(Greeting) : h.op.name \in {"hello", ", ", "world"}
  /\ \A n : /\ Write(n) \notin OpsOf(Greeting) /\ Timer(n) \notin OpsOf(Greeting)
            /\ Done(Accept(n)) \notin ToSet(Greeting)
<1> DEFINE a == [name |-> "hello", n |-> 0]
           b == [name |-> ", ", n |-> 0]
           c == [name |-> "world", n |-> 0]
<1>1. ToSet(Greeting) = {Done(a), Done(b), Done(c)}
  <2>1. Greeting = <<Done(a), Done(b), Done(c)>>
    BY Zenon DEF Greeting
  <2> HIDE DEF a, b, c
  <2>2. ToSet(<<Done(a), Done(b), Done(c)>>) = {Done(a), Done(b), Done(c)}
    BY ThreeOf, Zenon
  <2> QED BY <2>1, <2>2, Zenon
<1>2. Done(a).op = a /\ Done(b).op = b /\ Done(c).op = c
  BY DEF Done
<1>3. a.name = "hello" /\ b.name = ", " /\ c.name = "world"
  OBVIOUS
<1>4. \A n : /\ Write(n).name = "write" /\ Timer(n).name = "wait" /\ Accept(n).name = "accept"
             /\ Done(Accept(n)).op = Accept(n)
  BY DEF Write, Timer, Accept, Done
<1>5. Greeting \in Seq(Handlers)
  <2>1. 0 \in Nat
    OBVIOUS
  <2>2. a \in Ops /\ b \in Ops /\ c \in Ops
    BY <2>1, OpRecord, Zenon
  <2>3. \A op \in Ops : Done(op) \in Handlers
    BY DEF Done, Handlers
  <2>4. \A x, y, z \in Handlers : <<x, y, z>> \in Seq(Handlers)
    OBVIOUS
  <2> QED BY <2>2, <2>3, <2>4, Zenon DEF Greeting
<1> HIDE DEF a, b, c
<1>6. OpsOf(Greeting) = {a, b, c}
  BY <1>1, <1>2 DEF OpsOf
<1>7. \A h \in ToSet(Greeting) : h.op.name \in {"hello", ", ", "world"}
  BY <1>1, <1>2, <1>3
<1>8. \A n : /\ Write(n) \notin OpsOf(Greeting) /\ Timer(n) \notin OpsOf(Greeting)
             /\ Done(Accept(n)) \notin ToSet(Greeting)
  BY <1>3, <1>4, <1>6, <1>7
<1> QED BY <1>5, <1>6, <1>7, <1>8 DEF a, b, c

LEMMA NothingRepeated ==
  /\ IsInjective(Greeting)
  /\ IsInjective(<<Done(Timer(3)), Done(Timer(4))>>)
  /\ IsInjective(<<Done(Timer(3))>>)
<1>1. IsInjective(Greeting)
  <2> DEFINE a == Done([name |-> "hello", n |-> 0])
             b == Done([name |-> ", ", n |-> 0])
             c == Done([name |-> "world", n |-> 0])
  <2>1. a # b /\ a # c /\ b # c
    BY DEF Done
  <2> QED BY <2>1, ThreeDiffer, Zenon DEF Greeting
<1>2. IsInjective(<<Done(Timer(3)), Done(Timer(4))>>)
  <2>1. Done(Timer(3)) # Done(Timer(4)) /\ \E c : c # Done(Timer(3)) /\ c # Done(Timer(4))
    <3>1. \A c : c = [op |-> 0] => c # Done(Timer(3)) /\ c # Done(Timer(4))
      BY DEF Done
    <3> QED BY <3>1 DEF Done, Timer
  <2> QED BY <2>1, ThreeDiffer, Zenon
<1>3. IsInjective(<<Done(Timer(3))>>)
  <2>1. DOMAIN <<Done(Timer(3))>> = {1}
    OBVIOUS
  <2> QED BY <2>1 DEF IsInjective
<1> QED BY <1>1, <1>2, <1>3

LEMMA LoopComplete ==
  ASSUME Loop!Inv, NEW op \in pending, Loop!Complete(op)
  PROVE  Loop!Inv'
<1>1. LoopTyped /\ LoopQueued /\ LoopWrites /\ LoopReturned
  BY LoopParts
<1>2. PICK ec \in BOOLEAN : /\ ec => op.name # "wait"
                            /\ ready' = Append(ready, [op |-> op, ec |-> ec])
  BY DEF Loop!Complete
<1> DEFINE h == [op |-> op, ec |-> ec]
<1>3. /\ pending' = pending \ {op}
      /\ UNCHANGED <<program, stopped, ran, thread, main>>
      /\ op.name = "wait" => \A o \in pending : op.n <= o.n
  BY DEF Loop!Complete
<1>4. h \in Handlers /\ h.op = op /\ op \in Ops /\ h.ec = ec
  BY <1>1 DEF LoopTyped, Handlers
<1>5. ready' = Append(ready, h)
  BY <1>2
<1> HIDE DEF h
<1>6. LoopTyped'
  BY <1>1, <1>3, <1>4, <1>5 DEF LoopTyped
<1>7. Begun' = Begun
  <2>1. OpsOf(ready') = OpsOf(ready) \cup {op}
    BY <1>1, <1>4, <1>5, OpsOfAppend DEF LoopTyped
  <2> QED BY <1>3, <2>1 DEF Begun
<1>8. LoopWrites'
  BY <1>1, <1>3, <1>7 DEF LoopWrites
<1>9. LoopReturned'
  BY <1>1, <1>3 DEF LoopReturned
<1>10. ran' \o ready' = Append(ran \o ready, h)
  BY <1>1, <1>3, <1>4, <1>5, AtTheEnd DEF LoopTyped
<1>11. program = "timer2" => Timed(pending', ran' \o ready')
  <2> SUFFICES ASSUME program = "timer2" PROVE Timed(pending', ran' \o ready')
    OBVIOUS
  <2>1. Timed(pending, ran \o ready)
    BY <1>1 DEF LoopQueued
  <2>2. op \in {Timer(3), Timer(4)}
    BY <2>1 DEF Timed
  <2>3. op.name = "wait" /\ ec = FALSE
    BY <1>2, <2>2 DEF Timer
  <2>4. h = Done(op)
    BY <2>3 DEF h, Done
  <2>5. Timer(3) # Timer(4) /\ Timer(3).n = 3 /\ Timer(4).n = 4
    BY DEF Timer
  <2>6. CASE pending = {Timer(3), Timer(4)} /\ ran \o ready = <<>>
    <3>1. op.n <= 3
      BY <1>3, <2>3, <2>5, <2>6
    <3>2. op = Timer(3)
      BY <2>2, <2>5, <3>1
    <3>3. pending' = {Timer(4)}
      BY <1>3, <2>5, <2>6, <3>2
    <3>4. ran' \o ready' = <<Done(Timer(3))>>
      BY <1>10, <2>4, <2>6, <3>2
    <3> QED BY <3>3, <3>4, Zenon DEF Timed
  <2>7. CASE pending = {Timer(4)} /\ ran \o ready = <<Done(Timer(3))>>
    <3>1. op = Timer(4) /\ pending' = {}
      BY <1>3, <2>7
    <3>2. ran' \o ready' = <<Done(Timer(3)), Done(Timer(4))>>
      <4>1. ran' \o ready' = Append(<<Done(Timer(3))>>, Done(Timer(4)))
        BY <1>10, <2>4, <2>7, <3>1, Zenon
      <4> QED BY <4>1, AppendTwo, Zenon
    <3> QED BY <3>1, <3>2, Zenon DEF Timed
  <2> QED BY <2>1, <2>6, <2>7 DEF Timed
<1>12. LoopQueued'
  BY <1>1, <1>3, <1>7, <1>11 DEF LoopQueued
<1> QED BY <1>6, <1>8, <1>9, <1>12, LoopNextParts

LEMMA LoopRun ==
  ASSUME Loop!Inv, Loop!RunHandler
  PROVE  Loop!Inv'
<1> DEFINE h == Head(ready)
<1>1. LoopTyped /\ LoopQueued /\ LoopWrites /\ LoopReturned
  BY LoopParts
<1>2. /\ thread = "running" /\ ~stopped /\ ready # <<>> /\ ready' = Tail(ready)
      /\ UNCHANGED <<program, stopped, main>>
      /\ \/ ~h.ec /\ pending' = pending \cup Begins(h.op) /\ thread' = thread
         \/ /\ h.ec /\ pending' = pending
            /\ thread' = IF program = "asio2" THEN "terminated" ELSE "running"
         \/ /\ ~h.ec /\ h.op.name \in {"connect", "write"} /\ pending' = pending
            /\ thread' = "terminated"
  BY DEF Loop!RunHandler, Loop!MayThrow, Begins
<1>3. \/ ran' = ran /\ h \in ToSet(ran)
      \/ ran' = Append(ran, h) /\ h \notin ToSet(ran)
  <2>1. \A s : Loop!ToSet(s) = ToSet(s)
    BY Zenon DEF Loop!ToSet, ToSet
  <2>2. Loop!Remember(h)
    BY Zenon DEF Loop!RunHandler, h
  <2> HIDE DEF h
  <2>3. ran' = IF h \in Loop!ToSet(ran) THEN ran ELSE Append(ran, h)
    BY <2>2, Zenon DEF Loop!Remember
  <2>4. ran' = IF h \in ToSet(ran) THEN ran ELSE Append(ran, h)
    BY <2>1, <2>3, Zenon
  <2> QED BY <2>4, Zenon
<1>4. /\ ready \in Seq(Handlers) /\ ran \in Seq(Handlers) /\ h \in Handlers
      /\ Tail(ready) \in Seq(Handlers) /\ Append(ran, h) \in Seq(Handlers)
      /\ Append(ran, h) \o Tail(ready) = ran \o ready
  BY <1>1, <1>2, HandedOver DEF LoopTyped
<1>5. h.op \in Ops /\ h.ec \in BOOLEAN /\ h = [op |-> h.op, ec |-> h.ec]
  BY <1>4 DEF Handlers
<1> HIDE DEF h
<1>6. PICK S \in SUBSET Ops :
         /\ pending' = pending \cup S
         /\ \/ S = {} /\ (h.ec \/ h.op.name # "accept")
            \/ S = Begins(h.op) /\ ~h.ec
  <2>1. CASE pending' = pending /\ (h.ec \/ h.op.name # "accept")
    <3>1. pending' = pending \cup {} /\ {} \in SUBSET Ops
      BY <2>1
    <3> QED BY <2>1, <3>1, Zenon
  <2>2. CASE ~h.ec /\ pending' = pending \cup Begins(h.op)
    <3>1. Begins(h.op) \in SUBSET Ops
      BY <1>5, BeginsWhat
    <3> QED BY <2>2, <3>1
  <2> QED BY <1>2, <2>1, <2>2
<1>7. ran' \in Seq(Handlers) /\ ToSet(ran') = ToSet(ran) \cup {h}
  <2>1. CASE ran' = ran /\ h \in ToSet(ran)
    BY <1>4, <2>1
  <2>2. CASE ran' = Append(ran, h)
    <3>1. ToSet(Append(ran, h)) = ToSet(ran) \cup {h}
      BY <1>4, ToSetAppend
    <3> QED BY <1>4, <2>2, <3>1
  <2> QED BY <1>3, <2>1, <2>2
<1>8. Begun' = Begun \cup S
  <2>1. OpsOf(ready) = {h.op} \cup OpsOf(ready')
    BY <1>2, <1>4, OpsOfTail DEF h
  <2>2. OpsOf(ran') = OpsOf(ran) \cup {h.op}
    BY <1>7 DEF OpsOf
  <2> QED BY <1>6, <2>1, <2>2 DEF Begun
<1>9. LoopTyped'
  BY <1>1, <1>2, <1>4, <1>6, <1>7 DEF LoopTyped
<1>10. LoopWrites'
  <2> SUFFICES ASSUME NEW n \in 1 .. 2
               PROVE  Write(n) \in Begun' <=> Done(Accept(n)) \in ToSet(ran')
    BY DEF LoopWrites
  <2>1. Write(n) \in Begun <=> Done(Accept(n)) \in ToSet(ran)
    BY <1>1 DEF LoopWrites
  <2>2. Write(n) \in S <=> h = Done(Accept(n))
    <3>1. CASE S = {} /\ (h.ec \/ h.op.name # "accept")
      BY <1>5, <3>1 DEF Done, Accept
    <3>2. CASE S = Begins(h.op) /\ ~h.ec
      <4>1. h = [op |-> h.op, ec |-> FALSE]
        BY <1>5, <3>2
      <4>2. h = Done(Accept(n)) <=> h.op = Accept(n)
        BY <4>1 DEF Done
      <4> QED BY <1>5, <3>2, <4>2, BeginsWhat
    <3> QED BY <1>6, <3>1, <3>2
  <2> QED BY <1>7, <1>8, <2>1, <2>2
<1>11. LoopReturned'
  BY <1>1, <1>2 DEF LoopReturned
<1>12. IsInjective(ran \o ready) => ran' \o ready' = ran \o ready
  BY <1>2, <1>3, <1>4, NotYetRun DEF h
<1>13. h.op \in OpsOf(ready) /\ h \in ToSet(ran \o ready)
  <2>1. h.op \in OpsOf(ready)
    BY <1>2, <1>4, OpsOfTail DEF h
  <2>2. (ran \o ready)[Len(ran) + 1] = h /\ Len(ran) + 1 \in DOMAIN (ran \o ready)
    BY <1>2, <1>4, HandedOver DEF h
  <2> QED BY <2>1, <2>2 DEF ToSet
<1>14. ASSUME program \in {"asio", "io_service"}
       PROVE  pending' = {} /\ ran' \o ready' = Greeting
  <2>1. pending = {} /\ ran \o ready = Greeting
    BY <1>1, <1>14 DEF LoopQueued
  <2>3. h.op.name \in {"hello", ", ", "world"}
    BY <1>13, <2>1, GreetingOps, Zenon
  <2>4. S = {}
    BY <1>5, <1>6, <2>3, BeginsWhat
  <2> QED BY <1>6, <1>12, <2>1, <2>4, NothingRepeated
<1>15. ASSUME program = "timer2"
       PROVE  Timed(pending', ran' \o ready')
  <2>1. Timed(pending, ran \o ready)
    BY <1>1, <1>15 DEF LoopQueued
  <2>2. ran \o ready # <<>>
    BY <1>13, FewOf, Zenon
  <2>4. \/ ran \o ready = <<Done(Timer(3))>>
        \/ ran \o ready = <<Done(Timer(3)), Done(Timer(4))>>
    BY <2>1, <2>2, Zenon DEF Timed
  <2>5. h \in {Done(Timer(3)), Done(Timer(4))}
    <3>1. CASE ran \o ready = <<Done(Timer(3))>>
      <4>1. ToSet(<<Done(Timer(3))>>) = {Done(Timer(3))}
        BY FewOf, Zenon
      <4> QED BY <1>13, <3>1, <4>1, Zenon
    <3>2. CASE ran \o ready = <<Done(Timer(3)), Done(Timer(4))>>
      <4>1. ToSet(<<Done(Timer(3)), Done(Timer(4))>>) = {Done(Timer(3)), Done(Timer(4))}
        BY FewOf, Zenon
      <4> QED BY <1>13, <3>2, <4>1, Zenon
    <3> QED BY <2>4, <3>1, <3>2
  <2>6. h.op.name = "wait"
    BY <2>5 DEF Done, Timer
  <2>7. S = {}
    BY <1>5, <1>6, <1>15, <2>6, BeginsWhat
  <2>8. ran' \o ready' = ran \o ready
    BY <1>12, <2>4, NothingRepeated
  <2> QED BY <1>6, <2>1, <2>7, <2>8
<1>16. ASSUME program # "timer2" PROVE Timer(4) \notin Begun'
  <2>1. Timer(4) \notin Begun /\ h.op # Timer(4)
    BY <1>1, <1>13, <1>16 DEF LoopQueued, Begun
  <2> QED BY <1>5, <1>6, <1>8, <2>1, BeginsWhat
<1>17. LoopQueued'
  BY <1>2, <1>14, <1>15, <1>16 DEF LoopQueued
<1> QED BY <1>9, <1>10, <1>11, <1>17, LoopNextParts

LEMMA LoopInit == Loop!Init => Loop!Inv
<1> SUFFICES ASSUME Loop!Init PROVE Loop!Inv
  OBVIOUS
<1> DEFINE spawn == Done([name |-> "do_accept", n |-> 0])
<1>1. /\ program \in Loop!Programs /\ stopped = FALSE /\ ran = <<>> /\ thread = "running"
      /\ main = IF program = "asio" THEN "stop" ELSE "join"
  BY DEF Loop!Init
<1>2. /\ program = "timer" => pending = {Timer(3)} /\ ready = <<>>
      /\ program = "timer2" => pending = {Timer(3), Timer(4)} /\ ready = <<>>
      /\ program = "tcp" => pending = {[name |-> "resolve", n |-> 0]} /\ ready = <<>>
      /\ program = "asio3" => pending = {Accept(1)} /\ ready = <<>>
      /\ program = "asio2" => pending = {} /\ ready = <<spawn>>
      /\ program \in {"asio", "io_service"} => pending = {} /\ ready = Greeting
  BY DEF Loop!Init, Loop!Op, Loop!Posted, Loop!Handler, Timer, Accept, Greeting, Done
<1>3. program \in {"asio", "io_service", "timer", "timer2", "tcp", "asio2", "asio3"}
  BY <1>1 DEF Loop!Programs
<1>4. /\ \A n \in Nat : Timer(n) \in Ops /\ Accept(n) \in Ops
      /\ [name |-> "resolve", n |-> 0] \in Ops
      /\ spawn \in Handlers
  <2>1. \A n \in Nat : Timer(n) \in Ops /\ Accept(n) \in Ops
    BY OpRecord, Zenon DEF Timer, Accept
  <2>2. 0 \in Nat
    OBVIOUS
  <2>3. [name |-> "resolve", n |-> 0] \in Ops /\ [name |-> "do_accept", n |-> 0] \in Ops
    BY <2>2, OpRecord, Zenon
  <2>4. \A op \in Ops : Done(op) \in Handlers
    BY DEF Done, Handlers
  <2> QED BY <2>1, <2>3, <2>4
<1>5. pending \in SUBSET Ops /\ ready \in Seq(Handlers) /\ ran \in Seq(Handlers)
  <2>1. <<>> \in Seq(Handlers) /\ 1 \in Nat /\ 3 \in Nat /\ 4 \in Nat
    OBVIOUS
  <2>2. <<spawn>> \in Seq(Handlers)
    <3> HIDE DEF spawn
    <3> QED BY <1>4
  <2>3. Timer(3) \in Ops /\ Timer(4) \in Ops /\ Accept(1) \in Ops
    BY <1>4, <2>1
  <2>4. CASE program \in {"timer", "timer2"}
    BY <1>1, <1>2, <2>1, <2>3, <2>4
  <2>5. CASE program = "tcp"
    BY <1>1, <1>2, <1>4, <2>1, <2>5
  <2>6. CASE program = "asio3"
    BY <1>1, <1>2, <2>1, <2>3, <2>6
  <2>7. CASE program = "asio2"
    <3>1. pending = {} /\ ready = <<spawn>>
      BY <1>2, <2>7
    <3> HIDE DEF spawn
    <3> QED BY <1>1, <2>1, <2>2, <3>1
  <2>8. CASE program \in {"asio", "io_service"}
    <3>1. pending = {} /\ ready = Greeting
      BY <1>2, <2>8
    <3> QED BY <1>1, <2>1, <3>1, GreetingOps
  <2> QED BY <1>3, <2>4, <2>5, <2>6, <2>7, <2>8
<1>6. LoopTyped /\ LoopReturned
  BY <1>1, <1>5 DEF LoopTyped, LoopReturned
<1>7. OpsOf(<<>>) = {} /\ ToSet(<<>>) = {}
  BY DEF OpsOf, ToSet
<1>8. OpsOf(<<spawn>>) = {[name |-> "do_accept", n |-> 0]}
  BY DEF OpsOf, ToSet, Done
<1>10. Begun = pending \cup OpsOf(ready)
  BY <1>1, <1>7 DEF Begun
<1>11. /\ \A n \in 1 .. 2 : Write(n) \notin Begun
       /\ program # "timer2" => Timer(4) \notin Begun
  <2>1. CASE program \in {"timer", "timer2", "tcp", "asio3"}
    BY <2>1, <1>2, <1>7, <1>10 DEF Write, Timer, Accept
  <2>2. CASE program = "asio2"
    BY <2>2, <1>2, <1>8, <1>10 DEF Write, Timer
  <2>3. CASE program \in {"asio", "io_service"}
    <3>1. pending = {} /\ ready = Greeting
      BY <1>2, <2>3
    <3> QED BY <1>10, <3>1, GreetingOps
  <2> QED BY <1>3, <2>1, <2>2, <2>3
<1>12. LoopWrites
  BY <1>1, <1>7, <1>11 DEF LoopWrites
<1>13. ran \o ready = ready
  BY <1>1, <1>5
<1>14. LoopQueued
  BY <1>2, <1>11, <1>13 DEF LoopQueued, Timed
<1> QED BY <1>6, <1>12, <1>14, LoopParts

LEMMA LoopStep ==
  ASSUME Loop!Inv, [Loop!Next]_(Loop!vars)
  PROVE  Loop!Inv'
<1>1. CASE \E op \in pending : Loop!Complete(op)
  BY <1>1, LoopComplete
<1>2. CASE Loop!RunHandler
  BY <1>2, LoopRun
<1>3. CASE Loop!Return \/ Loop!Stop \/ Loop!Join
  BY <1>3, LoopMain
<1>4. CASE UNCHANGED Loop!vars
  <2>1. (LoopTyped /\ LoopQueued /\ LoopWrites /\ LoopReturned)'
    BY <1>4, LoopParts DEF Loop!vars, LoopTyped, LoopQueued, LoopWrites, LoopReturned, Begun
  <2> QED BY <2>1, LoopNextParts
<1> QED BY <1>1, <1>2, <1>3, <1>4
        DEF Loop!Next, Loop!Step, Loop!Thread, Loop!vars

LEMMA PrefixOf ==
  ASSUME NEW S, NEW s \in Seq(S), NEW t \in Seq(S)
  PROVE  Loop!IsPrefix(s, s \o t)
<1>1. Len(s) \in Nat /\ Len(s) <= Len(s \o t) /\ \A k \in 1 .. Len(s) : (s \o t)[k] = s[k]
  OBVIOUS
<1> DEFINE u == s \o t
<1> HIDE DEF u
<1>2. SubSeq(s, 1, Len(s)) = s
  OBVIOUS
<1>3. u \in Seq(S) /\ Len(s) <= Len(u) /\ \A k \in 1 .. Len(s) : u[k] = s[k]
  BY <1>1 DEF u
<1>4. /\ SubSeq(u, 1, Len(s)) \in Seq(S) /\ Len(SubSeq(u, 1, Len(s))) = Len(s)
      /\ \A k \in 1 .. Len(s) : SubSeq(u, 1, Len(s))[k] = u[k]
  BY <1>1, <1>3
<1>5. SubSeq(u, 1, Len(s)) = s
  BY <1>3, <1>4
<1> QED BY <1>2, <1>3, <1>5 DEF Loop!IsPrefix, u

LEMMA LoopSafe == Loop!Inv => Loop!EventLoopsSafe
<1> SUFFICES ASSUME Loop!Inv PROVE Loop!EventLoopsSafe
  OBVIOUS
<1>1. LoopTyped /\ LoopQueued /\ LoopWrites /\ LoopReturned
  BY LoopParts
<1>2. ran \in Seq(Handlers) /\ ready \in Seq(Handlers)
  BY <1>1 DEF LoopTyped
<1>3. \A s : Loop!ToSet(s) = ToSet(s)
  BY Zenon DEF Loop!ToSet, ToSet
<1>4. \A a, n : Loop!RanOk(a, n) <=> Done([name |-> a, n |-> n]) \in ToSet(ran)
  BY <1>3 DEF Loop!RanOk, Loop!Op, Done
<1>5. \A h \in ToSet(ran) : h.op \in OpsOf(ran)
  BY DEF OpsOf
<1>6. Loop!HandlersInOrder
  <2>1. program \in {"asio", "io_service"} => Loop!IsPrefix(ran, Loop!Posted)
    <3>1. Loop!Posted = Greeting
      BY DEF Loop!Posted, Loop!Handler, Loop!Op, Greeting, Done
    <3> QED BY <1>1, <1>2, <3>1, PrefixOf DEF LoopQueued
  <2>2. ASSUME Done(Timer(4)) \in ToSet(ran) PROVE Done(Timer(3)) \in ToSet(ran)
    <3>1. Timer(4) \in Begun
      BY <1>5, <2>2 DEF Done, Begun
    <3>2. Timed(pending, ran \o ready)
      BY <1>1, <3>1 DEF LoopQueued
    <3>3. PICK k \in 1 .. Len(ran) : ran[k] = Done(Timer(4))
      BY <1>2, <2>2 DEF ToSet
    <3>4. /\ Len(ran \o ready) = Len(ran) + Len(ready) /\ Len(ran) \in Nat /\ Len(ready) \in Nat
          /\ \A j \in 1 .. Len(ran) : (ran \o ready)[j] = ran[j]
      BY <1>2
    <3>5. Done(Timer(3)) # Done(Timer(4))
      BY DEF Done, Timer
    <3>6. CASE ran \o ready = <<Done(Timer(3)), Done(Timer(4))>>
      <4>1. k = 2 /\ 1 \in 1 .. Len(ran)
        BY <3>3, <3>4, <3>5, <3>6
      <4>2. ran[1] = Done(Timer(3))
        BY <3>4, <3>6, <4>1
      <4> QED BY <1>2, <4>1, <4>2 DEF ToSet
    <3>7. CASE ran \o ready = <<Done(Timer(3))>>
      BY <3>3, <3>4, <3>5, <3>7
    <3>8. CASE ran \o ready = <<>>
      BY <3>3, <3>4, <3>8
    <3> QED BY <3>2, <3>6, <3>7, <3>8 DEF Timed
  <2> QED BY <1>4, <2>1, <2>2 DEF Loop!HandlersInOrder, Timer
<1>7. Loop!ClientsAnswered
  <2> SUFFICES ASSUME NEW n \in 1 .. 2
               PROVE  /\ Write(n) \in pending => Done(Accept(n)) \in ToSet(ran)
                      /\ main = "over" /\ Done(Accept(n)) \in ToSet(ran) =>
                            \E h \in ToSet(ran) : h.op = Write(n)
    BY <1>3, <1>4 DEF Loop!ClientsAnswered, Loop!Op, Accept, Write
  <2>1. Write(n) \in Begun <=> Done(Accept(n)) \in ToSet(ran)
    BY <1>1 DEF LoopWrites
  <2>2. ASSUME main = "over", Done(Accept(n)) \in ToSet(ran)
        PROVE  \E h \in ToSet(ran) : h.op = Write(n)
    <3>1. stopped \/ (ready = <<>> /\ pending = {})
      BY <1>1, <2>2 DEF LoopReturned
    <3>2. ~stopped
      <4> SUFFICES ASSUME stopped PROVE FALSE
        OBVIOUS
      <4>1. ran \o ready = Greeting
        BY <1>1 DEF LoopReturned, LoopQueued
      <4>2. PICK k \in 1 .. Len(ran) : ran[k] = Done(Accept(n))
        BY <1>2, <2>2 DEF ToSet
      <4>3. k \in DOMAIN (ran \o ready) /\ (ran \o ready)[k] = Done(Accept(n))
        BY <1>2, <4>2
      <4>4. Done(Accept(n)) \in ToSet(Greeting)
        BY <4>1, <4>3 DEF ToSet
      <4> QED BY <4>4, GreetingOps, Zenon
    <3>3. OpsOf(<<>>) = {}
      BY DEF OpsOf, ToSet
    <3>4. Write(n) \in OpsOf(ran)
      BY <2>1, <2>2, <3>1, <3>2, <3>3 DEF Begun
    <3> QED BY <3>4 DEF OpsOf
  <2> QED BY <2>1, <2>2 DEF Begun
<1>8. Loop!WorkHoldsRun
  BY <1>1 DEF LoopReturned, Loop!WorkHoldsRun
<1> QED BY <1>6, <1>7, <1>8 DEF Loop!EventLoopsSafe

-----------------------------------------------------------------------------
(* Pipeline *)

(* A slot is taken exactly as long as one timer is armed for it.           *)
Serves(in_use, tm) ==
  /\ \A t \in tm : in_use[t.slot]
  /\ \A s \in DOMAIN in_use : in_use[s] => \E t \in tm : t.slot = s
  /\ \A t, u \in tm : t.slot = u.slot => t = u

(* The frames that were processed, those of the timers and those that wait *)
(* are all that have arrived, each of them once, and the last ones wait.   *)
Arrived(done, tm, wait) == done \cup {t.frame : t \in tm} \cup {wait[a] : a \in 1 .. Len(wait)}

Ahead(done, tm, wait) ==
  \A a \in 1 .. Len(wait) : (\A f \in done : f < wait[a]) /\ \A t \in tm : t.frame < wait[a]

InLine(wait) == \A a, b \in 1 .. Len(wait) : a < b => wait[a] < wait[b]

Once(done, tm) ==
  /\ \A t, u \in tm : t.frame = u.frame => t = u
  /\ \A t \in tm : t.frame \notin done

Lines(done, tm, wait, nr) ==
  Arrived(done, tm, wait) = 0 .. nr - 1 /\ Once(done, tm) /\ Ahead(done, tm, wait) /\ InLine(wait)

TimersOf(n, p) == [frame : 0 .. MaxFrames, slot : 1 .. n, left : 0 .. p]

(* The first free slots, m of them if there are so many.                   *)
Picks(slots, in_use, n, m) ==
  /\ slots \in Seq(1 .. n) /\ Len(slots) <= m
  /\ \A a \in 1 .. Len(slots) : ~in_use[slots[a]]
  /\ \A a, b \in 1 .. Len(slots) : slots[a] = slots[b] => a = b
  /\ Len(slots) < m => \A s \in 1 .. n : in_use[s] \/ \E a \in 1 .. Len(slots) : slots[a] = s

LEMMA MinOfTwo == ASSUME NEW a \in Nat, NEW b \in Nat
                  PROVE  Pipe!Min({a, b}) = IF a <= b THEN a ELSE b
<1> DEFINE m == IF a <= b THEN a ELSE b
<1>1. m \in {a, b} /\ \A y \in {a, b} : m <= y
  OBVIOUS
<1>2. \A x \in {a, b} : (\A y \in {a, b} : x <= y) => x = m
  OBVIOUS
<1> HIDE DEF m
<1>3. (CHOOSE x \in {a, b} : \A y \in {a, b} : x <= y) = m
  BY <1>1, <1>2
<1>4. Pipe!Min({a, b}) = m
  BY <1>3, Zenon DEF Pipe!Min
<1> QED BY <1>4 DEF m

LEMMA SameDropping == \A s, gone : Pipe!Dropping(s, gone) = Dropping(s, gone)
BY Zenon DEF Pipe!Dropping, Dropping

LEMMA FreeSlots ==
  ASSUME NEW n \in Nat, NEW in_use \in [1 .. n -> BOOLEAN]
  PROVE  \E free \in Seq(1 .. n) :
            /\ Pipe!Dropping([s \in DOMAIN in_use |-> s], DOMAIN in_use \ Pipe!Free(in_use)) = free
            /\ \A a, b \in 1 .. Len(free) : free[a] = free[b] => a = b
            /\ {free[a] : a \in 1 .. Len(free)} = {s \in 1 .. n : ~in_use[s]}
<1> DEFINE all == [s \in 1 .. n |-> s]
           gone == {s \in 1 .. n : in_use[s]}
           free == Dropping(all, gone)
<1>1. all \in Seq(1 .. n) /\ Len(all) = n /\ IsInjective(all)
  BY DEF IsInjective
<1>2. Range(all) = 1 .. n
  BY DEF Range
<1>3. DOMAIN in_use = 1 .. n /\ 1 .. n \ Pipe!Free(in_use) = gone
  BY DEF Pipe!Free
<1>4. Pipe!Dropping([s \in DOMAIN in_use |-> s], DOMAIN in_use \ Pipe!Free(in_use)) = free
  BY <1>3, SameDropping
<1> HIDE DEF all
<1>5. free \in Seq(1 .. n) /\ Range(free) = 1 .. n \ gone
  BY <1>1, <1>2, DroppingRange
<1>6. IsInjective(free)
  BY <1>1, DroppingInjective
<1> HIDE DEF free
<1>7. DOMAIN free = 1 .. Len(free)
  BY <1>5
<1>8. {free[a] : a \in 1 .. Len(free)} = {s \in 1 .. n : ~in_use[s]}
  BY <1>5, <1>7 DEF Range
<1>9. \A a, b \in 1 .. Len(free) : free[a] = free[b] => a = b
  BY <1>6, <1>7 DEF IsInjective
<1> QED BY <1>4, <1>5, <1>8, <1>9

LEMMA FirstFreeIs ==
  ASSUME NEW n \in Nat, NEW in_use \in [1 .. n -> BOOLEAN], NEW m \in Nat
  PROVE  Picks(Pipe!FirstFree(in_use, m), in_use, n, m)
<1>1. PICK free \in Seq(1 .. n) :
         /\ Pipe!Dropping([s \in DOMAIN in_use |-> s], DOMAIN in_use \ Pipe!Free(in_use)) = free
         /\ \A a, b \in 1 .. Len(free) : free[a] = free[b] => a = b
         /\ {free[a] : a \in 1 .. Len(free)} = {s \in 1 .. n : ~in_use[s]}
  BY FreeSlots, Zenon
<1> DEFINE k == IF m <= Len(free) THEN m ELSE Len(free)
           slots == SubSeq(free, 1, k)
<1>2. Pipe!FirstFree(in_use, m) = SubSeq(free, 1, Pipe!Min({m, Len(free)}))
  BY <1>1, Zenon DEF Pipe!FirstFree
<1>3. Len(free) \in Nat
  OBVIOUS
<1>4. Pipe!FirstFree(in_use, m) = slots
  BY <1>2, <1>3, MinOfTwo
<1>5. k \in 0 .. Len(free) /\ k <= m /\ (k < m => k = Len(free))
  BY <1>3
<1> HIDE DEF k
<1>6. /\ slots \in Seq(1 .. n) /\ Len(slots) = k
      /\ \A a \in 1 .. k : a \in 1 .. Len(free) /\ slots[a] = free[a]
  BY <1>1, <1>3, <1>5
<1> HIDE DEF slots
<1>7. Picks(slots, in_use, n, m)
  <2>1. \A a \in 1 .. k : ~in_use[slots[a]]
    <3> SUFFICES ASSUME NEW a \in 1 .. k PROVE ~in_use[slots[a]]
      OBVIOUS
    <3>1. slots[a] = free[a] /\ free[a] \in {free[b] : b \in 1 .. Len(free)}
      BY <1>6
    <3>2. free[a] \in {s \in 1 .. n : ~in_use[s]}
      BY <1>1, <3>1
    <3> QED BY <3>1, <3>2
  <2>2. \A a, b \in 1 .. k : slots[a] = slots[b] => a = b
    <3> SUFFICES ASSUME NEW a \in 1 .. k, NEW b \in 1 .. k, slots[a] = slots[b] PROVE a = b
      OBVIOUS
    <3>1. /\ a \in 1 .. Len(free) /\ slots[a] = free[a]
          /\ b \in 1 .. Len(free) /\ slots[b] = free[b]
      BY <1>6, Zenon
    <3>2. free[a] = free[b]
      BY <3>1, Zenon
    <3> QED BY <1>1, <3>1, <3>2, Zenon
  <2>3. ASSUME k < m, NEW s \in 1 .. n, ~in_use[s] PROVE \E a \in 1 .. k : slots[a] = s
    <3>1. s \in {t \in 1 .. n : ~in_use[t]}
      BY <2>3
    <3>2. s \in {free[a] : a \in 1 .. Len(free)}
      BY <1>1, <3>1, Zenon
    <3>3. PICK a \in 1 .. Len(free) : free[a] = s
      BY <3>2, Zenon
    <3> QED BY <1>5, <1>6, <2>3, <3>3
  <2> QED BY <1>5, <1>6, <2>1, <2>2, <2>3 DEF Picks
<1> QED BY <1>4, <1>7

(* Waiting frames are submitted to the slots that are picked.              *)
Take(in_use, slots) == [s \in DOMAIN in_use |-> in_use[s] \/ \E a \in 1 .. Len(slots) : slots[a] = s]

Arm(wait, slots, p) ==
  {[frame |-> wait[a], slot |-> slots[a], left |-> p] : a \in 1 .. Len(slots)}

Rest(wait, slots) == SubSeq(wait, Len(slots) + 1, Len(wait))

LEMMA ElementsOf ==
  ASSUME NEW S, NEW s \in Seq(S)
  PROVE  Len(s) \in Nat /\ \A a \in 1 .. Len(s) : s[a] \in S
OBVIOUS

LEMMA EmptyIs == ASSUME NEW S, NEW s \in Seq(S), s # <<>> PROVE Len(s) # 0
OBVIOUS

LEMMA RestOf ==
  ASSUME NEW S, NEW s \in Seq(S), NEW k \in 0 .. Len(s)
  PROVE  /\ SubSeq(s, k + 1, Len(s)) \in Seq(S) /\ Len(SubSeq(s, k + 1, Len(s))) = Len(s) - k
         /\ \A a \in 1 .. Len(s) - k : SubSeq(s, k + 1, Len(s))[a] = s[k + a]
<1>1. Len(s) \in Nat
  OBVIOUS
<1>2. SubSeq(s, k + 1, Len(s)) \in Seq(S) /\ Len(SubSeq(s, k + 1, Len(s))) = Len(s) - k
  BY <1>1
<1>3. \A a \in 1 .. Len(s) - k : SubSeq(s, k + 1, Len(s))[a] = s[k + a]
  BY <1>1, <1>2
<1> QED BY <1>2, <1>3

(* new are timers for the first of the waiting frames, one at each slot.   *)
AreFor(new, wait, slots, n, p) ==
  /\ new \subseteq TimersOf(n, p)
  /\ \A t \in new : t.left = p /\ \E a \in 1 .. Len(slots) : t.frame = wait[a] /\ t.slot = slots[a]
  /\ \A a \in 1 .. Len(slots) : \E t \in new : t.frame = wait[a] /\ t.slot = slots[a]
  /\ \A t, u \in new, a \in 1 .. Len(slots) :
        t.frame = wait[a] /\ t.slot = slots[a] /\ u.frame = wait[a] /\ u.slot = slots[a] => t = u

LEMMA NewTimers ==
  ASSUME NEW n \in Nat, NEW p \in Nat, NEW in_use, NEW wait \in Seq(0 .. MaxFrames), NEW slots,
         Picks(slots, in_use, n, Len(wait))
  PROVE  AreFor(Arm(wait, slots, p), wait, slots, n, p)
<1>1. /\ Len(slots) \in Nat /\ Len(slots) <= Len(wait)
      /\ \A a \in 1 .. Len(slots) : slots[a] \in 1 .. n
  BY DEF Picks
<1>2. \A a \in 1 .. Len(slots) : wait[a] \in 0 .. MaxFrames
  <2>1. Len(wait) \in Nat /\ \A a \in 1 .. Len(wait) : wait[a] \in 0 .. MaxFrames
    BY ElementsOf
  <2> QED BY <1>1, <2>1
<1>3. p \in 0 .. p
  OBVIOUS
<1> DEFINE new == Arm(wait, slots, p)
<1>4. new \subseteq TimersOf(n, p)
  BY <1>1, <1>2, <1>3 DEF Arm, TimersOf
<1>5. /\ \A t \in new : \E a \in 1 .. Len(slots) :
            t = [frame |-> wait[a], slot |-> slots[a], left |-> p]
      /\ \A a \in 1 .. Len(slots) : [frame |-> wait[a], slot |-> slots[a], left |-> p] \in new
  BY DEF Arm
<1> HIDE DEF new
<1>6. \A t \in new : t.left = p /\ \E a \in 1 .. Len(slots) : t.frame = wait[a] /\ t.slot = slots[a]
  BY <1>5, SMTT(30)
<1>7. \A a \in 1 .. Len(slots) : \E t \in new : t.frame = wait[a] /\ t.slot = slots[a]
  BY <1>5
<1>8. \A t \in new : t = [frame |-> t.frame, slot |-> t.slot, left |-> p]
  BY <1>5
<1>9. \A t, u \in new : t.frame = u.frame /\ t.slot = u.slot => t = u
  BY <1>8
<1> QED BY <1>4, <1>6, <1>7, <1>9 DEF AreFor, new

LEMMA SubmitServes ==
  ASSUME NEW n \in Nat, NEW p \in Nat, NEW in_use \in [1 .. n -> BOOLEAN],
         NEW tm \in SUBSET TimersOf(n, p), NEW wait \in Seq(0 .. MaxFrames), NEW slots,
         Serves(in_use, tm), Picks(slots, in_use, n, Len(wait))
  PROVE  Serves(Take(in_use, slots), tm \cup Arm(wait, slots, p))
<1> DEFINE new == Arm(wait, slots, p)
           took == Take(in_use, slots)
<1>0. AreFor(new, wait, slots, n, p)
  BY NewTimers
<1>1. /\ new \subseteq TimersOf(n, p)
      /\ \A t \in new : \E a \in 1 .. Len(slots) : t.frame = wait[a] /\ t.slot = slots[a]
      /\ \A a \in 1 .. Len(slots) : \E t \in new : t.frame = wait[a] /\ t.slot = slots[a]
      /\ \A t, u \in new, a \in 1 .. Len(slots) :
            t.frame = wait[a] /\ t.slot = slots[a] /\ u.frame = wait[a] /\ u.slot = slots[a]
            => t = u
  BY <1>0 DEF AreFor
<1>2. /\ DOMAIN took = 1 .. n /\ DOMAIN in_use = 1 .. n
      /\ \A s \in 1 .. n : took[s] <=> in_use[s] \/ \E a \in 1 .. Len(slots) : slots[a] = s
  BY DEF Take
<1>3. /\ \A a \in 1 .. Len(slots) : slots[a] \in 1 .. n /\ ~in_use[slots[a]]
      /\ \A a, b \in 1 .. Len(slots) : slots[a] = slots[b] => a = b
  BY DEF Picks
<1>4. \A t \in tm : t.slot \in 1 .. n /\ in_use[t.slot]
  BY DEF Serves, TimersOf
<1>5. /\ \A s \in 1 .. n : in_use[s] => \E t \in tm : t.slot = s
      /\ \A t, u \in tm : t.slot = u.slot => t = u
  BY <1>2 DEF Serves
<1> HIDE DEF new, took
<1>6. \A t \in tm \cup new : took[t.slot]
  BY <1>1, <1>2, <1>3, <1>4
<1>7. \A s \in 1 .. n : took[s] => \E t \in tm \cup new : t.slot = s
  <2> SUFFICES ASSUME NEW s \in 1 .. n, took[s] PROVE \E t \in tm \cup new : t.slot = s
    OBVIOUS
  <2>1. CASE in_use[s]
    BY <1>5, <2>1
  <2>2. CASE ~in_use[s]
    <3>1. PICK a \in 1 .. Len(slots) : slots[a] = s
      BY <1>2, <2>2
    <3>2. PICK t \in new : t.slot = slots[a]
      BY <1>1
    <3> QED BY <3>1, <3>2
  <2> QED BY <2>1, <2>2
<1>8. \A t, u \in tm \cup new : t.slot = u.slot => t = u
  <2>1. \A t \in tm, u \in new : t.slot # u.slot
    BY <1>1, <1>3, <1>4
  <2>2. ASSUME NEW t \in new, NEW u \in new, t.slot = u.slot PROVE t = u
    <3>1. PICK a \in 1 .. Len(slots) : t.frame = wait[a] /\ t.slot = slots[a]
      BY <1>1
    <3>2. PICK b \in 1 .. Len(slots) : u.frame = wait[b] /\ u.slot = slots[b]
      BY <1>1
    <3>3. a = b
      BY <1>3, <2>2, <3>1, <3>2
    <3> QED BY <1>1, <3>1, <3>2, <3>3
  <2> QED BY <1>5, <2>1, <2>2
<1>9. Serves(took, tm \cup new)
  BY <1>2, <1>6, <1>7, <1>8 DEF Serves
<1> QED BY <1>9 DEF took, new

LEMMA SubmitLines ==
  ASSUME NEW n \in Nat, NEW p \in Nat, NEW in_use, NEW nr \in Nat,
         NEW tm \in SUBSET TimersOf(n, p), NEW wait \in Seq(0 .. MaxFrames), NEW slots,
         NEW done \in SUBSET (0 .. MaxFrames),
         Lines(done, tm, wait, nr), Picks(slots, in_use, n, Len(wait))
  PROVE  /\ Rest(wait, slots) \in Seq(0 .. MaxFrames)
         /\ Lines(done, tm \cup Arm(wait, slots, p), Rest(wait, slots), nr)
<1> DEFINE new == Arm(wait, slots, p)
           rest == Rest(wait, slots)
           k == Len(slots)
           m == Len(wait)
<1>0. AreFor(new, wait, slots, n, p)
  BY NewTimers
<1>1. /\ new \subseteq TimersOf(n, p)
      /\ \A t \in new : \E a \in 1 .. k : t.frame = wait[a] /\ t.slot = slots[a]
      /\ \A a \in 1 .. k : \E t \in new : t.frame = wait[a] /\ t.slot = slots[a]
      /\ \A t, u \in new, a \in 1 .. k :
            t.frame = wait[a] /\ t.slot = slots[a] /\ u.frame = wait[a] /\ u.slot = slots[a]
            => t = u
  BY <1>0 DEF AreFor
<1>2. k \in Nat /\ m \in Nat /\ k <= m
  BY DEF Picks
<1>3. \A a \in 1 .. m : wait[a] \in 0 .. MaxFrames
  BY ElementsOf
<1>4. /\ rest \in Seq(0 .. MaxFrames) /\ Len(rest) = m - k
      /\ \A a \in 1 .. m - k : rest[a] = wait[k + a]
  <2>1. k \in 0 .. m
    BY <1>2
  <2> QED BY <2>1, RestOf DEF Rest
<1>5. /\ \A a, b \in 1 .. m : a < b => wait[a] < wait[b]
      /\ \A a \in 1 .. m : (\A f \in done : f < wait[a]) /\ \A t \in tm : t.frame < wait[a]
      /\ \A t, u \in tm : t.frame = u.frame => t = u
      /\ \A t \in tm : t.frame \notin done
      /\ Arrived(done, tm, wait) = 0 .. nr - 1
  BY DEF Lines, InLine, Ahead, Once
<1>6. \A t \in tm : t.frame \in 0 .. MaxFrames
  BY DEF TimersOf
<1>7. \A a, b \in 1 .. m : wait[a] = wait[b] => a = b
  BY <1>3, <1>5
<1>8. /\ \A a \in 1 .. m - k : k + a \in 1 .. m
      /\ \A a \in 1 .. m : a \in 1 .. k \/ (a - k \in 1 .. m - k /\ k + (a - k) = a)
      /\ \A a \in 1 .. k : a \in 1 .. m
  BY <1>2
<1> HIDE DEF new, rest, k, m
<1>9. {t.frame : t \in new} = {wait[a] : a \in 1 .. k}
  BY <1>1
<1>10. {wait[a] : a \in 1 .. m} = {wait[a] : a \in 1 .. k} \cup {rest[a] : a \in 1 .. Len(rest)}
  <2>1. \A a \in 1 .. m : wait[a] \in {wait[b] : b \in 1 .. k} \cup {rest[b] : b \in 1 .. Len(rest)}
    <3> SUFFICES ASSUME NEW a \in 1 .. m, a \notin 1 .. k PROVE \E b \in 1 .. Len(rest) : wait[a] = rest[b]
      OBVIOUS
    <3>1. a - k \in 1 .. m - k /\ k + (a - k) = a
      BY <1>8
    <3>2. rest[a - k] = wait[a]
      BY <1>4, <3>1
    <3> QED BY <1>4, <3>1, <3>2
  <2>2. \A a \in 1 .. k : wait[a] \in {wait[b] : b \in 1 .. m}
    BY <1>8
  <2>3. \A a \in 1 .. Len(rest) : rest[a] \in {wait[b] : b \in 1 .. m}
    BY <1>4, <1>8
  <2> QED BY <2>1, <2>2, <2>3
<1>11. Arrived(done, tm \cup new, rest) = Arrived(done, tm, wait)
  <2>1. {t.frame : t \in tm \cup new} = {t.frame : t \in tm} \cup {t.frame : t \in new}
    OBVIOUS
  <2> QED BY <1>9, <1>10, <2>1, Zenon DEF Arrived, m
<1>12. Once(done, tm \cup new)
  <2>1. \A t \in tm, u \in new : t.frame # u.frame
    BY <1>1, <1>3, <1>5, <1>6, <1>8
  <2>2. ASSUME NEW t \in new, NEW u \in new, t.frame = u.frame PROVE t = u
    <3>1. PICK a \in 1 .. k : t.frame = wait[a] /\ t.slot = slots[a]
      BY <1>1
    <3>2. PICK b \in 1 .. k : u.frame = wait[b] /\ u.slot = slots[b]
      BY <1>1
    <3>3. a = b
      BY <1>7, <1>8, <2>2, <3>1, <3>2
    <3> QED BY <1>1, <3>1, <3>2, <3>3
  <2>3. \A t \in new : t.frame \notin done
    <3> SUFFICES ASSUME NEW t \in new, t.frame \in done PROVE FALSE
      OBVIOUS
    <3>1. PICK a \in 1 .. k : t.frame = wait[a]
      BY <1>1
    <3>2. wait[a] \in 0 .. MaxFrames /\ wait[a] < wait[a]
      BY <1>3, <1>5, <1>8, <3>1
    <3> QED BY <3>2
  <2> QED BY <1>5, <2>1, <2>2, <2>3 DEF Once
<1>13. Ahead(done, tm \cup new, rest)
  <2> SUFFICES ASSUME NEW a \in 1 .. m - k
               PROVE  (\A f \in done : f < rest[a]) /\ \A t \in tm \cup new : t.frame < rest[a]
    BY <1>4, <1>2 DEF Ahead
  <2>1. rest[a] = wait[k + a] /\ k + a \in 1 .. m
    BY <1>4, <1>8
  <2>2. \A t \in new : t.frame < wait[k + a]
    <3> SUFFICES ASSUME NEW t \in new PROVE t.frame < wait[k + a]
      OBVIOUS
    <3>1. PICK b \in 1 .. k : t.frame = wait[b]
      BY <1>1
    <3>2. b < k + a /\ b \in 1 .. m
      BY <1>2, <1>8
    <3> QED BY <1>5, <2>1, <3>1, <3>2
  <2> QED BY <1>5, <2>1, <2>2
<1>14. InLine(rest)
  <2> SUFFICES ASSUME NEW a \in 1 .. m - k, NEW b \in 1 .. m - k, a < b PROVE rest[a] < rest[b]
    BY <1>4, <1>2 DEF InLine
  <2>1. k + a \in 1 .. m /\ k + b \in 1 .. m /\ k + a < k + b
    BY <1>2, <1>8
  <2> QED BY <1>4, <1>5, <2>1
<1> QED BY <1>4, <1>5, <1>11, <1>12, <1>13, <1>14 DEF Lines, new, rest

(* No frame waits beside a free slot.                                      *)
LEMMA SubmitFills ==
  ASSUME NEW n \in Nat, NEW in_use \in [1 .. n -> BOOLEAN], NEW wait \in Seq(0 .. MaxFrames),
         NEW slots, Picks(slots, in_use, n, Len(wait)), Rest(wait, slots) # <<>>
  PROVE  Pipe!Free(Take(in_use, slots)) = {}
<1>1. Len(slots) \in Nat /\ Len(wait) \in Nat /\ Len(slots) <= Len(wait)
  BY DEF Picks
<1>2. Len(slots) # Len(wait)
  BY <1>1 DEF Rest
<1>3. \A s \in 1 .. n : in_use[s] \/ \E a \in 1 .. Len(slots) : slots[a] = s
  BY <1>1, <1>2 DEF Picks
<1> QED BY <1>3 DEF Take, Pipe!Free

-----------------------------------------------------------------------------
(* The frames that arrive, are processed, and get older. *)

LEMMA ArrivedLines ==
  ASSUME NEW n \in Nat, NEW p \in Nat, NEW nr \in 0 .. MaxFrames, NEW tm \in SUBSET TimersOf(n, p),
         NEW wait \in Seq(0 .. MaxFrames), NEW done \in SUBSET (0 .. MaxFrames),
         Lines(done, tm, wait, nr)
  PROVE  /\ Append(wait, nr) \in Seq(0 .. MaxFrames) /\ Len(Append(wait, nr)) = Len(wait) + 1
         /\ Lines(done, tm, Append(wait, nr), nr + 1)
<1> DEFINE w == Append(wait, nr)
           m == Len(wait)
<1>1. m \in Nat /\ \A a \in 1 .. m : wait[a] \in 0 .. MaxFrames
  BY ElementsOf
<1>2. w \in Seq(0 .. MaxFrames) /\ Len(w) = m + 1 /\ w[m + 1] = nr /\ \A a \in 1 .. m : w[a] = wait[a]
  BY SeqAppend
<1>3. \A f \in Arrived(done, tm, wait) : f < nr
  BY DEF Lines
<1>4. /\ \A f \in done : f < nr
      /\ \A t \in tm : t.frame < nr
      /\ \A a \in 1 .. m : wait[a] < nr
  BY <1>3 DEF Arrived
<1> HIDE DEF w, m
<1>5. 1 .. m + 1 = (1 .. m) \cup {m + 1}
  BY <1>1
<1>6. {w[a] : a \in 1 .. Len(w)} = {wait[a] : a \in 1 .. m} \cup {nr}
  BY <1>2, <1>5
<1>7. Arrived(done, tm, w) = Arrived(done, tm, wait) \cup {nr}
  BY <1>6 DEF Arrived, m
<1>8. Arrived(done, tm, w) = 0 .. (nr + 1) - 1
  <2>1. Arrived(done, tm, wait) = 0 .. nr - 1
    BY DEF Lines
  <2> QED BY <1>7, <2>1
<1>9. Ahead(done, tm, w)
  <2> SUFFICES ASSUME NEW a \in 1 .. Len(w)
               PROVE  (\A f \in done : f < w[a]) /\ \A t \in tm : t.frame < w[a]
    BY DEF Ahead
  <2>1. CASE a = m + 1
    BY <1>2, <1>4, <2>1
  <2>2. CASE a \in 1 .. m
    BY <1>2, <2>2 DEF Lines, Ahead, m
  <2> QED BY <1>2, <1>5, <2>1, <2>2
<1>10. InLine(w)
  <2> SUFFICES ASSUME NEW a \in 1 .. m + 1, NEW b \in 1 .. m + 1, a < b PROVE w[a] < w[b]
    BY <1>2 DEF InLine
  <2>1. a \in 1 .. m /\ (b = m + 1 \/ b \in 1 .. m)
    BY <1>1
  <2> QED BY <1>2, <1>4, <2>1 DEF Lines, InLine, m
<1>11. Lines(done, tm, w, nr + 1)
  BY <1>8, <1>9, <1>10 DEF Lines
<1> QED BY <1>2, <1>11 DEF w, m

LEMMA FreedServes ==
  ASSUME NEW n \in Nat, NEW p \in Nat, NEW in_use \in [1 .. n -> BOOLEAN],
         NEW tm \in SUBSET TimersOf(n, p), Serves(in_use, tm), NEW t \in tm
  PROVE  /\ [in_use EXCEPT ![t.slot] = FALSE] \in [1 .. n -> BOOLEAN]
         /\ Serves([in_use EXCEPT ![t.slot] = FALSE], tm \ {t})
<1>1. t.slot \in 1 .. n
  BY DEF TimersOf
<1> DEFINE freed == [in_use EXCEPT ![t.slot] = FALSE]
<1>2. /\ freed \in [1 .. n -> BOOLEAN] /\ DOMAIN freed = DOMAIN in_use /\ ~freed[t.slot]
      /\ \A s \in DOMAIN in_use : s # t.slot => freed[s] = in_use[s]
  BY <1>1
<1>3. \A u \in tm : u.slot \in DOMAIN in_use
  BY DEF TimersOf
<1> HIDE DEF freed
<1>4. Serves(freed, tm \ {t})
  <2>1. \A u \in tm \ {t} : freed[u.slot]
    BY <1>2, <1>3 DEF Serves
  <2>2. \A s \in DOMAIN freed : freed[s] => \E u \in tm \ {t} : u.slot = s
    BY <1>2 DEF Serves
  <2> QED BY <2>1, <2>2 DEF Serves
<1> QED BY <1>2, <1>4 DEF freed

LEMMA ProcessedLines ==
  ASSUME NEW nr, NEW tm, NEW wait, NEW done, Lines(done, tm, wait, nr), NEW t \in tm
  PROVE  Lines(done \cup {t.frame}, tm \ {t}, wait, nr)
<1>1. Arrived(done \cup {t.frame}, tm \ {t}, wait) = Arrived(done, tm, wait)
  BY DEF Arrived
<1>2. Once(done \cup {t.frame}, tm \ {t})
  BY DEF Lines, Once
<1>3. Ahead(done \cup {t.frame}, tm \ {t}, wait)
  BY DEF Lines, Ahead
<1> QED BY <1>1, <1>2, <1>3 DEF Lines

Aged(tm) == {[t EXCEPT !.left = @ - 1] : t \in tm}

LEMMA AgedTimers ==
  ASSUME NEW n \in Nat, NEW p \in Nat, NEW tm \in SUBSET TimersOf(n, p), \A t \in tm : t.left # 0
  PROVE  /\ Aged(tm) \in SUBSET TimersOf(n, p)
         /\ \A u \in Aged(tm) : \E t \in tm :
               u = [frame |-> t.frame, slot |-> t.slot, left |-> t.left - 1]
         /\ \A t \in tm : [frame |-> t.frame, slot |-> t.slot, left |-> t.left - 1] \in Aged(tm)
<1>1. \A t \in tm : /\ t.frame \in 0 .. MaxFrames /\ t.slot \in 1 .. n /\ t.left \in 1 .. p
                     /\ [t EXCEPT !.left = @ - 1] =
                          [frame |-> t.frame, slot |-> t.slot, left |-> t.left - 1]
  BY DEF TimersOf
<1>2. \A l \in 1 .. p : l - 1 \in 0 .. p
  OBVIOUS
<1>3. Aged(tm) = {[frame |-> t.frame, slot |-> t.slot, left |-> t.left - 1] : t \in tm}
  BY <1>1, ZenonT(60) DEF Aged
<1>4. \A t \in tm : [frame |-> t.frame, slot |-> t.slot, left |-> t.left - 1] \in TimersOf(n, p)
  BY <1>1, <1>2 DEF TimersOf
<1> QED BY <1>3, <1>4

LEMMA AgedServes ==
  ASSUME NEW n \in Nat, NEW p \in Nat, NEW in_use, NEW tm \in SUBSET TimersOf(n, p),
         \A t \in tm : t.left # 0, NEW wait, NEW done, NEW nr,
         Serves(in_use, tm), Lines(done, tm, wait, nr)
  PROVE  Serves(in_use, Aged(tm)) /\ Lines(done, Aged(tm), wait, nr)
<1> DEFINE new == Aged(tm)
<1>1. \A u \in new : \E t \in tm : u = [frame |-> t.frame, slot |-> t.slot, left |-> t.left - 1]
  BY AgedTimers
<1>2. \A t \in tm : [frame |-> t.frame, slot |-> t.slot, left |-> t.left - 1] \in new
  BY AgedTimers
<1> HIDE DEF new
<1>3. \A u \in new : \E t \in tm : u.frame = t.frame /\ u.slot = t.slot /\ u.left = t.left - 1
                             /\ u = [frame |-> t.frame, slot |-> t.slot, left |-> t.left - 1]
  BY <1>1
<1>4. \A t \in tm : \E u \in new : u.frame = t.frame /\ u.slot = t.slot
  BY <1>2
<1>5. {t.frame : t \in new} = {t.frame : t \in tm}
  BY <1>3, <1>4
<1>6. Arrived(done, new, wait) = Arrived(done, tm, wait)
  BY <1>5 DEF Arrived
<1>7. Once(done, new)
  BY <1>3 DEF Lines, Once
<1>8. Ahead(done, new, wait)
  BY <1>3 DEF Lines, Ahead
<1>9. Serves(in_use, new)
  <2>1. \A u \in new : in_use[u.slot]
    BY <1>3 DEF Serves
  <2>2. \A s \in DOMAIN in_use : in_use[s] => \E u \in new : u.slot = s
    BY <1>4 DEF Serves
  <2>3. \A t, u \in new : t.slot = u.slot => t = u
    BY <1>3 DEF Serves
  <2> QED BY <2>1, <2>2, <2>3 DEF Serves
<1>10. Lines(done, new, wait, nr)
  BY <1>6, <1>7, <1>8 DEF Lines
<1> QED BY <1>9, <1>10 DEF new

-----------------------------------------------------------------------------
(* The steps of the pipeline. *)

PipeIs(n, period, p, in_use, wait, nr, inc, tm, done) ==
  /\ period \in IncomingPeriods /\ p \in ProcessingPeriods
  /\ in_use \in [1 .. n -> BOOLEAN] /\ wait \in Seq(0 .. MaxFrames) /\ nr \in 0 .. MaxFrames
  /\ inc \in 0 .. period /\ tm \in SUBSET TimersOf(n, p) /\ done \in SUBSET (0 .. MaxFrames)
  /\ Serves(in_use, tm) /\ Lines(done, tm, wait, nr)
  /\ wait # <<>> => Pipe!Free(in_use) = {}

PipeAt(n) ==
  PipeIs(n, incoming_period, processing_period, processors_in_use, frames_pending, frame_nr,
         incoming_timer, timers, processed)

PipeInv == \E n \in ProcessorCounts : PipeAt(n)

LEMMA OneElement ==
  ASSUME NEW S, NEW s \in Seq(S), s # <<>>, Len(s) <= 1
  PROVE  Len(s) = 1 /\ 1 \in 1 .. Len(s) /\ s[1] \in S
<1>1. Len(s) \in Nat /\ Len(s) # 0
  OBVIOUS
<1>2. Len(s) = 1
  BY <1>1
<1>3. DOMAIN s = 1 .. 1
  BY <1>2
<1>4. 1 \in 1 .. 1
  OBVIOUS
<1>5. s[1] \in S
  BY <1>3, <1>4, ElementsOf
<1> QED BY <1>2, <1>4, <1>5

LEMMA WholeOf ==
  ASSUME NEW S, NEW s \in Seq(S)
  PROVE  SubSeq(s, 1, Len(s)) = s
<1>1. SubSeq(s, 1, Len(s)) \in Seq(S) /\ Len(SubSeq(s, 1, Len(s))) = Len(s)
  OBVIOUS
<1>2. \A a \in 1 .. Len(s) : SubSeq(s, 1, Len(s))[a] = s[a]
  OBVIOUS
<1> QED BY <1>1, <1>2

LEMMA OneAppended ==
  ASSUME NEW e
  PROVE  /\ Append(<<>>, e) = <<e>> /\ Len(<<e>>) = 1 /\ SubSeq(<<e>>, 1, 1) = <<e>>
         /\ SubSeq(<<e>>, 1 + 1, 1) = <<>>
<1>1. Append(<<>>, e) = <<e>> /\ Len(<<e>>) = 1 /\ <<e>> \in Seq({e})
  OBVIOUS
<1>2. SubSeq(<<e>>, 1, 1) = <<e>>
  BY <1>1, WholeOf
<1>3. SubSeq(<<e>>, 1 + 1, 1) = <<>>
  OBVIOUS
<1> QED BY <1>1, <1>2, <1>3

LEMMA TakenIs ==
  ASSUME NEW n, NEW in_use, NEW slots \in Seq(1 .. n)
  PROVE  Pipe!Taken(in_use, slots) = Take(in_use, slots)
<1>1. DOMAIN slots = 1 .. Len(slots)
  OBVIOUS
<1>2. \A s : s \in Pipe!ToSet(slots) <=> \E a \in 1 .. Len(slots) : slots[a] = s
  BY <1>1, Zenon DEF Pipe!ToSet
<1> QED BY <1>2 DEF Pipe!Taken, Take

LEMMA ArmedIs ==
  ASSUME NEW n, NEW wait \in Seq(0 .. MaxFrames), NEW slots \in Seq(1 .. n), Len(slots) <= Len(wait)
  PROVE  Pipe!Armed(SubSeq(wait, 1, Len(slots)), slots) = Arm(wait, slots, processing_period)
<1>1. Len(slots) \in Nat /\ Len(wait) \in Nat
  OBVIOUS
<1> DEFINE next == SubSeq(wait, 1, Len(slots))
<1>2. DOMAIN next = 1 .. Len(slots) /\ \A a \in 1 .. Len(slots) : next[a] = wait[a]
  BY <1>1
<1> HIDE DEF next
<1>3. Pipe!Armed(next, slots) = Arm(wait, slots, processing_period)
  BY <1>2 DEF Pipe!Armed, Arm
<1> QED BY <1>3 DEF next

LEMMA TakeType ==
  ASSUME NEW n, NEW in_use \in [1 .. n -> BOOLEAN], NEW slots
  PROVE  Take(in_use, slots) \in [1 .. n -> BOOLEAN]
BY DEF Take

(* Waiting frames are submitted to the first free slots.                   *)
LEMMA Submitted ==
  ASSUME NEW n \in ProcessorCounts, NEW period, NEW p, NEW in_use, NEW wait, NEW nr, NEW inc,
         NEW tm, NEW done,
         period \in IncomingPeriods, p \in ProcessingPeriods,
         in_use \in [1 .. n -> BOOLEAN], wait \in Seq(0 .. MaxFrames), nr \in 0 .. MaxFrames,
         inc \in 0 .. period, tm \in SUBSET TimersOf(n, p), done \in SUBSET (0 .. MaxFrames),
         Serves(in_use, tm), Lines(done, tm, wait, nr),
         NEW slots, Picks(slots, in_use, n, Len(wait))
  PROVE  PipeIs(n, period, p, Take(in_use, slots), Rest(wait, slots), nr, inc,
                tm \cup Arm(wait, slots, p), done)
<1>1. n \in Nat /\ p \in Nat /\ nr \in Nat
  BY CountsAssumption, PeriodsAssumption, FramesAssumption
<1>2. Take(in_use, slots) \in [1 .. n -> BOOLEAN]
  BY TakeType
<1>3. Serves(Take(in_use, slots), tm \cup Arm(wait, slots, p))
  BY <1>1, SubmitServes
<1>4. Rest(wait, slots) \in Seq(0 .. MaxFrames)
  BY <1>1, SubmitLines
<1>5. Lines(done, tm \cup Arm(wait, slots, p), Rest(wait, slots), nr)
  BY <1>1, SubmitLines
<1>6. Rest(wait, slots) # <<>> => Pipe!Free(Take(in_use, slots)) = {}
  BY <1>1, SubmitFills
<1>7. Arm(wait, slots, p) \subseteq TimersOf(n, p)
  <2>1. AreFor(Arm(wait, slots, p), wait, slots, n, p)
    BY <1>1, NewTimers
  <2> QED BY <2>1 DEF AreFor
<1>8. tm \cup Arm(wait, slots, p) \in SUBSET TimersOf(n, p)
  BY <1>7
<1> QED BY <1>2, <1>3, <1>4, <1>5, <1>6, <1>8, Zenon DEF PipeIs

LEMMA PipeProcessed ==
  ASSUME NEW n \in ProcessorCounts, PipeAt(n), NEW t \in timers, Pipe!frame_processed(t)
  PROVE  PipeAt(n)'
<1> DEFINE period == incoming_period
           p == processing_period
           freed == [processors_in_use EXCEPT ![t.slot] = FALSE]
           wait == frames_pending
           slots == Pipe!FirstFree(freed, Len(wait))
           tm == timers \ {t}
           done == processed \cup {t.frame}
<1>2. /\ period \in IncomingPeriods /\ p \in ProcessingPeriods
      /\ processors_in_use \in [1 .. n -> BOOLEAN] /\ wait \in Seq(0 .. MaxFrames)
      /\ frame_nr \in 0 .. MaxFrames /\ incoming_timer \in 0 .. period
      /\ timers \in SUBSET TimersOf(n, p) /\ processed \in SUBSET (0 .. MaxFrames)
      /\ Serves(processors_in_use, timers) /\ Lines(processed, timers, wait, frame_nr)
  BY DEF PipeIs, PipeAt
<1>3. n \in Nat /\ p \in Nat
  BY <1>2, CountsAssumption, PeriodsAssumption
<1>4. freed \in [1 .. n -> BOOLEAN] /\ Serves(freed, tm)
  BY <1>2, <1>3, FreedServes
<1>5. Lines(done, tm, wait, frame_nr)
  BY <1>2, ProcessedLines
<1>6. tm \in SUBSET TimersOf(n, p) /\ done \in SUBSET (0 .. MaxFrames)
  BY <1>2 DEF TimersOf
<1>7. Len(wait) \in Nat
  BY <1>2
<1>8. Picks(slots, freed, n, Len(wait))
  <2> HIDE DEF freed, wait
  <2> QED BY <1>3, <1>4, <1>7, FirstFreeIs
<1>9. slots \in Seq(1 .. n) /\ Len(slots) <= Len(wait)
  BY <1>8 DEF Picks
<1>10. /\ processors_in_use' = Pipe!Taken(freed, slots)
       /\ timers' = tm \cup Pipe!Armed(SubSeq(wait, 1, Len(slots)), slots)
       /\ frames_pending' = Rest(wait, slots)
       /\ processed' = done
       /\ incoming_period' = period /\ processing_period' = p
       /\ frame_nr' = frame_nr /\ incoming_timer' = incoming_timer
  BY DEF Pipe!frame_processed, Pipe!args, Rest
<1> HIDE DEF freed, slots, wait, tm, done, period, p
<1>11. processors_in_use' = Take(freed, slots)
  BY <1>9, <1>10, TakenIs
<1>12. timers' = tm \cup Arm(wait, slots, p)
  BY <1>2, <1>9, <1>10, ArmedIs DEF p
<1>13. PipeIs(n, period, p, Take(freed, slots), Rest(wait, slots), frame_nr, incoming_timer,
              tm \cup Arm(wait, slots, p), done)
  BY <1>2, <1>4, <1>5, <1>6, <1>8, Submitted
<1>14. PipeIs(n, incoming_period', processing_period', processors_in_use', frames_pending',
              frame_nr', incoming_timer', timers', processed')
  BY <1>10, <1>11, <1>12, <1>13
<1> QED BY <1>14, Zenon DEF PipeAt

LEMMA PipeReceive ==
  ASSUME NEW n \in ProcessorCounts, PipeAt(n), Pipe!frame_receive
  PROVE  PipeAt(n)'
<1> DEFINE period == incoming_period
           p == processing_period
           in_use == processors_in_use
           wait == Append(frames_pending, frame_nr)
           slots == Pipe!FirstFree(in_use, 1)
           nr == frame_nr + 1
<1>2. /\ period \in IncomingPeriods /\ p \in ProcessingPeriods
      /\ in_use \in [1 .. n -> BOOLEAN] /\ frames_pending \in Seq(0 .. MaxFrames)
      /\ frame_nr \in 0 .. MaxFrames /\ incoming_timer \in 0 .. period
      /\ timers \in SUBSET TimersOf(n, p) /\ processed \in SUBSET (0 .. MaxFrames)
      /\ Serves(in_use, timers) /\ Lines(processed, timers, frames_pending, frame_nr)
      /\ frames_pending # <<>> => Pipe!Free(in_use) = {}
  BY DEF PipeIs, PipeAt
<1>3. n \in Nat /\ p \in Nat /\ period \in Nat /\ period \in 0 .. period
  BY <1>2, CountsAssumption, PeriodsAssumption
<1>4. frame_nr < MaxFrames
  BY DEF Pipe!frame_receive
<1>5. nr \in 0 .. MaxFrames
  BY <1>2, <1>4, FramesAssumption
<1>6. /\ wait \in Seq(0 .. MaxFrames) /\ Len(wait) = Len(frames_pending) + 1
      /\ Lines(processed, timers, wait, nr)
  BY <1>2, <1>3, ArrivedLines
<1>7. Picks(slots, in_use, n, 1)
  <2> HIDE DEF in_use
  <2> QED BY <1>2, <1>3, FirstFreeIs
<1>8. slots \in Seq(1 .. n) /\ Len(slots) <= 1
  BY <1>7 DEF Picks
<1>9. /\ incoming_period' = period /\ processing_period' = p /\ processed' = processed
      /\ frame_nr' = nr /\ incoming_timer' = period
  BY DEF Pipe!frame_receive, Pipe!args
<1>10. \/ /\ slots # <<>>
          /\ timers' = timers \cup Pipe!Armed(<<frame_nr>>, slots)
          /\ processors_in_use' = Pipe!Taken(in_use, slots)
          /\ frames_pending' = frames_pending
       \/ /\ slots = <<>>
          /\ frames_pending' = wait /\ timers' = timers /\ processors_in_use' = in_use
  BY DEF Pipe!frame_receive
<1>11. CASE slots # <<>>
  <2>1. Len(slots) = 1 /\ 1 \in 1 .. Len(slots) /\ slots[1] \in 1 .. n
    BY <1>8, <1>11, OneElement
  <2>2. ~in_use[slots[1]]
    BY <1>7, <2>1 DEF Picks
  <2>3. slots[1] \in Pipe!Free(in_use)
    BY <1>2, <2>1, <2>2 DEF Pipe!Free
  <2>4. frames_pending = <<>>
    BY <1>2, <2>3
  <2>5. wait = <<frame_nr>> /\ Len(wait) = 1 /\ SubSeq(wait, 1, 1) = <<frame_nr>>
        /\ SubSeq(wait, 1 + 1, 1) = <<>>
    BY <2>4, OneAppended
  <2> HIDE DEF slots, wait, period, p, in_use, nr
  <2>6. Picks(slots, in_use, n, Len(wait))
    BY <1>7, <2>5
  <2>7. PipeIs(n, period, p, Take(in_use, slots), Rest(wait, slots), nr, period,
               timers \cup Arm(wait, slots, p), processed)
    BY <1>2, <1>3, <1>5, <1>6, <2>6, Submitted
  <2>8. processors_in_use' = Take(in_use, slots)
    BY <1>8, <1>10, <1>11, TakenIs
  <2>9. timers' = timers \cup Arm(wait, slots, p)
    BY <1>6, <1>8, <1>10, <1>11, <2>1, <2>5, ArmedIs DEF p
  <2>10. frames_pending' = Rest(wait, slots)
    BY <1>10, <1>11, <2>1, <2>4, <2>5 DEF Rest
  <2>11. PipeIs(n, incoming_period', processing_period', processors_in_use', frames_pending',
                frame_nr', incoming_timer', timers', processed')
    BY <1>9, <2>7, <2>8, <2>9, <2>10
  <2> QED BY <2>11, Zenon DEF PipeAt
<1>12. CASE slots = <<>>
  <2>1. Len(slots) = 0
    BY <1>12
  <2>2. \A s \in 1 .. n : in_use[s]
    BY <1>7, <2>1 DEF Picks
  <2>3. Pipe!Free(in_use) = {}
    BY <1>2, <2>2 DEF Pipe!Free
  <2> HIDE DEF slots, wait, period, p, in_use, nr
  <2>4. PipeIs(n, period, p, in_use, wait, nr, period, timers, processed)
    BY <1>2, <1>3, <1>5, <1>6, <2>3 DEF PipeIs
  <2>5. PipeIs(n, incoming_period', processing_period', processors_in_use', frames_pending',
               frame_nr', incoming_timer', timers', processed')
    BY <1>9, <1>10, <1>12, <2>4
  <2> QED BY <2>5, Zenon DEF PipeAt
<1> QED BY <1>11, <1>12

LEMMA PipeTick ==
  ASSUME NEW n \in ProcessorCounts, PipeAt(n), Pipe!Tick
  PROVE  PipeAt(n)'
<1>2. /\ incoming_period \in IncomingPeriods /\ processing_period \in ProcessingPeriods
      /\ incoming_timer \in 0 .. incoming_period
      /\ timers \in SUBSET TimersOf(n, processing_period)
      /\ Serves(processors_in_use, timers) /\ Lines(processed, timers, frames_pending, frame_nr)
  BY DEF PipeIs, PipeAt
<1>3. n \in Nat /\ processing_period \in Nat /\ incoming_period \in Nat
  BY <1>2, CountsAssumption, PeriodsAssumption
<1>4. /\ \A t \in timers : t.left # 0
      /\ timers' = Aged(timers)
      /\ incoming_timer' = IF incoming_timer > 0 THEN incoming_timer - 1 ELSE 0
      /\ UNCHANGED <<incoming_period, processing_period, processors_in_use, frames_pending,
                     frame_nr, processed>>
  BY DEF Pipe!Tick, Pipe!Expired, Pipe!args, Aged
<1>5. incoming_timer' \in 0 .. incoming_period
  BY <1>2, <1>3, <1>4
<1>6. Aged(timers) \in SUBSET TimersOf(n, processing_period)
  BY <1>2, <1>3, <1>4, AgedTimers
<1>7. Serves(processors_in_use, Aged(timers)) /\ Lines(processed, Aged(timers), frames_pending, frame_nr)
  BY <1>2, <1>3, <1>4, AgedServes
<1>8. PipeIs(n, incoming_period, processing_period, processors_in_use, frames_pending, frame_nr,
             incoming_timer', Aged(timers), processed)
  BY <1>5, <1>6, <1>7 DEF PipeIs, PipeAt
<1>9. PipeIs(n, incoming_period', processing_period', processors_in_use', frames_pending',
             frame_nr', incoming_timer', timers', processed')
  BY <1>4, <1>8
<1> QED BY <1>9, Zenon DEF PipeAt

LEMMA PipeStep ==
  ASSUME NEW n \in ProcessorCounts, PipeAt(n), [Pipe!Next]_(Pipe!vars)
  PROVE  PipeAt(n)'
<1>1. CASE UNCHANGED Pipe!vars
  BY <1>1 DEF Pipe!vars, Pipe!args, PipeAt
<1>2. CASE Pipe!Next
  BY <1>2, PipeReceive, PipeProcessed, PipeTick DEF Pipe!Next
<1> QED BY <1>1, <1>2

LEMMA PipeInit == Pipe!Init => PipeInv
<1> SUFFICES ASSUME Pipe!Init PROVE PipeInv
  OBVIOUS
<1>1. PICK n \in ProcessorCounts : processors_in_use = [s \in 1 .. n |-> FALSE]
  BY Zenon DEF Pipe!Init
<1>2. /\ incoming_period \in IncomingPeriods /\ processing_period \in ProcessingPeriods
      /\ frames_pending = <<>> /\ frame_nr = 0 /\ incoming_timer = 0 /\ timers = {} /\ processed = {}
  BY DEF Pipe!Init
<1>3. 0 \in 0 .. incoming_period /\ 0 \in 0 .. MaxFrames /\ 0 .. 0 - 1 = {}
  BY <1>2, PeriodsAssumption, FramesAssumption
<1>4. Serves(processors_in_use, timers)
  BY <1>1, <1>2 DEF Serves
<1>5. Len(frames_pending) = 0 /\ frames_pending \in Seq(0 .. MaxFrames)
  BY <1>2
<1>6. Lines(processed, timers, frames_pending, frame_nr)
  BY <1>2, <1>3, <1>5 DEF Lines, Arrived, Once, Ahead, InLine
<1>7. processors_in_use \in [1 .. n -> BOOLEAN]
  BY <1>1
<1>8. timers \in SUBSET TimersOf(n, processing_period) /\ processed \in SUBSET (0 .. MaxFrames)
  BY <1>2
<1>9. PipeIs(n, incoming_period, processing_period, processors_in_use, frames_pending, frame_nr,
             incoming_timer, timers, processed)
  BY <1>2, <1>3, <1>4, <1>5, <1>6, <1>7, <1>8 DEF PipeIs
<1> QED BY <1>9, Zenon DEF PipeInv, PipeAt

-----------------------------------------------------------------------------
(* What the invariant says of the frames. *)

LEMMA SameSize ==
  ASSUME NEW S, NEW T, IsFiniteSet(T), NEW h \in [S -> T],
         \A x, y \in S : h[x] = h[y] => x = y, \A y \in T : \E x \in S : h[x] = y
  PROVE  IsFiniteSet(S) /\ Cardinality(S) = Cardinality(T)
<1>1. h \in Injection(S, T)
  BY DEF Injection, IsInjective
<1>2. h \in Surjection(S, T)
  BY DEF Surjection
<1> QED BY <1>1, <1>2, FS_Injection

LEMMA DisjointSizes ==
  ASSUME NEW S, NEW T, IsFiniteSet(S), IsFiniteSet(T), S \cap T = {}
  PROVE  /\ IsFiniteSet(S \cup T)
         /\ Cardinality(S \cup T) = Cardinality(S) + Cardinality(T)
<1>1. IsFiniteSet(S \cup T)
  BY FS_Union
<1>2. Cardinality(S \cup T) = Cardinality(S) + Cardinality(T) - Cardinality(S \cap T)
  BY FS_Union
<1>3. Cardinality(S) \in Nat /\ Cardinality(T) \in Nat /\ Cardinality(S \cap T) = 0
  BY FS_CardinalityType, FS_EmptySet
<1> QED BY <1>1, <1>2, <1>3

LEMMA NumbersBelow ==
  ASSUME NEW n \in Nat
  PROVE  IsFiniteSet(0 .. n - 1) /\ Cardinality(0 .. n - 1) = n
<1> DEFINE a == 0
           b == n - 1
<1>1. a \in Int /\ b \in Int /\ (IF a > b THEN 0 ELSE b - a + 1) = n
  OBVIOUS
<1> HIDE DEF a, b
<1>2. IsFiniteSet(a .. b) /\ Cardinality(a .. b) = IF a > b THEN 0 ELSE b - a + 1
  BY <1>1, FS_Interval
<1> QED BY <1>1, <1>2 DEF a, b

LEMMA FramesCounted ==
  ASSUME NEW n \in Nat, NEW p \in Nat, NEW nr \in Nat, NEW tm \in SUBSET TimersOf(n, p),
         NEW wait \in Seq(0 .. MaxFrames), NEW done \in SUBSET (0 .. MaxFrames),
         Lines(done, tm, wait, nr)
  PROVE  /\ IsFiniteSet(tm)
         /\ Cardinality(done) + Cardinality(tm) + Len(wait) = nr
<1> DEFINE running == {t.frame : t \in tm}
           waiting == {wait[a] : a \in 1 .. Len(wait)}
           m == Len(wait)
           of == [t \in tm |-> t.frame]
           at == [a \in 1 .. m |-> wait[a]]
<1>1. Len(wait) \in Nat /\ \A a \in 1 .. Len(wait) : wait[a] \in 0 .. MaxFrames
  BY ElementsOf
<1>2. /\ done \cup running \cup waiting = 0 .. nr - 1
      /\ \A t, u \in tm : t.frame = u.frame => t = u
      /\ \A t \in tm : t.frame \notin done /\ t.frame \in 0 .. MaxFrames
      /\ \A a \in 1 .. m : (\A f \in done : f < wait[a]) /\ \A t \in tm : t.frame < wait[a]
      /\ \A a, b \in 1 .. m : a < b => wait[a] < wait[b]
  BY DEF Lines, Arrived, Once, Ahead, InLine, TimersOf
<1>3. IsFiniteSet(0 .. nr - 1) /\ Cardinality(0 .. nr - 1) = nr
  BY NumbersBelow
<1>4. IsFiniteSet(done) /\ IsFiniteSet(running) /\ IsFiniteSet(waiting)
  <2>1. done \in SUBSET (0 .. nr - 1) /\ running \in SUBSET (0 .. nr - 1) /\ waiting \in SUBSET (0 .. nr - 1)
    BY <1>2
  <2> HIDE DEF running, waiting
  <2> QED BY <1>3, <2>1, FS_Subset
<1>5. done \cap running = {}
  BY <1>2
<1>6. (done \cup running) \cap waiting = {}
  <2> SUFFICES ASSUME NEW a \in 1 .. m, wait[a] \in done \cup running PROVE FALSE
    OBVIOUS
  <2>1. wait[a] < wait[a] /\ wait[a] \in 0 .. MaxFrames
    BY <1>1, <1>2
  <2> QED BY <2>1, FramesAssumption
<1>7. IsFiniteSet(tm) /\ Cardinality(tm) = Cardinality(running)
  <2>1. of \in [tm -> running]
    OBVIOUS
  <2>2. (\A x, y \in tm : of[x] = of[y] => x = y) /\ \A y \in running : \E x \in tm : of[x] = y
    BY <1>2
  <2> HIDE DEF of, running
  <2> QED BY <1>4, <2>1, <2>2, SameSize
<1>8. Cardinality(1 .. m) = Cardinality(waiting)
  <2>1. at \in [1 .. m -> waiting]
    OBVIOUS
  <2>2. \A x, y \in 1 .. m : at[x] = at[y] => x = y
    <3> SUFFICES ASSUME NEW x \in 1 .. m, NEW y \in 1 .. m, wait[x] = wait[y], x # y PROVE FALSE
      OBVIOUS
    <3>1. wait[x] \in 0 .. MaxFrames /\ wait[y] \in 0 .. MaxFrames
      BY <1>1
    <3>2. CASE x < y
      <4>1. wait[x] < wait[y]
        BY <1>2, <3>2
      <4> QED BY <3>1, <4>1, FramesAssumption
    <3>3. CASE y < x
      <4>1. wait[y] < wait[x]
        BY <1>2, <3>3
      <4> QED BY <3>1, <4>1, FramesAssumption
    <3> QED BY <1>1, <3>2, <3>3
  <2>3. \A y \in waiting : \E x \in 1 .. m : at[x] = y
    OBVIOUS
  <2> HIDE DEF at, waiting, m
  <2> QED BY <1>4, <2>1, <2>2, <2>3, SameSize, ZenonT(60)
<1>9. Cardinality(1 .. m) = m
  BY <1>1, IntervalSize
<1> HIDE DEF running, waiting, m
<1>10. /\ IsFiniteSet(done \cup running)
       /\ Cardinality(done \cup running) = Cardinality(done) + Cardinality(running)
  BY <1>4, <1>5, DisjointSizes
<1>11. Cardinality((done \cup running) \cup waiting) =
          Cardinality(done \cup running) + Cardinality(waiting)
  BY <1>4, <1>6, <1>10, DisjointSizes
<1> QED BY <1>2, <1>3, <1>7, <1>8, <1>9, <1>10, <1>11 DEF m

LEMMA TimersCounted ==
  ASSUME NEW in_use, NEW tm, Serves(in_use, tm), NEW s \in DOMAIN in_use, in_use[s] \in BOOLEAN
  PROVE  Cardinality({t \in tm : t.slot = s}) = IF in_use[s] THEN 1 ELSE 0
<1> DEFINE its == {t \in tm : t.slot = s}
<1>1. CASE in_use[s]
  <2>1. PICK t \in tm : t.slot = s
    BY <1>1 DEF Serves
  <2>2. its = {t}
    BY <2>1 DEF Serves
  <2> QED BY <1>1, <2>2, FS_Singleton
<1>2. CASE ~in_use[s]
  <2>1. its = {}
    BY <1>2 DEF Serves
  <2> QED BY <1>2, <2>1, FS_EmptySet
<1> QED BY <1>1, <1>2

LEMMA PipeSafe == PipeInv => Pipe!Inv /\ Pipe!NoIdleWhilePending /\ Pipe!InOrder
<1> SUFFICES ASSUME PipeInv PROVE Pipe!Inv /\ Pipe!NoIdleWhilePending /\ Pipe!InOrder
  OBVIOUS
<1>0. PICK n \in ProcessorCounts : PipeAt(n)
  BY Zenon DEF PipeInv
<1>1. /\ incoming_period \in IncomingPeriods /\ processing_period \in ProcessingPeriods
      /\ processors_in_use \in [1 .. n -> BOOLEAN] /\ frames_pending \in Seq(0 .. MaxFrames)
      /\ frame_nr \in 0 .. MaxFrames /\ incoming_timer \in 0 .. incoming_period
      /\ timers \in SUBSET TimersOf(n, processing_period) /\ processed \in SUBSET (0 .. MaxFrames)
      /\ Serves(processors_in_use, timers) /\ Lines(processed, timers, frames_pending, frame_nr)
      /\ frames_pending # <<>> => Pipe!Free(processors_in_use) = {}
  BY <1>0 DEF PipeIs, PipeAt
<1>2. n \in Nat /\ processing_period \in Nat /\ frame_nr \in Nat
  BY <1>1, CountsAssumption, PeriodsAssumption, FramesAssumption
<1>3. /\ \A S : Pipe!Cardinality(S) = Cardinality(S)
      /\ Pipe!ToSet(frames_pending) = {frames_pending[a] : a \in 1 .. Len(frames_pending)}
      /\ DOMAIN frames_pending = 1 .. Len(frames_pending) /\ DOMAIN processors_in_use = 1 .. n
  <2>1. \A S : Pipe!Cardinality(S) = Cardinality(S)
    BY Zenon DEF Pipe!Cardinality, Cardinality
  <2>2. DOMAIN frames_pending = 1 .. Len(frames_pending) /\ DOMAIN processors_in_use = 1 .. n
    BY <1>1
  <2>3. Pipe!ToSet(frames_pending) = {frames_pending[a] : a \in 1 .. Len(frames_pending)}
    BY <2>2, Zenon DEF Pipe!ToSet
  <2> QED BY <2>1, <2>2, <2>3
<1>4. Pipe!TypeOK
  BY <1>1, <1>3 DEF Pipe!TypeOK, Pipe!Slots, TimersOf
<1>5. Pipe!OneTimerPerTakenSlot
  <2> SUFFICES ASSUME NEW s \in DOMAIN processors_in_use
               PROVE  Pipe!Cardinality({t \in timers : t.slot = s})
                         = IF processors_in_use[s] THEN 1 ELSE 0
    BY Zenon DEF Pipe!OneTimerPerTakenSlot, Pipe!Slots
  <2>1. processors_in_use[s] \in BOOLEAN
    BY <1>1
  <2>2. Serves(processors_in_use, timers)
    BY <1>1
  <2>3. Cardinality({t \in timers : t.slot = s}) = IF processors_in_use[s] THEN 1 ELSE 0
    BY <2>1, <2>2, TimersCounted, ZenonT(60)
  <2> QED BY <1>3, <2>3, Zenon
<1>6. Pipe!InOrder
  <2>1. Cardinality(processed) + Cardinality(timers) + Len(frames_pending) = frame_nr
    BY <1>1, <1>2, FramesCounted
  <2>2. processed \cup {t.frame : t \in timers} \cup Pipe!ToSet(frames_pending) = 0 .. frame_nr - 1
    BY <1>1, <1>3, Zenon DEF Lines, Arrived
  <2>3. \A f \in Pipe!ToSet(frames_pending), g \in processed \cup {t.frame : t \in timers} : g < f
    BY <1>1, <1>3 DEF Lines, Ahead
  <2>4. \A a, b \in DOMAIN frames_pending : a < b => frames_pending[a] < frames_pending[b]
    BY <1>1, <1>3 DEF Lines, InLine
  <2>5. Pipe!Cardinality(processed) + Pipe!Cardinality(timers) + Len(frames_pending) = frame_nr
    BY <1>3, <2>1
  <2> QED BY <2>2, <2>3, <2>4, <2>5, Zenon DEF Pipe!InOrder
<1> QED BY <1>1, <1>4, <1>5, <1>6 DEF Pipe!Inv, Pipe!NoIdleWhilePending

-----------------------------------------------------------------------------
(* The queue of frames does not grow while the processors keep up. *)

LEMMA OneMore ==
  ASSUME NEW a \in Int, NEW c \in Int
  PROVE  a * c \in Int /\ (a + 1) * c = a * c + c
OBVIOUS

LEMMA ProductLess ==
  ASSUME NEW a \in Int, NEW b \in Int, NEW c \in Nat \ {0}, a * c < b * c
  PROVE  a < b
<1> SUFFICES ASSUME b <= a PROVE FALSE
  OBVIOUS
<1> DEFINE d == a - b
<1>1. d \in Nat /\ a = b + d
  OBVIOUS
<1> HIDE DEF d
<1>2. a * c = b * c + d * c
  BY <1>1
<1>3. d * c >= 0
  BY <1>1
<1>4. a * c \in Int /\ b * c \in Int /\ d * c \in Int
  BY <1>1
<1> QED BY <1>2, <1>3, <1>4

(* Each taken slot has a timer for a frame of its own: their numbers are   *)
(* not all between two that have fewer between them.                       *)
LEMMA FramesSpread ==
  ASSUME NEW n \in Nat, NEW p \in Nat, NEW in_use \in [1 .. n -> BOOLEAN],
         NEW tm \in SUBSET TimersOf(n, p), NEW done, NEW lo \in Int, NEW hi \in Int,
         Serves(in_use, tm), Once(done, tm), Pipe!Free(in_use) = {}, hi - lo + 1 < n, 0 < n,
         \A t \in tm : lo <= t.frame /\ t.frame <= hi
  PROVE  FALSE
<1> DEFINE T == lo .. hi
           S == 1 .. n
           of == [s \in S |-> CHOOSE t \in tm : t.slot = s]
           h == [s \in S |-> of[s].frame]
<1>1. \A s \in S : \E t \in tm : t.slot = s
  BY DEF Serves, Pipe!Free
<1>2. \A s \in S : of[s] \in tm /\ of[s].slot = s
  BY <1>1
<1>3. IsFiniteSet(S) /\ Cardinality(S) = n
  BY IntervalSize
<1>4. IsFiniteSet(T) /\ Cardinality(T) = IF lo > hi THEN 0 ELSE hi - lo + 1
  BY FS_Interval
<1>5. Cardinality(T) < Cardinality(S)
  BY <1>3, <1>4
<1> HIDE DEF of
<1>6. \A t \in tm : t.frame \in T
  BY DEF TimersOf
<1>7. h \in [S -> T]
  BY <1>2, <1>6
<1> HIDE DEF h, T
<1>8. PICK x \in S, y \in S : x # y /\ h[x] = h[y]
  BY <1>3, <1>4, <1>5, <1>7, FS_PigeonHole
<1>9. of[x].frame = of[y].frame
  BY <1>8 DEF h
<1>10. of[x] = of[y]
  BY <1>2, <1>9 DEF Once
<1> QED BY <1>2, <1>8, <1>10

(* The frames are as old as they are behind the one that is next.          *)
OnTime(n, period, p, wait, nr, inc, tm) ==
  p <= period * n /\ 0 < n =>
     /\ \A t \in tm : t.left + (nr - t.frame) * period <= p + inc
     /\ wait # <<>> => Len(wait) = 1 /\ wait[1] = nr - 1 /\ inc = period /\ p = period * n

Within(tm, nr, period, bound) == \A t \in tm : t.left + (nr - t.frame) * period <= bound

Before(tm, f) == \A t \in tm : t.frame < f

Lasting(tm, least) == \A t \in tm : least <= t.left

(* When all processors are busy one of them is at the end of its frame or  *)
(* they are fast enough just for no frame to wait.                         *)
LEMMA NotYetFull ==
  ASSUME NEW n \in Nat, NEW p \in Nat, NEW period \in Nat \ {0}, NEW nr \in Nat, NEW inc \in Nat,
         NEW in_use \in [1 .. n -> BOOLEAN], NEW tm \in SUBSET TimersOf(n, p), NEW done,
         Serves(in_use, tm), Once(done, tm), Pipe!Free(in_use) = {}, 0 < n,
         Within(tm, nr, period, p + inc), NEW k \in Int, Before(tm, nr - k),
         NEW least \in Nat, Lasting(tm, least)
  PROVE  (n + k) * period <= p + inc - least
<1> SUFFICES ASSUME p + inc - least < (n + k) * period PROVE FALSE
  BY OneMore
<1>1. ASSUME NEW t \in tm PROVE nr - (n + k) + 1 <= t.frame /\ t.frame <= nr - k - 1
  <2>1. t.frame \in 0 .. MaxFrames /\ t.left \in 0 .. p /\ t.frame \in Int /\ t.left \in Int
    BY FramesAssumption DEF TimersOf
  <2> DEFINE a == nr - t.frame
             b == n + k
             x == a * period
             y == b * period
  <2>2. a \in Int /\ b \in Int /\ x \in Int /\ y \in Int
    BY <2>1
  <2>3. t.left + x <= p + inc /\ least <= t.left /\ t.frame < nr - k
    BY DEF Within, Before, Lasting
  <2>4. p + inc - least < y
    OBVIOUS
  <2> HIDE DEF a, b, x, y
  <2>5. x < y
    BY <2>1, <2>2, <2>3, <2>4
  <2>6. a < b
    BY <2>2, <2>5, ProductLess DEF x, y
  <2> QED BY <2>1, <2>3, <2>6 DEF a, b
<1> DEFINE lo == nr - (n + k) + 1
           hi == nr - k - 1
<1>2. lo \in Int /\ hi \in Int /\ hi - lo + 1 < n
  OBVIOUS
<1>3. \A t \in tm : lo <= t.frame /\ t.frame <= hi
  BY <1>1
<1> HIDE DEF lo, hi
<1> QED BY <1>2, <1>3, FramesSpread

OnTimeAt(n) ==
  OnTime(n, incoming_period, processing_period, frames_pending, frame_nr, incoming_timer, timers)

(* What the type of the pipeline's state says to the lemmas above.         *)
LEMMA PipeTypes ==
  ASSUME NEW n \in ProcessorCounts, PipeAt(n)
  PROVE  /\ n \in Nat /\ incoming_period \in Nat \ {0} /\ processing_period \in Nat
         /\ frame_nr \in Nat /\ incoming_timer \in Nat /\ MaxFrames \in Nat
         /\ processors_in_use \in [1 .. n -> BOOLEAN] /\ frames_pending \in Seq(0 .. MaxFrames)
         /\ timers \in SUBSET TimersOf(n, processing_period)
         /\ \A t \in timers : t.frame \in Nat /\ t.left \in Nat /\ t.slot \in 1 .. n
         /\ Serves(processors_in_use, timers) /\ Once(processed, timers)
         /\ Ahead(processed, timers, frames_pending)
         /\ \A t \in timers : t.frame < frame_nr
         /\ frames_pending # <<>> => Pipe!Free(processors_in_use) = {}
<1>1. /\ incoming_period \in IncomingPeriods /\ processing_period \in ProcessingPeriods
      /\ processors_in_use \in [1 .. n -> BOOLEAN] /\ frames_pending \in Seq(0 .. MaxFrames)
      /\ frame_nr \in 0 .. MaxFrames /\ incoming_timer \in 0 .. incoming_period
      /\ timers \in SUBSET TimersOf(n, processing_period)
      /\ Serves(processors_in_use, timers) /\ Lines(processed, timers, frames_pending, frame_nr)
      /\ frames_pending # <<>> => Pipe!Free(processors_in_use) = {}
  BY DEF PipeIs, PipeAt
<1>2. /\ n \in Nat /\ incoming_period \in Nat \ {0} /\ processing_period \in Nat /\ MaxFrames \in Nat
      /\ frame_nr \in Nat /\ incoming_timer \in Nat
  BY <1>1, CountsAssumption, PeriodsAssumption, FramesAssumption
<1>3. \A t \in timers : t.frame \in Nat /\ t.left \in Nat /\ t.slot \in 1 .. n
  BY <1>1, <1>2 DEF TimersOf
<1>4. Once(processed, timers) /\ Ahead(processed, timers, frames_pending)
  BY <1>1 DEF Lines
<1>5. \A t \in timers : t.frame < frame_nr
  <2>1. \A t \in timers : t.frame \in Arrived(processed, timers, frames_pending)
    BY DEF Arrived
  <2>2. Arrived(processed, timers, frames_pending) = 0 .. frame_nr - 1
    BY <1>1 DEF Lines
  <2> QED BY <1>2, <2>1, <2>2
<1> QED BY <1>1, <1>2, <1>3, <1>4, <1>5

LEMMA OnTimeReceive ==
  ASSUME NEW n \in ProcessorCounts, PipeAt(n), OnTimeAt(n), Pipe!frame_receive
  PROVE  OnTimeAt(n)'
<1> DEFINE period == incoming_period
           p == processing_period
           nr == frame_nr
           slots == Pipe!FirstFree(processors_in_use, 1)
<1>1. /\ n \in Nat /\ period \in Nat \ {0} /\ p \in Nat /\ nr \in Nat
      /\ processors_in_use \in [1 .. n -> BOOLEAN] /\ timers \in SUBSET TimersOf(n, p)
      /\ \A t \in timers : t.frame \in Nat /\ t.left \in Nat
      /\ Serves(processors_in_use, timers) /\ Once(processed, timers)
      /\ \A t \in timers : t.frame < nr
  BY PipeTypes
<1>2. /\ incoming_period' = period /\ processing_period' = p /\ incoming_timer = 0
      /\ frame_nr' = nr + 1 /\ incoming_timer' = period
      /\ \/ slots # <<>> /\ timers' = timers \cup Pipe!Armed(<<nr>>, slots) /\ frames_pending' = frames_pending
         \/ slots = <<>> /\ frames_pending' = Append(frames_pending, nr) /\ timers' = timers
  BY DEF Pipe!frame_receive, Pipe!args
<1> SUFFICES ASSUME p <= period * n, 0 < n
             PROVE  /\ \A t \in timers' : t.left + ((nr + 1) - t.frame) * period <= p + period
                    /\ frames_pending' # <<>> =>
                          Len(frames_pending') = 1 /\ frames_pending'[1] = (nr + 1) - 1 /\ p = period * n
  BY <1>2 DEF OnTimeAt, OnTime
<1>3. /\ \A t \in timers : t.left + (nr - t.frame) * period <= p
      /\ frames_pending = <<>>
  BY <1>1, <1>2 DEF OnTimeAt, OnTime
<1>4. \A t \in timers : t.left + ((nr + 1) - t.frame) * period <= p + period
  <2> SUFFICES ASSUME NEW t \in timers PROVE t.left + ((nr + 1) - t.frame) * period <= p + period
    OBVIOUS
  <2> DEFINE a == nr - t.frame
  <2>1. a \in Int /\ (nr + 1) - t.frame = a + 1 /\ t.left \in Nat
    BY <1>1
  <2>2. t.left + a * period <= p
    BY <1>3
  <2> HIDE DEF a
  <2>3. a * period \in Int /\ (a + 1) * period = a * period + period
    BY <1>1, <2>1, OneMore
  <2> DEFINE x == a * period
  <2> HIDE DEF x
  <2>4. t.left + (x + period) <= p + period
    BY <1>1, <2>1, <2>2, <2>3 DEF x
  <2> QED BY <2>1, <2>3, <2>4 DEF x
<1>5. \A t \in Pipe!Armed(<<nr>>, slots) : t.left + ((nr + 1) - t.frame) * period <= p + period
  <2>1. \A t \in Pipe!Armed(<<nr>>, slots) : t.left = p /\ t.frame = nr
    BY DEF Pipe!Armed
  <2>2. ((nr + 1) - nr) * period = period
    BY <1>1
  <2> QED BY <1>1, <2>1, <2>2
<1>6. CASE slots # <<>>
  BY <1>2, <1>3, <1>4, <1>5, <1>6
<1>7. CASE slots = <<>>
  <2>1. Pipe!Free(processors_in_use) = {}
    <3>1. Picks(slots, processors_in_use, n, 1)
      BY <1>1, FirstFreeIs
    <3>2. \A s \in 1 .. n : processors_in_use[s]
      BY <1>7, <3>1 DEF Picks
    <3> QED BY <1>1, <3>2 DEF Pipe!Free
  <2> DEFINE zero == 0
  <2>2. /\ zero \in Nat /\ Before(timers, nr - zero) /\ Lasting(timers, zero)
        /\ Within(timers, nr, period, p + zero)
        /\ (n + zero) * period = period * n /\ p + zero - zero = p
    BY <1>1, <1>3 DEF Within, Before, Lasting
  <2> HIDE DEF zero, period, p, nr, slots
  <2>3. (n + zero) * period <= p + zero - zero
    <3>1. zero \in Int
      BY <2>2
    <3> QED BY <1>1, <2>1, <2>2, <3>1, NotYetFull, Zenon
  <2>4. p = period * n
    <3>1. period * n \in Int
      BY <1>1
    <3> QED BY <1>1, <2>2, <2>3, <3>1
  <2>5. frames_pending' = <<nr>>
    BY <1>2, <1>3, <1>7, OneAppended
  <2>6. Len(<<nr>>) = 1 /\ <<nr>>[1] = nr /\ (nr + 1) - 1 = nr
    BY <1>1
  <2> QED BY <1>2, <1>4, <1>7, <2>4, <2>5, <2>6
<1> QED BY <1>6, <1>7

LEMMA OnTimeProcessed ==
  ASSUME NEW n \in ProcessorCounts, PipeAt(n), OnTimeAt(n), NEW t \in timers, Pipe!frame_processed(t)
  PROVE  OnTimeAt(n)'
<1> DEFINE period == incoming_period
           p == processing_period
           nr == frame_nr
           wait == frames_pending
           freed == [processors_in_use EXCEPT ![t.slot] = FALSE]
           slots == Pipe!FirstFree(freed, Len(wait))
           next == SubSeq(wait, 1, Len(slots))
           rest == SubSeq(wait, Len(slots) + 1, Len(wait))
<1>1. /\ n \in Nat /\ period \in Nat \ {0} /\ p \in Nat /\ nr \in Nat /\ incoming_timer \in Nat
      /\ processors_in_use \in [1 .. n -> BOOLEAN] /\ wait \in Seq(0 .. MaxFrames)
      /\ t.slot \in 1 .. n
  BY PipeTypes
<1>2. /\ incoming_period' = period /\ processing_period' = p /\ frame_nr' = nr
      /\ incoming_timer' = incoming_timer
      /\ timers' = (timers \ {t}) \cup Pipe!Armed(next, slots) /\ frames_pending' = rest
  BY DEF Pipe!frame_processed, Pipe!args
<1> SUFFICES ASSUME p <= period * n, 0 < n
             PROVE  /\ \A u \in timers' : u.left + (nr - u.frame) * period <= p + incoming_timer
                    /\ rest # <<>> => /\ Len(rest) = 1 /\ rest[1] = nr - 1
                                      /\ incoming_timer = period /\ p = period * n
  BY <1>2 DEF OnTimeAt, OnTime
<1>3. /\ \A u \in timers : u.left + (nr - u.frame) * period <= p + incoming_timer
      /\ wait # <<>> => Len(wait) = 1 /\ wait[1] = nr - 1 /\ incoming_timer = period /\ p = period * n
  BY DEF OnTimeAt, OnTime
<1>4. Len(wait) \in Nat /\ (Len(wait) # 0 => wait # <<>>)
  BY <1>1
<1>5. Picks(slots, freed, n, Len(wait))
  <2>1. freed \in [1 .. n -> BOOLEAN]
    BY <1>1
  <2> HIDE DEF freed, wait
  <2> QED BY <1>1, <1>4, <2>1, FirstFreeIs
<1>6. Len(slots) \in Nat /\ Len(slots) <= Len(wait)
  BY <1>5 DEF Picks
<1>7. DOMAIN next = 1 .. Len(slots) /\ \A a \in 1 .. Len(slots) : next[a] = wait[a]
  <2> HIDE DEF slots
  <2> QED BY <1>1, <1>4, <1>6
<1>8. /\ Len(rest) = Len(wait) - Len(slots) /\ (rest # <<>> => Len(rest) # 0)
      /\ \A a \in 1 .. Len(wait) - Len(slots) : rest[a] = wait[Len(slots) + a]
  <2>1. Len(slots) \in 0 .. Len(wait)
    BY <1>4, <1>6
  <2>2. /\ rest \in Seq(0 .. MaxFrames) /\ Len(rest) = Len(wait) - Len(slots)
        /\ \A a \in 1 .. Len(wait) - Len(slots) : rest[a] = wait[Len(slots) + a]
    <3> HIDE DEF slots, wait
    <3> QED BY <1>1, <2>1, RestOf
  <2>3. rest # <<>> => Len(rest) # 0
    <3> HIDE DEF rest
    <3> QED BY <2>2, EmptyIs
  <2> QED BY <2>2, <2>3
<1>9. \A u \in Pipe!Armed(next, slots) : u.left = p /\ \E a \in 1 .. Len(slots) : u.frame = wait[a]
  <2> HIDE DEF next, slots
  <2> QED BY <1>7 DEF Pipe!Armed
<1> HIDE DEF next, slots, rest, wait, freed, p, nr, period
<1>10. \A u \in Pipe!Armed(next, slots) : u.left + (nr - u.frame) * period <= p + incoming_timer
  <2> SUFFICES ASSUME NEW u \in Pipe!Armed(next, slots)
               PROVE  u.left + (nr - u.frame) * period <= p + incoming_timer
    OBVIOUS
  <2>1. PICK a \in 1 .. Len(slots) : u.frame = wait[a]
    BY <1>9
  <2>2. Len(wait) # 0
    BY <1>4, <1>6, <2>1
  <2>3. Len(wait) = 1 /\ wait[1] = nr - 1 /\ incoming_timer = period
    BY <1>3, <1>4, <2>2
  <2>4. a = 1
    BY <1>6, <2>1, <2>3
  <2>5. u.left = p /\ u.frame = nr - 1
    BY <1>9, <2>1, <2>3, <2>4
  <2>6. (nr - (nr - 1)) * period = period
    BY <1>1
  <2> QED BY <1>1, <2>3, <2>5, <2>6
<1>11. ASSUME rest # <<>> PROVE Len(rest) = 1 /\ rest[1] = nr - 1 /\ incoming_timer = period /\ p = period * n
  <2>1. Len(wait) # 0 /\ Len(wait) - Len(slots) # 0
    BY <1>4, <1>6, <1>8, <1>11
  <2>2. Len(wait) = 1 /\ wait[1] = nr - 1 /\ incoming_timer = period /\ p = period * n
    BY <1>3, <1>4, <2>1
  <2> DEFINE k == Len(slots)
  <2>3. k \in Nat /\ k <= 1 /\ 1 - k # 0
    BY <1>6, <2>1, <2>2
  <2> HIDE DEF k
  <2>4. k = 0
    BY <2>3
  <2> DEFINE one == 1
  <2>5. one \in 1 .. Len(wait) - k /\ k + one = one
    BY <2>2, <2>4
  <2> HIDE DEF one
  <2>6. rest[one] = wait[one]
    BY <1>8, <2>5 DEF k
  <2>7. Len(rest) = 1
    BY <1>8, <2>2, <2>4 DEF k
  <2> QED BY <2>2, <2>6, <2>7 DEF one
<1> QED BY <1>2, <1>3, <1>10, <1>11

LEMMA OnTimeTick ==
  ASSUME NEW n \in ProcessorCounts, PipeAt(n), OnTimeAt(n), Pipe!Tick
  PROVE  OnTimeAt(n)'
<1> DEFINE period == incoming_period
           p == processing_period
           nr == frame_nr
           inc == incoming_timer
<1>1. /\ n \in Nat /\ period \in Nat \ {0} /\ p \in Nat /\ nr \in Nat /\ inc \in Nat
      /\ processors_in_use \in [1 .. n -> BOOLEAN] /\ timers \in SUBSET TimersOf(n, p)
      /\ frames_pending \in Seq(0 .. MaxFrames)
      /\ \A t \in timers : t.frame \in Nat /\ t.left \in Nat
      /\ Serves(processors_in_use, timers) /\ Once(processed, timers)
      /\ Ahead(processed, timers, frames_pending)
      /\ frames_pending # <<>> => Pipe!Free(processors_in_use) = {}
  BY PipeTypes
<1>2. /\ \A t \in timers : t.left # 0
      /\ timers' = Aged(timers)
      /\ incoming_timer' = IF inc > 0 THEN inc - 1 ELSE 0
      /\ incoming_period' = period /\ processing_period' = p /\ frame_nr' = nr
      /\ frames_pending' = frames_pending
  BY DEF Pipe!Tick, Pipe!Expired, Pipe!args, Aged
<1>3. incoming_timer' \in Nat /\ inc - 1 <= incoming_timer'
  BY <1>1, <1>2
<1> SUFFICES ASSUME p <= period * n, 0 < n
             PROVE  /\ \A u \in Aged(timers) : u.left + (nr - u.frame) * period <= p + incoming_timer'
                    /\ frames_pending = <<>>
  BY <1>2 DEF OnTimeAt, OnTime
<1>4. /\ \A t \in timers : t.left + (nr - t.frame) * period <= p + inc
      /\ frames_pending # <<>> => /\ Len(frames_pending) = 1 /\ frames_pending[1] = nr - 1
                                  /\ inc = period /\ p = period * n
  BY DEF OnTimeAt, OnTime
<1>5. ASSUME frames_pending # <<>> PROVE FALSE
  <2> DEFINE one == 1
  <2>1. one \in 1 .. Len(frames_pending) /\ frames_pending[one] = nr - one
    BY <1>4, <1>5
  <2>2. one \in Nat /\ one \in Int /\ Lasting(timers, one)
    BY <1>1, <1>2 DEF Lasting
  <2>3. (n + one) * period = period * n + period
    BY <1>1
  <2>4. p + period - one < p + period /\ p + period - one \in Int
    BY <1>1
  <2> HIDE DEF one, period, p, nr, inc
  <2>5. Before(timers, nr - one) /\ Within(timers, nr, period, p + inc)
    BY <1>1, <1>4, <2>1 DEF Ahead, Before, Within
  <2>6. (n + one) * period <= p + inc - one
    <3>1. Pipe!Free(processors_in_use) = {}
      BY <1>1, <1>5
    <3> QED BY <1>1, <2>2, <2>5, <3>1, NotYetFull, Zenon
  <2>7. inc = period /\ p = period * n
    BY <1>4, <1>5
  <2>8. p + period <= p + period - one
    BY <2>3, <2>6, <2>7
  <2> QED BY <1>1, <2>4, <2>8
<1>6. \A u \in Aged(timers) : u.left + (nr - u.frame) * period <= p + incoming_timer'
  <2> SUFFICES ASSUME NEW u \in Aged(timers)
               PROVE  u.left + (nr - u.frame) * period <= p + incoming_timer'
    OBVIOUS
  <2>1. PICK t \in timers : u = [frame |-> t.frame, slot |-> t.slot, left |-> t.left - 1]
    BY <1>1, <1>2, AgedTimers
  <2>2. u.frame = t.frame /\ u.left = t.left - 1
    BY <2>1
  <2> DEFINE x == (nr - t.frame) * period
  <2>3. x \in Int /\ t.left \in Nat /\ t.left + x <= p + inc
    BY <1>1, <1>4
  <2> HIDE DEF x
  <2>4. (t.left - 1) + x <= p + incoming_timer'
    BY <1>1, <1>3, <2>3
  <2> QED BY <2>2, <2>4 DEF x
<1> QED BY <1>5, <1>6

PipeKeeps == \E n \in ProcessorCounts : PipeAt(n) /\ OnTimeAt(n)

LEMMA KeepsStep ==
  ASSUME PipeKeeps, [Pipe!Next]_(Pipe!vars)
  PROVE  PipeKeeps'
<1>1. PICK n \in ProcessorCounts : PipeAt(n) /\ OnTimeAt(n)
  BY Zenon DEF PipeKeeps
<1>2. PipeAt(n)'
  BY <1>1, PipeStep
<1>3. OnTimeAt(n)'
  <2>1. CASE UNCHANGED Pipe!vars
    BY <1>1, <2>1 DEF Pipe!vars, Pipe!args, OnTimeAt
  <2>2. CASE Pipe!Next
    BY <1>1, <2>2, OnTimeReceive, OnTimeProcessed, OnTimeTick DEF Pipe!Next
  <2> QED BY <2>1, <2>2
<1> QED BY <1>2, <1>3, Zenon DEF PipeKeeps

LEMMA KeepsInit == Pipe!Init => PipeKeeps
<1> SUFFICES ASSUME Pipe!Init PROVE PipeKeeps
  OBVIOUS
<1>1. PICK n \in ProcessorCounts : PipeAt(n)
  BY PipeInit, Zenon DEF PipeInv
<1>2. OnTimeAt(n)
  BY DEF Pipe!Init, OnTimeAt, OnTime
<1> QED BY <1>1, <1>2, Zenon DEF PipeKeeps

LEMMA KeepsSafe ==
  PipeKeeps => Pipe!Inv /\ Pipe!NoIdleWhilePending /\ Pipe!InOrder /\ Pipe!KeepsUp
<1> SUFFICES ASSUME PipeKeeps
             PROVE  Pipe!Inv /\ Pipe!NoIdleWhilePending /\ Pipe!InOrder /\ Pipe!KeepsUp
  OBVIOUS
<1>1. PICK n \in ProcessorCounts : PipeAt(n) /\ OnTimeAt(n)
  BY Zenon DEF PipeKeeps
<1>2. Pipe!Inv /\ Pipe!NoIdleWhilePending /\ Pipe!InOrder
  BY <1>1, PipeSafe, Zenon DEF PipeInv
<1>3. /\ n \in Nat /\ incoming_period \in Nat \ {0} /\ processing_period \in Nat
      /\ processors_in_use \in [1 .. n -> BOOLEAN]
  BY <1>1, PipeTypes
<1>4. Len(processors_in_use) = n
  BY <1>3
<1> DEFINE capacity == incoming_period * n
<1>5. capacity \in Nat /\ (n = 0 => capacity = 0) /\ (n # 0 => 0 < n)
  BY <1>3
<1>6. processing_period <= capacity /\ 0 < n /\ frames_pending # <<>> =>
         Len(frames_pending) = 1 /\ processing_period = capacity
  BY <1>1 DEF OnTimeAt, OnTime
<1> HIDE DEF capacity
<1>7. processing_period < capacity => frames_pending = <<>>
  BY <1>3, <1>5, <1>6
<1>8. processing_period = capacity /\ capacity > 0 => Len(frames_pending) <= 1
  <2>1. CASE frames_pending = <<>>
    BY <2>1
  <2>2. CASE frames_pending # <<>>
    BY <1>3, <1>5, <1>6, <2>2
  <2> QED BY <2>1, <2>2
<1>9. Pipe!KeepsUp
  BY <1>4, <1>7, <1>8 DEF Pipe!KeepsUp, capacity
<1> QED BY <1>2, <1>9

-----------------------------------------------------------------------------
(* The names that the instances have in common mean the same in each.      *)
LEMMA SameNames ==
  /\ \A S : Poll!Cardinality(S) = Cardinality(S)
  /\ \A s : Poll!ToSet(s) = ToSet(s)
  /\ \A f : Poll!SumFunction(f) = SumFunction(f)
<1>1. \A S : Poll!Cardinality(S) = Cardinality(S)
  BY Zenon DEF Poll!Cardinality, Cardinality
<1>2. \A s : Poll!ToSet(s) = ToSet(s)
  BY Zenon DEF Poll!ToSet, ToSet
<1>3. \A f : Poll!SumFunction(f) = SumFunction(f)
  BY Zenon DEF Poll!SumFunction, SumFunction, Poll!SumFunctionOnSet, SumFunctionOnSet,
     Poll!FoldFunctionOnSet, FoldFunctionOnSet, Poll!MapThenFoldSet, MapThenFoldSet
<1> QED BY <1>1, <1>2, <1>3

-----------------------------------------------------------------------------
(* PollQueue *)

Ascending(s) == \A a, b \in 1 .. Len(s) : a < b => s[a] < s[b]

Below(s, t) == \A a \in 1 .. Len(s), b \in 1 .. Len(t) : s[a] < t[b]

LEMMA IncreasingParts ==
  ASSUME NEW s \in Seq(Nat), NEW t \in Seq(Nat)
  PROVE  Poll!Increasing(s \o t) <=> Ascending(s) /\ Ascending(t) /\ Below(s, t)
<1> DEFINE u == s \o t
<1>1. Len(s) \in Nat /\ Len(t) \in Nat /\ DOMAIN u = 1 .. Len(s) + Len(t)
  OBVIOUS
<1>2. \A a \in 1 .. Len(s) : u[a] = s[a]
  OBVIOUS
<1>3. \A b \in 1 .. Len(t) : u[Len(s) + b] = t[b]
  OBVIOUS
<1> HIDE DEF u
<1>4. ASSUME Poll!Increasing(u) PROVE Ascending(s) /\ Ascending(t) /\ Below(s, t)
  <2>1. Ascending(s)
    <3> SUFFICES ASSUME NEW a \in 1 .. Len(s), NEW b \in 1 .. Len(s), a < b PROVE s[a] < s[b]
      BY DEF Ascending
    <3>1. a \in DOMAIN u /\ b \in DOMAIN u
      BY <1>1
    <3>2. u[a] < u[b]
      BY <1>4, <3>1 DEF Poll!Increasing
    <3> QED BY <1>2, <3>2
  <2>2. Ascending(t)
    <3> SUFFICES ASSUME NEW a \in 1 .. Len(t), NEW b \in 1 .. Len(t), a < b PROVE t[a] < t[b]
      BY DEF Ascending
    <3>1. Len(s) + a \in DOMAIN u /\ Len(s) + b \in DOMAIN u /\ Len(s) + a < Len(s) + b
      BY <1>1
    <3>2. u[Len(s) + a] < u[Len(s) + b]
      BY <1>4, <3>1 DEF Poll!Increasing
    <3> QED BY <1>3, <3>2
  <2>3. Below(s, t)
    <3> SUFFICES ASSUME NEW a \in 1 .. Len(s), NEW b \in 1 .. Len(t) PROVE s[a] < t[b]
      BY DEF Below
    <3>1. a \in DOMAIN u /\ Len(s) + b \in DOMAIN u /\ a < Len(s) + b
      BY <1>1
    <3>2. u[a] < u[Len(s) + b]
      BY <1>4, <3>1 DEF Poll!Increasing
    <3> QED BY <1>2, <1>3, <3>2
  <2> QED BY <2>1, <2>2, <2>3
<1>5. ASSUME Ascending(s), Ascending(t), Below(s, t) PROVE Poll!Increasing(u)
  <2> SUFFICES ASSUME NEW a \in 1 .. Len(s) + Len(t), NEW b \in 1 .. Len(s) + Len(t), a < b
               PROVE  u[a] < u[b]
    BY <1>1 DEF Poll!Increasing
  <2>1. CASE b <= Len(s)
    <3>1. a \in 1 .. Len(s) /\ b \in 1 .. Len(s)
      BY <1>1, <2>1
    <3> QED BY <1>2, <1>5, <3>1 DEF Ascending
  <2>2. CASE a <= Len(s) /\ ~(b <= Len(s))
    <3>1. b - Len(s) \in 1 .. Len(t) /\ b = Len(s) + (b - Len(s)) /\ a \in 1 .. Len(s)
      BY <1>1, <2>2
    <3> QED BY <1>2, <1>3, <1>5, <3>1 DEF Below
  <2>3. CASE ~(a <= Len(s))
    <3>1. /\ b - Len(s) \in 1 .. Len(t) /\ b = Len(s) + (b - Len(s))
          /\ a - Len(s) \in 1 .. Len(t) /\ a = Len(s) + (a - Len(s))
          /\ a - Len(s) < b - Len(s)
      BY <1>1, <2>3
    <3> QED BY <1>3, <1>5, <3>1 DEF Ascending
  <2> QED BY <1>1, <2>1, <2>2, <2>3
<1> QED BY <1>4, <1>5 DEF u

(* A value larger than all is pushed.                                      *)
LEMMA IncreasingPush ==
  ASSUME NEW s \in Seq(Nat), NEW t \in Seq(Nat), NEW n \in Nat, Poll!Increasing(s \o t),
         ToSet(s) \subseteq 0 .. n - 1, ToSet(t) \subseteq 0 .. n - 1
  PROVE  Poll!Increasing(s \o Append(t, n))
<1>1. Ascending(s) /\ Ascending(t) /\ Below(s, t)
  BY IncreasingParts
<1> DEFINE w == Append(t, n)
<1>2. /\ w \in Seq(Nat) /\ Len(w) = Len(t) + 1 /\ w[Len(t) + 1] = n /\ Len(t) \in Nat
      /\ \A a \in 1 .. Len(t) : w[a] = t[a]
  OBVIOUS
<1>3. /\ \A a \in 1 .. Len(s) : s[a] \in Nat /\ s[a] < n
      /\ \A a \in 1 .. Len(t) : t[a] \in Nat /\ t[a] < n
  <2>1. \A a \in 1 .. Len(s) : s[a] \in ToSet(s)
    BY DEF ToSet
  <2>2. \A a \in 1 .. Len(t) : t[a] \in ToSet(t)
    BY DEF ToSet
  <2> QED BY <2>1, <2>2, SMTT(30)
<1> HIDE DEF w
<1>4. Ascending(w)
  <2> SUFFICES ASSUME NEW a \in 1 .. Len(t) + 1, NEW b \in 1 .. Len(t) + 1, a < b PROVE w[a] < w[b]
    BY <1>2 DEF Ascending
  <2>0. Len(t) \in Nat
    BY <1>2
  <2>1. a \in 1 .. Len(t) /\ (b \in 1 .. Len(t) \/ b = Len(t) + 1)
    BY <2>0
  <2> QED BY <1>1, <1>2, <1>3, <2>1 DEF Ascending
<1>5. Below(s, w)
  <2> SUFFICES ASSUME NEW a \in 1 .. Len(s), NEW b \in 1 .. Len(t) + 1 PROVE s[a] < w[b]
    BY <1>2 DEF Below
  <2>1. b \in 1 .. Len(t) \/ b = Len(t) + 1
    BY <1>2
  <2> QED BY <1>1, <1>2, <1>3, <2>1 DEF Below
<1>6. Poll!Increasing(s \o w)
  BY <1>1, <1>2, <1>4, <1>5, IncreasingParts
<1> QED BY <1>6 DEF w

(* The first value is popped, by the owner of s or by another.             *)
LEMMA IncreasingPop ==
  ASSUME NEW s \in Seq(Nat), NEW t \in Seq(Nat), t # <<>>, Poll!Increasing(s \o t)
  PROVE  /\ Poll!Increasing(s \o Tail(t))
         /\ Poll!Increasing(Append(s, Head(t)) \o Tail(t))
<1>1. Ascending(s) /\ Ascending(t) /\ Below(s, t)
  BY IncreasingParts
<1> DEFINE w == Tail(t)
<1>2. /\ w \in Seq(Nat) /\ Len(t) \in Nat \ {0} /\ Len(w) = Len(t) - 1
      /\ \A a \in 1 .. Len(w) : w[a] = t[a + 1] /\ a + 1 \in 1 .. Len(t)
  OBVIOUS
<1> HIDE DEF w
<1>3. Ascending(w) /\ Below(s, w)
  <2>1. ASSUME NEW a \in 1 .. Len(w), NEW b \in 1 .. Len(w), a < b PROVE w[a] < w[b]
    <3>1. a + 1 \in 1 .. Len(t) /\ b + 1 \in 1 .. Len(t) /\ a + 1 < b + 1
      BY <1>2, <2>1
    <3>2. t[a + 1] < t[b + 1]
      BY <1>1, <3>1 DEF Ascending
    <3> QED BY <1>2, <3>2
  <2>2. ASSUME NEW a \in 1 .. Len(s), NEW b \in 1 .. Len(w) PROVE s[a] < w[b]
    <3>1. b + 1 \in 1 .. Len(t)
      BY <1>2
    <3>2. s[a] < t[b + 1]
      BY <1>1, <3>1 DEF Below
    <3> QED BY <1>2, <3>2
  <2> QED BY <2>1, <2>2 DEF Ascending, Below
<1>4. Poll!Increasing(s \o w)
  BY <1>2, <1>1, <1>3, IncreasingParts
<1>5. Append(s, Head(t)) \o Tail(t) = s \o t
  BY SMTT(30)
<1> QED BY <1>4, <1>5 DEF w

-----------------------------------------------------------------------------
LEMMA PollInit ==
  ASSUME Poll!Init
  PROVE  Poll!Inv
<1> USE ConsumersAssumption, SizesAssumption
<1>1. Cardinality(Consumers) \in Nat
  BY FS_CardinalityType
<1>2. Poll!TypeOK
  <2>1. forks \in Nat
    BY <1>1, SameNames DEF Poll!Init
  <2>2. queue \in Seq(Nat) /\ Len(queue) = 0
    BY DEF Poll!Init
  <2> QED BY <2>1, <2>2 DEF Poll!Init, Poll!TypeOK
<1>3. Poll!ConsumedOnce
  <2>1. queue = <<>> /\ i = 0 /\ \A c \in Consumers : popped[c] = <<>> /\ todo[c] = Iterations
    BY DEF Poll!Init
  <2>2. ToSet(<<>>) = {} /\ 0 .. i - 1 = {}
    BY <2>1 DEF ToSet
  <2>3. (UNION {ToSet(popped[c]) : c \in Consumers}) \cup ToSet(queue) = 0 .. i - 1
    BY <2>1, <2>2
  <2>4. SumFunction([c \in Consumers |-> Len(popped[c])]) = 0
    <3> DEFINE f == [c \in Consumers |-> Len(popped[c])]
    <3>1. f \in [Consumers -> Nat] /\ \A c \in Consumers : f[c] = IF c \in {} THEN 0 ELSE 0
      BY <2>1
    <3> HIDE DEF f
    <3>2. SumFunction(f) = Cardinality({}) * 0
      BY <3>1, SumConstant
    <3>3. Cardinality({}) = 0
      BY FS_EmptySet
    <3> QED BY <3>2, <3>3 DEF f
  <2>5. \A c \in Consumers : Poll!Increasing(popped[c] \o queue)
    BY <2>1 DEF Poll!Increasing
  <2>6. Len(queue) = 0 /\ \A c \in Consumers : Len(popped[c]) + todo[c] = Iterations
    BY <2>1
  <2>7. i = Len(queue) + SumFunction([c \in Consumers |-> Len(popped[c])])
    BY <2>1, <2>4, <2>6
  <2> QED BY <2>3, <2>5, <2>6, <2>7, SameNames, Zenon DEF Poll!ConsumedOnce
<1>4. Poll!ChildrenCounted
  <2>1. Poll!Born = {} /\ Cardinality({}) = 0
    BY FS_EmptySet DEF Poll!Init, Poll!Born
  <2>2. Poll!Cardinality(Poll!Born) = 0
    BY <2>1, SameNames
  <2> QED BY <2>1, <2>2 DEF Poll!Init, Poll!ChildrenCounted
<1> QED BY <1>2, <1>3, <1>4 DEF Poll!Inv

LEMMA PollType ==
  ASSUME Poll!Inv, Poll!Next
  PROVE  Poll!TypeOK'
<1> USE DEF Poll!Inv
<1> USE ConsumersAssumption, SizesAssumption
<1>1. Poll!TypeOK
  OBVIOUS
<1>2. ASSUME NEW c \in Consumers, Poll!Fork(c) PROVE Poll!TypeOK'
  BY <1>1, <1>2 DEF Poll!Fork, Poll!Goto, Poll!TypeOK
<1>3. ASSUME Poll!ForkFails PROVE Poll!TypeOK'
  BY <1>1, <1>3 DEF Poll!ForkFails, Poll!Goto, Poll!TypeOK
<1>4. ASSUME Poll!StartProducing PROVE Poll!TypeOK'
  <2>1. pc[Main] = "fork" /\ i = 0 /\ Cardinality(children) \in Nat
    <3>1. children \in SUBSET Consumers
      BY <1>1 DEF Poll!TypeOK
    <3>2. Cardinality(children) \in Nat
      BY <3>1, FS_Subset, FS_CardinalityType
    <3> QED BY <1>4, <3>2 DEF Poll!StartProducing, Poll!ChildrenCounted
  <2>2. Cardinality(children) * Iterations \in Nat
    BY <2>1
  <2>3. count' \in Nat
    BY <1>4, <2>2, SameNames DEF Poll!StartProducing
  <2> QED BY <1>1, <1>4, <2>1, <2>3 DEF Poll!StartProducing, Poll!Goto, Poll!TypeOK
<1>5. ASSUME Poll!Push PROVE Poll!TypeOK'
  <2>1. /\ queue' = Append(queue, i) /\ queue \in Seq(Nat) /\ i \in Nat
        /\ Len(queue) < Capacity
    BY <1>1, <1>5 DEF Poll!Push, Poll!TypeOK
  <2>2. queue' \in Seq(Nat) /\ Len(queue') = Len(queue) + 1 /\ Len(queue) \in Nat
    BY <2>1
  <2>3. Len(queue') <= Capacity
    BY <2>1, <2>2
  <2> QED BY <1>1, <1>5, <2>2, <2>3 DEF Poll!Push, Poll!TypeOK
<1>6. ASSUME Poll!StopProducing \/ Poll!Finish PROVE Poll!TypeOK'
  BY <1>1, <1>6 DEF Poll!StopProducing, Poll!Finish, Poll!Goto, Poll!TypeOK
<1>7. ASSUME NEW c \in Consumers, Poll!Reap(c) PROVE Poll!TypeOK'
  BY <1>1, <1>7 DEF Poll!Reap, Poll!TypeOK
<1>8. ASSUME NEW c \in Consumers, Poll!Pop(c) PROVE Poll!TypeOK'
  <2>1. /\ queue' = Tail(queue) /\ queue \in Seq(Nat) /\ queue # <<>>
        /\ popped' = [popped EXCEPT ![c] = Append(popped[c], Head(queue))]
        /\ popped \in [Consumers -> Seq(Nat)] /\ Len(queue) <= Capacity
    BY <1>1, <1>8 DEF Poll!Pop, Poll!TypeOK
  <2>2. queue' \in Seq(Nat) /\ Len(queue') <= Capacity /\ Head(queue) \in Nat
    BY <2>1
  <2>3. Append(popped[c], Head(queue)) \in Seq(Nat)
    BY <2>1, <2>2
  <2>4. popped' \in [Consumers -> Seq(Nat)]
    BY <2>1, <2>3
  <2> QED BY <1>1, <1>8, <2>2, <2>4, SMTT(30) DEF Poll!Pop, Poll!TypeOK
<1>9. ASSUME NEW c \in Consumers, Poll!Exit(c) PROVE Poll!TypeOK'
  BY <1>1, <1>9 DEF Poll!Exit, Poll!Goto, Poll!TypeOK
<1>10. ASSUME UNCHANGED Poll!vars PROVE Poll!TypeOK'
  BY <1>1, <1>10 DEF Poll!vars, Poll!TypeOK
<1> QED BY <1>2, <1>3, <1>4, <1>5, <1>6, <1>7, <1>8, <1>9, <1>10
        DEF Poll!Next, Poll!Parent, Poll!Consumer, Poll!PushFails, Poll!PopFails, Poll!Terminated

(* The lengths of what the consumers have popped.                          *)
Lengths == [c \in Consumers |-> Len(popped[c])]

(* All the values that they have popped.                                   *)
Values == UNION {ToSet(popped[c]) : c \in Consumers}

(* ConsumedOnce in terms of the lemmas above.                              *)
LEMMA ConsumedParts ==
  Poll!ConsumedOnce <=>
    /\ Values \cup ToSet(queue) = 0 .. i - 1
    /\ i = Len(queue) + SumFunction(Lengths)
    /\ \A c \in Consumers : /\ Poll!Increasing(popped[c] \o queue)
                            /\ Len(popped[c]) + todo[c] = Iterations
<1>1. Poll!ConsumedOnce <=>
        /\ (UNION {ToSet(popped[c]) : c \in Consumers}) \cup ToSet(queue) = 0 .. i - 1
        /\ i = Len(queue) + SumFunction([c \in Consumers |-> Len(popped[c])])
        /\ \A c \in Consumers : /\ Poll!Increasing(popped[c] \o queue)
                                /\ Len(popped[c]) + todo[c] = Iterations
  BY SameNames, Zenon DEF Poll!ConsumedOnce
<1>2. Values = UNION {ToSet(popped[c]) : c \in Consumers}
  BY Zenon DEF Values
<1>3. Lengths = [c \in Consumers |-> Len(popped[c])]
  BY Zenon DEF Lengths
<1>4. (Values \cup ToSet(queue) = 0 .. i - 1)
         <=> ((UNION {ToSet(popped[c]) : c \in Consumers}) \cup ToSet(queue) = 0 .. i - 1)
  BY <1>2, Zenon
<1>5. (i = Len(queue) + SumFunction(Lengths))
         <=> (i = Len(queue) + SumFunction([c \in Consumers |-> Len(popped[c])]))
  BY <1>3, Zenon
<1> QED BY <1>1, <1>4, <1>5, Zenon

LEMMA ConsumedPartsNext ==
  (/\ Values \cup ToSet(queue) = 0 .. i - 1
   /\ i = Len(queue) + SumFunction(Lengths)
   /\ \A c \in Consumers : /\ Poll!Increasing(popped[c] \o queue)
                           /\ Len(popped[c]) + todo[c] = Iterations)'
     => Poll!ConsumedOnce'
BY ConsumedParts, PTL

LEMMA PollPush ==
  ASSUME Poll!Inv, Poll!Push
  PROVE  Poll!ConsumedOnce'
<1>1. /\ queue \in Seq(Nat) /\ i \in Nat /\ popped \in [Consumers -> Seq(Nat)]
      /\ queue' = Append(queue, i) /\ i' = i + 1 /\ UNCHANGED <<popped, todo>>
  BY DEF Poll!Inv, Poll!TypeOK, Poll!Push
<1>2. /\ Values \cup ToSet(queue) = 0 .. i - 1
      /\ i = Len(queue) + SumFunction(Lengths)
      /\ \A c \in Consumers : /\ Poll!Increasing(popped[c] \o queue)
                              /\ Len(popped[c]) + todo[c] = Iterations
  BY ConsumedParts, Zenon DEF Poll!Inv
<1>3. ToSet(queue') = ToSet(queue) \cup {i} /\ Len(queue') = Len(queue) + 1
  BY <1>1, ToSetAppend
<1>4. 0 .. i' - 1 = (0 .. i - 1) \cup {i}
  BY <1>1
<1>5. Values' \cup ToSet(queue') = 0 .. i' - 1
  <2>1. Values' = Values
    BY <1>1 DEF Values
  <2> QED BY <1>2, <1>3, <1>4, <2>1
<1>6. Lengths' = Lengths
  BY <1>1 DEF Lengths
<1>7. SumFunction(Lengths) \in Nat /\ Len(queue) \in Nat
  <2>1. Lengths \in [Consumers -> Nat]
    BY <1>1 DEF Lengths
  <2> QED BY <1>1, <2>1, ConsumersAssumption, SumNat
<1>8. i' = Len(queue') + SumFunction(Lengths')
  BY <1>1, <1>2, <1>3, <1>6, <1>7
<1>9. ASSUME NEW c \in Consumers PROVE Poll!Increasing(popped'[c] \o queue')
  <2>1. ToSet(popped[c]) \subseteq 0 .. i - 1 /\ ToSet(queue) \subseteq 0 .. i - 1
    <3>1. ToSet(popped[c]) \subseteq Values
      BY DEF Values
    <3> QED BY <1>2, <3>1
  <2>2. popped[c] \in Seq(Nat)
    BY <1>1
  <2>3. Poll!Increasing(popped[c] \o Append(queue, i))
    BY <1>1, <1>2, <2>1, <2>2, IncreasingPush
  <2> QED BY <1>1, <2>3
<1>10. \A c \in Consumers : Len(popped'[c]) + todo'[c] = Iterations
  BY <1>1, <1>2
<1> QED BY <1>5, <1>8, <1>9, <1>10, ConsumedPartsNext, Zenon

LEMMA PollPop ==
  ASSUME Poll!Inv, NEW c \in Consumers, Poll!Pop(c)
  PROVE  Poll!ConsumedOnce'
<1> DEFINE x == Head(queue)
<1>1. /\ queue \in Seq(Nat) /\ i \in Nat /\ popped \in [Consumers -> Seq(Nat)]
      /\ queue # <<>> /\ queue' = Tail(queue) /\ UNCHANGED i
      /\ popped' = [popped EXCEPT ![c] = Append(popped[c], x)]
      /\ todo \in [Consumers -> 0 .. Iterations] /\ todo[c] > 0
      /\ todo' = [todo EXCEPT ![c] = todo[c] - 1]
  BY DEF Poll!Inv, Poll!TypeOK, Poll!Pop
<1>2. /\ Values \cup ToSet(queue) = 0 .. i - 1
      /\ i = Len(queue) + SumFunction(Lengths)
      /\ \A d \in Consumers : /\ Poll!Increasing(popped[d] \o queue)
                              /\ Len(popped[d]) + todo[d] = Iterations
  BY ConsumedParts, Zenon DEF Poll!Inv
<1>3. /\ ToSet(queue) = {x} \cup ToSet(Tail(queue)) /\ x \in Nat
      /\ Len(queue') = Len(queue) - 1 /\ Len(queue) \in Nat \ {0}
  BY <1>1, ToSetTail
<1>4. popped[c] \in Seq(Nat) /\ Append(popped[c], x) \in Seq(Nat)
      /\ Len(Append(popped[c], x)) = Len(popped[c]) + 1 /\ Len(popped[c]) \in Nat
  BY <1>1, <1>3
<1>5. ToSet(popped'[c]) = ToSet(popped[c]) \cup {x}
  BY <1>1, <1>3, <1>4, ToSetAppend
<1>6. \A d \in Consumers \ {c} : popped'[d] = popped[d] /\ todo'[d] = todo[d]
  BY <1>1
<1>7. Values' \cup ToSet(queue') = 0 .. i' - 1
  <2>1. Values' = Values \cup {x}
    <3>1. \A y \in Values' : y \in Values \cup {x}
      BY <1>5, <1>6 DEF Values
    <3>2. \A y \in Values : y \in Values'
      BY <1>5, <1>6 DEF Values
    <3>3. x \in Values'
      BY <1>5 DEF Values
    <3> QED BY <3>1, <3>2, <3>3
  <2> QED BY <1>1, <1>2, <1>3, <2>1
<1>8. SumFunction(Lengths) \in Int /\ SumFunction(Lengths') = SumFunction(Lengths) + 1
  <2>1. Lengths \in [Consumers -> Int]
    BY <1>1 DEF Lengths
  <2>2. \A d \in Consumers : popped'[d] \in Seq(Nat)
    BY <1>1, <1>4, <1>6
  <2>3. Lengths' \in [Consumers -> Int]
    BY <2>2 DEF Lengths
  <2>4. \A d \in Consumers \ {c} : Lengths'[d] = Lengths[d]
    BY <1>6 DEF Lengths
  <2>5. Lengths'[c] = Lengths[c] + 1 /\ Lengths[c] \in Int
    BY <1>1, <1>4 DEF Lengths
  <2>6. SumFunction(Lengths) \in Int /\ SumFunction(Lengths') = SumFunction(Lengths) + Lengths'[c] - Lengths[c]
    BY <2>1, <2>3, <2>4, ConsumersAssumption, SumChanged
  <2> QED BY <2>5, <2>6
<1>9. i' = Len(queue') + SumFunction(Lengths')
  BY <1>1, <1>2, <1>3, <1>8
<1>10. ASSUME NEW d \in Consumers PROVE Poll!Increasing(popped'[d] \o queue')
  <2>1. popped[d] \in Seq(Nat)
    BY <1>1
  <2>2. /\ Poll!Increasing(popped[d] \o Tail(queue))
        /\ Poll!Increasing(Append(popped[d], x) \o Tail(queue))
    BY <1>1, <1>2, <2>1, IncreasingPop
  <2> QED BY <1>1, <1>6, <2>2
<1>11. ASSUME NEW d \in Consumers PROVE Len(popped'[d]) + todo'[d] = Iterations
  <2>1. CASE d = c
    <3>1. Len(popped'[c]) = Len(popped[c]) + 1 /\ todo'[c] = todo[c] - 1 /\ todo[c] \in Int
      BY <1>1, <1>4
    <3>2. Len(popped[c]) + todo[c] = Iterations
      BY <1>2
    <3>3. Len(popped'[c]) + todo'[c] = Iterations
      <4> DEFINE a == Len(popped[c])
      <4> DEFINE b == todo[c]
      <4>1. a \in Int /\ b \in Int /\ a + b = Iterations
        BY <1>4, <3>1, <3>2
      <4>2. Len(popped'[c]) = a + 1 /\ todo'[c] = b - 1
        BY <3>1
      <4> HIDE DEF a, b
      <4> QED BY <4>1, <4>2
    <3> QED BY <2>1, <3>3
  <2>2. CASE d # c
    BY <1>2, <1>6, <2>2
  <2> QED BY <2>1, <2>2
<1> QED BY <1>7, <1>9, <1>10, <1>11, ConsumedPartsNext, Zenon

LEMMA PollConsumed ==
  ASSUME Poll!Inv, Poll!Next
  PROVE  Poll!ConsumedOnce'
<1>1. ASSUME UNCHANGED <<queue, i, todo, popped>> PROVE Poll!ConsumedOnce'
  BY <1>1 DEF Poll!Inv, Poll!ConsumedOnce
<1>2. \/ Poll!Push \/ \E c \in Consumers : Poll!Pop(c)
      \/ UNCHANGED <<queue, i, todo, popped>>
  BY DEF Poll!Next, Poll!Parent, Poll!Consumer, Poll!Terminated, Poll!Fork, Poll!ForkFails,
     Poll!StartProducing, Poll!PushFails, Poll!StopProducing, Poll!Reap, Poll!Finish,
     Poll!PopFails, Poll!Exit, Poll!vars
<1> QED BY <1>1, <1>2, PollPush, PollPop

-----------------------------------------------------------------------------
(* What is made for the children that the parent has forked.               *)
Ordered == IF program = "spsc" THEN Iterations ELSE Cardinality(Poll!Born) * Iterations

LEMMA BornFinite ==
  /\ Poll!Born \subseteq Consumers /\ IsFiniteSet(Poll!Born) /\ Cardinality(Poll!Born) \in Nat
  /\ Ordered \in Nat
<1>1. Poll!Born \subseteq Consumers
  BY DEF Poll!Born
<1>2. IsFiniteSet(Poll!Born) /\ Cardinality(Poll!Born) \in Nat
  BY <1>1, ConsumersAssumption, FS_Subset, FS_CardinalityType
<1>3. Cardinality(Poll!Born) * Iterations \in Nat
  BY <1>2, SizesAssumption
<1> QED BY <1>1, <1>2, <1>3, SizesAssumption DEF Ordered

(* ChildrenCounted with the names of the lemmas.                           *)
LEMMA CountedParts ==
  Poll!ChildrenCounted <=>
    /\ pc[Main] \in {"fork", "push", "reap", "done", "aborted"}
    /\ \A c \in Consumers : pc[c] \in {"unborn", "pop", "exited"}
    /\ \A c \in Consumers : /\ pc[c] = "unborn" => todo[c] = Iterations
                            /\ pc[c] = "exited" => todo[c] = 0
    /\ children \subseteq Poll!Born /\ \A c \in Poll!Born \ children : pc[c] = "exited"
    /\ program = "spsc" => Cardinality(Poll!Born) + forks <= 1
    /\ pc[Main] \in {"fork", "aborted"} => i = 0 /\ count = 0
    /\ pc[Main] = "fork" => children = Poll!Born
    /\ pc[Main] \in {"push", "reap", "done"} => count = Ordered
    /\ pc[Main] \in {"reap", "done"} => i = count
    /\ pc[Main] = "done" => children = {}
BY SameNames, Zenon DEF Poll!ChildrenCounted, Ordered

LEMMA CountedPartsNext ==
  (/\ pc[Main] \in {"fork", "push", "reap", "done", "aborted"}
   /\ \A c \in Consumers : pc[c] \in {"unborn", "pop", "exited"}
   /\ \A c \in Consumers : /\ pc[c] = "unborn" => todo[c] = Iterations
                           /\ pc[c] = "exited" => todo[c] = 0
   /\ children \subseteq Poll!Born /\ \A c \in Poll!Born \ children : pc[c] = "exited"
   /\ program = "spsc" => Cardinality(Poll!Born) + forks <= 1
   /\ pc[Main] \in {"fork", "aborted"} => i = 0 /\ count = 0
   /\ pc[Main] = "fork" => children = Poll!Born
   /\ pc[Main] \in {"push", "reap", "done"} => count = Ordered
   /\ pc[Main] \in {"reap", "done"} => i = count
   /\ pc[Main] = "done" => children = {})'
     => Poll!ChildrenCounted'
BY CountedParts, PTL

LEMMA PollCounted ==
  ASSUME Poll!Inv, Poll!Next
  PROVE  Poll!ChildrenCounted'
<1> USE ConsumersAssumption, SizesAssumption
<1>1. /\ pc \in [Consumers \cup {Main} -> {"fork", "push", "reap", "done", "aborted",
                                           "unborn", "pop", "exited"}]
      /\ todo \in [Consumers -> 0 .. Iterations] /\ forks \in Nat /\ i \in Nat
      /\ children \subseteq Consumers
  BY Zenon DEF Poll!Inv, Poll!TypeOK
<1>2. /\ pc[Main] \in {"fork", "push", "reap", "done", "aborted"}
      /\ \A c \in Consumers : pc[c] \in {"unborn", "pop", "exited"}
      /\ \A c \in Consumers : /\ pc[c] = "unborn" => todo[c] = Iterations
                              /\ pc[c] = "exited" => todo[c] = 0
      /\ children \subseteq Poll!Born /\ \A c \in Poll!Born \ children : pc[c] = "exited"
      /\ program = "spsc" => Cardinality(Poll!Born) + forks <= 1
      /\ pc[Main] \in {"fork", "aborted"} => i = 0 /\ count = 0
      /\ pc[Main] = "fork" => children = Poll!Born
      /\ pc[Main] \in {"push", "reap", "done"} => count = Ordered
      /\ pc[Main] \in {"reap", "done"} => i = count
      /\ pc[Main] = "done" => children = {}
  BY CountedParts, Zenon DEF Poll!Inv
<1>3. /\ Poll!Born \subseteq Consumers /\ IsFiniteSet(Poll!Born)
      /\ Cardinality(Poll!Born) \in Nat
  BY BornFinite
<1>4. ASSUME NEW c \in Consumers, Poll!Fork(c) PROVE Poll!ChildrenCounted'
  <2>1. /\ pc[Main] = "fork" /\ forks > 0 /\ pc[c] = "unborn" /\ forks' = forks - 1
        /\ children' = children \cup {c} /\ pc' = [pc EXCEPT ![c] = "pop"]
        /\ UNCHANGED <<program, queue, i, count, todo, popped>>
    BY <1>4 DEF Poll!Fork, Poll!Goto
  <2>2. Poll!Born' = Poll!Born \cup {c} /\ c \notin Poll!Born
    BY <1>1, <2>1 DEF Poll!Born
  <2>3. Cardinality(Poll!Born') = Cardinality(Poll!Born) + 1
    BY <1>3, <2>2, FS_AddElement
  <2>4. program' = "spsc" => Cardinality(Poll!Born') + forks' <= 1
    BY <1>1, <1>2, <1>3, <2>1, <2>3
  <2>5. pc'[Main] = "fork" /\ pc'[c] = "pop" /\ \A d \in Consumers \ {c} : pc'[d] = pc[d]
    BY <1>1, <2>1
  <2>6. children' = Poll!Born' /\ i' = 0 /\ count' = 0
    BY <1>2, <2>1, <2>2
  <2>7. \A d \in Consumers : /\ pc'[d] \in {"unborn", "pop", "exited"}
                             /\ pc'[d] = "unborn" => todo'[d] = Iterations
                             /\ pc'[d] = "exited" => todo'[d] = 0
    BY <1>2, <2>1, <2>5
  <2> QED BY <2>4, <2>5, <2>6, <2>7, CountedPartsNext
<1>5. ASSUME UNCHANGED <<program, Poll!Born>> PROVE Ordered' = Ordered
  BY <1>5 DEF Ordered
<1>6. ASSUME Poll!ForkFails PROVE Poll!ChildrenCounted'
  <2>1. /\ pc[Main] = "fork" /\ forks > 0 /\ forks' = forks - 1
        /\ pc' = [pc EXCEPT ![Main] = "aborted"] \/ pc' = pc
        /\ UNCHANGED <<program, queue, i, count, todo, popped, children>>
    BY <1>6 DEF Poll!ForkFails, Poll!Goto
  <2>2. pc'[Main] \in {"fork", "aborted"} /\ \A c \in Consumers : pc'[c] = pc[c]
    BY <1>1, <2>1
  <2>3. Poll!Born' = Poll!Born
    BY <2>2 DEF Poll!Born
  <2>4. program' = "spsc" => Cardinality(Poll!Born') + forks' <= 1
    BY <1>1, <1>2, <1>3, <2>1, <2>3
  <2>5. /\ children' \subseteq Poll!Born' /\ children' = Poll!Born' /\ i' = 0 /\ count' = 0
        /\ \A c \in Consumers : /\ pc'[c] \in {"unborn", "pop", "exited"}
                                /\ pc'[c] = "unborn" => todo'[c] = Iterations
                                /\ pc'[c] = "exited" => todo'[c] = 0
    BY <1>2, <2>1, <2>2, <2>3
  <2> QED BY <2>2, <2>4, <2>5, CountedPartsNext
<1>7. ASSUME UNCHANGED <<program, children, forks, todo>>,
             \A c \in Consumers : pc'[c] = pc[c]
      PROVE  /\ Poll!Born' = Poll!Born /\ Ordered' = Ordered
             /\ \A c \in Consumers : /\ pc'[c] \in {"unborn", "pop", "exited"}
                                     /\ pc'[c] = "unborn" => todo'[c] = Iterations
                                     /\ pc'[c] = "exited" => todo'[c] = 0
             /\ children' \subseteq Poll!Born'
             /\ \A c \in Poll!Born' \ children' : pc'[c] = "exited"
             /\ program' = "spsc" => Cardinality(Poll!Born') + forks' <= 1
  <2>1. Poll!Born' = Poll!Born
    BY <1>7 DEF Poll!Born
  <2> QED BY <1>2, <1>3, <1>5, <1>7, <2>1
<1>8. ASSUME Poll!StartProducing PROVE Poll!ChildrenCounted'
  <2>1. /\ pc[Main] = "fork" /\ pc' = [pc EXCEPT ![Main] = "push"]
        /\ UNCHANGED <<program, queue, i, todo, popped, children, forks>>
        /\ count' = Ordered
    <3>1. children = Poll!Born
      BY <1>2, <1>8 DEF Poll!StartProducing
    <3> QED BY <1>8, <3>1, SameNames DEF Poll!StartProducing, Poll!Goto, Ordered
  <2>2. pc'[Main] = "push" /\ \A c \in Consumers : pc'[c] = pc[c]
    BY <1>1, <2>1
  <2> QED BY <1>7, <2>1, <2>2, CountedPartsNext
<1>9. ASSUME Poll!Push PROVE Poll!ChildrenCounted'
  <2>1. pc[Main] = "push" /\ UNCHANGED <<program, count, todo, popped, children, forks, pc>>
    BY <1>9 DEF Poll!Push
  <2> QED BY <1>2, <1>7, <2>1, CountedPartsNext
<1>10. ASSUME Poll!StopProducing PROVE Poll!ChildrenCounted'
  <2>1. /\ pc[Main] = "push" /\ i = count /\ pc' = [pc EXCEPT ![Main] = "reap"]
        /\ UNCHANGED <<program, queue, i, count, todo, popped, children, forks>>
    BY <1>10 DEF Poll!StopProducing, Poll!Goto
  <2>2. pc'[Main] = "reap" /\ \A c \in Consumers : pc'[c] = pc[c]
    BY <1>1, <2>1
  <2> QED BY <1>2, <1>7, <2>1, <2>2, CountedPartsNext
<1>11. ASSUME NEW c \in Consumers, Poll!Reap(c) PROVE Poll!ChildrenCounted'
  <2>1. /\ pc[Main] = "reap" /\ c \in children /\ pc[c] = "exited"
        /\ children' = children \ {c}
        /\ UNCHANGED <<program, queue, i, count, todo, popped, forks, pc>>
    BY <1>11 DEF Poll!Reap
  <2>2. Poll!Born' = Poll!Born
    BY <2>1 DEF Poll!Born
  <2>3. /\ children' \subseteq Poll!Born'
        /\ \A d \in Poll!Born' \ children' : pc'[d] = "exited"
    BY <1>2, <2>1, <2>2
  <2>4. /\ program' = "spsc" => Cardinality(Poll!Born') + forks' <= 1
        /\ Ordered' = Ordered
    BY <1>2, <1>5, <2>1, <2>2
  <2>5. \A d \in Consumers : /\ pc'[d] \in {"unborn", "pop", "exited"}
                             /\ pc'[d] = "unborn" => todo'[d] = Iterations
                             /\ pc'[d] = "exited" => todo'[d] = 0
    BY <1>2, <2>1
  <2> QED BY <1>2, <2>1, <2>3, <2>4, <2>5, CountedPartsNext
<1>12. ASSUME Poll!Finish PROVE Poll!ChildrenCounted'
  <2>1. /\ pc[Main] = "reap" /\ children = {} /\ pc' = [pc EXCEPT ![Main] = "done"]
        /\ UNCHANGED <<program, queue, i, count, todo, popped, children, forks>>
    BY <1>12 DEF Poll!Finish, Poll!Goto
  <2>2. pc'[Main] = "done" /\ \A c \in Consumers : pc'[c] = pc[c]
    BY <1>1, <2>1
  <2> QED BY <1>2, <1>7, <2>1, <2>2, CountedPartsNext
<1>13. ASSUME NEW c \in Consumers, Poll!Pop(c) PROVE Poll!ChildrenCounted'
  <2>1. /\ pc[c] = "pop" /\ todo' = [todo EXCEPT ![c] = todo[c] - 1]
        /\ UNCHANGED <<program, i, count, children, forks, pc>>
    BY <1>13 DEF Poll!Pop
  <2>2. Poll!Born' = Poll!Born
    BY <2>1 DEF Poll!Born
  <2>3. \A d \in Consumers : /\ pc'[d] \in {"unborn", "pop", "exited"}
                             /\ pc'[d] = "unborn" => todo'[d] = Iterations
                             /\ pc'[d] = "exited" => todo'[d] = 0
    BY <1>1, <1>2, <2>1
  <2>4. Ordered' = Ordered
    BY <1>5, <2>1, <2>2
  <2> QED BY <1>2, <2>1, <2>2, <2>3, <2>4, CountedPartsNext
<1>14. ASSUME NEW c \in Consumers, Poll!Exit(c) PROVE Poll!ChildrenCounted'
  <2>1. /\ pc[c] = "pop" /\ todo[c] = 0 /\ pc' = [pc EXCEPT ![c] = "exited"]
        /\ UNCHANGED <<program, queue, i, count, todo, popped, children, forks>>
    BY <1>14 DEF Poll!Exit, Poll!Goto
  <2>2. /\ pc'[Main] = pc[Main] /\ pc'[c] = "exited"
        /\ \A d \in Consumers \ {c} : pc'[d] = pc[d]
    BY <1>1, <2>1
  <2>3. Poll!Born' = Poll!Born
    BY <2>1, <2>2 DEF Poll!Born
  <2>4. \A d \in Consumers : /\ pc'[d] \in {"unborn", "pop", "exited"}
                             /\ pc'[d] = "unborn" => todo'[d] = Iterations
                             /\ pc'[d] = "exited" => todo'[d] = 0
    BY <1>2, <2>1, <2>2
  <2>5. Ordered' = Ordered
    BY <1>5, <2>1, <2>3
  <2>6. \A d \in Poll!Born' \ children' : pc'[d] = "exited"
    BY <1>2, <2>1, <2>2, <2>3
  <2> QED BY <1>2, <2>1, <2>2, <2>3, <2>4, <2>5, <2>6, CountedPartsNext
<1>15. ASSUME UNCHANGED Poll!vars PROVE Poll!ChildrenCounted'
  <2>1. UNCHANGED <<program, i, count, todo, children, forks, pc>>
    BY <1>15 DEF Poll!vars
  <2> QED BY <1>2, <1>7, <2>1, CountedPartsNext
<1> QED BY <1>4, <1>6, <1>8, <1>9, <1>10, <1>11, <1>12, <1>13, <1>14, <1>15
        DEF Poll!Next, Poll!Parent, Poll!Consumer, Poll!PushFails, Poll!PopFails, Poll!Terminated

-----------------------------------------------------------------------------
(* When the parent is done, its children have popped as many values as it  *)
(* has made.  In the single-consumer program this also shows that there was*)
(* a child: without one the queue would hold more than its capacity.       *)
LEMMA PollDone ==
  ASSUME Poll!Inv
  PROVE  Poll!AllConsumed
<1> SUFFICES ASSUME pc[Main] = "done"
             PROVE  queue = <<>> /\ \A c \in Consumers : pc[c] \in {"unborn", "exited"}
  BY DEF Poll!AllConsumed
<1> USE ConsumersAssumption, SizesAssumption
<1>1. /\ queue \in Seq(Nat) /\ Len(queue) <= Capacity /\ i \in Nat
      /\ todo \in [Consumers -> 0 .. Iterations] /\ popped \in [Consumers -> Seq(Nat)]
      /\ forks \in Nat
  BY Zenon DEF Poll!Inv, Poll!TypeOK
<1>2. /\ \A c \in Consumers : pc[c] \in {"unborn", "pop", "exited"}
      /\ \A c \in Consumers : /\ pc[c] = "unborn" => todo[c] = Iterations
                              /\ pc[c] = "exited" => todo[c] = 0
      /\ \A c \in Poll!Born : pc[c] = "exited"
      /\ program = "spsc" => Cardinality(Poll!Born) + forks <= 1
      /\ i = Ordered
  BY CountedParts DEF Poll!Inv
<1>3. /\ i = Len(queue) + SumFunction(Lengths)
      /\ \A c \in Consumers : Len(popped[c]) + todo[c] = Iterations
  BY ConsumedParts, Zenon DEF Poll!Inv
<1>4. /\ Poll!Born \in SUBSET Consumers /\ Cardinality(Poll!Born) \in Nat
      /\ Ordered \in Nat /\ Len(queue) \in Nat
  BY <1>1, BornFinite
<1>5. Lengths \in [Consumers -> Nat]
  BY <1>1 DEF Lengths
<1>6. \A c \in Consumers : Lengths[c] = IF c \in Poll!Born THEN Iterations ELSE 0
  <2> SUFFICES ASSUME NEW c \in Consumers
               PROVE  Lengths[c] = IF c \in Poll!Born THEN Iterations ELSE 0
    OBVIOUS
  <2>1. Lengths[c] \in Nat /\ Lengths[c] + todo[c] = Iterations
    BY <1>3, <1>5 DEF Lengths
  <2>2. CASE c \in Poll!Born
    <3>1. todo[c] = 0
      BY <1>2, <2>2
    <3> QED BY <2>1, <2>2, <3>1
  <2>3. CASE c \notin Poll!Born
    <3>1. todo[c] = Iterations
      BY <1>2, <2>3 DEF Poll!Born
    <3> QED BY <2>1, <2>3, <3>1
  <2> QED BY <2>2, <2>3
<1>7. SumFunction(Lengths) = Cardinality(Poll!Born) * Iterations
  BY <1>4, <1>5, <1>6, SumConstant
<1> DEFINE total == SumFunction(Lengths)
           left  == Len(queue)
<1>8. left \in Nat /\ total \in Nat /\ left <= Capacity /\ Ordered = left + total
  BY <1>1, <1>2, <1>3, <1>4, <1>5, SumNat
<1>10. total = Cardinality(Poll!Born) * Iterations
  BY <1>7
<1> HIDE DEF total, left
<1>12. left = 0
  <2>1. CASE program = "spsc"
    <3>1. Ordered = Iterations /\ (Cardinality(Poll!Born) = 0 \/ Cardinality(Poll!Born) = 1)
      BY <1>1, <1>2, <1>4, <2>1 DEF Ordered
    <3>2. CASE Cardinality(Poll!Born) = 0
      <4>1. total = 0
        BY <1>10, <3>2
      <4>2. left = Iterations
        BY <1>8, <3>1, <4>1
      <4> QED BY <1>8, <4>2
    <3>3. CASE Cardinality(Poll!Born) = 1
      <4>1. total = Iterations
        BY <1>10, <3>3
      <4> QED BY <1>8, <3>1, <4>1
    <3> QED BY <3>1, <3>2, <3>3
  <2>2. CASE program # "spsc"
    <3>1. Ordered = total
      BY <1>10, <2>2 DEF Ordered
    <3> QED BY <1>8, <3>1
  <2> QED BY <2>1, <2>2
<1>9. queue = <<>>
  BY <1>1, <1>12 DEF left
<1>11. \A c \in Consumers : pc[c] \in {"unborn", "exited"}
  BY <1>2 DEF Poll!Born
<1> QED BY <1>9, <1>11

LEMMA PollStep ==
  ASSUME Poll!Inv, Poll!Next
  PROVE  Poll!Inv'
BY PollType, PollConsumed, PollCounted DEF Poll!Inv

LEMMA PollStutter ==
  ASSUME Poll!Inv, UNCHANGED <<program, shared, polling>>
  PROVE  Poll!Inv'
<1>1. UNCHANGED Poll!vars
  BY DEF Poll!vars, shared, polling
<1> QED BY <1>1, PollStep, ZenonT(60) DEF Poll!Next, Poll!Parent, Poll!vars, Poll!Inv, Poll!TypeOK,
           Poll!ConsumedOnce, Poll!ChildrenCounted, Poll!Born

-----------------------------------------------------------------------------
(* Executions run one program. *)

LEMMA ProgramsDiffer ==
  /\ ~(Counts /\ Polls) /\ ~(Counts /\ Loops) /\ ~(Polls /\ Loops)
  /\ Counts \/ Polls \/ Loops =>
        program \notin {"pipeline", "daemon", "shared_memory"}
BY DEF Counts, Polls, Loops, Loop!Programs

(* No step goes on with another program.                                   *)
LEMMA OneProgram ==
  ASSUME [Next]_vars
  PROVE  program' = program
<1>1. CASE CountNext
  BY <1>1 DEF CountNext, Count!Next, Count!Parent, Count!Worker, Count!Terminated, Count!Start,
     Count!ForkFails, Count!AllStarted, Count!Join, Count!Acquire, Count!Lock, Count!LockPool,
     Count!Top, Count!Pop, Count!Load, Count!Store, Count!Relock, Count!Give, Count!Release,
     Count!setup, Count!vars
<1>2. CASE PollNext
  BY <1>2 DEF PollNext, Poll!Next, Poll!Parent, Poll!Consumer, Poll!Terminated, Poll!Fork,
     Poll!ForkFails, Poll!StartProducing, Poll!Push, Poll!PushFails, Poll!StopProducing,
     Poll!Reap, Poll!Finish, Poll!Pop, Poll!PopFails, Poll!Exit, Poll!vars
<1>3. CASE PipeNext \/ BackNext \/ ShareNext
  BY <1>3 DEF PipeNext, BackNext, ShareNext
<1>4. CASE LoopNext
  BY <1>4 DEF LoopNext, Loop!Next, Loop!Step, Loop!Complete, Loop!Thread, Loop!RunHandler,
     Loop!Return, Loop!Stop, Loop!Join, Loop!vars
<1>5. CASE UNCHANGED vars
  BY <1>5 DEF vars
<1> QED BY <1>1, <1>2, <1>3, <1>4, <1>5 DEF Next

(* Of the lock-free queues: each value pushed is popped once, consumers see*)
(* theirs in order, and when the parent is done nothing is left behind, by *)
(* whichever interleaving of pushes, pops and failing forks.               *)
THEOREM QueuesAreSafe == Spec => []QueueSafe
<1> DEFINE QI == Polls => Poll!Inv
<1>1. Init => QI
  <2> SUFFICES ASSUME Init, Polls PROVE Poll!Inv
    OBVIOUS
  <2>1. Poll!Init
    BY ProgramsDiffer DEF Init, Polls, Count!Init, Loop!Init, Loop!Programs
  <2> QED BY <2>1, PollInit
<1>2. QI /\ [Next]_vars => QI'
  <2> SUFFICES ASSUME QI, [Next]_vars, Polls' PROVE Poll!Inv'
    OBVIOUS
  <2>1. Polls /\ Poll!Inv
    BY OneProgram DEF Polls
  <2>2. CASE PollNext
    BY <2>1, <2>2, PollStep DEF PollNext
  <2>3. CASE UNCHANGED vars
    BY <2>1, <2>3, PollStutter DEF vars
  <2>4. PollNext \/ UNCHANGED vars
    BY <2>1, ProgramsDiffer DEF Next, CountNext, PipeNext, LoopNext, BackNext, ShareNext,
       Polls, Pipes, Backs, Shares
  <2> QED BY <2>2, <2>3, <2>4
<1>3. QI => QueueSafe
  BY PollDone DEF QueueSafe
<1> QED BY <1>1, <1>2, <1>3, PTL DEF Spec

-----------------------------------------------------------------------------
(* Counters *)

LEMMA SameNamesOfCounters ==
  /\ \A S : Count!Cardinality(S) = Cardinality(S)
  /\ \A s : Count!ToSet(s) = ToSet(s)
  /\ \A f : Count!Sum(f) = SumFunction(f)
  /\ \A s : Count!Last(s) = s[Len(s)]
  /\ \A s : Count!Front(s) = SubSeq(s, 1, Len(s) - 1)
  /\ \A s : Count!IsInjective(s) = IsInjective(s)
<1>1. \A S : Count!Cardinality(S) = Cardinality(S)
  BY Zenon DEF Count!Cardinality, Cardinality
<1>2. \A s : Count!ToSet(s) = ToSet(s)
  BY Zenon DEF Count!ToSet, ToSet
<1>3. \A f : Count!Sum(f) = SumFunction(f)
  BY Zenon DEF Count!Sum, Count!SumFunction, SumFunction, Count!SumFunctionOnSet,
     SumFunctionOnSet, Count!FoldFunctionOnSet, FoldFunctionOnSet, Count!MapThenFoldSet,
     MapThenFoldSet
<1>4. \A s : Count!Last(s) = s[Len(s)] /\ Count!Front(s) = SubSeq(s, 1, Len(s) - 1)
  BY Zenon DEF Count!Last, Count!Front
<1>5. \A s : Count!IsInjective(s) = IsInjective(s)
  BY Zenon DEF Count!IsInjective, IsInjective
<1> QED BY <1>1, <1>2, <1>3, <1>4, <1>5

Increments == [w \in Workers |-> PerWorker - todo[w]]

LEMMA MadeIs == Count!Made = SumFunction(Increments)
<1>1. Increments = [w \in Workers |-> PerWorker - todo[w]]
  BY Zenon DEF Increments
<1>2. Count!Made = SumFunction([w \in Workers |-> PerWorker - todo[w]])
  BY SameNamesOfCounters, Zenon DEF Count!Made
<1> QED BY <1>1, <1>2, Zenon

LEMMA MadeNext == (Count!Made = SumFunction(Increments))'
BY MadeIs, PTL

LEMMA InsideFinite ==
  /\ Count!Inside \subseteq Workers /\ IsFiniteSet(Count!Inside)
  /\ Cardinality(Count!Inside) \in Nat
  /\ Count!PermitsCounted <=> sem + Cardinality(Count!Inside) = Count!Admitted
<1>1. Count!Inside \subseteq Workers
  BY DEF Count!Inside
<1>2. IsFiniteSet(Count!Inside) /\ Cardinality(Count!Inside) \in Nat
  BY <1>1, WorkersAssumption, FS_Subset, FS_CardinalityType
<1>3. Count!PermitsCounted <=> sem + Cardinality(Count!Inside) = Count!Admitted
  BY SameNamesOfCounters, Zenon DEF Count!PermitsCounted
<1> QED BY <1>1, <1>2, <1>3

LEMMA PermitsNext ==
  (sem + Cardinality(Count!Inside) = Count!Admitted)' => Count!PermitsCounted'
<1>1. Count!PermitsCounted <=> sem + Cardinality(Count!Inside) = Count!Admitted
  BY InsideFinite
<1> QED BY <1>1, PTL

LEMMA CountType ==
  ASSUME Count!Inv, Count!Next
  PROVE  Count!TypeOK'
<1> USE WorkersAssumption, PermitsAssumption, PerWorkerAssumption
<1>1. /\ Count!TypeOK /\ Count!WorkersStand /\ Count!Exclusive /\ Count!CountersOwnedOnce
      /\ Count!PermitsCounted
  BY DEF Count!Inv
<1>0. Count!Admitted \in Nat \ {0} /\ Main \notin Workers
  BY DEF Count!Admitted
<1>2. ASSUME NEW w \in Workers, Count!Start(w) PROVE Count!TypeOK'
  BY <1>1, <1>2 DEF Count!Start, Count!Goto, Count!setup, Count!stack, Count!TypeOK,
     Count!Admitted, Count!Pooled, Count!WorkerLabels, Count!MainLabels
<1>3. ASSUME Count!ForkFails \/ Count!AllStarted \/ Count!Join PROVE Count!TypeOK'
  BY <1>1, <1>3 DEF Count!ForkFails, Count!AllStarted, Count!Join, Count!Goto, Count!setup,
     Count!stack, Count!TypeOK, Count!Admitted, Count!Pooled, Count!WorkerLabels,
     Count!MainLabels
<1>4. ASSUME NEW w \in Workers, Count!Acquire(w) PROVE Count!TypeOK'
  BY <1>1, <1>4 DEF Count!Acquire, Count!Goto, Count!setup, Count!stack, Count!TypeOK,
     Count!Admitted, Count!Pooled, Count!WorkerLabels, Count!MainLabels
<1>5. ASSUME NEW w \in Workers, Count!Lock(w) \/ Count!Relock(w) PROVE Count!TypeOK'
  BY <1>1, <1>5 DEF Count!Lock, Count!Relock, Count!LockPool, Count!Goto, Count!setup,
     Count!TypeOK, Count!Admitted, Count!Pooled, Count!WorkerLabels, Count!MainLabels
<1>6. ASSUME NEW w \in Workers, Count!Top(w) PROVE Count!TypeOK'
  <2>1. pool \in Seq(Count!Slots) /\ pool # <<>>
    BY <1>1, <1>6 DEF Count!Top, Count!TypeOK
  <2>2. pool[Len(pool)] \in Count!Slots
    BY <2>1
  <2>3. p_cnt' \in [Workers -> Count!Slots \cup {Count!None}]
    BY <1>1, <1>6, <2>2, SameNamesOfCounters DEF Count!Top, Count!TypeOK
  <2> QED BY <1>1, <1>6, <2>3 DEF Count!Top, Count!Goto, Count!setup, Count!TypeOK,
      Count!Admitted, Count!Pooled, Count!WorkerLabels, Count!MainLabels
<1>7. ASSUME NEW w \in Workers, Count!Pop(w) PROVE Count!TypeOK'
  <2>1. /\ pool \in Seq(Count!Slots) /\ pool # <<>>
        /\ pool' = SubSeq(pool, 1, Len(pool) - 1)
    <3>1. pool # <<>> /\ Count!Pooled
      BY <1>1, <1>7 DEF Count!Pop, Count!WorkersStand, Count!CountersOwnedOnce
    <3> QED BY <1>1, <1>7, <3>1, SameNamesOfCounters DEF Count!Pop, Count!TypeOK
  <2>2. pool' \in Seq(Count!Slots)
    BY <2>1
  <2> QED BY <1>1, <1>7, <2>2 DEF Count!Pop, Count!Goto, Count!setup, Count!TypeOK,
      Count!Admitted, Count!Pooled, Count!WorkerLabels, Count!MainLabels
<1>8. ASSUME NEW w \in Workers, Count!Incrementing(w) PROVE Count!Counter(w) \in Count!Slots
  <2>1. CASE Count!Pooled
    BY <1>1, <1>8, <2>1 DEF Count!Incrementing, Count!Counter, Count!TypeOK, Count!WorkersStand
  <2>2. CASE ~Count!Pooled
    BY <2>2 DEF Count!Counter, Count!Slots
  <2> QED BY <2>1, <2>2
<1>9. ASSUME NEW w \in Workers, Count!Load(w) PROVE Count!TypeOK'
  <2>1. v[Count!Counter(w)] \in Count!Ints
    BY <1>1, <1>8, <1>9 DEF Count!Load, Count!Incrementing, Count!TypeOK
  <2>2. reg' \in [Workers -> Count!Ints]
    BY <1>1, <1>9, <2>1 DEF Count!Load, Count!TypeOK
  <2> QED BY <1>1, <1>9, <2>2 DEF Count!Load, Count!Goto, Count!setup, Count!stack,
      Count!TypeOK, Count!Admitted, Count!Pooled, Count!WorkerLabels, Count!MainLabels
<1>10. ASSUME NEW w \in Workers, Count!Store(w) PROVE Count!TypeOK'
  <2>1. \A n \in Count!Ints : Count!Incremented(n) \in Count!Ints
    BY DEF Count!Ints, Count!Incremented
  <2>2. Count!Incremented(reg[w]) \in Count!Ints
    BY <1>1, <2>1 DEF Count!TypeOK
  <2>3. v' \in [Count!Slots -> Count!Ints]
    BY <1>1, <1>8, <1>10, <2>2 DEF Count!Store, Count!Incrementing, Count!TypeOK
  <2>4. todo' \in [Workers -> 0 .. PerWorker]
    BY <1>1, <1>10 DEF Count!Store, Count!TypeOK, Count!WorkersStand
  <2> QED BY <1>1, <1>10, <2>3, <2>4 DEF Count!Store, Count!Goto, Count!setup, Count!stack,
      Count!TypeOK, Count!Admitted, Count!Pooled, Count!WorkerLabels, Count!MainLabels
<1>11. ASSUME NEW w \in Workers, Count!Give(w) PROVE Count!TypeOK'
  <2>1. p_cnt[w] \in Count!Slots /\ pool \in Seq(Count!Slots)
    BY <1>1, <1>11 DEF Count!Give, Count!TypeOK, Count!WorkersStand
  <2>2. pool' \in Seq(Count!Slots) /\ p_cnt' \in [Workers -> Count!Slots \cup {Count!None}]
    BY <1>1, <1>11, <2>1 DEF Count!Give, Count!TypeOK
  <2> QED BY <1>1, <1>11, <2>2 DEF Count!Give, Count!Goto, Count!setup, Count!TypeOK,
      Count!Admitted, Count!Pooled, Count!WorkerLabels, Count!MainLabels
<1>12. ASSUME NEW w \in Workers, Count!Release(w) PROVE Count!TypeOK'
  <2>1. sem + 1 \in 0 .. Count!Admitted
    <3>1. w \in Count!Inside
      BY <1>12 DEF Count!Release, Count!Inside
    <3>2. Cardinality(Count!Inside) # 0
      BY <3>1, InsideFinite, FS_EmptySet
    <3> QED BY <1>0, <1>1, <3>2, InsideFinite DEF Count!TypeOK
  <2> QED BY <1>1, <1>12, <2>1 DEF Count!Release, Count!Goto, Count!setup, Count!stack,
      Count!TypeOK, Count!Admitted, Count!Pooled, Count!WorkerLabels, Count!MainLabels
<1>13. ASSUME UNCHANGED Count!vars PROVE Count!TypeOK'
  BY <1>1, <1>13 DEF Count!vars, Count!setup, Count!stack, Count!TypeOK, Count!Admitted,
     Count!Pooled
<1> QED BY <1>2, <1>3, <1>4, <1>5, <1>6, <1>7, <1>9, <1>10, <1>11, <1>12, <1>13
        DEF Count!Next, Count!Parent, Count!Worker, Count!Terminated

LEMMA CountStand ==
  ASSUME Count!Inv, Count!Next
  PROVE  Count!WorkersStand'
<1> USE WorkersAssumption, PerWorkerAssumption
<1>1. /\ Count!WorkersStand /\ vths \subseteq Workers
      /\ owner \in Workers \cup {Count!None} /\ Count!None \notin Workers
      /\ p_cnt \in [Workers -> Count!Slots \cup {Count!None}]
      /\ todo \in [Workers -> 0 .. PerWorker]
      /\ pc \in [Workers \cup {Main} -> Count!MainLabels \cup Count!WorkerLabels]
      /\ Main \notin Workers /\ pc[Main] \in {"start", "join", "assert"}
  <2>1. Count!None \notin Workers
    BY DEF Count!None, None
  <2> QED BY <2>1 DEF Count!Inv, Count!TypeOK, Count!MainLabels
<1>2. ASSUME NEW w \in Workers, Count!Start(w) PROVE Count!WorkersStand'
  BY <1>1, <1>2 DEF Count!Start, Count!Goto, Count!setup, Count!stack, Count!WorkersStand,
     Count!Pooled
<1>3. ASSUME Count!ForkFails \/ Count!AllStarted \/ Count!Join PROVE Count!WorkersStand'
  <2>1. \A w \in Workers : pc'[w] = pc[w]
    BY <1>1, <1>3 DEF Count!ForkFails, Count!AllStarted, Count!Join, Count!Goto
  <2>2. UNCHANGED <<program, vths, owner, p_cnt, todo>>
    BY <1>3 DEF Count!ForkFails, Count!AllStarted, Count!Join, Count!setup, Count!stack
  <2>3. pc'[Main] = "assert" => \A w \in vths : pc[w] \in {"unborn", "exited"}
    BY <1>1, <1>3 DEF Count!ForkFails, Count!AllStarted, Count!Join, Count!Goto
  <2> QED BY <1>1, <2>1, <2>2, <2>3 DEF Count!WorkersStand, Count!Pooled
<1>4. ASSUME NEW w \in Workers, Count!Acquire(w) PROVE Count!WorkersStand'
  BY <1>1, <1>4 DEF Count!Acquire, Count!Goto, Count!setup, Count!stack, Count!WorkersStand,
     Count!Pooled
<1>5. ASSUME NEW w \in Workers, Count!Lock(w) \/ Count!Relock(w) PROVE Count!WorkersStand'
  BY <1>1, <1>5 DEF Count!Lock, Count!Relock, Count!LockPool, Count!Goto, Count!setup,
     Count!WorkersStand, Count!Pooled
<1>6. ASSUME NEW w \in Workers, Count!Top(w) PROVE Count!WorkersStand'
  <2>1. Count!Last(pool) \in Count!Slots /\ Count!None \notin Count!Slots
    <3>1. pool \in Seq(Count!Slots) /\ pool # <<>>
      BY <1>6 DEF Count!Top, Count!Inv, Count!TypeOK
    <3>2. pool[Len(pool)] \in Count!Slots
      BY <3>1
    <3> QED BY <3>2, SameNamesOfCounters DEF Count!Slots, Count!None
  <2> QED BY <1>1, <1>6, <2>1 DEF Count!Top, Count!Goto, Count!setup, Count!WorkersStand,
      Count!Pooled
<1>7. ASSUME NEW w \in Workers, Count!Pop(w) PROVE Count!WorkersStand'
  BY <1>1, <1>7 DEF Count!Pop, Count!Goto, Count!setup, Count!WorkersStand, Count!Pooled
<1>8. ASSUME NEW w \in Workers, Count!Load(w) PROVE Count!WorkersStand'
  BY <1>1, <1>8 DEF Count!Load, Count!Goto, Count!setup, Count!stack, Count!WorkersStand,
     Count!Pooled
<1>9. ASSUME NEW w \in Workers, Count!Store(w) PROVE Count!WorkersStand'
  BY <1>1, <1>9 DEF Count!Store, Count!Goto, Count!setup, Count!stack, Count!WorkersStand,
     Count!Pooled
<1>10. ASSUME NEW w \in Workers, Count!Give(w) PROVE Count!WorkersStand'
  BY <1>1, <1>10 DEF Count!Give, Count!Goto, Count!setup, Count!WorkersStand, Count!Pooled
<1>11. ASSUME NEW w \in Workers, Count!Release(w) PROVE Count!WorkersStand'
  BY <1>1, <1>11 DEF Count!Release, Count!Goto, Count!setup, Count!stack, Count!WorkersStand,
     Count!Pooled
<1>12. ASSUME UNCHANGED Count!vars PROVE Count!WorkersStand'
  BY <1>1, <1>12 DEF Count!vars, Count!setup, Count!stack, Count!WorkersStand, Count!Pooled
<1> QED BY <1>2, <1>3, <1>4, <1>5, <1>6, <1>7, <1>8, <1>9, <1>10, <1>11, <1>12
        DEF Count!Next, Count!Parent, Count!Worker, Count!Terminated

LEMMA CountPermits ==
  ASSUME Count!Inv, Count!Next
  PROVE  Count!PermitsCounted'
<1> USE WorkersAssumption
<1>1. /\ pc \in [Workers \cup {Main} -> Count!MainLabels \cup Count!WorkerLabels]
      /\ sem \in Nat /\ Main \notin Workers
      /\ sem + Cardinality(Count!Inside) = Count!Admitted
      /\ Count!Inside \subseteq Workers /\ IsFiniteSet(Count!Inside)
      /\ Cardinality(Count!Inside) \in Nat
  BY InsideFinite DEF Count!Inv, Count!TypeOK
<1>2. ASSUME NEW w \in Workers, Count!Acquire(w) PROVE Count!PermitsCounted'
  <2>1. /\ pc[w] = "acquire" /\ sem' = sem - 1
        /\ pc'[w] \in {"lock", "load"} /\ \A x \in Workers \ {w} : pc'[x] = pc[x]
    BY <1>1, <1>2 DEF Count!Acquire, Count!Goto
  <2>2. Count!Inside' = Count!Inside \cup {w} /\ w \notin Count!Inside
    BY <2>1 DEF Count!Inside
  <2>3. Cardinality(Count!Inside') = Cardinality(Count!Inside) + 1
    BY <1>1, <2>2, FS_AddElement
  <2>4. Count!Admitted' = Count!Admitted
    BY <1>2 DEF Count!Acquire, Count!setup, Count!Admitted, Count!Pooled
  <2>5. sem' + Cardinality(Count!Inside') = Count!Admitted'
    BY <1>1, <2>1, <2>3, <2>4
  <2> QED BY <2>5, PermitsNext
<1>3. ASSUME NEW w \in Workers, Count!Release(w) PROVE Count!PermitsCounted'
  <2>1. /\ pc[w] = "release" /\ sem' = sem + 1
        /\ pc'[w] = "exited" /\ \A x \in Workers \ {w} : pc'[x] = pc[x]
    BY <1>1, <1>3 DEF Count!Release, Count!Goto
  <2>2. Count!Inside' = Count!Inside \ {w} /\ w \in Count!Inside
    BY <2>1 DEF Count!Inside
  <2>3. Cardinality(Count!Inside') = Cardinality(Count!Inside) - 1
    BY <1>1, <2>2, FS_RemoveElement
  <2>4. Count!Admitted' = Count!Admitted
    BY <1>3 DEF Count!Release, Count!setup, Count!Admitted, Count!Pooled
  <2>5. sem' + Cardinality(Count!Inside') = Count!Admitted'
    BY <1>1, <2>1, <2>3, <2>4
  <2> QED BY <2>5, PermitsNext
<1>4. ASSUME UNCHANGED <<program, sem>>,
             \A w \in Workers : pc'[w] \in {"unborn", "acquire", "exited"}
                                   <=> pc[w] \in {"unborn", "acquire", "exited"}
      PROVE  Count!PermitsCounted'
  <2>1. Count!Inside' = Count!Inside
    BY <1>4 DEF Count!Inside
  <2>2. Count!Admitted' = Count!Admitted
    BY <1>4 DEF Count!Admitted, Count!Pooled
  <2>3. sem' + Cardinality(Count!Inside') = Count!Admitted'
    BY <1>1, <1>4, <2>1, <2>2
  <2> QED BY <2>3, PermitsNext
<1>5. ASSUME \/ \E w \in Workers : \/ Count!Start(w) \/ Count!Lock(w) \/ Count!Top(w)
                                   \/ Count!Pop(w) \/ Count!Load(w) \/ Count!Store(w)
                                   \/ Count!Relock(w) \/ Count!Give(w)
             \/ Count!ForkFails \/ Count!AllStarted \/ Count!Join \/ UNCHANGED Count!vars
      PROVE  /\ UNCHANGED <<program, sem>>
             /\ \A w \in Workers : pc'[w] \in {"unborn", "acquire", "exited"}
                                      <=> pc[w] \in {"unborn", "acquire", "exited"}
  BY <1>1, <1>5 DEF Count!Start, Count!ForkFails, Count!AllStarted, Count!Join, Count!Lock,
     Count!LockPool, Count!Top, Count!Pop, Count!Load, Count!Store, Count!Relock, Count!Give,
     Count!Goto, Count!setup, Count!stack, Count!vars
<1> QED BY <1>2, <1>3, <1>4, <1>5
        DEF Count!Next, Count!Parent, Count!Worker, Count!Terminated

(* The binary semaphore admits one worker.                                 *)
LEMMA OneInside ==
  ASSUME Count!Inv, ~Count!Pooled
  PROVE  /\ \A w, x \in Count!Inside : w = x
         /\ sem > 0 => Count!Inside = {}
<1>1. /\ sem \in Nat /\ Cardinality(Count!Inside) \in Nat /\ IsFiniteSet(Count!Inside)
      /\ sem + Cardinality(Count!Inside) = 1
  BY InsideFinite DEF Count!Inv, Count!TypeOK, Count!Admitted
<1>2. Cardinality(Count!Inside) = 0 \/ Cardinality(Count!Inside) = 1
  BY <1>1
<1>3. CASE Cardinality(Count!Inside) = 0
  <2>1. Count!Inside = {}
    BY <1>1, <1>3, FS_EmptySet
  <2> QED BY <2>1
<1>4. CASE Cardinality(Count!Inside) = 1
  <2>1. PICK e : Count!Inside = {e}
    BY <1>1, <1>4, FS_Singleton
  <2>2. ~(sem > 0)
    BY <1>1, <1>4
  <2> QED BY <2>1, <2>2
<1> QED BY <1>2, <1>3, <1>4

LEMMA CountExclusive ==
  ASSUME Count!Inv, Count!Next
  PROVE  Count!Exclusive'
<1> USE WorkersAssumption
<1>1. /\ pc \in [Workers \cup {Main} -> Count!MainLabels \cup Count!WorkerLabels]
      /\ Main \notin Workers /\ Count!Exclusive /\ Count!WorkersStand
      /\ reg \in [Workers -> Count!Ints] /\ v \in [Count!Slots -> Count!Ints]
      /\ p_cnt \in [Workers -> Count!Slots \cup {Count!None}]
      /\ Count!None \notin Count!Slots
  BY DEF Count!Inv, Count!TypeOK, Count!Slots, Count!None
<1>2. ASSUME UNCHANGED <<program, v>>,
             \A w \in Workers : pc'[w] \in {"load", "store"} =>
                                   pc'[w] = pc[w] /\ p_cnt'[w] = p_cnt[w] /\ reg'[w] = reg[w]
      PROVE  Count!Exclusive'
  <2>1. \A w \in Workers : Count!Incrementing(w)' =>
           Count!Incrementing(w) /\ Count!Counter(w)' = Count!Counter(w)
    BY <1>2 DEF Count!Incrementing, Count!Counter, Count!Pooled
  <2> QED BY <1>1, <1>2, <2>1 DEF Count!Exclusive, Count!Incrementing
<1>3. ASSUME NEW w \in Workers, Count!Acquire(w), ~Count!Pooled PROVE Count!Exclusive'
  <2>1. /\ pc'[w] = "load" /\ \A x \in Workers \ {w} : pc'[x] = pc[x]
    BY <1>1, <1>3 DEF Count!Acquire, Count!Goto
  <2>2. \A x \in Workers : ~Count!Incrementing(x)
    BY <1>3, OneInside DEF Count!Acquire, Count!Inside, Count!Incrementing
  <2> QED BY <2>1, <2>2 DEF Count!Exclusive, Count!Incrementing
<1>4. ASSUME NEW w \in Workers, Count!Pop(w) PROVE Count!Exclusive'
  <2>1. /\ pc[w] = "pop" /\ pc'[w] = "load" /\ \A x \in Workers \ {w} : pc'[x] = pc[x]
        /\ UNCHANGED <<program, v, p_cnt, reg>> /\ Count!Pooled
    BY <1>1, <1>4 DEF Count!Pop, Count!Goto, Count!setup, Count!WorkersStand
  <2>2. p_cnt[w] \in Count!ToSet(pool)
    <3>1. pool # <<>> /\ p_cnt[w] = Count!Last(pool) /\ pool \in Seq(Count!Slots)
      BY <2>1 DEF Count!Inv, Count!CountersOwnedOnce, Count!TypeOK
    <3>2. Len(pool) \in DOMAIN pool
      BY <3>1
    <3> QED BY <3>1, <3>2, SameNamesOfCounters DEF ToSet
  <2>3. \A x \in Workers \ {w} : Count!Incrementing(x) => p_cnt[x] # p_cnt[w]
    BY <1>1, <2>1, <2>2 DEF Count!Inv, Count!CountersOwnedOnce, Count!Holders,
       Count!WorkersStand, Count!Incrementing
  <2>4. \A x \in Workers : Count!Counter(x)' = p_cnt[x] /\ Count!Counter(x) = p_cnt[x]
    BY <2>1 DEF Count!Counter, Count!Pooled
  <2> QED BY <1>1, <2>1, <2>3, <2>4 DEF Count!Exclusive, Count!Incrementing
<1>5. ASSUME NEW w \in Workers, Count!Load(w) PROVE Count!Exclusive'
  <2>1. /\ pc[w] = "load" /\ pc'[w] = "store" /\ \A x \in Workers \ {w} : pc'[x] = pc[x]
        /\ UNCHANGED <<program, v, p_cnt>> /\ reg'[w] = v[Count!Counter(w)]
        /\ \A x \in Workers \ {w} : reg'[x] = reg[x]
    BY <1>1, <1>5 DEF Count!Load, Count!Goto, Count!setup, Count!stack
  <2>2. \A x \in Workers : Count!Counter(x)' = Count!Counter(x)
    BY <2>1 DEF Count!Counter, Count!Pooled
  <2> QED BY <1>1, <2>1, <2>2 DEF Count!Exclusive, Count!Incrementing
<1>6. ASSUME NEW w \in Workers, Count!Store(w) PROVE Count!Exclusive'
  <2>1. /\ pc[w] = "store" /\ pc'[w] # "store" /\ \A x \in Workers \ {w} : pc'[x] = pc[x]
        /\ UNCHANGED <<program, p_cnt, reg>>
        /\ \A s \in Count!Slots \ {Count!Counter(w)} : v'[s] = v[s]
    BY <1>1, <1>6 DEF Count!Store, Count!Goto, Count!setup, Count!stack
  <2>2. \A x \in Workers : Count!Counter(x)' = Count!Counter(x)
    BY <2>1 DEF Count!Counter, Count!Pooled
  <2>3. \A x \in Workers \ {w} : Count!Incrementing(x) =>
           Count!Counter(x) \in Count!Slots \ {Count!Counter(w)}
    <3> SUFFICES ASSUME NEW x \in Workers \ {w}, Count!Incrementing(x)
                 PROVE  Count!Counter(x) \in Count!Slots \ {Count!Counter(w)}
      OBVIOUS
    <3>1. Count!Counter(x) # Count!Counter(w)
      BY <1>1, <2>1 DEF Count!Exclusive, Count!Incrementing
    <3>2. Count!Counter(x) \in Count!Slots
      <4>1. CASE Count!Pooled
        BY <1>1, <4>1 DEF Count!Incrementing, Count!Counter, Count!WorkersStand
      <4>2. CASE ~Count!Pooled
        BY <4>2, PermitsAssumption DEF Count!Counter, Count!Slots
      <4> QED BY <4>1, <4>2
    <3> QED BY <3>1, <3>2
  <2>4. \A x \in Workers : Count!Incrementing(x)' => Count!Incrementing(x)
    BY <2>1 DEF Count!Incrementing
  <2>5. ASSUME NEW x \in Workers, Count!Incrementing(x)'
        PROVE  /\ \A y \in Workers \ {x} : Count!Incrementing(y)' =>
                     Count!Counter(y)' # Count!Counter(x)'
               /\ pc'[x] = "store" => reg'[x] = v'[Count!Counter(x)']
    <3>1. \A y \in Workers \ {x} : Count!Incrementing(y)' =>
             Count!Counter(y)' # Count!Counter(x)'
      BY <1>1, <2>2, <2>4, <2>5 DEF Count!Exclusive
    <3>2. ASSUME pc'[x] = "store" PROVE reg'[x] = v'[Count!Counter(x)']
      <4>1. x # w /\ pc[x] = "store" /\ Count!Incrementing(x)
        BY <2>1, <2>4, <2>5, <3>2
      <4>2. v'[Count!Counter(x)] = v[Count!Counter(x)]
        BY <2>1, <2>3, <4>1
      <4>3. reg[x] = v[Count!Counter(x)]
        BY <1>1, <4>1 DEF Count!Exclusive
      <4> QED BY <2>1, <2>2, <4>2, <4>3
    <3> QED BY <3>1, <3>2
  <2> QED BY <2>5 DEF Count!Exclusive
<1>7. ASSUME \/ \E w \in Workers : \/ Count!Start(w) \/ Count!Lock(w) \/ Count!Top(w)
                                   \/ (Count!Acquire(w) /\ Count!Pooled)
                                   \/ Count!Relock(w) \/ Count!Give(w) \/ Count!Release(w)
             \/ Count!ForkFails \/ Count!AllStarted \/ Count!Join \/ UNCHANGED Count!vars
      PROVE  /\ UNCHANGED <<program, v>>
             /\ \A w \in Workers : pc'[w] \in {"load", "store"} =>
                   pc'[w] = pc[w] /\ p_cnt'[w] = p_cnt[w] /\ reg'[w] = reg[w]
  BY <1>1, <1>7 DEF Count!Start, Count!ForkFails, Count!AllStarted, Count!Join, Count!Acquire,
     Count!Lock, Count!LockPool, Count!Top, Count!Relock, Count!Give, Count!Release,
     Count!Goto, Count!setup, Count!stack, Count!vars
<1> QED BY <1>2, <1>3, <1>4, <1>5, <1>6, <1>7
        DEF Count!Next, Count!Parent, Count!Worker, Count!Terminated

(* A sequence without repetitions loses its last element.                  *)
LEMMA FrontOf ==
  ASSUME NEW S, NEW s \in Seq(S), s # <<>>, IsInjective(s)
  PROVE  /\ ToSet(SubSeq(s, 1, Len(s) - 1)) = ToSet(s) \ {s[Len(s)]}
         /\ IsInjective(SubSeq(s, 1, Len(s) - 1))
         /\ s[Len(s)] \in ToSet(s)
<1> DEFINE t == SubSeq(s, 1, Len(s) - 1)
<1>1. Len(s) \in Nat \ {0} /\ DOMAIN s = 1 .. Len(s) /\ Len(s) \in DOMAIN s
  OBVIOUS
<1>2. Len(s) - 1 \in Nat /\ Len(s) - 1 <= Len(s)
  BY <1>1
<1>3. Len(t) = Len(s) - 1 /\ DOMAIN t = 1 .. Len(s) - 1
  BY <1>1, <1>2
<1>4. \A a \in 1 .. Len(s) - 1 : t[a] = s[a]
  BY <1>1, <1>2, <1>3
<1> HIDE DEF t
<1>5. \A a \in DOMAIN s : a \in DOMAIN t \/ a = Len(s)
  BY <1>1, <1>3
<1>6. \A a \in DOMAIN t : a \in DOMAIN s /\ a # Len(s) /\ t[a] = s[a]
  BY <1>1, <1>3, <1>4
<1>7. IsInjective(t)
  BY <1>6 DEF IsInjective
<1>8. ToSet(t) = ToSet(s) \ {s[Len(s)]}
  <2>1. \A x \in ToSet(t) : x \in ToSet(s) /\ x # s[Len(s)]
    BY <1>1, <1>6 DEF ToSet, IsInjective
  <2>2. \A x \in ToSet(s) : x # s[Len(s)] => x \in ToSet(t)
    BY <1>5, <1>6 DEF ToSet
  <2> QED BY <2>1, <2>2
<1>9. s[Len(s)] \in ToSet(s)
  BY <1>1 DEF ToSet
<1> QED BY <1>7, <1>8, <1>9 DEF t

(* The counters that workers have taken.                                   *)
Held == {p_cnt[w] : w \in Count!Holders}

LEMMA OwnedParts ==
  Count!CountersOwnedOnce <=>
    (Count!Pooled =>
        /\ IsInjective(pool)
        /\ \A w \in Count!Holders : p_cnt[w] \notin ToSet(pool)
        /\ \A w, x \in Count!Holders : w # x => p_cnt[w] # p_cnt[x]
        /\ ToSet(pool) \cup Held = Count!Slots
        /\ \A w \in Workers : pc[w] = "pop" => pool # <<>> /\ p_cnt[w] = pool[Len(pool)])
<1>1. Held = {p_cnt[w] : w \in Count!Holders}
  BY Zenon DEF Held
<1>2. (ToSet(pool) \cup Held = Count!Slots)
         <=> (ToSet(pool) \cup {p_cnt[w] : w \in Count!Holders} = Count!Slots)
  BY <1>1, Zenon
<1>3. Count!CountersOwnedOnce <=>
        (Count!Pooled =>
            /\ IsInjective(pool)
            /\ \A w \in Count!Holders : p_cnt[w] \notin ToSet(pool)
            /\ \A w, x \in Count!Holders : w # x => p_cnt[w] # p_cnt[x]
            /\ ToSet(pool) \cup {p_cnt[w] : w \in Count!Holders} = Count!Slots
            /\ \A w \in Workers : pc[w] = "pop" => pool # <<>> /\ p_cnt[w] = pool[Len(pool)])
  BY SameNamesOfCounters, Zenon DEF Count!CountersOwnedOnce
<1> QED BY <1>2, <1>3, Zenon

LEMMA OwnedNext ==
  (Count!Pooled =>
        /\ IsInjective(pool)
        /\ \A w \in Count!Holders : p_cnt[w] \notin ToSet(pool)
        /\ \A w, x \in Count!Holders : w # x => p_cnt[w] # p_cnt[x]
        /\ ToSet(pool) \cup Held = Count!Slots
        /\ \A w \in Workers : pc[w] = "pop" => pool # <<>> /\ p_cnt[w] = pool[Len(pool)])'
     => Count!CountersOwnedOnce'
BY OwnedParts, PTL

LEMMA CountOwned ==
  ASSUME Count!Inv, Count!Next
  PROVE  Count!CountersOwnedOnce'
<1> USE WorkersAssumption
<1> SUFFICES ASSUME Count!Pooled' PROVE Count!CountersOwnedOnce'
  BY DEF Count!CountersOwnedOnce
<1>0. Count!Pooled
  BY DEF Count!Pooled, Count!Next, Count!Parent, Count!Worker, Count!Terminated, Count!Start,
     Count!ForkFails, Count!AllStarted, Count!Join, Count!Acquire, Count!Lock, Count!LockPool,
     Count!Top, Count!Pop, Count!Load, Count!Store, Count!Relock, Count!Give, Count!Release,
     Count!setup, Count!vars
<1>1. /\ pc \in [Workers \cup {Main} -> Count!MainLabels \cup Count!WorkerLabels]
      /\ Main \notin Workers /\ Count!WorkersStand
      /\ pool \in Seq(Count!Slots)
      /\ p_cnt \in [Workers -> Count!Slots \cup {Count!None}]
      /\ Count!None \notin Count!Slots
  BY DEF Count!Inv, Count!TypeOK, Count!Slots, Count!None
<1>2. /\ IsInjective(pool)
      /\ \A w \in Count!Holders : p_cnt[w] \notin ToSet(pool)
      /\ \A w, x \in Count!Holders : w # x => p_cnt[w] # p_cnt[x]
      /\ ToSet(pool) \cup Held = Count!Slots
      /\ \A w \in Workers : pc[w] = "pop" => pool # <<>> /\ p_cnt[w] = pool[Len(pool)]
  BY <1>0, OwnedParts, Zenon DEF Count!Inv
<1>3. ASSUME UNCHANGED <<program, pool, p_cnt>>,
             \A w \in Workers : p_cnt[w] # Count!None => (pc'[w] = "pop" <=> pc[w] = "pop"),
             \A w \in Workers : pc'[w] = "pop" => pc[w] = "pop"
      PROVE  Count!CountersOwnedOnce'
  <2>1. Count!Holders' = Count!Holders
    BY <1>3 DEF Count!Holders
  <2>2. Held' = Held
    BY <1>3, <2>1 DEF Held
  <2>3. Count!Slots' = Count!Slots
    BY DEF Count!Slots
  <2> QED BY <1>2, <1>3, <2>1, <2>2, <2>3, OwnedNext
<1>4. ASSUME NEW w \in Workers, Count!Top(w) PROVE Count!CountersOwnedOnce'
  <2>1. /\ pc[w] = "top" /\ pc'[w] = "pop" /\ \A x \in Workers \ {w} : pc'[x] = pc[x]
        /\ UNCHANGED pool /\ pool # <<>> /\ p_cnt'[w] = pool[Len(pool)]
        /\ \A x \in Workers \ {w} : p_cnt'[x] = p_cnt[x]
    BY <1>1, <1>4, SameNamesOfCounters DEF Count!Top, Count!Goto
  <2>2. w \notin Count!Holders /\ w \notin Count!Holders'
    BY <1>1, <2>1 DEF Count!Holders, Count!WorkersStand
  <2>3. Count!Holders' = Count!Holders
    BY <2>1, <2>2 DEF Count!Holders
  <2>4. \A x \in Count!Holders : x # w /\ x \in Workers /\ p_cnt'[x] = p_cnt[x]
    BY <2>1, <2>2 DEF Count!Holders
  <2>5. Held' = Held
    BY <2>3, <2>4 DEF Held
  <2>6. \A x \in Workers : pc'[x] = "pop" => pool' # <<>> /\ p_cnt'[x] = pool'[Len(pool')]
    BY <1>2, <2>1
  <2>7. /\ \A x \in Count!Holders' : p_cnt'[x] \notin ToSet(pool')
        /\ \A x, y \in Count!Holders' : x # y => p_cnt'[x] # p_cnt'[y]
    BY <1>2, <2>1, <2>3, <2>4
  <2>8. ToSet(pool') \cup Held' = Count!Slots'
    BY <1>2, <2>1, <2>5 DEF Count!Slots
  <2> QED BY <1>2, <2>1, <2>6, <2>7, <2>8, OwnedNext
<1>5. ASSUME NEW w \in Workers, pc[w] \in {"pop", "give"}
      PROVE  \A x \in Workers \ {w} : pc[x] # "pop"
  BY <1>1, <1>5 DEF Count!WorkersStand
<1>6. ASSUME NEW w \in Workers, Count!Pop(w) PROVE Count!CountersOwnedOnce'
  <2>1. /\ pc[w] = "pop" /\ pc'[w] = "load" /\ \A x \in Workers \ {w} : pc'[x] = pc[x]
        /\ pool' = SubSeq(pool, 1, Len(pool) - 1) /\ UNCHANGED p_cnt
    BY <1>1, <1>6, SameNamesOfCounters DEF Count!Pop, Count!Goto
  <2>2. pool # <<>> /\ p_cnt[w] = pool[Len(pool)]
    BY <1>2, <2>1
  <2>3. /\ ToSet(pool') = ToSet(pool) \ {p_cnt[w]} /\ IsInjective(pool')
        /\ p_cnt[w] \in ToSet(pool)
    BY <1>1, <1>2, <2>1, <2>2, FrontOf
  <2>4. Count!Holders' = Count!Holders \cup {w} /\ w \notin Count!Holders
    BY <1>0, <1>1, <2>1 DEF Count!Holders, Count!WorkersStand
  <2>5. Held' = Held \cup {p_cnt[w]}
    BY <2>1, <2>4 DEF Held
  <2>6. \A x \in Workers : pc'[x] # "pop"
    BY <1>5, <2>1
  <2>7. /\ \A x \in Count!Holders' : p_cnt'[x] \notin ToSet(pool')
        /\ \A x, y \in Count!Holders' : x # y => p_cnt'[x] # p_cnt'[y]
    BY <1>2, <2>1, <2>3, <2>4
  <2>8. ToSet(pool') \cup Held' = Count!Slots'
    BY <1>2, <2>3, <2>5 DEF Count!Slots
  <2> QED BY <2>3, <2>6, <2>7, <2>8, OwnedNext
<1>7. ASSUME NEW w \in Workers, Count!Give(w) PROVE Count!CountersOwnedOnce'
  <2>1. /\ pc[w] = "give" /\ pc'[w] = "release" /\ \A x \in Workers \ {w} : pc'[x] = pc[x]
        /\ pool' = Append(pool, p_cnt[w]) /\ p_cnt'[w] = Count!None
        /\ \A x \in Workers \ {w} : p_cnt'[x] = p_cnt[x]
    BY <1>1, <1>7 DEF Count!Give, Count!Goto
  <2>2. p_cnt[w] \in Count!Slots /\ w \in Count!Holders
    BY <1>1, <2>1 DEF Count!Holders, Count!WorkersStand
  <2>3. ToSet(pool') = ToSet(pool) \cup {p_cnt[w]} /\ p_cnt[w] \notin ToSet(pool)
    BY <1>1, <1>2, <2>1, <2>2, ToSetAppend
  <2>4. IsInjective(pool')
    <3>1. Range(pool) = ToSet(pool)
      BY DEF Range, ToSet
    <3> QED BY <1>1, <1>2, <2>1, <2>2, <2>3, <3>1, InjectiveAppend
  <2>5. Count!Holders' = Count!Holders \ {w}
    BY <2>1 DEF Count!Holders
  <2>6. \A x \in Count!Holders \ {w} : p_cnt'[x] = p_cnt[x] /\ p_cnt[x] # p_cnt[w]
    BY <1>2, <2>1, <2>2 DEF Count!Holders
  <2>7. Held = Held' \cup {p_cnt[w]}
    BY <2>2, <2>5, <2>6 DEF Held
  <2>8. /\ \A x \in Count!Holders' : p_cnt'[x] \notin ToSet(pool')
        /\ \A x, y \in Count!Holders' : x # y => p_cnt'[x] # p_cnt'[y]
    BY <1>2, <2>3, <2>5, <2>6
  <2>9. \A x \in Workers : pc'[x] # "pop"
    BY <1>5, <2>1
  <2>10. ToSet(pool') \cup Held' = Count!Slots'
    BY <1>2, <2>3, <2>7 DEF Count!Slots
  <2> QED BY <2>4, <2>8, <2>9, <2>10, OwnedNext
<1>8. ASSUME \/ \E w \in Workers : \/ Count!Start(w) \/ Count!Lock(w) \/ Count!Acquire(w)
                                   \/ Count!Load(w) \/ Count!Store(w)
                                   \/ Count!Relock(w) \/ Count!Release(w)
             \/ Count!ForkFails \/ Count!AllStarted \/ Count!Join \/ UNCHANGED Count!vars
      PROVE  /\ UNCHANGED <<program, pool, p_cnt>>
             /\ \A w \in Workers : p_cnt[w] # Count!None => (pc'[w] = "pop" <=> pc[w] = "pop")
             /\ \A w \in Workers : pc'[w] = "pop" => pc[w] = "pop"
  BY <1>1, <1>8 DEF Count!Start, Count!ForkFails, Count!AllStarted, Count!Join, Count!Acquire,
     Count!Lock, Count!LockPool, Count!Load, Count!Store, Count!Relock, Count!Release,
     Count!Goto, Count!setup, Count!stack, Count!vars
<1> QED BY <1>3, <1>4, <1>6, <1>7, <1>8
        DEF Count!Next, Count!Parent, Count!Worker, Count!Terminated

LEMMA MadeNat ==
  ASSUME Count!TypeOK
  PROVE  Increments \in [Workers -> Nat] /\ Count!Made = SumFunction(Increments) /\ Count!Made \in Nat
<1>1. Increments \in [Workers -> Nat]
  BY PerWorkerAssumption DEF Count!TypeOK, Increments
<1> QED BY <1>1, MadeIs, SumNat, WorkersAssumption

(* As many counters as there are permits.                                  *)
LEMMA SlotsFinite == Count!Slots = 1 .. Permits /\ IsFiniteSet(Count!Slots)
<1>1. Count!Slots = 1 .. Permits
  BY DEF Count!Slots
<1> QED BY <1>1, PermitsAssumption, IntervalSize

(* As long as nothing has wrapped around, a sum of counters is at least    *)
(* each of them, so that the next increment does not wrap around either if *)
(* the sum is less than the largest int.                                   *)
LEMMA CountStore ==
  ASSUME Count!Inv, Count!NoLostUpdate, NEW w \in Workers, Count!Store(w)
  PROVE  (Count!CountersGrow /\ Count!NoLostUpdate)'
<1> USE WorkersAssumption, PermitsAssumption, PerWorkerAssumption
<1> DEFINE c == Count!Counter(w)
<1>1. /\ Count!TypeOK /\ Count!TypeOK' /\ v \in [Count!Slots -> Count!Ints]
      /\ v' \in [Count!Slots -> Count!Ints]
  <2>1. Count!Next
    BY DEF Count!Next, Count!Worker
  <2>2. Count!TypeOK'
    BY <2>1, CountType
  <2> QED BY <2>2 DEF Count!Inv, Count!TypeOK, Count!Slots, Count!Ints
<1>2. c \in Count!Slots /\ reg[w] = v[c] /\ pc[w] = "store"
  <2>1. pc[w] = "store"
    BY DEF Count!Store
  <2>2. reg[w] = v[c]
    BY <2>1 DEF Count!Inv, Count!Exclusive, Count!Incrementing
  <2>3. CASE Count!Pooled
    BY <2>1, <2>2, <2>3 DEF Count!Inv, Count!TypeOK, Count!Counter, Count!WorkersStand
  <2>4. CASE ~Count!Pooled
    BY <2>1, <2>2, <2>4 DEF Count!Counter, Count!Slots
  <2> QED BY <2>3, <2>4
<1> HIDE DEF c
<1>3. /\ v' = [v EXCEPT ![c] = Count!Incremented(reg[w])]
      /\ todo' = [todo EXCEPT ![w] = todo[w] - 1]
  BY DEF Count!Store, c
<1>4. Count!Made \in Nat /\ Count!Made' = Count!Made + 1
  <2>1. Increments \in [Workers -> Int] /\ Increments' \in [Workers -> Int]
        /\ Count!Made = SumFunction(Increments) /\ Count!Made \in Nat
    <3>1. todo \in [Workers -> Int] /\ todo' \in [Workers -> Int]
      BY <1>1, <1>3 DEF Count!TypeOK
    <3>2. Increments \in [Workers -> Int] /\ Increments' \in [Workers -> Int]
      BY <3>1 DEF Increments
    <3> QED BY <1>1, <3>2, MadeNat
  <2>2. Increments'[w] = Increments[w] + 1 /\ Increments[w] \in Int
        /\ \A x \in Workers \ {w} : Increments'[x] = Increments[x]
    BY <1>1, <1>3 DEF Increments, Count!TypeOK
  <2>3. /\ SumFunction(Increments) \in Int
        /\ SumFunction(Increments') = SumFunction(Increments) + Increments'[w] - Increments[w]
    BY <2>1, <2>2, SumChanged
  <2>4. Count!Made' = SumFunction(Increments')
    BY MadeNext
  <2> QED BY <2>1, <2>2, <2>3, <2>4
<1> SUFFICES ASSUME Count!Made' <= IntMax
             PROVE  (\A s \in Count!Slots : v'[s] >= 0) /\ Count!Sum(v') = Count!Made'
  BY DEF Count!CountersGrow, Count!NoLostUpdate, Count!Slots
<1>5. Count!Made < IntMax /\ Count!Made <= IntMax
  BY <1>4
<1>6. SumFunction(v) = Count!Made
  BY <1>5, SameNamesOfCounters DEF Count!NoLostUpdate
<1>7. v \in [Count!Slots -> Nat]
  BY <1>1, <1>5 DEF Count!Inv, Count!CountersGrow, Count!Ints
<1>8. v[c] <= SumFunction(v) /\ v[c] \in Nat
  BY <1>2, <1>7, SlotsFinite, SumNat
<1>9. v'[c] = v[c] + 1 /\ \A s \in Count!Slots \ {c} : v'[s] = v[s]
  <2>1. v[c] # IntMax
    BY <1>4, <1>5, <1>6, <1>8
  <2> QED BY <1>1, <1>2, <1>3, <2>1 DEF Count!Incremented
<1>10. v' \in [Count!Slots -> Int] /\ v \in [Count!Slots -> Int]
  BY <1>1, <1>7 DEF Count!Ints
<1>11. SumFunction(v) \in Int /\ SumFunction(v') = SumFunction(v) + v'[c] - v[c]
  BY <1>2, <1>9, <1>10, SlotsFinite, SumChanged
<1>12. SumFunction(v') = Count!Made'
  BY <1>4, <1>6, <1>8, <1>9, <1>11
<1>13. \A s \in Count!Slots : v'[s] >= 0
  BY <1>7, <1>8, <1>9
<1> QED BY <1>12, <1>13, SameNamesOfCounters

LEMMA CountGrow ==
  ASSUME Count!Inv, Count!NoLostUpdate, Count!Next
  PROVE  (Count!CountersGrow /\ Count!NoLostUpdate)'
<1>1. ASSUME UNCHANGED <<v, todo>> PROVE (Count!CountersGrow /\ Count!NoLostUpdate)'
  <2>1. Increments' = Increments
    BY <1>1 DEF Increments
  <2>2. Count!Made' = Count!Made
    BY <2>1, MadeIs, MadeNext
  <2>3. Count!Sum(v') = Count!Sum(v) /\ Count!Slots' = Count!Slots
    BY <1>1 DEF Count!Slots
  <2> QED BY <1>1, <2>2, <2>3 DEF Count!Inv, Count!CountersGrow, Count!NoLostUpdate
<1>2. UNCHANGED <<v, todo>> \/ \E w \in Workers : Count!Store(w)
  BY DEF Count!Next, Count!Parent, Count!Worker, Count!Terminated, Count!Start,
     Count!ForkFails, Count!AllStarted, Count!Join, Count!Acquire, Count!Lock, Count!LockPool,
     Count!Top, Count!Pop, Count!Load, Count!Relock, Count!Give, Count!Release, Count!vars
<1> QED BY <1>1, <1>2, CountStore

LEMMA CountInit ==
  ASSUME Count!Init
  PROVE  Count!Inv /\ Count!NoLostUpdate
<1> USE WorkersAssumption, PermitsAssumption, PerWorkerAssumption
<1>1. Count!Slots = 1 .. Permits /\ Count!Admitted \in Nat \ {0} /\ Count!None = 0
  BY DEF Count!Slots, Count!Admitted, Count!None
<1>2. /\ vths \subseteq Workers /\ sem = Count!Admitted /\ owner = Count!None
      /\ pool = [s \in Count!Slots |-> s] /\ v = [s \in Count!Slots |-> 0]
      /\ p_cnt = [w \in Workers |-> Count!None] /\ reg = [w \in Workers |-> 0]
      /\ todo = [w \in Workers |-> PerWorker]
      /\ pc = [p \in Workers \cup {Main} |-> IF p = Main THEN "start" ELSE "unborn"]
      /\ program \in {"processes", "threads", "pool"}
  BY DEF Count!Init
<1>3. pc[Main] = "start" /\ \A w \in Workers : pc[w] = "unborn"
  BY <1>2
<1>4. pool \in Seq(Count!Slots) /\ Len(pool) = Permits /\ DOMAIN pool = Count!Slots
  BY <1>1, <1>2
<1>5. Count!TypeOK
  BY <1>1, <1>2, <1>4 DEF Count!TypeOK, Count!Ints, Count!MainLabels, Count!WorkerLabels
<1>6. Count!Exclusive
  BY <1>3 DEF Count!Exclusive, Count!Incrementing
<1>7. Count!Holders = {} /\ Count!Inside = {}
  BY <1>2, <1>3 DEF Count!Holders, Count!Inside
<1>8. Count!CountersOwnedOnce
  <2>1. IsInjective(pool)
    BY <1>1, <1>2, <1>4 DEF IsInjective
  <2>2. ToSet(pool) = Count!Slots
    BY <1>2, <1>4 DEF ToSet
  <2>3. Held = {}
    BY <1>7 DEF Held
  <2> QED BY <1>3, <1>7, <2>1, <2>2, <2>3, OwnedParts
<1>9. Count!PermitsCounted
  <2>1. Cardinality(Count!Inside) = 0
    BY <1>7, FS_EmptySet
  <2> QED BY <1>1, <1>2, <2>1, InsideFinite
<1>10. Count!WorkersStand
  <2>1. owner \notin Workers
    BY <1>1, <1>2 DEF None
  <2> QED BY <1>2, <1>3, <2>1 DEF Count!WorkersStand
<1>11. SumFunction(v) = 0 /\ SumFunction(Increments) = 0
  <2>1. Cardinality({}) * 0 = 0
    BY FS_EmptySet
  <2>2. v \in [Count!Slots -> Nat] /\ \A s \in Count!Slots : v[s] = IF s \in {} THEN 0 ELSE 0
    BY <1>2
  <2>3. Increments \in [Workers -> Nat]
        /\ \A w \in Workers : Increments[w] = IF w \in {} THEN 0 ELSE 0
    BY <1>2 DEF Increments
  <2>4. SumFunction(v) = Cardinality({}) * 0
    BY <2>2, SlotsFinite, SumConstant
  <2>5. SumFunction(Increments) = Cardinality({}) * 0
    BY <2>3, SumConstant
  <2> QED BY <2>1, <2>4, <2>5
<1>12. Count!CountersGrow
  BY <1>2 DEF Count!CountersGrow
<1>13. Count!NoLostUpdate
  BY <1>11, MadeIs, SameNamesOfCounters DEF Count!NoLostUpdate
<1> QED BY <1>5, <1>6, <1>8, <1>9, <1>10, <1>12, <1>13 DEF Count!Inv

(* An empty stack would mean that there are as many holders as permits; but*)
(* the worker that looks at it has a permit and is none of them.           *)
LEMMA CountPoolSuffices ==
  ASSUME Count!Inv
  PROVE  Count!PoolSuffices
<1> SUFFICES ASSUME NEW w \in Workers, pc[w] = "top", pool = <<>> PROVE FALSE
  BY DEF Count!PoolSuffices
<1>1. Count!Pooled /\ Count!WorkersStand /\ sem \in Nat
  BY DEF Count!Inv, Count!WorkersStand, Count!TypeOK
<1>2. ToSet(pool) \cup Held = Count!Slots /\ ToSet(pool) = {}
  BY <1>1, OwnedParts DEF Count!Inv, ToSet
<1> DEFINE h == [x \in Count!Holders |-> p_cnt[x]]
<1>3. h \in Surjection(Count!Holders, Count!Slots)
  <2>1. Held = Count!Slots
    BY <1>2
  <2> QED BY <2>1 DEF Held, Surjection
<1>4. /\ IsFiniteSet(Count!Inside) /\ Cardinality(Count!Inside) \in Nat
      /\ sem + Cardinality(Count!Inside) = Permits
  BY <1>1, InsideFinite DEF Count!Inv, Count!Admitted
<1>5. w \in Count!Inside
  BY DEF Count!Inside
<1>6. /\ IsFiniteSet(Count!Inside \ {w})
      /\ Cardinality(Count!Inside \ {w}) = Cardinality(Count!Inside) - 1
  BY <1>4, <1>5, FS_RemoveElement
<1>7. Count!Holders \in SUBSET (Count!Inside \ {w})
  BY <1>1 DEF Count!Holders, Count!Inside, Count!WorkersStand
<1>8. /\ IsFiniteSet(Count!Holders) /\ Cardinality(Count!Holders) \in Nat
      /\ Cardinality(Count!Holders) <= Cardinality(Count!Inside) - 1
  BY <1>6, <1>7, FS_Subset, FS_CardinalityType
<1>9. Cardinality(Count!Slots) <= Cardinality(Count!Holders)
  BY <1>3, <1>8, FS_Surjection
<1>10. Cardinality(Count!Slots) = Permits
  BY SlotsFinite, IntervalSize, PermitsAssumption
<1> QED BY <1>1, <1>4, <1>8, <1>9, <1>10, PermitsAssumption

(* What an int holds of a number.                                          *)
LEMMA WrappedIs ==
  ASSUME NEW n \in Int
  PROVE  /\ Count!Wrapped(n) \in Int /\ Count!Wrapped(n) <= IntMax
         /\ n \in 0 .. IntMax => Count!Wrapped(n) = n
<1> USE PerWorkerAssumption
<1> DEFINE m == 2 * (IntMax + 1)
<1>1. m \in Nat \ {0} /\ n + IntMax + 1 \in Int
  OBVIOUS
<1>2. \A a \in Int : a % m \in 0 .. m - 1 /\ (a \in 0 .. m - 1 => a % m = a)
  BY <1>1
<1>3. (n + IntMax + 1) % m \in 0 .. m - 1
  BY <1>1, <1>2
<1>4. n \in 0 .. IntMax => (n + IntMax + 1) % m = n + IntMax + 1
  <2>1. n \in 0 .. IntMax => n + IntMax + 1 \in 0 .. m - 1
    OBVIOUS
  <2> HIDE DEF m
  <2> QED BY <1>1, <1>2, <2>1
<1>5. Count!Wrapped(n) = ((n + IntMax + 1) % m) - (IntMax + 1)
  BY DEF Count!Wrapped
<1> QED BY <1>3, <1>4, <1>5

LEMMA ProductsGrow ==
  ASSUME NEW a \in Nat, NEW b \in Nat, a < b, NEW k \in Nat \ {0}
  PROVE  a * k < b * k
<1>1. b * k = a * k + (b - a) * k
  OBVIOUS
<1>2. (b - a) * k > 0
  OBVIOUS
<1> QED BY <1>1, <1>2

(* In the end the increments made are those of the workers that are over.  *)
LEMMA CountAssertion ==
  ASSUME Count!Inv, Count!NoLostUpdate
  PROVE  Count!AssertionIffAllFits
<1> DEFINE expected == PerWorker * Cardinality(vths)
           over == {w \in Workers : pc[w] = "exited"}
<1> SUFFICES ASSUME pc[Main] = "assert"
             PROVE  Count!Wrapped(Count!Sum(v)) = PerWorker * Count!Cardinality(vths) <=>
                      /\ PerWorker * Count!Cardinality(vths) <= IntMax
                      /\ \A w \in vths : pc[w] = "exited"
  BY Zenon DEF Count!AssertionIffAllFits
<1> USE WorkersAssumption, PerWorkerAssumption
<1>1. /\ Count!TypeOK /\ vths \in SUBSET Workers
      /\ \A w \in vths : pc[w] \in {"unborn", "exited"}
      /\ \A w \in Workers : /\ w \notin vths => pc[w] = "unborn"
                            /\ pc[w] = "unborn" => todo[w] = PerWorker
                            /\ pc[w] = "exited" => todo[w] = 0
  BY DEF Count!Inv, Count!TypeOK, Count!WorkersStand
<1>2. over \in SUBSET vths /\ over \in SUBSET Workers
  <2>1. \A w \in over : w \in Workers /\ pc[w] # "unborn"
    OBVIOUS
  <2>2. \A w \in over : w \in vths
    BY <1>1, <2>1
  <2> QED BY <2>1, <2>2
<1>3. IsFiniteSet(vths) /\ Cardinality(vths) \in Nat
  BY <1>1, FS_Subset, FS_CardinalityType
<1>4. Cardinality(over) \in Nat /\ Cardinality(over) <= Cardinality(vths)
      /\ (Cardinality(over) = Cardinality(vths) => over = vths)
  BY <1>2, <1>3, FS_Subset, FS_CardinalityType
<1>5. Count!Made = Cardinality(over) * PerWorker
  <2>1. \A w \in Workers : Increments[w] = IF w \in over THEN PerWorker ELSE 0
    <3> SUFFICES ASSUME NEW w \in Workers
                 PROVE  Increments[w] = IF w \in over THEN PerWorker ELSE 0
      OBVIOUS
    <3>1. Increments[w] = PerWorker - todo[w]
      BY DEF Increments
    <3>2. CASE pc[w] = "exited"
      BY <1>1, <3>1, <3>2
    <3>3. CASE pc[w] # "exited"
      <4>1. pc[w] = "unborn" /\ w \notin over
        BY <1>1, <3>3
      <4>2. todo[w] = PerWorker
        BY <1>1, <4>1
      <4> QED BY <3>1, <4>1, <4>2
    <3> QED BY <3>2, <3>3
  <2> QED BY <1>1, <1>2, <2>1, MadeNat, SumConstant
<1>6. SumFunction(v) \in Int
  <2>1. v \in [Count!Slots -> Int]
    BY <1>1 DEF Count!TypeOK, Count!Ints
  <2> QED BY <2>1, SlotsFinite, SumInt DEF SumFunction
<1>7. Count!Made <= IntMax => SumFunction(v) = Count!Made
  BY SameNamesOfCounters DEF Count!NoLostUpdate
<1>8. over = vths <=> \A w \in vths : pc[w] = "exited"
  BY <1>1, <1>2
<1> HIDE DEF over
<1>9. expected \in Nat /\ Count!Made \in Nat
  BY <1>1, <1>3, MadeNat
<1>10. over = vths => Count!Made = expected
  BY <1>3, <1>5
<1>11. over # vths => Count!Made < expected
  <2>1. over # vths => Cardinality(over) < Cardinality(vths)
    BY <1>3, <1>4
  <2> QED BY <1>3, <1>4, <1>5, <2>1, ProductsGrow
<1> HIDE DEF expected
<1>12. Count!Wrapped(SumFunction(v)) = expected <=> expected <= IntMax /\ over = vths
  <2>1. ASSUME expected <= IntMax, over = vths PROVE Count!Wrapped(SumFunction(v)) = expected
    <3>1. SumFunction(v) = expected
      BY <1>7, <1>10, <2>1
    <3> QED BY <1>6, <1>9, <2>1, <3>1, WrappedIs
  <2>2. ASSUME Count!Wrapped(SumFunction(v)) = expected PROVE expected <= IntMax /\ over = vths
    <3>1. expected <= IntMax
      BY <1>6, <2>2, WrappedIs
    <3>2. ASSUME over # vths PROVE FALSE
      <4>1. Count!Made < expected /\ Count!Made <= IntMax
        BY <1>9, <1>11, <3>1, <3>2
      <4>2. SumFunction(v) = Count!Made /\ Count!Made \in 0 .. IntMax
        BY <1>7, <1>9, <4>1
      <4>3. Count!Wrapped(SumFunction(v)) = Count!Made
        BY <1>6, <4>2, WrappedIs
      <4> QED BY <1>9, <2>2, <4>1, <4>3
    <3> QED BY <3>1, <3>2
  <2> QED BY <2>1, <2>2
<1>13. Count!Sum(v) = SumFunction(v) /\ expected = PerWorker * Count!Cardinality(vths)
  BY SameNamesOfCounters DEF expected
<1> QED BY <1>8, <1>12, <1>13

LEMMA CountStep ==
  ASSUME Count!Inv, Count!NoLostUpdate, Count!Next
  PROVE  Count!Inv' /\ Count!NoLostUpdate'
<1>1. Count!CountersGrow' /\ Count!NoLostUpdate'
  BY CountGrow
<1> QED BY <1>1, CountType, CountExclusive, CountOwned, CountPermits, CountStand DEF Count!Inv

LEMMA CountStutter ==
  ASSUME Count!Inv, Count!NoLostUpdate, UNCHANGED Count!vars
  PROVE  Count!Inv' /\ Count!NoLostUpdate'
BY DEF Count!vars, Count!setup, Count!stack, Count!Inv, Count!NoLostUpdate, Count!TypeOK,
   Count!Exclusive, Count!CountersOwnedOnce, Count!PermitsCounted, Count!WorkersStand,
   Count!CountersGrow, Count!Incrementing, Count!Counter, Count!Holders, Count!Inside,
   Count!Made, Count!Pooled, Count!Admitted, Count!Slots, Count!Sum

LEMMA CountersSafeAlways == Spec => [](Counts => Count!Inv /\ Count!NoLostUpdate)
<1> DEFINE CI == Counts => Count!Inv /\ Count!NoLostUpdate
<1>1. Init => CI
  <2> SUFFICES ASSUME Init, Counts PROVE Count!Inv /\ Count!NoLostUpdate
    OBVIOUS
  <2>1. Count!Init
    BY ProgramsDiffer DEF Init, Counts, Poll!Init, Loop!Init, Loop!Programs
  <2> QED BY <2>1, CountInit
<1>2. CI /\ [Next]_vars => CI'
  <2> SUFFICES ASSUME CI, [Next]_vars, Counts' PROVE Count!Inv' /\ Count!NoLostUpdate'
    OBVIOUS
  <2>1. Counts /\ Count!Inv /\ Count!NoLostUpdate
    BY OneProgram DEF Counts
  <2>2. CASE CountNext
    BY <2>1, <2>2, CountStep DEF CountNext
  <2>3. CASE UNCHANGED vars
    <3>1. UNCHANGED Count!vars
      BY <2>3 DEF vars, shared, counting, Count!vars, Count!setup, Count!stack
    <3> QED BY <2>1, <3>1, CountStutter
  <2>4. CountNext \/ UNCHANGED vars
    BY <2>1, ProgramsDiffer DEF Next, PollNext, PipeNext, LoopNext, BackNext, ShareNext,
       Counts, Pipes, Backs, Shares
  <2> QED BY <2>2, <2>3, <2>4
<1> QED BY <1>1, <1>2, PTL DEF Spec

(* Whichever workers there are, and however they interleave: no two        *)
(* increment one counter at a time, a counter is in the pool or is one     *)
(* worker's, who is admitted finds one there, and no increment is lost.    *)
THEOREM CountersAreSafe == Spec => []CountersSafe
<1>1. (Counts => Count!Inv /\ Count!NoLostUpdate) => CountersSafe
  BY CountPoolSuffices DEF CountersSafe
<1> QED BY <1>1, CountersSafeAlways, PTL

(* The assertion at the end of the programs holds exactly if every worker  *)
(* was started and what they count to fits an int.                         *)
THEOREM AssertionsTell == Spec => []AssertionIffAllFits
<1>1. (Counts => Count!Inv /\ Count!NoLostUpdate) => AssertionIffAllFits
  BY CountAssertion DEF AssertionIffAllFits
<1> QED BY <1>1, CountersSafeAlways, PTL

-----------------------------------------------------------------------------
(* SharedObject, Daemon and EventLoops *)

(* However often a fork, a session or a file fails, and whatever the       *)
(* program was started with: a daemon that sleeps leads no session, has    *)
(* nothing of its starter's, and is the only process that is left; who     *)
(* started it learns of a failure only if nothing is left.  And the object *)
(* of the shared memory demo is used by no process after it was destroyed. *)
THEOREM ForksAreSafe == Spec => []ForksSafe
<1> DEFINE FI == (Backs => Back!Inv) /\ (Shares => Obj!Inv)
<1>1. Init => FI
  <2> SUFFICES ASSUME Init PROVE FI
    OBVIOUS
  <2>1. ASSUME Backs PROVE Back!Inv
    <3>1. Back!Init
      BY <2>1, ProgramsDiffer DEF Init, Backs, Count!Init, Poll!Init, Loop!Init, Loop!Programs
    <3> QED BY <3>1, BackInit
  <2>2. ASSUME Shares PROVE Obj!Inv
    <3>1. Obj!Init
      BY <2>2, ProgramsDiffer DEF Init, Shares, Count!Init, Poll!Init, Loop!Init, Loop!Programs
    <3> QED BY <3>1, ObjInit
  <2> QED BY <2>1, <2>2
<1>2. FI /\ [Next]_vars => FI'
  <2> SUFFICES ASSUME FI, [Next]_vars PROVE FI'
    OBVIOUS
  <2>1. ASSUME Backs' PROVE Back!Inv'
    <3>1. Backs
      BY <2>1, OneProgram DEF Backs
    <3>2. BackNext \/ UNCHANGED vars
      BY <3>1, ProgramsDiffer DEF Next, CountNext, PollNext, PipeNext, LoopNext, ShareNext,
         Counts, Polls, Pipes, Loops, Shares, Backs, Loop!Programs
    <3>3. [Back!Next]_(Back!vars)
      BY <3>2 DEF BackNext, vars, forking, Back!vars
    <3> QED BY <3>1, <3>3, BackStep
  <2>2. ASSUME Shares' PROVE Obj!Inv'
    <3>1. Shares
      BY <2>2, OneProgram DEF Shares
    <3>2. CASE ShareNext
      BY <3>1, <3>2, ObjStep DEF ShareNext
    <3>3. CASE UNCHANGED vars
      BY <3>1, <3>3 DEF vars, shared, sharing, Obj!Inv
    <3>4. ShareNext \/ UNCHANGED vars
      BY <3>1, ProgramsDiffer DEF Next, CountNext, PollNext, PipeNext, LoopNext, BackNext,
         Counts, Polls, Pipes, Loops, Backs, Shares, Loop!Programs
    <3> QED BY <3>2, <3>3, <3>4
  <2> QED BY <2>1, <2>2
<1>3. FI => ForksSafe
  BY BackSafe, ObjSafe DEF ForksSafe
<1> QED BY <1>1, <1>2, <1>3, PTL DEF Spec

(* Whichever handlers find an error, and whenever stop() comes: posted     *)
(* handlers run in their order, timers in that of their times, a client    *)
(* that was accepted is answered before main() ends, and main() does not   *)
(* end while anything is awaited, unless it stopped the io_service.        *)
THEOREM EventLoopsAreSafe == Spec => []EventLoopsSafe
<1> DEFINE LI == Loops => Loop!Inv
<1>1. Init => LI
  <2> SUFFICES ASSUME Init, Loops PROVE Loop!Inv
    OBVIOUS
  <2>1. Loop!Init
    BY ProgramsDiffer DEF Init, Loops, Loop!Programs, Count!Init, Poll!Init
  <2> QED BY <2>1, LoopInit
<1>2. LI /\ [Next]_vars => LI'
  <2> SUFFICES ASSUME LI, [Next]_vars, Loops' PROVE Loop!Inv'
    OBVIOUS
  <2>1. Loops /\ Loop!Inv
    BY OneProgram DEF Loops
  <2>2. LoopNext \/ UNCHANGED vars
    BY <2>1, ProgramsDiffer DEF Next, CountNext, PollNext, PipeNext, BackNext, ShareNext,
       Counts, Polls, Pipes, Backs, Shares
  <2>3. [Loop!Next]_(Loop!vars)
    BY <2>2 DEF LoopNext, vars, looping, Loop!vars
  <2> QED BY <2>1, <2>3, LoopStep
<1>3. LI => EventLoopsSafe
  BY LoopSafe DEF EventLoopsSafe
<1> QED BY <1>1, <1>2, <1>3, PTL DEF Spec

-----------------------------------------------------------------------------
(* Pipeline *)

LEMMA PipelineAlways ==
  Spec => [](Pipes => Pipe!Inv /\ Pipe!NoIdleWhilePending /\ Pipe!InOrder /\ Pipe!KeepsUp)
<1> DEFINE PI == Pipes => PipeKeeps
<1>1. Init => PI
  <2> SUFFICES ASSUME Init, Pipes PROVE PipeKeeps
    OBVIOUS
  <2>1. Pipe!Init
    BY ProgramsDiffer DEF Init, Pipes, Loop!Init, Loop!Programs, Count!Init, Poll!Init
  <2> QED BY <2>1, KeepsInit
<1>2. PI /\ [Next]_vars => PI'
  <2> SUFFICES ASSUME PI, [Next]_vars, Pipes' PROVE PipeKeeps'
    OBVIOUS
  <2>1. Pipes /\ PipeKeeps
    BY OneProgram DEF Pipes
  <2>2. PipeNext \/ UNCHANGED vars
    BY <2>1, ProgramsDiffer DEF Next, CountNext, PollNext, LoopNext, BackNext, ShareNext,
       Counts, Polls, Loops, Backs, Shares, Pipes, Loop!Programs
  <2>3. [Pipe!Next]_(Pipe!vars)
    BY <2>2 DEF PipeNext, vars, piping, Pipe!vars, Pipe!args
  <2> QED BY <2>1, <2>3, KeepsStep
<1>3. PI => (Pipes => Pipe!Inv /\ Pipe!NoIdleWhilePending /\ Pipe!InOrder /\ Pipe!KeepsUp)
  BY KeepsSafe
<1> QED BY <1>1, <1>2, <1>3, PTL DEF Spec

(* For any number of processors and any periods: a slot is taken exactly   *)
(* as long as one timer is armed for it, no frame waits beside a free      *)
(* processor, and every frame that arrived waits, runs or was processed,   *)
(* in the order of arrival.                                                *)
THEOREM FramesAreSafe == Spec => []PipelineSafe
<1>1. (Pipes => Pipe!Inv /\ Pipe!NoIdleWhilePending /\ Pipe!InOrder /\ Pipe!KeepsUp) => PipelineSafe
  BY DEF PipelineSafe
<1> QED BY <1>1, PipelineAlways, PTL

(* Processors that are together as fast as frames arrive leave none        *)
(* waiting, but for one that finds a processor at the end of its frame.    *)
THEOREM FramesKeepUp == Spec => []KeepsUp
<1>1. (Pipes => Pipe!Inv /\ Pipe!NoIdleWhilePending /\ Pipe!InOrder /\ Pipe!KeepsUp) => KeepsUp
  BY DEF KeepsUp
<1> QED BY <1>1, PipelineAlways, PTL

=============================================================================
