------------------------------ MODULE DataLemmas ------------------------------
(***************************************************************************)
(* Induction over natural numbers, and what it shows of the recursively    *)
(* defined operators that the models are built from.  An induction theorem *)
(* for formulas would take an operator as its parameter; these take a set: *)
(* that of the numbers for which the formula is true.                      *)
(***************************************************************************)
EXTENDS Integers, Sequences, FiniteSets, Functions, Dropping,
        FiniteSetTheorems, WellFoundedInduction, TLAPS

(* A set of natural numbers that is not empty has a least element.         *)
LEMMA SmallestNat ==
  ASSUME NEW T, T \subseteq Nat, T # {}
  PROVE  \E n \in T : \A m \in T : n <= m
<1> DEFINE R == OpToRel(<, Nat)
<1>1. IsWellFoundedOn(R, Nat)
  BY NatLessThanWellFounded
<1>2. \A x, y \in Nat : y < x => <<y, x>> \in R
  BY DEF OpToRel
<1> HIDE DEF R
<1>3. PICK x \in T : \A y \in T : ~ (<<y, x>> \in R)
  BY <1>1, WFMin
<1>4. \A y \in T : ~(y < x)
  <2> TAKE y \in T
  <2>1. x \in Nat /\ y \in Nat
    OBVIOUS
  <2>2. ~(<<y, x>> \in R)
    BY <1>3
  <2> QED BY <1>2, <2>1, <2>2
<1> HIDE DEF R
<1>5. \A y \in T : x <= y
  BY <1>4
<1> QED BY <1>5

(* The principle of induction.                                             *)
LEMMA Induct ==
  ASSUME NEW T, 0 \in T, \A n \in Nat : n \in T => n + 1 \in T
  PROVE  Nat \subseteq T
<1> SUFFICES ASSUME Nat \ T # {} PROVE FALSE
  OBVIOUS
<1>1. PICK n \in Nat \ T : \A m \in Nat \ T : n <= m
  BY SmallestNat
<1>2. n # 0
  OBVIOUS
<1>3. n - 1 \in Nat /\ ~(n <= n - 1)
  BY <1>2
<1>4. n - 1 \in T
  BY <1>1, <1>3
<1>5. (n - 1) + 1 = n
  BY <1>3
<1> QED BY <1>3, <1>4, <1>5

(* Induction up to a bound: what a loop over 1 .. N preserves.             *)
LEMMA InductTo ==
  ASSUME NEW N \in Nat, NEW T, 0 \in T, \A n \in 1 .. N : n - 1 \in T => n \in T
  PROVE  \A n \in 0 .. N : n \in T
<1> DEFINE U == {n \in Nat : n <= N => n \in T}
<1>1. 0 \in U
  OBVIOUS
<1>2. ASSUME NEW n \in Nat, n \in U PROVE n + 1 \in U
  <2>1. CASE n + 1 <= N
    <3>1. n \in T /\ n + 1 \in 1 .. N /\ (n + 1) - 1 = n
      BY <1>2, <2>1
    <3>2. n + 1 \in T
      BY <3>1
    <3> QED BY <3>2
  <2>2. CASE ~(n + 1 <= N)
    BY <2>2
  <2> QED BY <2>1, <2>2
<1>3. Nat \subseteq U
  <2> HIDE DEF U
  <2> QED BY <1>1, <1>2, Induct
<1> QED BY <1>3

LEMMA IntervalSize ==
  ASSUME NEW n \in Nat
  PROVE  IsFiniteSet(1 .. n) /\ Cardinality(1 .. n) = n
<1>1. IsFiniteSet(1 .. n)
  BY FS_Interval
<1>2. Cardinality(1 .. n) = IF 1 > n THEN 0 ELSE n - 1 + 1
  BY FS_Interval
<1> QED BY <1>1, <1>2

-----------------------------------------------------------------------------
(* Dropping. *)

IsKept(s, gone, f, m) ==
    f = [n \in 0 .. m |-> IF n = 0 THEN <<>>
                          ELSE IF s[n] \in gone THEN f[n - 1]
                          ELSE Append(f[n - 1], s[n])]

(* The function that Dropping defines recursively exists.                  *)
LEMMA KeptExists ==
  ASSUME NEW s, NEW gone
  PROVE  \A m \in Nat : \E f : IsKept(s, gone, f, m)
<1> DEFINE T == {m \in Nat : \E f : IsKept(s, gone, f, m)}
<1>1. 0 \in T
  <2>1. IsKept(s, gone, [n \in 0 .. 0 |-> <<>>], 0)
    BY DEF IsKept
  <2> QED BY <2>1
<1>2. ASSUME NEW m \in Nat, m \in T PROVE m + 1 \in T
  <2>1. PICK f : IsKept(s, gone, f, m)
    BY <1>2
  <2> DEFINE next == IF s[m + 1] \in gone THEN f[m] ELSE Append(f[m], s[m + 1])
             g == [n \in 0 .. m + 1 |-> IF n = m + 1 THEN next ELSE f[n]]
  <2>2. ASSUME NEW n \in 0 .. m + 1
        PROVE  g[n] = IF n = 0 THEN <<>> ELSE IF s[n] \in gone THEN g[n - 1]
                      ELSE Append(g[n - 1], s[n])
    <3>1. CASE n = m + 1
      <4>1. g[n - 1] = f[m] /\ g[n] = next /\ n - 1 = m
        BY <3>1
      <4> QED BY <4>1, <3>1
    <3>2. CASE n \in 0 .. m
      <4>1. f[n] = IF n = 0 THEN <<>> ELSE IF s[n] \in gone THEN f[n - 1]
                   ELSE Append(f[n - 1], s[n])
        BY <2>1, <3>2 DEF IsKept
      <4>2. g[n] = f[n] /\ (n # 0 => g[n - 1] = f[n - 1])
        BY <3>2
      <4> QED BY <4>1, <4>2
    <3> QED BY <3>1, <3>2
  <2>3. IsKept(s, gone, g, m + 1)
    BY <2>2 DEF IsKept
  <2> QED BY <2>3
<1>3. Nat \subseteq T
  <2> HIDE DEF T
  <2> QED BY <1>1, <1>2, Induct
<1> QED BY <1>3

(* What Dropping keeps of each prefix of a sequence.                       *)
Keeps(s, gone, f) ==
    /\ f[0] = <<>>
    /\ \A n \in 1 .. Len(s) :
          /\ s[n] \in gone => f[n] = f[n - 1]
          /\ s[n] \notin gone => f[n] = Append(f[n - 1], s[n])

LEMMA DroppingDef ==
  ASSUME NEW S, NEW s \in Seq(S), NEW gone
  PROVE  \E f : Keeps(s, gone, f) /\ Dropping(s, gone) = f[Len(s)]
<1> DEFINE f == CHOOSE f : IsKept(s, gone, f, Len(s))
<1>0. Len(s) \in Nat
  OBVIOUS
<1>1. IsKept(s, gone, f, Len(s))
  BY <1>0, KeptExists
<1>2. Dropping(s, gone) = f[Len(s)]
  BY DEF Dropping, IsKept
<1> HIDE DEF f
<1>3. f[0] = <<>>
  BY <1>0, <1>1 DEF IsKept
<1>4. ASSUME NEW n \in 1 .. Len(s)
      PROVE  /\ s[n] \in gone => f[n] = f[n - 1]
             /\ s[n] \notin gone => f[n] = Append(f[n - 1], s[n])
  <2>1. n \in 0 .. Len(s) /\ n # 0
    BY <1>0
  <2>2. f[n] = IF s[n] \in gone THEN f[n - 1] ELSE Append(f[n - 1], s[n])
    BY <1>1, <2>1 DEF IsKept
  <2> QED BY <2>2
<1> QED BY <1>2, <1>3, <1>4 DEF Keeps

LEMMA RangeAppend ==
  ASSUME NEW S, NEW u \in Seq(S), NEW e \in S
  PROVE  Range(Append(u, e)) = Range(u) \cup {e}
<1>1. Len(u) \in Nat /\ DOMAIN u = 1 .. Len(u)
  OBVIOUS
<1>2. DOMAIN Append(u, e) = 1 .. Len(u) + 1
  OBVIOUS
<1>3. \A i \in 1 .. Len(u) : Append(u, e)[i] = u[i]
  OBVIOUS
<1>4. Append(u, e)[Len(u) + 1] = e
  OBVIOUS
<1>5. 1 .. Len(u) + 1 = (1 .. Len(u)) \cup {Len(u) + 1}
  BY <1>1
<1> QED BY <1>1, <1>2, <1>3, <1>4, <1>5, Zenon DEF Range

(* The kept elements form a sequence, of exactly the elements of s that    *)
(* are not gone.                                                           *)
Elements(s, n) == {s[i] : i \in 1 .. n}

LEMMA DroppingPrefix ==
  ASSUME NEW S, NEW s \in Seq(S), NEW gone, NEW f, Keeps(s, gone, f)
  PROVE  \A n \in 0 .. Len(s) :
            /\ f[n] \in Seq(S)
            /\ Range(f[n]) = Elements(s, n) \ gone
<1> DEFINE P(n) == /\ f[n] \in Seq(S)
                   /\ Range(f[n]) = Elements(s, n) \ gone
           T == {n \in 0 .. Len(s) : P(n)}
<1>1. 0 \in T
  <2>1. f[0] = <<>>
    BY DEF Keeps
  <2>2. Elements(s, 0) = {}
    BY DEF Elements
  <2>3. Range(<<>>) = {}
    BY DEF Range
  <2>4. <<>> \in Seq(S) /\ 0 \in 0 .. Len(s)
    OBVIOUS
  <2>5. P(0)
    BY <2>1, <2>2, <2>3, <2>4
  <2> QED BY <2>4, <2>5
<1>2. ASSUME NEW n \in 1 .. Len(s), n - 1 \in T PROVE n \in T
  <2>1. s[n] \in S /\ n \in 0 .. Len(s)
    OBVIOUS
  <2>2. f[n - 1] \in Seq(S) /\ Range(f[n - 1]) = Elements(s, n - 1) \ gone
    BY <1>2
  <2>3. Elements(s, n) = Elements(s, n - 1) \cup {s[n]}
    <3>1. 1 .. n = (1 .. n - 1) \cup {n}
      OBVIOUS
    <3> QED BY <3>1 DEF Elements
  <2>4. CASE s[n] \in gone
    <3>1. f[n] = f[n - 1]
      BY <2>4 DEF Keeps
    <3> QED BY <2>1, <2>2, <2>3, <2>4, <3>1
  <2>5. CASE s[n] \notin gone
    <3>1. f[n] = Append(f[n - 1], s[n])
      BY <2>5 DEF Keeps
    <3>2. Range(Append(f[n - 1], s[n])) = Range(f[n - 1]) \cup {s[n]}
      BY <2>1, <2>2, RangeAppend
    <3>3. f[n] \in Seq(S)
      BY <2>1, <2>2, <3>1
    <3> QED BY <2>1, <2>2, <2>3, <2>5, <3>1, <3>2, <3>3
  <2> QED BY <2>4, <2>5
<1>3. \A n \in 0 .. Len(s) : n \in T
  <2>1. Len(s) \in Nat
    OBVIOUS
  <2> HIDE DEF T
  <2> QED BY <1>1, <1>2, <2>1, InductTo
<1> QED BY <1>3

LEMMA DroppingRange ==
  ASSUME NEW S, NEW s \in Seq(S), NEW gone
  PROVE  /\ Dropping(s, gone) \in Seq(S)
         /\ Range(Dropping(s, gone)) = Range(s) \ gone
<1>1. PICK f : Keeps(s, gone, f) /\ Dropping(s, gone) = f[Len(s)]
  BY DroppingDef
<1>2. Len(s) \in 0 .. Len(s)
  OBVIOUS
<1>3. f[Len(s)] \in Seq(S) /\ Range(f[Len(s)]) = Elements(s, Len(s)) \ gone
  <2>1. Keeps(s, gone, f)
    BY <1>1
  <2>2. \A n \in 0 .. Len(s) :
            f[n] \in Seq(S) /\ Range(f[n]) = Elements(s, n) \ gone
    BY <2>1, DroppingPrefix
  <2> QED BY <1>2, <2>2
<1>4. Range(s) = Elements(s, Len(s))
  BY DEF Range, Elements
<1> QED BY <1>1, <1>3, <1>4

(* No element is kept twice that was there once.                           *)
LEMMA InjectiveAppend ==
  ASSUME NEW S, NEW u \in Seq(S), NEW e \in S, IsInjective(u), e \notin Range(u)
  PROVE  IsInjective(Append(u, e))
<1>1. \A i \in 1 .. Len(u) : u[i] # e
  BY DEF Range
<1>2. \A i, j \in 1 .. Len(u) : u[i] = u[j] => i = j
  BY DEF IsInjective
<1>3. DOMAIN Append(u, e) = 1 .. Len(u) + 1
  OBVIOUS
<1>4. \A i \in 1 .. Len(u) : Append(u, e)[i] = u[i]
  OBVIOUS
<1>5. Append(u, e)[Len(u) + 1] = e
  OBVIOUS
<1>6. \A i, j \in 1 .. Len(u) + 1 : Append(u, e)[i] = Append(u, e)[j] => i = j
  <2> TAKE i, j \in 1 .. Len(u) + 1
  <2>1. i \in 1 .. Len(u) \/ i = Len(u) + 1
    OBVIOUS
  <2>2. j \in 1 .. Len(u) \/ j = Len(u) + 1
    OBVIOUS
  <2> QED BY <1>1, <1>2, <1>4, <1>5, <2>1, <2>2
<1> QED BY <1>3, <1>6 DEF IsInjective

LEMMA DroppingInjective ==
  ASSUME NEW S, NEW s \in Seq(S), NEW gone, IsInjective(s)
  PROVE  IsInjective(Dropping(s, gone))
<1>1. PICK f : Keeps(s, gone, f) /\ Dropping(s, gone) = f[Len(s)]
  BY DroppingDef
<1> DEFINE T == {n \in 0 .. Len(s) : IsInjective(f[n])}
<1>2. 0 \in T
  BY <1>1 DEF Keeps, IsInjective
<1>3. ASSUME NEW n \in 1 .. Len(s), n - 1 \in T PROVE n \in T
  <2>1. f[n - 1] \in Seq(S) /\ Range(f[n - 1]) = Elements(s, n - 1) \ gone
    <3>1. n - 1 \in 0 .. Len(s)
      OBVIOUS
    <3>2. \A m \in 0 .. Len(s) : f[m] \in Seq(S) /\ Range(f[m]) = Elements(s, m) \ gone
      BY <1>1, DroppingPrefix
    <3> QED BY <3>1, <3>2
  <2>2. s[n] \notin Elements(s, n - 1)
    BY DEF Elements, IsInjective
  <2>3. s[n] \in S /\ s[n] \notin Range(f[n - 1]) /\ IsInjective(f[n - 1])
    BY <1>3, <2>1, <2>2
  <2>4. IsInjective(Append(f[n - 1], s[n]))
    BY <2>1, <2>3, InjectiveAppend
  <2>5. IsInjective(f[n])
    BY <1>1, <2>3, <2>4 DEF Keeps
  <2> QED BY <2>5
<1>4. \A n \in 0 .. Len(s) : n \in T
  <2>1. Len(s) \in Nat
    OBVIOUS
  <2> HIDE DEF T
  <2> QED BY <1>2, <1>3, <2>1, InductTo
<1>5. Len(s) \in 0 .. Len(s)
  OBVIOUS
<1> QED BY <1>1, <1>4, <1>5

(* A prefix of which nothing goes is kept as it is.                        *)
LEMMA DroppingUntouched ==
  ASSUME NEW S, NEW s \in Seq(S), NEW gone, NEW f, Keeps(s, gone, f),
         NEW m \in 0 .. Len(s), \A i \in 1 .. m : s[i] \notin gone
  PROVE  f[m] \in Seq(S) /\ Len(f[m]) = m /\ \A i \in 1 .. m : f[m][i] = s[i]
<1> DEFINE P(n) == Len(f[n]) = n /\ \A i \in 1 .. n : f[n][i] = s[i]
           T == {n \in 0 .. m : P(n)}
<1>1. \A n \in 0 .. Len(s) : f[n] \in Seq(S)
  BY DroppingPrefix
<1>2. 0 \in T
  BY DEF Keeps
<1>3. ASSUME NEW n \in 1 .. m, n - 1 \in T PROVE n \in T
  <2>1. s[n] \in S /\ f[n - 1] \in Seq(S) /\ P(n - 1)
    BY <1>1, <1>3
  <2>2. f[n] = Append(f[n - 1], s[n])
    <3>1. n \in 1 .. Len(s) /\ s[n] \notin gone
      OBVIOUS
    <3> QED BY <3>1 DEF Keeps
  <2>3. Len(f[n]) = n
    BY <2>1, <2>2
  <2>4. \A i \in 1 .. n : f[n][i] = s[i]
    BY <2>1, <2>2
  <2> QED BY <2>3, <2>4
<1>4. \A n \in 0 .. m : n \in T
  <2>1. m \in Nat
    OBVIOUS
  <2> HIDE DEF T
  <2> QED BY <1>2, <1>3, <2>1, InductTo
<1> QED BY <1>1, <1>4

(* Nothing changes when nothing goes.                                      *)
LEMMA DroppingNothing ==
  ASSUME NEW S, NEW s \in Seq(S), NEW gone, Range(s) \cap gone = {}
  PROVE  Dropping(s, gone) = s
<1>1. PICK f : Keeps(s, gone, f) /\ Dropping(s, gone) = f[Len(s)]
  BY DroppingDef
<1>2. Len(s) \in 0 .. Len(s) /\ \A i \in 1 .. Len(s) : s[i] \notin gone
  BY DEF Range
<1>3. /\ f[Len(s)] \in Seq(S) /\ Len(f[Len(s)]) = Len(s)
      /\ \A i \in 1 .. Len(s) : f[Len(s)][i] = s[i]
  BY <1>1, <1>2, DroppingUntouched
<1> QED BY <1>1, <1>3

(* Dropping the last element leaves what comes before it.                  *)
LEMMA DroppingLast ==
  ASSUME NEW S, NEW s \in Seq(S), s # <<>>, IsInjective(s)
  PROVE  Dropping(s, {s[Len(s)]}) = [i \in 1 .. Len(s) - 1 |-> s[i]]
<1> DEFINE gone == {s[Len(s)]}
           m == Len(s) - 1
<1>1. PICK f : Keeps(s, gone, f) /\ Dropping(s, gone) = f[Len(s)]
  BY DroppingDef
<1>2. m \in 0 .. Len(s) /\ Len(s) \in 1 .. Len(s)
  OBVIOUS
<1>3. \A i \in 1 .. m : s[i] \notin gone
  BY DEF IsInjective
<1>4. f[Len(s)] = f[m]
  BY <1>1, <1>2 DEF Keeps
<1>5. f[m] \in Seq(S) /\ Len(f[m]) = m /\ \A i \in 1 .. m : f[m][i] = s[i]
  <2> HIDE DEF m, gone
  <2> QED BY <1>1, <1>2, <1>3, DroppingUntouched
<1> QED BY <1>1, <1>4, <1>5

(* Dropping commutes with renaming the elements by a function h.           *)
LEMMA DroppingRenamed ==
  ASSUME NEW S, NEW s \in Seq(S), NEW gone, NEW R, NEW t \in Seq(R), NEW out, NEW h,
         Len(t) = Len(s),
         \A i \in 1 .. Len(s) : t[i] = h[s[i]] /\ (s[i] \in gone <=> t[i] \in out)
  PROVE  /\ Len(Dropping(t, out)) = Len(Dropping(s, gone))
         /\ \A i \in 1 .. Len(Dropping(s, gone)) :
               Dropping(t, out)[i] = h[Dropping(s, gone)[i]]
<1>1. PICK f : Keeps(s, gone, f) /\ Dropping(s, gone) = f[Len(s)]
  BY DroppingDef
<1>2. PICK g : Keeps(t, out, g) /\ Dropping(t, out) = g[Len(t)]
  BY DroppingDef
<1> DEFINE P(n) == Len(g[n]) = Len(f[n]) /\ \A i \in 1 .. Len(f[n]) : g[n][i] = h[f[n][i]]
           T == {n \in 0 .. Len(s) : P(n)}
<1>3. \A n \in 0 .. Len(s) : f[n] \in Seq(S)
  BY <1>1, DroppingPrefix
<1>4. \A n \in 0 .. Len(t) : g[n] \in Seq(R)
  BY <1>2, DroppingPrefix
<1>5. 0 \in T
  BY <1>1, <1>2 DEF Keeps
<1>6. ASSUME NEW n \in 1 .. Len(s), n - 1 \in T PROVE n \in T
  <2>1. /\ s[n] \in S /\ f[n - 1] \in Seq(S) /\ t[n] \in R /\ g[n - 1] \in Seq(R)
        /\ P(n - 1) /\ t[n] = h[s[n]] /\ n \in 1 .. Len(t)
    BY <1>3, <1>4, <1>6
  <2>2. CASE s[n] \in gone
    <3>1. f[n] = f[n - 1] /\ g[n] = g[n - 1]
      BY <1>1, <1>2, <2>1, <2>2 DEF Keeps
    <3> QED BY <2>1, <3>1
  <2>3. CASE s[n] \notin gone
    <3>1. f[n] = Append(f[n - 1], s[n]) /\ g[n] = Append(g[n - 1], t[n])
      BY <1>1, <1>2, <2>1, <2>3 DEF Keeps
    <3>2. Len(g[n]) = Len(f[n])
      BY <2>1, <3>1
    <3>3. \A i \in 1 .. Len(f[n]) : g[n][i] = h[f[n][i]]
      BY <2>1, <3>1
    <3> QED BY <3>2, <3>3
  <2> QED BY <2>2, <2>3
<1>7. \A n \in 0 .. Len(s) : n \in T
  <2>1. Len(s) \in Nat
    OBVIOUS
  <2> HIDE DEF T
  <2> QED BY <1>5, <1>6, <2>1, InductTo
<1>8. Len(s) \in 0 .. Len(s)
  OBVIOUS
<1>9. P(Len(s))
  BY <1>7, <1>8
<1> QED BY <1>1, <1>2, <1>9

(* Only the elements that are there can go.                                *)
LEMMA DroppingSame ==
  ASSUME NEW S, NEW s \in Seq(S), NEW gone, NEW out,
         \A x \in Range(s) : x \in gone <=> x \in out
  PROVE  Dropping(s, out) = Dropping(s, gone)
<1>1. PICK f : Keeps(s, gone, f) /\ Dropping(s, gone) = f[Len(s)]
  BY DroppingDef
<1>2. PICK g : Keeps(s, out, g) /\ Dropping(s, out) = g[Len(s)]
  BY DroppingDef
<1>3. \A n \in 1 .. Len(s) : s[n] \in gone <=> s[n] \in out
  BY DEF Range
<1> DEFINE T == {n \in 0 .. Len(s) : g[n] = f[n]}
<1>4. 0 \in T
  BY <1>1, <1>2 DEF Keeps
<1>5. ASSUME NEW n \in 1 .. Len(s), n - 1 \in T PROVE n \in T
  <2>1. s[n] \in gone <=> s[n] \in out
    BY <1>3
  <2>2. g[n] = f[n]
    BY <1>1, <1>2, <1>5, <2>1 DEF Keeps
  <2> QED BY <2>2
<1>6. \A n \in 0 .. Len(s) : n \in T
  <2>1. Len(s) \in Nat
    OBVIOUS
  <2> HIDE DEF T
  <2> QED BY <1>4, <1>5, <2>1, InductTo
<1>7. Len(s) \in 0 .. Len(s)
  OBVIOUS
<1> QED BY <1>1, <1>2, <1>6, <1>7

(* x stands before y in a sequence, or in the prefix of length n.          *)
StandsBefore(s, x, y) == \E a, b \in DOMAIN s : a < b /\ s[a] = x /\ s[b] = y

BeforeIn(s, n, x, y) == \E a, b \in 1 .. n : a < b /\ s[a] = x /\ s[b] = y

LEMMA BeforeAppend ==
  ASSUME NEW S, NEW u \in Seq(S), NEW e \in S, NEW x, NEW y
  PROVE  StandsBefore(Append(u, e), x, y) <=> StandsBefore(u, x, y) \/ (y = e /\ x \in Range(u))
<1> DEFINE w == Append(u, e)
           n == Len(u)
<1>1. /\ n \in Nat /\ DOMAIN u = 1 .. n /\ DOMAIN w = 1 .. n + 1
      /\ w[n + 1] = e /\ \A i \in 1 .. n : w[i] = u[i]
  OBVIOUS
<1> HIDE DEF w, n
<1>2. ASSUME StandsBefore(w, x, y) PROVE StandsBefore(u, x, y) \/ (y = e /\ x \in Range(u))
  <2>1. PICK a \in 1 .. n + 1, b \in 1 .. n + 1 : a < b /\ w[a] = x /\ w[b] = y
    BY <1>1, <1>2 DEF StandsBefore
  <2>2. a \in 1 .. n
    BY <1>1, <2>1
  <2>3. CASE b = n + 1
    BY <1>1, <2>1, <2>2, <2>3 DEF Range
  <2>4. CASE b # n + 1
    <3>1. b \in 1 .. n
      BY <1>1, <2>4
    <3> QED BY <1>1, <2>1, <2>2, <3>1 DEF StandsBefore
  <2> QED BY <2>3, <2>4
<1>3. ASSUME StandsBefore(u, x, y) PROVE StandsBefore(w, x, y)
  <2>1. PICK a \in 1 .. n, b \in 1 .. n : a < b /\ u[a] = x /\ u[b] = y
    BY <1>1, <1>3 DEF StandsBefore
  <2>2. a \in 1 .. n + 1 /\ b \in 1 .. n + 1 /\ w[a] = x /\ w[b] = y
    BY <1>1, <2>1
  <2> QED BY <1>1, <2>1, <2>2 DEF StandsBefore
<1>4. ASSUME y = e, x \in Range(u) PROVE StandsBefore(w, x, y)
  <2>1. PICK a \in 1 .. n : u[a] = x
    BY <1>1, <1>4 DEF Range
  <2>2. a \in 1 .. n + 1 /\ n + 1 \in 1 .. n + 1 /\ a < n + 1 /\ w[a] = x /\ w[n + 1] = y
    BY <1>1, <1>4, <2>1
  <2> QED BY <1>1, <2>2 DEF StandsBefore
<1> QED BY <1>2, <1>3, <1>4 DEF w

LEMMA BeforePrefix ==
  ASSUME NEW s, NEW n \in Nat \ {0}, NEW x, NEW y
  PROVE  BeforeIn(s, n, x, y) <=>
            BeforeIn(s, n - 1, x, y) \/ (y = s[n] /\ x \in Elements(s, n - 1))
<1>1. \A a \in 1 .. n : a \in 1 .. n - 1 \/ a = n
  OBVIOUS
<1>2. \A a \in 1 .. n - 1 : a \in 1 .. n /\ a < n
  OBVIOUS
<1>3. n \in 1 .. n
  OBVIOUS
<1>4. ASSUME BeforeIn(s, n, x, y)
      PROVE  BeforeIn(s, n - 1, x, y) \/ (y = s[n] /\ x \in Elements(s, n - 1))
  <2>1. PICK a \in 1 .. n, b \in 1 .. n : a < b /\ s[a] = x /\ s[b] = y
    BY <1>4 DEF BeforeIn
  <2>2. a \in 1 .. n - 1
    BY <2>1
  <2> QED BY <1>1, <2>1, <2>2 DEF BeforeIn, Elements
<1>5. ASSUME BeforeIn(s, n - 1, x, y) PROVE BeforeIn(s, n, x, y)
  BY <1>2, <1>5 DEF BeforeIn
<1>6. ASSUME y = s[n], x \in Elements(s, n - 1) PROVE BeforeIn(s, n, x, y)
  BY <1>2, <1>3, <1>6 DEF BeforeIn, Elements
<1> QED BY <1>4, <1>5, <1>6

(* What is kept stays in its order.                                        *)
LEMMA DroppingOrder ==
  ASSUME NEW S, NEW s \in Seq(S), NEW gone, NEW x, NEW y
  PROVE  StandsBefore(Dropping(s, gone), x, y) <=> StandsBefore(s, x, y) /\ x \notin gone /\ y \notin gone
<1>1. PICK f : Keeps(s, gone, f) /\ Dropping(s, gone) = f[Len(s)]
  BY DroppingDef
<1>2. \A n \in 0 .. Len(s) : f[n] \in Seq(S) /\ Range(f[n]) = Elements(s, n) \ gone
  BY <1>1, DroppingPrefix
<1> DEFINE P(n) == StandsBefore(f[n], x, y) <=> BeforeIn(s, n, x, y) /\ x \notin gone /\ y \notin gone
           T == {n \in 0 .. Len(s) : P(n)}
<1>3. 0 \in T
  <2>1. ~BeforeIn(s, 0, x, y)
    BY DEF BeforeIn
  <2>2. ~StandsBefore(<<>>, x, y)
    BY DEF StandsBefore
  <2>3. 0 \in 0 .. Len(s)
    OBVIOUS
  <2> QED BY <1>1, <2>1, <2>2, <2>3 DEF Keeps
<1>4. ASSUME NEW n \in 1 .. Len(s), n - 1 \in T PROVE n \in T
  <2>1. /\ s[n] \in S /\ n \in 0 .. Len(s) /\ n - 1 \in 0 .. Len(s) /\ n \in Nat \ {0}
        /\ P(n - 1)
    BY <1>4
  <2>2. f[n - 1] \in Seq(S) /\ Range(f[n - 1]) = Elements(s, n - 1) \ gone
    BY <1>2, <2>1
  <2>3. BeforeIn(s, n, x, y) <=>
           BeforeIn(s, n - 1, x, y) \/ (y = s[n] /\ x \in Elements(s, n - 1))
    BY <2>1, BeforePrefix
  <2> HIDE DEF T
  <2>4. CASE s[n] \in gone
    <3>1. f[n] = f[n - 1]
      BY <1>1, <2>4 DEF Keeps
    <3>2. P(n)
      BY <2>1, <2>3, <2>4, <3>1, Zenon
    <3> QED BY <2>1, <3>2 DEF T
  <2>5. CASE s[n] \notin gone
    <3>1. f[n] = Append(f[n - 1], s[n])
      BY <1>1, <2>5 DEF Keeps
    <3>2. StandsBefore(Append(f[n - 1], s[n]), x, y) <=>
             StandsBefore(f[n - 1], x, y) \/ (y = s[n] /\ x \in Range(f[n - 1]))
      BY <2>1, <2>2, BeforeAppend
    <3>3. x \in Range(f[n - 1]) <=> x \in Elements(s, n - 1) /\ x \notin gone
      BY <2>2
    <3>4. P(n)
      BY <2>1, <2>3, <2>5, <3>1, <3>2, <3>3, Zenon
    <3> QED BY <2>1, <3>4 DEF T
  <2> QED BY <2>4, <2>5
<1>5. \A n \in 0 .. Len(s) : n \in T
  <2>1. Len(s) \in Nat
    OBVIOUS
  <2> HIDE DEF T
  <2> QED BY <1>3, <1>4, <2>1, InductTo
<1>6. Len(s) \in 0 .. Len(s) /\ DOMAIN s = 1 .. Len(s)
  OBVIOUS
<1>7. P(Len(s))
  BY <1>5, <1>6
<1>8. StandsBefore(s, x, y) <=> BeforeIn(s, Len(s), x, y)
  BY <1>6 DEF StandsBefore, BeforeIn
<1> QED BY <1>1, <1>7, <1>8

(* An element that is put first comes before the others.                   *)
LEMMA BeforeFirst ==
  ASSUME NEW S, NEW u \in Seq(S), NEW e \in S, NEW x, NEW y
  PROVE  StandsBefore(<<e>> \o u, x, y) <=> StandsBefore(u, x, y) \/ (x = e /\ y \in Range(u))
<1> DEFINE w == <<e>> \o u
           n == Len(u)
<1>1. /\ n \in Nat /\ DOMAIN u = 1 .. n /\ DOMAIN w = 1 .. n + 1
      /\ w[1] = e /\ \A i \in 1 .. n : w[i + 1] = u[i]
  OBVIOUS
<1> HIDE DEF w, n
<1>2. ASSUME StandsBefore(w, x, y) PROVE StandsBefore(u, x, y) \/ (x = e /\ y \in Range(u))
  <2>1. PICK a \in 1 .. n + 1, b \in 1 .. n + 1 : a < b /\ w[a] = x /\ w[b] = y
    BY <1>1, <1>2 DEF StandsBefore
  <2>2. b - 1 \in 1 .. n /\ w[b] = u[b - 1]
    <3>1. b - 1 \in 1 .. n /\ (b - 1) + 1 = b
      BY <1>1, <2>1
    <3> QED BY <1>1, <3>1
  <2>3. CASE a = 1
    BY <1>1, <2>1, <2>2, <2>3 DEF Range
  <2>4. CASE a # 1
    <3>1. a - 1 \in 1 .. n /\ (a - 1) + 1 = a /\ a - 1 < b - 1
      BY <1>1, <2>1, <2>4
    <3>2. w[a] = u[a - 1]
      BY <1>1, <3>1
    <3> QED BY <1>1, <2>1, <2>2, <3>1, <3>2 DEF StandsBefore
  <2> QED BY <2>3, <2>4
<1>3. ASSUME StandsBefore(u, x, y) PROVE StandsBefore(w, x, y)
  <2>1. PICK a \in 1 .. n, b \in 1 .. n : a < b /\ u[a] = x /\ u[b] = y
    BY <1>1, <1>3 DEF StandsBefore
  <2>2. a + 1 \in 1 .. n + 1 /\ b + 1 \in 1 .. n + 1 /\ a + 1 < b + 1
    BY <1>1, <2>1
  <2> QED BY <1>1, <2>1, <2>2 DEF StandsBefore
<1>4. ASSUME x = e, y \in Range(u) PROVE StandsBefore(w, x, y)
  <2>1. PICK b \in 1 .. n : u[b] = y
    BY <1>1, <1>4 DEF Range
  <2>2. 1 \in 1 .. n + 1 /\ b + 1 \in 1 .. n + 1 /\ 1 < b + 1 /\ w[1] = x /\ w[b + 1] = y
    BY <1>1, <1>4, <2>1
  <2> QED BY <1>1, <2>2 DEF StandsBefore
<1> QED BY <1>2, <1>3, <1>4 DEF w

-----------------------------------------------------------------------------
(* Insertion and removal at a place. *)

InsertedAt(list, p, b) == SubSeq(list, 1, p - 1) \o <<b>> \o SubSeq(list, p, Len(list))

CutAt(list, p) == SubSeq(list, 1, p - 1) \o SubSeq(list, p + 1, Len(list))

(* Where the elements of a list are once another has been put before place *)
(* p, or the one at place p has been removed.                              *)
HasInserted(S, list, p, b, w) ==
    /\ w \in Seq(S) /\ Len(w) = Len(list) + 1 /\ w[p] = b
    /\ \A j \in 1 .. p - 1 : w[j] = list[j]
    /\ \A j \in p .. Len(list) : w[j + 1] = list[j]

HasRemoved(S, list, p, w) ==
    /\ w \in Seq(S) /\ Len(w) = Len(list) - 1
    /\ \A j \in 1 .. p - 1 : w[j] = list[j]
    /\ \A j \in p .. Len(list) - 1 : w[j] = list[j + 1]

LEMMA Inserted ==
  ASSUME NEW S, NEW list \in Seq(S), NEW p \in 1 .. Len(list) + 1, NEW b \in S
  PROVE  HasInserted(S, list, p, b, InsertedAt(list, p, b))
<1> DEFINE u == SubSeq(list, 1, p - 1)
           v == SubSeq(list, p, Len(list))
<1>1. Len(list) \in Nat /\ p \in Nat /\ 1 <= p /\ p <= Len(list) + 1
  OBVIOUS
<1>2. u \in Seq(S) /\ Len(u) = p - 1 /\ \A j \in 1 .. p - 1 : u[j] = list[j]
  BY <1>1
<1>3. v \in Seq(S) /\ Len(v) = Len(list) - p + 1 /\ \A j \in 1 .. Len(list) - p + 1 : v[j] = list[p + j - 1]
  BY <1>1
<1> HIDE DEF u, v
<1> DEFINE x == u \o <<b>>
<1>7. /\ x \in Seq(S) /\ Len(x) = p /\ x[p] = b
      /\ \A j \in 1 .. p - 1 : x[j] = u[j]
  BY <1>1, <1>2
<1> HIDE DEF x
<1> DEFINE w == x \o v
<1>4. /\ w \in Seq(S) /\ Len(w) = Len(list) + 1 /\ w[p] = b
      /\ \A j \in 1 .. p - 1 : w[j] = u[j]
      /\ \A j \in p .. Len(list) : w[j + 1] = v[j - p + 1]
  <2>1. w \in Seq(S) /\ Len(w) = Len(list) + 1
    <3>1. w \in Seq(S) /\ Len(w) = Len(x) + Len(v)
      <4>1. x \in Seq(S) /\ v \in Seq(S)
        BY <1>3, <1>7
      <4> QED BY <4>1
    <3> QED BY <1>1, <1>3, <1>7, <3>1
  <2>2. \A j \in 1 .. p : w[j] = x[j]
    BY <1>1, <1>3, <1>7
  <2>3. ASSUME NEW j \in p .. Len(list) PROVE w[j + 1] = v[j - p + 1]
    <3>1. j + 1 \in Len(x) + 1 .. Len(x) + Len(v) /\ (j + 1) - Len(x) = j - p + 1
      BY <1>1, <1>3, <1>7
    <3> QED BY <1>1, <1>3, <1>7, <3>1
  <2> QED BY <1>1, <1>7, <2>1, <2>2, <2>3
<1> HIDE DEF w
<1>5. \A j \in p .. Len(list) : v[j - p + 1] = list[j]
  BY <1>1, <1>3
<1>6. InsertedAt(list, p, b) = w
  BY DEF InsertedAt, u, v, w, x
<1>8. HasInserted(S, list, p, b, w)
  BY <1>2, <1>4, <1>5 DEF HasInserted
<1> QED BY <1>6, <1>8

LEMMA CutOut ==
  ASSUME NEW S, NEW list \in Seq(S), NEW p \in 1 .. Len(list)
  PROVE  HasRemoved(S, list, p, CutAt(list, p))
<1> DEFINE u == SubSeq(list, 1, p - 1)
           v == SubSeq(list, p + 1, Len(list))
<1>1. Len(list) \in Nat /\ p \in Nat /\ 1 <= p /\ p <= Len(list)
  OBVIOUS
<1>2. u \in Seq(S) /\ Len(u) = p - 1 /\ \A j \in 1 .. p - 1 : u[j] = list[j]
  BY <1>1
<1>3. v \in Seq(S) /\ Len(v) = Len(list) - p /\ \A j \in 1 .. Len(list) - p : v[j] = list[p + j]
  BY <1>1
<1> HIDE DEF u, v
<1> DEFINE w == u \o v
<1>4. /\ w \in Seq(S) /\ Len(w) = Len(list) - 1
      /\ \A j \in 1 .. p - 1 : w[j] = u[j]
      /\ \A j \in p .. Len(list) - 1 : w[j] = v[j - p + 1]
  BY <1>1, <1>2, <1>3
<1> HIDE DEF w
<1>5. \A j \in p .. Len(list) - 1 : v[j - p + 1] = list[j + 1]
  BY <1>1, <1>3
<1>6. CutAt(list, p) = w
  BY DEF CutAt, u, v, w
<1>7. HasRemoved(S, list, p, w)
  BY <1>2, <1>4, <1>5 DEF HasRemoved
<1> QED BY <1>6, <1>7

-----------------------------------------------------------------------------
(* Sums. *)

Chosen(s) == CHOOSE x \in s : TRUE

(* g sums up f over each subset of S, element by chosen element.           *)
IsSum(f, S, g) ==
    g = [s \in SUBSET S |->
            IF s = {} THEN 0
            ELSE f[CHOOSE x \in s : TRUE] + g[s \ {CHOOSE x \in s : TRUE}]]

(* The same up to a size.                                                  *)
SumsTo(f, S, n, g) ==
    \A s \in SUBSET S : Cardinality(s) <= n =>
        g[s] = IF s = {} THEN 0 ELSE f[Chosen(s)] + g[s \ {Chosen(s)}]

LEMMA Removed ==
  ASSUME NEW S, IsFiniteSet(S), NEW s \in SUBSET S, NEW x \in s
  PROVE  /\ s \ {x} \in SUBSET S /\ Cardinality(s) \in Nat \ {0}
         /\ Cardinality(s \ {x}) = Cardinality(s) - 1
<1>1. IsFiniteSet(s)
  BY FS_Subset
<1>2. Cardinality(s) \in Nat /\ Cardinality(s \ {x}) \in Nat
  BY <1>1, FS_CardinalityType, FS_RemoveElement
<1>3. Cardinality(s \ {x}) = Cardinality(s) - 1
  BY <1>1, FS_RemoveElement
<1> QED BY <1>2, <1>3

(* The recursive function that a sum is defined by exists.                 *)
LEMMA SumExists ==
  ASSUME NEW f, NEW S, IsFiniteSet(S)
  PROVE  \E g : IsSum(f, S, g)
<1> DEFINE T == {n \in Nat : \E g : SumsTo(f, S, n, g)}
<1>1. 0 \in T
  <2>1. SumsTo(f, S, 0, [s \in SUBSET S |-> 0])
    <3> SUFFICES ASSUME NEW s \in SUBSET S, Cardinality(s) <= 0 PROVE s = {}
      BY DEF SumsTo
    <3> SUFFICES ASSUME s # {} PROVE FALSE
      OBVIOUS
    <3>1. PICK x \in s : TRUE
      OBVIOUS
    <3>2. Cardinality(s) \in Nat \ {0}
      BY <3>1, Removed
    <3> QED BY <3>2
  <2> QED BY <2>1
<1>2. ASSUME NEW n \in Nat, n \in T PROVE n + 1 \in T
  <2>1. PICK g : SumsTo(f, S, n, g)
    BY <1>2
  <2> DEFINE h == [s \in SUBSET S |->
                     IF Cardinality(s) = n + 1 THEN f[Chosen(s)] + g[s \ {Chosen(s)}] ELSE g[s]]
  <2>2. ASSUME NEW s \in SUBSET S, Cardinality(s) <= n + 1
        PROVE  h[s] = IF s = {} THEN 0 ELSE f[Chosen(s)] + h[s \ {Chosen(s)}]
    <3>1. CASE s = {}
      <4>1. Cardinality(s) = 0
        BY <3>1, FS_EmptySet
      <4>2. h[s] = g[s] /\ g[s] = 0
        BY <2>1, <3>1, <4>1 DEF SumsTo
      <4> QED BY <3>1, <4>2
    <3>2. CASE s # {}
      <4> DEFINE x == Chosen(s)
                 r == s \ {x}
      <4>1. x \in s
        BY <3>2 DEF Chosen
      <4>2. r \in SUBSET S /\ Cardinality(s) \in Nat \ {0} /\ Cardinality(r) = Cardinality(s) - 1
        BY <4>1, Removed
      <4> HIDE DEF x, r
      <4>3. h[r] = g[r]
        BY <2>2, <4>2
      <4>4. h[s] = f[x] + g[r]
        <5>1. CASE Cardinality(s) = n + 1
          BY <5>1 DEF x, r
        <5>2. CASE Cardinality(s) # n + 1
          <6>1. Cardinality(s) <= n
            BY <2>2, <4>2, <5>2
          <6> QED BY <2>1, <3>2, <5>2, <6>1 DEF SumsTo, x, r
        <5> QED BY <5>1, <5>2
      <4> QED BY <3>2, <4>3, <4>4 DEF x, r
    <3> QED BY <3>1, <3>2
  <2>3. SumsTo(f, S, n + 1, h)
    <3> HIDE DEF h
    <3> QED BY <2>2 DEF SumsTo
  <2> QED BY <2>3
<1>3. Nat \subseteq T
  <2> HIDE DEF T
  <2> QED BY <1>1, <1>2, Induct
<1>4. Cardinality(S) \in Nat
  BY FS_CardinalityType
<1>5. PICK g : SumsTo(f, S, Cardinality(S), g)
  BY <1>3, <1>4
<1> DEFINE h == [s \in SUBSET S |-> g[s]]
<1>6. ASSUME NEW s \in SUBSET S
      PROVE  h[s] = IF s = {} THEN 0 ELSE f[Chosen(s)] + h[s \ {Chosen(s)}]
  <2>1. Cardinality(s) <= Cardinality(S)
    BY FS_Subset
  <2>2. g[s] = IF s = {} THEN 0 ELSE f[Chosen(s)] + g[s \ {Chosen(s)}]
    BY <1>5, <2>1 DEF SumsTo
  <2>3. s \ {Chosen(s)} \in SUBSET S
    OBVIOUS
  <2> QED BY <2>2, <2>3
<1>7. IsSum(f, S, h)
  BY <1>6, Zenon DEF IsSum, Chosen
<1> QED BY <1>7

(* What that function satisfies.                                           *)
SumsUp(f, S, g) ==
    /\ g[{}] = 0
    /\ \A s \in SUBSET S : s # {} => g[s] = f[Chosen(s)] + g[s \ {Chosen(s)}]

LEMMA SumDef ==
  ASSUME NEW f, NEW S, IsFiniteSet(S)
  PROVE  \E g : SumFunctionOnSet(f, S) = g[S] /\ SumsUp(f, S, g)
<1> DEFINE g == CHOOSE g : IsSum(f, S, g)
<1>1. IsSum(f, S, g)
  BY SumExists
<1>2. SumFunctionOnSet(f, S) = g[S]
  BY Zenon DEF SumFunctionOnSet, FoldFunctionOnSet, MapThenFoldSet, IsSum
<1> HIDE DEF g
<1>3. \A s \in SUBSET S : g[s] = IF s = {} THEN 0 ELSE f[Chosen(s)] + g[s \ {Chosen(s)}]
  BY <1>1, Zenon DEF IsSum, Chosen
<1>4. {} \in SUBSET S
  OBVIOUS
<1> QED BY <1>2, <1>3, <1>4 DEF SumsUp

(* The order in which the elements are chosen makes no difference.         *)
LEMMA SumAnyOrder ==
  ASSUME NEW f, NEW S, IsFiniteSet(S), \A x \in S : f[x] \in Int, NEW g, SumsUp(f, S, g)
  PROVE  \A s \in SUBSET S : g[s] \in Int /\ \A x \in s : g[s] = f[x] + g[s \ {x}]
<1> DEFINE P(s) == g[s] \in Int /\ \A x \in s : g[s] = f[x] + g[s \ {x}]
           T == {n \in Nat : \A s \in SUBSET S : Cardinality(s) <= n => P(s)}
<1>1. 0 \in T
  <2> SUFFICES ASSUME NEW s \in SUBSET S, Cardinality(s) <= 0 PROVE P(s)
    OBVIOUS
  <2>1. ASSUME NEW x \in s PROVE FALSE
    <3>1. Cardinality(s) \in Nat \ {0}
      BY Removed
    <3> QED BY <3>1
  <2>2. s = {}
    BY <2>1
  <2> QED BY <2>2 DEF SumsUp
<1>2. ASSUME NEW n \in Nat, n \in T PROVE n + 1 \in T
  <2> SUFFICES ASSUME NEW s \in SUBSET S, Cardinality(s) <= n + 1 PROVE P(s)
    OBVIOUS
  <2> SUFFICES ASSUME Cardinality(s) = n + 1 PROVE P(s)
    <3>1. Cardinality(s) \in Nat
      BY FS_Subset, FS_CardinalityType
    <3>2. Cardinality(s) <= n => P(s)
      BY <1>2
    <3> HIDE DEF P
    <3> QED BY <3>1, <3>2
  <2> DEFINE c == Chosen(s)
  <2>1. s # {}
    <3> SUFFICES ASSUME s = {} PROVE FALSE
      OBVIOUS
    <3>1. Cardinality({}) = 0
      BY FS_EmptySet
    <3>2. Cardinality(s) = 0
      BY <3>1
    <3> QED BY <3>2
  <2>2. c \in s
    BY <2>1 DEF Chosen
  <2>3. g[s] = f[c] + g[s \ {c}]
    BY <2>1 DEF SumsUp
  <2>4. ASSUME NEW x \in s PROVE s \ {x} \in SUBSET S /\ P(s \ {x})
    <3>1. Cardinality(s \ {x}) = n /\ s \ {x} \in SUBSET S
      BY Removed
    <3>2. Cardinality(s \ {x}) <= n
      BY <3>1
    <3> QED BY <1>2, <3>1, <3>2
  <2> HIDE DEF c
  <2>5. g[s] \in Int
    <3>1. f[c] \in Int /\ g[s \ {c}] \in Int
      BY <2>2, <2>4
    <3> QED BY <2>3, <3>1
  <2>6. ASSUME NEW x \in s, x # c PROVE g[s] = f[x] + g[s \ {x}]
    <3>1. x \in s \ {c} /\ c \in s \ {x}
      BY <2>2, <2>6
    <3>2. (s \ {c}) \ {x} = (s \ {x}) \ {c}
      OBVIOUS
    <3> DEFINE r == (s \ {x}) \ {c}
    <3>3. g[s \ {c}] = f[x] + g[r]
      BY <2>2, <2>4, <3>1, <3>2
    <3>4. g[s \ {x}] = f[c] + g[r]
      BY <2>4, <3>1
    <3>5. g[r] \in Int
      <4>1. Cardinality(s \ {x}) = n /\ s \ {x} \in SUBSET S
        BY Removed
      <4>2. Cardinality(r) = n - 1 /\ r \in SUBSET S /\ n \in Nat \ {0}
        <5> DEFINE q == s \ {x}
        <5>1. q \in SUBSET S /\ c \in q /\ Cardinality(q) = n /\ r = q \ {c}
          BY <3>1, <4>1
        <5> HIDE DEF q, r
        <5> QED BY <5>1, Removed
      <4>3. Cardinality(r) <= n
        BY <4>2
      <4> HIDE DEF r
      <4> QED BY <1>2, <4>2, <4>3
    <3> HIDE DEF r
    <3>6. f[x] \in Int /\ f[c] \in Int
      BY <2>2
    <3> QED BY <2>3, <3>3, <3>4, <3>5, <3>6
  <2> QED BY <2>3, <2>5, <2>6
<1>3. Nat \subseteq T
  <2> HIDE DEF T
  <2> QED BY <1>1, <1>2, Induct
<1>4. \A s \in SUBSET S : Cardinality(s) \in Nat /\ Cardinality(s) <= Cardinality(s)
  BY FS_Subset, FS_CardinalityType
<1> QED BY <1>3, <1>4

LEMMA SumInt ==
  ASSUME NEW f, NEW S, IsFiniteSet(S), \A x \in S : f[x] \in Int
  PROVE  SumFunctionOnSet(f, S) \in Int
<1>1. PICK g : SumFunctionOnSet(f, S) = g[S] /\ SumsUp(f, S, g)
  BY SumDef
<1>2. \A s \in SUBSET S : g[s] \in Int
  BY <1>1, SumAnyOrder
<1> QED BY <1>1, <1>2

LEMMA SumEmpty == ASSUME NEW f PROVE SumFunctionOnSet(f, {}) = 0
<1>1. IsFiniteSet({})
  BY FS_EmptySet
<1> QED BY <1>1, SumDef DEF SumsUp

(* Two ways to sum up what are equal values give the same sum.             *)
LEMMA SumSame ==
  ASSUME NEW f, NEW h, NEW R, NEW S \in SUBSET R, IsFiniteSet(R),
         \A x \in R : f[x] \in Int, \A x \in S : h[x] = f[x],
         NEW g, SumsUp(f, R, g)
  PROVE  SumFunctionOnSet(h, S) = g[S]
<1>0. IsFiniteSet(S)
  BY FS_Subset
<1>1. PICK e : SumFunctionOnSet(h, S) = e[S] /\ SumsUp(h, S, e)
  BY <1>0, SumDef
<1> DEFINE T == {n \in Nat : \A s \in SUBSET S : Cardinality(s) <= n => e[s] = g[s]}
<1>2. 0 \in T
  <2> SUFFICES ASSUME NEW s \in SUBSET S, Cardinality(s) <= 0 PROVE e[s] = g[s]
    OBVIOUS
  <2>1. ASSUME NEW x \in s PROVE FALSE
    <3>1. Cardinality(s) \in Nat \ {0}
      BY <1>0, Removed
    <3> QED BY <3>1
  <2>2. s = {}
    BY <2>1
  <2> QED BY <1>1, <2>2 DEF SumsUp
<1>3. ASSUME NEW n \in Nat, n \in T PROVE n + 1 \in T
  <2> SUFFICES ASSUME NEW s \in SUBSET S, Cardinality(s) <= n + 1 PROVE e[s] = g[s]
    OBVIOUS
  <2>1. CASE s = {}
    BY <1>1, <2>1 DEF SumsUp
  <2>2. CASE s # {}
    <3> DEFINE c == Chosen(s)
    <3>1. c \in s
      BY <2>2 DEF Chosen
    <3>2. /\ s \ {c} \in SUBSET S /\ Cardinality(s \ {c}) = Cardinality(s) - 1
          /\ Cardinality(s) \in Nat
      BY <1>0, <3>1, Removed
    <3>3. Cardinality(s \ {c}) <= n
      BY <3>2
    <3>4. e[s \ {c}] = g[s \ {c}]
      BY <1>3, <3>2, <3>3
    <3>5. e[s] = h[c] + e[s \ {c}] /\ g[s] = f[c] + g[s \ {c}] /\ h[c] = f[c]
      BY <1>1, <2>2, <3>1 DEF SumsUp
    <3> QED BY <3>4, <3>5
  <2> QED BY <2>1, <2>2
<1>4. Nat \subseteq T
  <2> HIDE DEF T
  <2> QED BY <1>2, <1>3, Induct
<1>5. Cardinality(S) \in Nat /\ Cardinality(S) <= Cardinality(S)
  BY <1>0, FS_CardinalityType
<1> QED BY <1>1, <1>4, <1>5

(* Any element can be summed up last.                                      *)
LEMMA SumRemove ==
  ASSUME NEW f, NEW S, IsFiniteSet(S), \A x \in S : f[x] \in Int, NEW x \in S,
         NEW h, \A y \in S \ {x} : h[y] = f[y]
  PROVE  SumFunctionOnSet(f, S) = f[x] + SumFunctionOnSet(h, S \ {x})
<1>1. PICK g : SumFunctionOnSet(f, S) = g[S] /\ SumsUp(f, S, g)
  BY SumDef
<1>2. g[S] = f[x] + g[S \ {x}]
  BY <1>1, SumAnyOrder
<1>3. SumFunctionOnSet(h, S \ {x}) = g[S \ {x}]
  <2>1. S \ {x} \in SUBSET S
    OBVIOUS
  <2> QED BY <1>1, <2>1, SumSame
<1> QED BY <1>1, <1>2, <1>3

(* A sum changes by as much as one of its summands does.                   *)
LEMMA SumChanged ==
  ASSUME NEW S, IsFiniteSet(S), NEW f \in [S -> Int], NEW h \in [S -> Int], NEW x \in S,
         \A y \in S \ {x} : h[y] = f[y]
  PROVE  SumFunction(f) \in Int /\ SumFunction(h) = SumFunction(f) + h[x] - f[x]
<1> DEFINE rest == SumFunctionOnSet(f, S \ {x})
<1>1. SumFunction(f) = SumFunctionOnSet(f, S) /\ SumFunction(h) = SumFunctionOnSet(h, S)
  BY DEF SumFunction
<1>2. SumFunctionOnSet(f, S) = f[x] + rest
  BY SumRemove
<1>3. SumFunctionOnSet(h, S) = h[x] + rest
  BY SumRemove
<1>4. rest \in Int
  <2>1. IsFiniteSet(S \ {x}) /\ \A y \in S \ {x} : f[y] \in Int
    BY FS_Subset
  <2> QED BY <2>1, SumInt
<1> HIDE DEF rest
<1> QED BY <1>1, <1>2, <1>3, <1>4

LEMMA SumOfEqual ==
  ASSUME NEW S, IsFiniteSet(S), NEW f \in [S -> Int], NEW h \in [S -> Int],
         \A y \in S : h[y] = f[y]
  PROVE  SumFunction(f) = SumFunction(h)
<1>1. f = h
  OBVIOUS
<1> QED BY <1>1

(* No summand exceeds a sum of natural numbers.                            *)
LEMMA SumNat ==
  ASSUME NEW S, IsFiniteSet(S), NEW f \in [S -> Nat]
  PROVE  SumFunction(f) \in Nat /\ \A x \in S : f[x] <= SumFunction(f)
<1> DEFINE T == {n \in Nat : \A s \in SUBSET S : Cardinality(s) <= n => SumFunctionOnSet(f, s) \in Nat}
<1>1. 0 \in T
  <2> SUFFICES ASSUME NEW s \in SUBSET S, Cardinality(s) <= 0 PROVE SumFunctionOnSet(f, s) \in Nat
    OBVIOUS
  <2>1. ASSUME NEW x \in s PROVE FALSE
    <3>1. Cardinality(s) \in Nat \ {0}
      BY Removed
    <3> QED BY <3>1
  <2>2. s = {}
    BY <2>1
  <2> QED BY <2>2, SumEmpty
<1>2. ASSUME NEW n \in Nat, n \in T PROVE n + 1 \in T
  <2> SUFFICES ASSUME NEW s \in SUBSET S, Cardinality(s) <= n + 1 PROVE SumFunctionOnSet(f, s) \in Nat
    OBVIOUS
  <2>1. CASE s = {}
    BY <2>1, SumEmpty
  <2>2. CASE s # {}
    <3>1. PICK x \in s : TRUE
      BY <2>2
    <3>2. /\ s \ {x} \in SUBSET S /\ Cardinality(s \ {x}) = Cardinality(s) - 1
          /\ Cardinality(s) \in Nat
      BY Removed
    <3>3. Cardinality(s \ {x}) <= n
      BY <3>2
    <3>4. SumFunctionOnSet(f, s \ {x}) \in Nat
      BY <1>2, <3>2, <3>3
    <3>5. IsFiniteSet(s) /\ \A y \in s : f[y] \in Int
      BY FS_Subset
    <3>6. SumFunctionOnSet(f, s) = f[x] + SumFunctionOnSet(f, s \ {x})
      BY <3>5, SumRemove
    <3>7. f[x] \in Nat
      OBVIOUS
    <3> QED BY <3>4, <3>6, <3>7
  <2> QED BY <2>1, <2>2
<1>3. Nat \subseteq T
  <2> HIDE DEF T
  <2> QED BY <1>1, <1>2, Induct
<1>4. \A s \in SUBSET S : SumFunctionOnSet(f, s) \in Nat
  <2>1. \A s \in SUBSET S : Cardinality(s) \in Nat /\ Cardinality(s) <= Cardinality(s)
    BY FS_Subset, FS_CardinalityType
  <2> QED BY <1>3, <2>1
<1>5. SumFunction(f) = SumFunctionOnSet(f, S)
  BY DEF SumFunction
<1>6. ASSUME NEW x \in S PROVE f[x] <= SumFunctionOnSet(f, S)
  <2>1. SumFunctionOnSet(f, S) = f[x] + SumFunctionOnSet(f, S \ {x})
    BY SumRemove
  <2>2. SumFunctionOnSet(f, S \ {x}) \in Nat /\ f[x] \in Nat
    BY <1>4
  <2> QED BY <2>1, <2>2
<1> QED BY <1>4, <1>5, <1>6

(* A sum in which each summand is k or nothing.                            *)
LEMMA SumConstant ==
  ASSUME NEW S, IsFiniteSet(S), NEW A \in SUBSET S, NEW k \in Nat, NEW f \in [S -> Nat],
         \A x \in S : f[x] = IF x \in A THEN k ELSE 0
  PROVE  SumFunction(f) = Cardinality(A) * k
<1> DEFINE P(s) == SumFunctionOnSet(f, s) = Cardinality(s \cap A) * k
           T == {n \in Nat : \A s \in SUBSET S : Cardinality(s) <= n => P(s)}
<1>1. P({})
  <2>1. Cardinality({} \cap A) = 0
    <3>1. {} \cap A = {}
      OBVIOUS
    <3> QED BY <3>1, FS_EmptySet
  <2>2. 0 * k = 0
    OBVIOUS
  <2> QED BY <2>1, <2>2, SumEmpty
<1>2. 0 \in T
  <2> SUFFICES ASSUME NEW s \in SUBSET S, Cardinality(s) <= 0 PROVE P(s)
    OBVIOUS
  <2>1. ASSUME NEW x \in s PROVE FALSE
    <3>1. Cardinality(s) \in Nat \ {0}
      BY Removed
    <3> QED BY <3>1
  <2>2. s = {}
    BY <2>1
  <2> QED BY <1>1, <2>2
<1>3. ASSUME NEW n \in Nat, n \in T PROVE n + 1 \in T
  <2> SUFFICES ASSUME NEW s \in SUBSET S, Cardinality(s) <= n + 1 PROVE P(s)
    OBVIOUS
  <2>1. CASE s = {}
    BY <1>1, <2>1
  <2>2. CASE s # {}
    <3>1. PICK x \in s : TRUE
      BY <2>2
    <3> DEFINE r == s \ {x}
    <3>2. r \in SUBSET S /\ Cardinality(r) = Cardinality(s) - 1 /\ Cardinality(s) \in Nat
      BY Removed
    <3>3. Cardinality(r) <= n
      BY <3>2
    <3>4. P(r)
      BY <1>3, <3>2, <3>3
    <3>5. IsFiniteSet(s) /\ \A y \in s : f[y] \in Int
      BY FS_Subset
    <3>6. SumFunctionOnSet(f, s) = f[x] + SumFunctionOnSet(f, r)
      BY <3>5, SumRemove
    <3>7. IsFiniteSet(s \cap A) /\ IsFiniteSet(r \cap A)
      BY FS_Subset
    <3>8. Cardinality(r \cap A) \in Nat
      BY <3>7, FS_CardinalityType
    <3>9. \A m \in Nat : (m + 1) * k = k + m * k /\ 0 + m * k = m * k
      OBVIOUS
    <3>10. CASE x \in A
      <4>1. s \cap A = (r \cap A) \cup {x} /\ x \notin r \cap A
        BY <3>10
      <4>2. Cardinality(s \cap A) = Cardinality(r \cap A) + 1
        BY <3>7, <4>1, FS_AddElement
      <4>3. f[x] = k
        BY <3>10
      <4> QED BY <3>4, <3>6, <3>8, <3>9, <4>2, <4>3
    <3>11. CASE x \notin A
      <4>1. s \cap A = r \cap A /\ f[x] = 0
        BY <3>11
      <4> QED BY <3>4, <3>6, <3>8, <3>9, <4>1
    <3> QED BY <3>10, <3>11
  <2> QED BY <2>1, <2>2
<1>4. Nat \subseteq T
  <2> HIDE DEF T
  <2> QED BY <1>2, <1>3, Induct
<1>5. Cardinality(S) \in Nat /\ Cardinality(S) <= Cardinality(S) /\ S \cap A = A
  BY FS_CardinalityType
<1>6. P(S)
  BY <1>4, <1>5
<1> QED BY <1>5, <1>6 DEF SumFunction
==============================================================================
