----------------------------- MODULE SumsProofs -----------------------------
(***************************************************************************)
(* Facts that the other proof modules share: a nonempty set of naturals    *)
(* has a least element, induction over the naturals, a finite set has a    *)
(* largest one, and the laws of the sums of module Sums.  Induction is     *)
(* stated with a set and not with a predicate, so that it can be cited as  *)
(* it stands.                                                              *)
(***************************************************************************)
EXTENDS Sums, FiniteSets, WellFoundedInduction, TLAPS

\* Every nonempty set of naturals has a least element.
LEMMA LeastNat ==
  ASSUME NEW T, T \subseteq Nat, T # {}
  PROVE  \E x \in T : \A y \in T : x <= y
<1>1. PICK x \in T : \A y \in T : ~(<<y, x>> \in OpToRel(<, Nat))
  BY WFMin, NatLessThanWellFounded
<1>2. ASSUME NEW y \in T
      PROVE  x <= y
  <2>1. ~(<<y, x>> \in {ss \in Nat \X Nat : ss[1] < ss[2]})
    BY <1>1 DEF OpToRel
  <2> QED
    BY <2>1
<1> QED
  BY <1>2

\* A set that holds 0 and every successor of its elements holds Nat.
LEMMA NatInd ==
  ASSUME NEW T, 0 \in T, \A n \in Nat : n \in T => n + 1 \in T
  PROVE  Nat \subseteq T
<1> SUFFICES ASSUME Nat \ T # {}
             PROVE  FALSE
  OBVIOUS
<1>1. PICK x \in Nat \ T : \A y \in Nat \ T : x <= y
  BY LeastNat
<1>2. x # 0 /\ x - 1 \in Nat /\ x - 1 \in T
  BY <1>1
<1> QED
  BY <1>2

\* A finite set of integers that is not empty has a largest element.
LEMMA GreatestOfFinite ==
  ASSUME NEW S, S \subseteq Int, IsFiniteSet(S), S # {}
  PROVE  \E m \in S : \A x \in S : x <= m
<1>1. PICK q \in Seq(S) : \A x \in S : \E n \in 1 .. Len(q) : q[n] = x
  BY DEF IsFiniteSet
<1> DEFINE T == {n \in Nat : n + 1 <= Len(q) =>
                   \E i \in 1 .. n + 1 : \A j \in 1 .. n + 1 : q[j] <= q[i]}
<1>0. Len(q) \in Nat /\ Len(q) # 0 /\ \A i \in 1 .. Len(q) : q[i] \in S /\ q[i] \in Int
  <2>1. Len(q) \in Nat /\ \A i \in 1 .. Len(q) : q[i] \in S
    OBVIOUS
  <2>2. PICK x \in S : TRUE
    OBVIOUS
  <2>3. PICK n \in 1 .. Len(q) : q[n] = x
    BY <1>1
  <2>4. Len(q) # 0
    BY <2>1, <2>3
  <2>5. \A i \in 1 .. Len(q) : q[i] \in Int
    BY <2>1
  <2> QED
    BY <2>1, <2>4, <2>5
<1>2. 0 \in T
  <2>1. 1 <= Len(q) => q[1] <= q[1]
    BY <1>0
  <2> QED
    BY <2>1
<1>3. ASSUME NEW n \in Nat, n \in T
      PROVE  n + 1 \in T
  <2> SUFFICES ASSUME n + 2 <= Len(q)
               PROVE  \E i \in 1 .. n + 2 : \A j \in 1 .. n + 2 : q[j] <= q[i]
    OBVIOUS
  <2>1. PICK i \in 1 .. n + 1 : \A j \in 1 .. n + 1 : q[j] <= q[i]
    BY <1>0, <1>3
  <2>2. q[i] \in Int /\ q[n + 2] \in Int /\ \A j \in 1 .. n + 1 : q[j] \in Int
    BY <1>0, <2>1
  <2>3. CASE q[n + 2] <= q[i]
    <3>1. \A j \in 1 .. n + 2 : j \in 1 .. n + 1 \/ j = n + 2
      OBVIOUS
    <3> QED
      BY <2>1, <2>3, <3>1
  <2>4. CASE q[i] <= q[n + 2]
    <3>1. \A j \in 1 .. n + 2 : j \in 1 .. n + 1 \/ j = n + 2
      OBVIOUS
    <3>2. \A j \in 1 .. n + 2 : q[j] <= q[n + 2]
      BY <2>1, <2>2, <2>4, <3>1
    <3> QED
      BY <3>2
  <2>5. q[n + 2] <= q[i] \/ q[i] <= q[n + 2]
    BY <2>2
  <2> QED
    BY <2>3, <2>4, <2>5
<1> HIDE DEF T
<1>4. Len(q) - 1 \in T
  BY <1>0, <1>2, <1>3, NatInd
<1>5. PICK i \in 1 .. Len(q) : \A j \in 1 .. Len(q) : q[j] <= q[i]
  BY <1>0, <1>4 DEF T
<1>6. \A x \in S : x <= q[i]
  BY <1>1, <1>5
<1> QED
  BY <1>0, <1>6

-----------------------------------------------------------------------------

\* The recursive definition of the partial sums has a solution.
LEMMA PartialSumsExist ==
  ASSUME NEW s, NEW m \in Nat
  PROVE  \E f : f = [n \in 0 .. m |-> IF n = 0 THEN 0 ELSE f[n - 1] + s[n]]
<1> DEFINE Solves(f, k) ==
             f = [n \in 0 .. k |-> IF n = 0 THEN 0 ELSE f[n - 1] + s[n]]
           T == {k \in Nat : \E f : Solves(f, k)}
<1>1. 0 \in T
  <2> DEFINE f == [n \in 0 .. 0 |-> 0]
  <2>1. Solves(f, 0)
    OBVIOUS
  <2> QED
    BY <2>1
<1>2. ASSUME NEW k \in Nat, k \in T
      PROVE  k + 1 \in T
  <2>1. PICK f : Solves(f, k)
    BY <1>2
  <2> DEFINE g == [n \in 0 .. k + 1 |-> IF n = k + 1 THEN f[k] + s[k + 1]
                                                    ELSE f[n]]
             e == [n \in 0 .. k + 1 |-> IF n = 0 THEN 0 ELSE g[n - 1] + s[n]]
  <2>2. ASSUME NEW n \in 0 .. k + 1
        PROVE  g[n] = e[n]
    <3>1. CASE n = k + 1
      BY <3>1
    <3>2. CASE n # k + 1
      <4>1. n \in 0 .. k /\ g[n] = f[n]
        BY <3>2
      <4>2. f[n] = IF n = 0 THEN 0 ELSE f[n - 1] + s[n]
        BY <4>1, <2>1
      <4>3. n # 0 => g[n - 1] = f[n - 1]
        BY <4>1
      <4> QED
        BY <4>1, <4>2, <4>3
    <3> QED
      BY <3>1, <3>2
  <2>3. g = e
    BY <2>2
  <2>4. Solves(g, k + 1)
    BY <2>3
  <2> HIDE DEF g
  <2> QED
    BY <2>4
<1> HIDE DEF T
<1>3. m \in T
  BY <1>1, <1>2, NatInd
<1> QED
  BY <1>3 DEF T

\* The partial sums satisfy their definition.
LEMMA PartialSums ==
  ASSUME NEW s, Len(s) \in Nat
  PROVE  /\ SumUpTo(s)[0] = 0
         /\ \A n \in 1 .. Len(s) : SumUpTo(s)[n] = SumUpTo(s)[n - 1] + s[n]
<1> DEFINE Solves(f) == f = [n \in 0 .. Len(s) |->
                               IF n = 0 THEN 0 ELSE f[n - 1] + s[n]]
<1>1. \E f : Solves(f)
  BY PartialSumsExist
<1>2. SumUpTo(s) = CHOOSE f : Solves(f)
  BY DEF SumUpTo
<1> HIDE DEF Solves
<1>3. Solves(SumUpTo(s))
  BY <1>1, <1>2
<1>4. ASSUME NEW n \in 0 .. Len(s)
      PROVE  SumUpTo(s)[n] = IF n = 0 THEN 0 ELSE SumUpTo(s)[n - 1] + s[n]
  BY <1>3 DEF Solves
<1>5. 0 \in 0 .. Len(s) /\ \A n \in 1 .. Len(s) : n \in 0 .. Len(s) /\ n # 0
  OBVIOUS
<1> QED
  BY <1>4, <1>5

\* A sum of integers is an integer, and a sum of naturals is a natural.
LEMMA SumType ==
  ASSUME NEW s \in Seq(Int)
  PROVE  /\ \A n \in 0 .. Len(s) : SumUpTo(s)[n] \in Int
         /\ Sum(s) \in Int
         /\ s \in Seq(Nat) => Sum(s) \in Nat
<1> DEFINE T == {n \in Nat : n <= Len(s) =>
                   /\ SumUpTo(s)[n] \in Int
                   /\ s \in Seq(Nat) => SumUpTo(s)[n] \in Nat}
<1>0. Len(s) \in Nat
  OBVIOUS
<1>1. 0 \in T
  BY <1>0, PartialSums
<1>2. ASSUME NEW n \in Nat, n \in T
      PROVE  n + 1 \in T
  <2> SUFFICES ASSUME n + 1 <= Len(s)
               PROVE  /\ SumUpTo(s)[n + 1] \in Int
                      /\ s \in Seq(Nat) => SumUpTo(s)[n + 1] \in Nat
    OBVIOUS
  <2>1. n + 1 \in 1 .. Len(s) /\ (n + 1) - 1 = n
    BY <1>0
  <2>2. SumUpTo(s)[n + 1] = SumUpTo(s)[n] + s[n + 1]
    BY <1>0, <2>1, PartialSums
  <2>3. s[n + 1] \in Int /\ (s \in Seq(Nat) => s[n + 1] \in Nat)
    BY <2>1
  <2> QED
    BY <1>0, <1>2, <2>2, <2>3
<1> HIDE DEF T
<1>3. Nat \subseteq T
  BY <1>1, <1>2, NatInd
<1> QED
  BY <1>0, <1>3 DEF T, Sum

\* Partial sums only look at the elements they add up.
LEMMA SumPrefix ==
  ASSUME NEW s \in Seq(Int), NEW t \in Seq(Int), NEW m \in Nat,
         m <= Len(s), m <= Len(t), \A i \in 1 .. m : s[i] = t[i]
  PROVE  SumUpTo(s)[m] = SumUpTo(t)[m]
<1> DEFINE T == {n \in Nat : n <= m => SumUpTo(s)[n] = SumUpTo(t)[n]}
<1>0. Len(s) \in Nat /\ Len(t) \in Nat
  OBVIOUS
<1>1. 0 \in T
  BY <1>0, PartialSums
<1>2. ASSUME NEW n \in Nat, n \in T
      PROVE  n + 1 \in T
  <2> SUFFICES ASSUME n + 1 <= m
               PROVE  SumUpTo(s)[n + 1] = SumUpTo(t)[n + 1]
    OBVIOUS
  <2>1. /\ n + 1 \in 1 .. Len(s) /\ n + 1 \in 1 .. Len(t)
        /\ n + 1 \in 1 .. m /\ (n + 1) - 1 = n
    BY <1>0
  <2>2. /\ SumUpTo(s)[n + 1] = SumUpTo(s)[n] + s[n + 1]
        /\ SumUpTo(t)[n + 1] = SumUpTo(t)[n] + t[n + 1]
    BY <1>0, <2>1, PartialSums
  <2> QED
    BY <1>2, <2>1, <2>2
<1> HIDE DEF T
<1>3. m \in T
  BY <1>1, <1>2, NatInd
<1> QED
  BY <1>3 DEF T

\* A further element is added.
LEMMA SumExtended ==
  ASSUME NEW s \in Seq(Int), NEW t \in Seq(Int), Len(t) = Len(s) + 1,
         \A i \in 1 .. Len(s) : s[i] = t[i]
  PROVE  Sum(t) = Sum(s) + t[Len(t)]
<1>1. Len(s) \in Nat /\ Len(t) \in Nat /\ Len(s) <= Len(s) /\ Len(s) <= Len(t)
  OBVIOUS
<1>2. SumUpTo(s)[Len(s)] = SumUpTo(t)[Len(s)]
  BY <1>1, SumPrefix
<1>3. Len(t) \in 1 .. Len(t) /\ Len(t) - 1 = Len(s)
  BY <1>1
<1>4. SumUpTo(t)[Len(t)] = SumUpTo(t)[Len(s)] + t[Len(t)]
  BY <1>1, <1>3, PartialSums
<1> QED
  BY <1>2, <1>4 DEF Sum

\* The sum of nothing.
LEMMA SumEmpty == Sum(<<>>) = 0
BY PartialSums DEF Sum

\* A sum grows with its elements.
LEMMA SumMonotone ==
  ASSUME NEW s \in Seq(Int), NEW t \in Seq(Int), Len(s) = Len(t),
         \A i \in 1 .. Len(s) : s[i] <= t[i]
  PROVE  Sum(s) <= Sum(t)
<1> DEFINE T == {n \in Nat : n <= Len(s) => SumUpTo(s)[n] <= SumUpTo(t)[n]}
<1>0. Len(s) \in Nat
  OBVIOUS
<1>1. 0 \in T
  BY <1>0, PartialSums
<1>2. ASSUME NEW n \in Nat, n \in T
      PROVE  n + 1 \in T
  <2> SUFFICES ASSUME n + 1 <= Len(s)
               PROVE  SumUpTo(s)[n + 1] <= SumUpTo(t)[n + 1]
    OBVIOUS
  <2>1. n + 1 \in 1 .. Len(s) /\ (n + 1) - 1 = n /\ n \in 0 .. Len(s)
    BY <1>0
  <2>2. /\ SumUpTo(s)[n + 1] = SumUpTo(s)[n] + s[n + 1]
        /\ SumUpTo(t)[n + 1] = SumUpTo(t)[n] + t[n + 1]
    BY <1>0, <2>1, PartialSums
  <2>3. /\ SumUpTo(s)[n] \in Int /\ SumUpTo(t)[n] \in Int
        /\ s[n + 1] \in Int /\ t[n + 1] \in Int
    BY <2>1, SumType
  <2> QED
    BY <1>0, <1>2, <2>1, <2>2, <2>3
<1> HIDE DEF T
<1>3. Len(s) \in T
  BY <1>0, <1>1, <1>2, NatInd
<1> QED
  BY <1>0, <1>3 DEF T, Sum

\* Four numbers added in another order.
LEMMA Regroup ==
  ASSUME NEW a, NEW b, NEW x, NEW y, a \in Int, b \in Int, x \in Int, y \in Int
  PROVE  (a + b) + (x + y) = (a + x) + (b + y)
OBVIOUS

\* Sums add up element by element.
LEMMA SumAdd ==
  ASSUME NEW s \in Seq(Int), NEW t \in Seq(Int), NEW u \in Seq(Int),
         Len(s) = Len(u), Len(t) = Len(u),
         \A i \in 1 .. Len(u) : u[i] = s[i] + t[i]
  PROVE  Sum(u) = Sum(s) + Sum(t)
<1> DEFINE T == {n \in Nat : n <= Len(u) =>
                   SumUpTo(u)[n] = SumUpTo(s)[n] + SumUpTo(t)[n]}
<1>0. Len(u) \in Nat
  OBVIOUS
<1>1. 0 \in T
  BY <1>0, PartialSums
<1>2. ASSUME NEW n \in Nat, n \in T
      PROVE  n + 1 \in T
  <2> SUFFICES ASSUME n + 1 <= Len(u)
               PROVE  SumUpTo(u)[n + 1] = SumUpTo(s)[n + 1] + SumUpTo(t)[n + 1]
    OBVIOUS
  <2>1. n + 1 \in 1 .. Len(u) /\ (n + 1) - 1 = n /\ n \in 0 .. Len(u)
    BY <1>0
  <2>2. /\ SumUpTo(s)[n + 1] = SumUpTo(s)[n] + s[n + 1]
        /\ SumUpTo(t)[n + 1] = SumUpTo(t)[n] + t[n + 1]
        /\ SumUpTo(u)[n + 1] = SumUpTo(u)[n] + u[n + 1]
    BY <1>0, <2>1, PartialSums
  <2>3. /\ SumUpTo(s)[n] \in Int /\ SumUpTo(t)[n] \in Int
        /\ s[n + 1] \in Int /\ t[n + 1] \in Int
    BY <2>1, SumType
  <2>4. /\ SumUpTo(u)[n] = SumUpTo(s)[n] + SumUpTo(t)[n]
        /\ u[n + 1] = s[n + 1] + t[n + 1]
    BY <1>0, <1>2, <2>1
  <2>5. PICK a, b, x, y : /\ a = SumUpTo(s)[n] /\ b = SumUpTo(t)[n]
                          /\ x = s[n + 1] /\ y = t[n + 1]
    OBVIOUS
  <2>6. a \in Int /\ b \in Int /\ x \in Int /\ y \in Int
    BY <2>3, <2>5
  <2>7. (a + b) + (x + y) = (a + x) + (b + y)
    BY <2>6, Regroup
  <2> QED
    BY <2>2, <2>4, <2>5, <2>7
<1> HIDE DEF T
<1>3. Len(u) \in T
  BY <1>0, <1>1, <1>2, NatInd
<1> QED
  BY <1>0, <1>3 DEF T, Sum
=============================================================================
