------------------------------- MODULE SetSums -------------------------------
(***************************************************************************)
(* What a sum over a finite set comes to.  MapThenSumSet of FiniteSetsExt  *)
(* folds the set in the order in which CHOOSE picks from it; the theorems  *)
(* say that the order does not matter.                                     *)
(*                                                                         *)
(* Induction is stated for the set of values it reaches and not for an     *)
(* operator that holds of them: the facts then follow from the smallest    *)
(* member of a well-founded set, and can be cited by first-order provers.  *)
(***************************************************************************)
EXTENDS Integers, FiniteSetsExt, FiniteSetTheorems, TLAPS

\* A nonempty set of natural numbers has a smallest member.
LEMMA SmallestNat ==
  ASSUME NEW N \in SUBSET Nat, N # {}
  PROVE \E n \in N : \A m \in N : n <= m
<1> DEFINE Ivl == {1..n : n \in N}
<1>1. Ivl \subseteq FiniteSubsetsOf(Nat) /\ Ivl # {}
  <2>1. ASSUME NEW n \in N PROVE 1..n \in FiniteSubsetsOf(Nat)
    <3>1. n \in Int /\ 1 \in Int
      OBVIOUS
    <3>2. IsFiniteSet(1..n)
      BY <3>1, FS_Interval
    <3> QED
      BY <3>2 DEF FiniteSubsetsOf
  <2> QED
    BY <2>1
<1>2. \E T \in Ivl : \A U \in Ivl : ~ (<<U, T>> \in StrictSubsetOrdering(Nat))
  <2> HIDE DEF Ivl
  <2> QED
    BY <1>1, FS_StrictSubsetOrderingWellFounded, WFMin
<1>3. PICK T \in Ivl : \A U \in Ivl : ~ (<<U, T>> \in StrictSubsetOrdering(Nat))
  BY <1>2
<1>4. PICK n \in N : T = 1..n
  BY <1>3
<1>5. ASSUME NEW m \in N, m < n PROVE FALSE
  <2>1. 1..m \subseteq 1..n /\ n \in 1..n /\ n \notin 1..m
    BY <1>5
  <2>2. 1..m \in Ivl /\ 1..m # T
    BY <2>1, <1>4
  <2>3. 1..m \in SUBSET Nat /\ 1..n \in SUBSET Nat
    OBVIOUS
  <2>4. <<1..m, T>> \in StrictSubsetOrdering(Nat)
    BY <2>1, <2>2, <2>3, <1>4 DEF StrictSubsetOrdering
  <2> QED
    BY <2>2, <2>4, <1>3
<1> QED
  BY <1>5

\* Induction on the natural numbers.
LEMMA NatSet ==
  ASSUME NEW H, 0 \in H, \A n \in Nat : n \in H => n + 1 \in H
  PROVE  Nat \subseteq H
<1> DEFINE B == Nat \ H
<1>1. SUFFICES ASSUME B # {} PROVE FALSE
  OBVIOUS
<1>2. PICK n \in B : \A m \in B : n <= m
  <2>1. B \in SUBSET Nat
    OBVIOUS
  <2> HIDE DEF B
  <2> QED
    BY <1>1, <2>1, SmallestNat
<1>3. n # 0 /\ n - 1 \in Nat /\ n - 1 \notin B
  BY <1>2
<1>4. n - 1 \in H
  BY <1>3
<1>5. (n - 1) + 1 \in H
  BY <1>3, <1>4
<1> QED
  BY <1>2, <1>5

\* Induction on the subsets of a finite set.
LEMMA SubsetInduction ==
  ASSUME NEW S, IsFiniteSet(S), NEW H,
         \A T \in SUBSET S : (\A U \in SUBSET T : U # T => U \in H) => T \in H
  PROVE  SUBSET S \subseteq H
<1> DEFINE B == (SUBSET S) \ H
<1>1. SUFFICES ASSUME B # {} PROVE FALSE
  OBVIOUS
<1>2. B \subseteq FiniteSubsetsOf(S)
  BY FS_FiniteSubsetsOfFinite
<1>3. PICK T \in B : \A U \in B : ~ (<<U, T>> \in StrictSubsetOrdering(S))
  <2> HIDE DEF B
  <2> QED
    BY <1>1, <1>2, FS_StrictSubsetOrderingWellFounded, WFMin
<1>4. ASSUME NEW U \in SUBSET T, U # T PROVE U \in H
  <2>1. U \in SUBSET S /\ T \in SUBSET S
    OBVIOUS
  <2>2. <<U, T>> \in StrictSubsetOrdering(S)
    BY <1>4, <2>1 DEF StrictSubsetOrdering
  <2> QED
    BY <1>3, <2>1, <2>2
<1> QED
  BY <1>3, <1>4

-----------------------------------------------------------------------------
(* The recursion a fold stands for.                                        *)

Pick(s) == CHOOSE x \in s : TRUE

Body(g, v, s) == IF s = {} THEN 0 ELSE v[Pick(s)] + g[s \ {Pick(s)}]
\* The function g sums the values v over every subset of S.
Sums(g, v, S) == g = [s \in SUBSET S |-> Body(g, v, s)]

LEMMA Picked == \A s : s # {} => Pick(s) \in s
BY DEF Pick

\* There is at most one such function, also if it is given for a larger set.
LEMMA SumsUnique ==
  ASSUME NEW S, NEW R, IsFiniteSet(S), S \subseteq R, NEW v, NEW g, NEW h, Sums(g, v, S), Sums(h, v, R)
  PROVE  \A s \in SUBSET S : g[s] = h[s]
<1> DEFINE H == {s \in SUBSET S : g[s] = h[s]}
<1>1. ASSUME NEW T \in SUBSET S, \A U \in SUBSET T : U # T => U \in H PROVE T \in H
  <2>1. g[T] = Body(g, v, T) /\ h[T] = Body(h, v, T)
    BY DEF Sums
  <2>2. CASE T = {}
    BY <2>1, <2>2 DEF Body
  <2>3. CASE T # {}
    <3>1. T \ {Pick(T)} \in H
      BY <1>1, <2>3, Picked
    <3> QED
      BY <2>1, <2>3, <3>1 DEF Body
  <2> QED
    BY <2>2, <2>3
<1>2. SUBSET S \subseteq H
  <2> HIDE DEF H
  <2> QED
    BY <1>1, SubsetInduction
<1> QED
  BY <1>2

\* There is one, by recursion on the size of the subsets.
LEMMA SumsExist ==
  ASSUME NEW S, IsFiniteSet(S), NEW v, \A x \in S : v[x] \in Int
  PROVE  \E g \in [SUBSET S -> Int] : Sums(g, v, S)
<1> DEFINE D(n) == {s \in SUBSET S : Cardinality(s) <= n}
           H == {n \in Nat : \E g \in [D(n) -> Int] : \A s \in D(n) : g[s] = Body(g, v, s)}
<1>0. \A s \in SUBSET S : IsFiniteSet(s) /\ Cardinality(s) \in Nat /\ Cardinality(s) <= Cardinality(S)
  BY FS_Subset, FS_CardinalityType
<1>1. 0 \in H
  <2>1. D(0) = {{}}
    BY <1>0, FS_EmptySet
  <2> DEFINE g == [s \in {{}} |-> 0]
  <2>2. g \in [D(0) -> Int] /\ \A s \in D(0) : g[s] = Body(g, v, s)
    BY <2>1 DEF Body
  <2> QED
    BY <2>2
<1>2. ASSUME NEW n \in Nat, n \in H PROVE n + 1 \in H
  <2>1. PICK g \in [D(n) -> Int] : \A s \in D(n) : g[s] = Body(g, v, s)
    BY <1>2
  <2> DEFINE h == [s \in D(n + 1) |-> IF s \in D(n) THEN g[s] ELSE Body(g, v, s)]
  <2>2. ASSUME NEW s \in D(n + 1), s # {} PROVE s \ {Pick(s)} \in D(n) /\ Pick(s) \in S
    <3>1. Pick(s) \in s
      BY <2>2, Picked
    <3>2. Cardinality(s \ {Pick(s)}) = Cardinality(s) - 1
      BY <1>0, <3>1, FS_RemoveElement
    <3> QED
      BY <1>0, <3>1, <3>2
  <2>3. ASSUME NEW s \in D(n + 1) PROVE h[s] \in Int /\ h[s] = Body(h, v, s)
    <3>1. CASE s = {}
      <4>1. s \in D(n)
        BY <3>1, FS_EmptySet
      <4> QED
        BY <2>1, <3>1, <4>1 DEF Body
    <3>2. CASE s # {}
      <4>1. s \ {Pick(s)} \in D(n) /\ v[Pick(s)] \in Int
        BY <2>2, <3>2
      <4>2. s \ {Pick(s)} \in D(n + 1)
        BY <4>1, <1>0
      <4>3. h[s \ {Pick(s)}] = g[s \ {Pick(s)}] /\ g[s \ {Pick(s)}] \in Int
        BY <4>1, <4>2
      <4>4. h[s] = Body(g, v, s)
        BY <2>1
      <4> QED
        BY <3>2, <4>1, <4>3, <4>4 DEF Body
    <3> QED
      BY <3>1, <3>2
  <2>4. h \in [D(n + 1) -> Int] /\ \A s \in D(n + 1) : h[s] = Body(h, v, s)
    BY <2>3
  <2>5. \E f \in [D(n + 1) -> Int] : \A s \in D(n + 1) : f[s] = Body(f, v, s)
    <3> HIDE DEF h, D
    <3> QED
      BY <2>4
  <2>6. n + 1 \in Nat
    OBVIOUS
  <2> HIDE DEF h, D
  <2> QED
    BY <2>5, <2>6
<1>3. Cardinality(S) \in H
  <2>1. Nat \subseteq H
    <3> HIDE DEF H
    <3> QED
      BY <1>1, <1>2, NatSet
  <2> QED
    BY <2>1, FS_CardinalityType
<1>4. D(Cardinality(S)) = SUBSET S
  BY <1>0
<1>5. PICK g \in [SUBSET S -> Int] : \A s \in SUBSET S : g[s] = Body(g, v, s)
  BY <1>3, <1>4
<1> QED
  BY <1>5 DEF Sums

-----------------------------------------------------------------------------
(* Sums of a function's values.                                            *)

Total(v, S) == MapThenSumSet(LAMBDA x : v[x], S)

\* The library's sum is that function's value.
LEMMA TotalIs ==
  ASSUME NEW S, IsFiniteSet(S), NEW v, \A x \in S : v[x] \in Int
  PROVE  \E g \in [SUBSET S -> Int] : Sums(g, v, S) /\ Total(v, S) = g[S]
<1>1. PICK g \in [SUBSET S -> Int] : Sums(g, v, S)
  BY SumsExist
<1>2. \E h : Sums(h, v, S) /\ Total(v, S) = h[S]
  BY <1>1 DEF Sums, Body, Pick, Total, MapThenSumSet, MapThenFoldSet
<1>3. PICK h : Sums(h, v, S) /\ Total(v, S) = h[S]
  BY <1>2
<1>4. \A s \in SUBSET S : g[s] = h[s]
  BY <1>1, <1>3, SumsUnique
<1> QED
  BY <1>1, <1>3, <1>4

\* One function gives the sums over all subsets.
LEMMA TotalOf ==
  ASSUME NEW S, IsFiniteSet(S), NEW v, \A x \in S : v[x] \in Int, NEW g, Sums(g, v, S)
  PROVE  \A T \in SUBSET S : Total(v, T) = g[T] /\ g[T] \in Int
<1> TAKE T \in SUBSET S
<1>1. IsFiniteSet(T) /\ \A x \in T : v[x] \in Int
  BY FS_Subset
<1>2. PICK h \in [SUBSET T -> Int] : Sums(h, v, T) /\ Total(v, T) = h[T]
  BY <1>1, TotalIs
<1>3. T \in SUBSET T
  OBVIOUS
<1>4. h[T] = g[T]
  BY <1>1, <1>2, <1>3, SumsUnique
<1> QED
  BY <1>2, <1>3, <1>4

\* Nothing sums to zero.
THEOREM TotalEmpty == \A v : Total(v, {}) = 0
<1> TAKE v
<1>1. PICK g \in [SUBSET {} -> Int] : Sums(g, v, {}) /\ Total(v, {}) = g[{}]
  BY TotalIs, FS_EmptySet
<1> QED
  BY <1>1 DEF Sums, Body

\* Any member may be taken out first.
THEOREM TotalTakeOut ==
  ASSUME NEW S, IsFiniteSet(S), NEW v, \A x \in S : v[x] \in Int, NEW x \in S
  PROVE  Total(v, S) = v[x] + Total(v, S \ {x})
<1>1. PICK g \in [SUBSET S -> Int] : Sums(g, v, S)
  BY SumsExist
<1>2. \A T \in SUBSET S : Total(v, T) = g[T]
  BY <1>1, TotalOf
<1> DEFINE H == {T \in SUBSET S : \A y \in T : g[T] = v[y] + g[T \ {y}]}
<1>3. ASSUME NEW T \in SUBSET S, \A U \in SUBSET T : U # T => U \in H PROVE T \in H
  <2>1. SUFFICES ASSUME NEW y \in T PROVE g[T] = v[y] + g[T \ {y}]
    OBVIOUS
  <2> DEFINE p == Pick(T)
  <2>2. p \in T
    BY Picked
  <2>3. g[T] = v[p] + g[T \ {p}]
    BY <1>1, <2>1 DEF Sums, Body
  <2>4. CASE y # p
    <3>1. T \ {p} \in H /\ T \ {y} \in H /\ y \in T \ {p} /\ p \in T \ {y}
      BY <1>3, <2>1, <2>2, <2>4
    <3>2. g[T \ {p}] = v[y] + g[(T \ {p}) \ {y}] /\ g[T \ {y}] = v[p] + g[(T \ {y}) \ {p}]
      BY <3>1
    <3>3. (T \ {p}) \ {y} = (T \ {y}) \ {p} /\ (T \ {y}) \ {p} \in SUBSET S
      OBVIOUS
    <3>4. v[p] \in Int /\ v[y] \in Int /\ g[(T \ {y}) \ {p}] \in Int
      BY <2>1, <2>2, <3>3
    <3>5. \A a, b, c \in Int : a + (b + c) = b + (a + c)
      OBVIOUS
    <3> DEFINE rest == g[(T \ {y}) \ {p}]
    <3>6. g[T] = v[p] + (v[y] + rest)
      BY <2>3, <3>2, <3>3
    <3>7. g[T \ {y}] = v[p] + rest
      BY <3>2
    <3> HIDE DEF p, rest
    <3> QED
      BY <3>4, <3>5, <3>6, <3>7 DEF rest
  <2> QED
    BY <2>3, <2>4
<1>4. S \in H
  <2>1. SUBSET S \subseteq H
    <3> HIDE DEF H
    <3> QED
      BY <1>3, SubsetInduction
  <2> QED
    BY <2>1
<1>5. S \ {x} \in SUBSET S /\ S \in SUBSET S
  OBVIOUS
<1> QED
  BY <1>2, <1>4, <1>5

\* A sum of integers is an integer.
THEOREM TotalType ==
  ASSUME NEW S, IsFiniteSet(S), NEW v, \A x \in S : v[x] \in Int
  PROVE  Total(v, S) \in Int
<1>1. PICK g \in [SUBSET S -> Int] : Sums(g, v, S) /\ Total(v, S) = g[S]
  BY TotalIs
<1> QED
  BY <1>1

\* One more member adds its value.
THEOREM TotalAdd ==
  ASSUME NEW S, IsFiniteSet(S), NEW x, x \notin S, NEW v, \A y \in S \cup {x} : v[y] \in Int
  PROVE  Total(v, S \cup {x}) = Total(v, S) + v[x]
<1>1. IsFiniteSet(S \cup {x}) /\ (S \cup {x}) \ {x} = S
  BY FS_AddElement
<1>2. Total(v, S \cup {x}) = v[x] + Total(v, S)
  BY <1>1, TotalTakeOut
<1>3. Total(v, S) \in Int /\ v[x] \in Int
  BY TotalType
<1> QED
  BY <1>2, <1>3

\* A sum depends on the values summed only.
THEOREM TotalSame ==
  ASSUME NEW S, IsFiniteSet(S), NEW v, NEW w, \A x \in S : v[x] \in Int /\ v[x] = w[x]
  PROVE  Total(v, S) = Total(w, S)
<1>1. PICK g \in [SUBSET S -> Int] : Sums(g, v, S) /\ Total(v, S) = g[S]
  BY TotalIs
<1>2. \A s \in SUBSET S : Body(g, v, s) = Body(g, w, s)
  <2> TAKE s \in SUBSET S
  <2>1. s # {} => Pick(s) \in S
    BY Picked
  <2> QED
    BY <2>1 DEF Body
<1>3. Sums(g, w, S)
  BY <1>1, <1>2 DEF Sums
<1>4. \A T \in SUBSET S : Total(w, T) = g[T]
  BY <1>3, TotalOf
<1> QED
  BY <1>1, <1>4

\* A sum changes by the change of one value.
THEOREM TotalChange ==
  ASSUME NEW S, IsFiniteSet(S), NEW v, NEW w, NEW x \in S, w[x] \in Int,
         \A y \in S : v[y] \in Int /\ (y # x => v[y] = w[y])
  PROVE  Total(w, S) = Total(v, S) + (w[x] - v[x])
<1> DEFINE R == S \ {x}
<1>1. IsFiniteSet(R) /\ \A y \in R : v[y] \in Int /\ v[y] = w[y]
  BY FS_RemoveElement
<1>2. (\A y \in S : v[y] \in Int) /\ (\A y \in S : w[y] \in Int)
  OBVIOUS
<1>3. Total(v, S) = v[x] + Total(v, R) /\ Total(w, S) = w[x] + Total(w, R)
  BY <1>2, TotalTakeOut
<1> HIDE DEF R
<1>4. Total(v, R) \in Int /\ Total(v, R) = Total(w, R)
  BY <1>1, TotalType, TotalSame
<1> QED
  BY <1>3, <1>4

\* A sum of natural numbers is at least each of them, and not negative.
THEOREM TotalBounds ==
  ASSUME NEW S, IsFiniteSet(S), NEW v, \A x \in S : v[x] \in Nat
  PROVE  Total(v, S) \in Nat /\ \A x \in S : v[x] <= Total(v, S)
<1> DEFINE H == {T \in SUBSET S : Total(v, T) \in Nat}
<1>1. ASSUME NEW T \in SUBSET S, \A U \in SUBSET T : U # T => U \in H PROVE T \in H
  <2>1. CASE T = {}
    BY <2>1, TotalEmpty
  <2>2. CASE T # {}
    <3>1. PICK x \in T : TRUE
      BY <2>2
    <3>2. T \ {x} \in H
      BY <1>1, <3>1
    <3>3. IsFiniteSet(T) /\ (\A y \in T : v[y] \in Int) /\ v[x] \in Nat
      BY FS_Subset, <3>1
    <3>4. Total(v, T) = v[x] + Total(v, T \ {x})
      BY <3>1, <3>3, TotalTakeOut
    <3> QED
      BY <3>2, <3>3, <3>4
  <2> QED
    BY <2>1, <2>2
<1>2. SUBSET S \subseteq H
  <2> HIDE DEF H
  <2> QED
    BY <1>1, SubsetInduction
<1>3. ASSUME NEW x \in S PROVE v[x] <= Total(v, S)
  <2>1. S \ {x} \in H
    BY <1>2
  <2>2. \A y \in S : v[y] \in Int
    OBVIOUS
  <2>3. Total(v, S) = v[x] + Total(v, S \ {x})
    BY <2>2, TotalTakeOut
  <2> QED
    BY <2>1, <2>3
<1> QED
  BY <1>2, <1>3
=============================================================================
