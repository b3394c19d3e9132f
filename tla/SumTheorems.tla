----------------------------- MODULE SumTheorems -----------------------------
(***************************************************************************)
(* Facts about the sums the refund is stated with: the sum of a function   *)
(* over a finite set of indices, SumFunctionOnSet, takes out any one index *)
(* and is monotonic. It is a recursive function, so the facts need         *)
(* induction; with a set of natural numbers for the induction hypothesis   *)
(* they need no operator as a parameter.                                   *)
(***************************************************************************)
EXTENDS Functions, FiniteSetTheorems, TLAPS

-----------------------------------------------------------------------------
(* Induction *)

\* Every nonempty set of natural numbers has a least element.
LEMMA LeastOf ==
    ASSUME NEW T \in SUBSET Nat, T # {}
    PROVE  \E m \in T : \A n \in T : m <= n
<1>1. \E m \in T : \A n \in T : <<n, m>> \notin OpToRel(<, Nat)
  BY NatLessThanWellFounded, WFMin, Zenon
<1>2. \A m, n \in T : <<n, m>> \notin OpToRel(<, Nat) => ~(n < m)
  BY Zenon DEF OpToRel
<1>3. \A m, n \in T : ~(n < m) => m <= n
  OBVIOUS
<1>. QED BY <1>1, <1>2, <1>3, Zenon

\* A set of natural numbers that has 0 and every successor has them all.
LEMMA Inductive ==
    ASSUME NEW N \in SUBSET Nat, 0 \in N, \A n \in N : n + 1 \in N
    PROVE  \A n \in Nat : n \in N
<1>1. SUFFICES ASSUME Nat \ N # {} PROVE FALSE
  OBVIOUS
<1>2. PICK m \in Nat \ N : \A n \in Nat \ N : m <= n
  BY <1>1, LeastOf
<1>3. m # 0 /\ m - 1 \in Nat /\ m = (m - 1) + 1
  BY <1>2
<1>. QED BY <1>2, <1>3

-----------------------------------------------------------------------------
(* The recursive function behind a sum *)

Chosen(s) == CHOOSE x \in s : TRUE

SumStep(val, g, s) == IF s = {} THEN 0 ELSE val[Chosen(s)] + g[s \ {Chosen(s)}]

\* g sums val over every subset of S.
IsSum(g, val, S) == g = [s \in SUBSET S |-> SumStep(val, g, s)]

\* The sum is such a function, if there is one.
LEMMA SumIs ==
    ASSUME NEW S, NEW val
    PROVE  SumFunctionOnSet(val, S) = (CHOOSE g : IsSum(g, val, S))[S]
BY DEF SumFunctionOnSet, FoldFunctionOnSet, MapThenFoldSet, IsSum, SumStep, Chosen

\* An element of a nonempty set.
LEMMA ChosenIn == \A s : s # {} => Chosen(s) \in s
BY DEF Chosen

Small(S, n) == {s \in SUBSET S : Cardinality(s) <= n}

\* The set without one of its elements.
LEMMA SmallerRest ==
    ASSUME NEW S, IsFiniteSet(S), NEW s \in SUBSET S, NEW x \in s
    PROVE  /\ s \ {x} \in SUBSET S /\ Cardinality(s) \in Nat /\ Cardinality(s \ {x}) \in Nat
           /\ Cardinality(s \ {x}) = Cardinality(s) - 1
<1>1. IsFiniteSet(s)
  BY FS_Subset
<1>. QED BY <1>1, FS_RemoveElement, FS_CardinalityType

\* There is a function that satisfies the recursive definition.
LEMMA SumExists ==
    ASSUME NEW S, IsFiniteSet(S), NEW val
    PROVE  \E g : IsSum(g, val, S)
<1> DEFINE Upto(g, n) == g = [s \in Small(S, n) |-> SumStep(val, g, s)]
           N == {n \in Nat : \E g : Upto(g, n)}
<1>1. 0 \in N
  <2>1. PICK g : g = [s \in Small(S, 0) |-> 0]
    OBVIOUS
  <2>2. \A s \in Small(S, 0) : s = {}
    BY FS_Subset, FS_EmptySet, FS_CardinalityType DEF Small
  <2>3. \A s \in Small(S, 0) : SumStep(val, g, s) = 0
    BY <2>2 DEF SumStep
  <2>4. g = [s \in Small(S, 0) |-> SumStep(val, g, s)]
    BY <2>1, <2>3
  <2>. QED BY <2>4
<1>2. ASSUME NEW n \in N PROVE n + 1 \in N
  <2>1. PICK g : Upto(g, n)
    OBVIOUS
  <2>2. PICK h : h = [s \in Small(S, n + 1) |-> SumStep(val, g, s)]
    OBVIOUS
  <2>3. ASSUME NEW s \in Small(S, n) PROVE s \in Small(S, n + 1) /\ h[s] = g[s]
    <3>1. Cardinality(s) \in Nat
      BY FS_Subset, FS_CardinalityType DEF Small
    <3>2. s \in Small(S, n + 1)
      BY <3>1 DEF Small
    <3>. QED BY <2>1, <2>2, <3>2
  <2>4. ASSUME NEW s \in Small(S, n + 1) PROVE SumStep(val, g, s) = SumStep(val, h, s)
    <3>1. CASE s = {}
      BY <3>1 DEF SumStep
    <3>2. CASE s # {}
      <4>1. Chosen(s) \in s
        BY <3>2, ChosenIn
      <4>2. s \ {Chosen(s)} \in Small(S, n)
        BY <4>1, SmallerRest DEF Small
      <4>3. h[s \ {Chosen(s)}] = g[s \ {Chosen(s)}]
        BY <2>3, <4>2
      <4>. QED BY <4>3 DEF SumStep
    <3>. QED BY <3>1, <3>2
  <2>5. h = [s \in Small(S, n + 1) |-> SumStep(val, h, s)]
    BY <2>2, <2>4
  <2>. QED BY <2>5
<1>3. \A n \in Nat : n \in N
  <2>. HIDE DEF N
  <2>1. N \in SUBSET Nat
    BY DEF N
  <2>. QED BY <1>1, <1>2, <2>1, Inductive
<1>4. Cardinality(S) \in Nat /\ Small(S, Cardinality(S)) = SUBSET S
  BY FS_CardinalityType, FS_Subset DEF Small
<1>5. PICK g : Upto(g, Cardinality(S))
  BY <1>3, <1>4
<1>6. IsSum(g, val, S)
  BY <1>4, <1>5 DEF IsSum
<1>. QED BY <1>6

\* Two such functions agree where both are defined.
LEMMA SumUnique ==
    ASSUME NEW S, IsFiniteSet(S), NEW U \in SUBSET S, NEW val, NEW w,
           \A x \in U : val[x] = w[x],
           NEW g, IsSum(g, val, S), NEW h, IsSum(h, w, U)
    PROVE  \A s \in SUBSET U : g[s] = h[s]
<1> DEFINE N == {n \in Nat : \A s \in Small(U, n) : g[s] = h[s]}
<1>0. IsFiniteSet(U)
  BY FS_Subset
<1>1. \A s \in SUBSET U : g[s] = SumStep(val, g, s) /\ h[s] = SumStep(w, h, s)
  BY DEF IsSum
<1>2. 0 \in N
  <2>1. \A s \in Small(U, 0) : s = {}
    BY <1>0, FS_Subset, FS_EmptySet, FS_CardinalityType DEF Small
  <2>2. \A s \in Small(U, 0) : g[s] = 0 /\ h[s] = 0
    BY <1>1, <2>1 DEF SumStep, Small
  <2>. QED BY <2>2
<1>3. ASSUME NEW n \in N PROVE n + 1 \in N
  <2>1. SUFFICES ASSUME NEW s \in Small(U, n + 1) PROVE g[s] = h[s]
    OBVIOUS
  <2>2. CASE s = {}
    BY <1>1, <2>2 DEF SumStep
  <2>3. CASE s # {}
    <3>1. Chosen(s) \in s /\ s \in SUBSET U
      BY <2>3, ChosenIn DEF Small
    <3>2. s \ {Chosen(s)} \in Small(U, n)
      BY <1>0, <3>1, SmallerRest DEF Small
    <3>3. g[s \ {Chosen(s)}] = h[s \ {Chosen(s)}] /\ val[Chosen(s)] = w[Chosen(s)]
      BY <3>1, <3>2
    <3>. QED BY <1>1, <2>3, <3>1, <3>3 DEF SumStep
  <2>. QED BY <2>2, <2>3
<1>4. \A n \in Nat : n \in N
  <2>. HIDE DEF N
  <2>1. N \in SUBSET Nat
    BY DEF N
  <2>. QED BY <1>2, <1>3, <2>1, Inductive
<1>5. \A s \in SUBSET U : s \in Small(U, Cardinality(s)) /\ Cardinality(s) \in Nat
  BY <1>0, FS_Subset, FS_CardinalityType DEF Small
<1>. QED BY <1>4, <1>5

-----------------------------------------------------------------------------
(* What sums satisfy *)

\* There is one for every finite set.
LEMMA SumIsSum ==
    ASSUME NEW S, IsFiniteSet(S), NEW val
    PROVE  \E g : IsSum(g, val, S) /\ SumFunctionOnSet(val, S) = g[S]
<1>1. IsSum(CHOOSE g : IsSum(g, val, S), val, S)
  BY SumExists
<1>. QED BY <1>1, SumIs

\* A sum depends on the values it adds up only.
LEMMA SumSame ==
    ASSUME NEW S, IsFiniteSet(S), NEW val, NEW w, \A x \in S : val[x] = w[x]
    PROVE  SumFunctionOnSet(val, S) = SumFunctionOnSet(w, S)
<1>1. PICK g : IsSum(g, val, S) /\ SumFunctionOnSet(val, S) = g[S]
  BY SumIsSum
<1>2. PICK h : IsSum(h, w, S) /\ SumFunctionOnSet(w, S) = h[S]
  BY SumIsSum
<1>. QED BY <1>1, <1>2, SumUnique

\* The definition unfolded.
LEMMA SumUnfolds ==
    ASSUME NEW S, IsFiniteSet(S), NEW val
    PROVE  /\ S = {} => SumFunctionOnSet(val, S) = 0
           /\ S # {} => SumFunctionOnSet(val, S) =
                            val[Chosen(S)] + SumFunctionOnSet(val, S \ {Chosen(S)})
<1>1. PICK g : IsSum(g, val, S) /\ SumFunctionOnSet(val, S) = g[S]
  BY SumIsSum
<1>2. g[S] = SumStep(val, g, S)
  BY <1>1 DEF IsSum
<1>3. PICK U : U = S \ {Chosen(S)}
  OBVIOUS
<1>4. U \in SUBSET S /\ IsFiniteSet(U)
  BY <1>3, FS_Subset
<1>5. PICK h : IsSum(h, val, U) /\ SumFunctionOnSet(val, U) = h[U]
  BY <1>4, SumIsSum
<1>6. g[U] = h[U]
  BY <1>1, <1>4, <1>5, SumUnique
<1>. QED BY <1>1, <1>2, <1>3, <1>5, <1>6 DEF SumStep

\* A sum of natural numbers is one, and any index can be taken out of it.
LEMMA SumWithout ==
    ASSUME NEW S, IsFiniteSet(S), NEW val, \A x \in S : val[x] \in Nat
    PROVE  /\ SumFunctionOnSet(val, S) \in Nat
           /\ \A x \in S : SumFunctionOnSet(val, S) = val[x] + SumFunctionOnSet(val, S \ {x})
<1> DEFINE Sum(s) == SumFunctionOnSet(val, s)
           N == {n \in Nat : \A s \in Small(S, n) :
                     Sum(s) \in Nat /\ \A x \in s : Sum(s) = val[x] + Sum(s \ {x})}
<1>. HIDE DEF Sum
<1>1. ASSUME NEW s \in SUBSET S
      PROVE  /\ s = {} => Sum(s) = 0
             /\ s # {} => Sum(s) = val[Chosen(s)] + Sum(s \ {Chosen(s)}) /\ Chosen(s) \in s
  BY FS_Subset, SumUnfolds, ChosenIn DEF Sum
<1>2. 0 \in N
  <2>1. \A s \in Small(S, 0) : s = {}
    BY FS_Subset, FS_EmptySet, FS_CardinalityType DEF Small
  <2>. QED BY <1>1, <2>1 DEF Small
<1>3. ASSUME NEW n \in N PROVE n + 1 \in N
  <2>1. SUFFICES ASSUME NEW s \in Small(S, n + 1)
                 PROVE  Sum(s) \in Nat /\ \A x \in s : Sum(s) = val[x] + Sum(s \ {x})
    OBVIOUS
  <2>2. CASE s = {}
    BY SMTT(30), <1>1, <2>2 DEF Small
  <2>3. CASE s # {}
    <3>1. s \in SUBSET S /\ Chosen(s) \in s /\ Sum(s) = val[Chosen(s)] + Sum(s \ {Chosen(s)})
      BY <1>1, <2>3 DEF Small
    <3>2. PICK c \in s : c = Chosen(s)
      BY <3>1
    <3>3. \A x \in s : s \ {x} \in Small(S, n)
      BY <3>1, SmallerRest DEF Small
    <3>4. \A x \in s : Sum(s \ {x}) \in Nat /\ val[x] \in Nat
      BY <3>1, <3>3
    <3>5. ASSUME NEW x \in s, x # c PROVE Sum(s) = val[x] + Sum(s \ {x})
      <4>1. c \in s \ {x} /\ x \in s \ {c} /\ (s \ {x}) \ {c} = (s \ {c}) \ {x}
        BY <3>5
      <4>2. Sum(s \ {c}) = val[x] + Sum((s \ {c}) \ {x})
        BY <3>3, <4>1
      <4>3. Sum(s \ {x}) = val[c] + Sum((s \ {c}) \ {x})
        <5>1. Sum(s \ {x}) = val[c] + Sum((s \ {x}) \ {c})
          BY <3>3, <4>1
        <5>. QED BY <4>1, <5>1
      <4>4. (s \ {c}) \ {x} \in Small(S, n)
        <5>1. IsFiniteSet(s \ {c})
          BY <3>1, FS_Subset
        <5>2. /\ s \ {c} \in SUBSET S /\ Cardinality(s \ {c}) <= n
              /\ Cardinality(s \ {c}) \in Nat
          BY <3>3, <5>1, FS_CardinalityType DEF Small
        <5>. QED BY <4>1, <5>2, SmallerRest DEF Small
      <4>5. Sum((s \ {c}) \ {x}) \in Nat
        BY <4>4
      <4>6. Sum(s) = val[c] + Sum(s \ {c}) /\ val[c] \in Nat /\ val[x] \in Nat
        BY <3>1, <3>2, <3>4
      <4>7. PICK k \in Nat : k = Sum((s \ {c}) \ {x})
        BY <4>5
      <4>. QED BY <4>2, <4>3, <4>6, <4>7
    <3>6. Sum(s) = val[c] + Sum(s \ {c})
      BY <3>1, <3>2
    <3>7. Sum(s) \in Nat
      BY <3>4, <3>6
    <3>. QED BY <3>5, <3>6, <3>7
  <2>. QED BY <2>2, <2>3
<1>4. \A n \in Nat : n \in N
  <2>. HIDE DEF N
  <2>1. N \in SUBSET Nat
    BY DEF N
  <2>. QED BY <1>2, <1>3, <2>1, Inductive
<1>5. S \in Small(S, Cardinality(S)) /\ Cardinality(S) \in Nat
  BY FS_CardinalityType DEF Small
<1>. QED BY <1>4, <1>5 DEF Sum

\* One more index.
LEMMA SumAdd ==
    ASSUME NEW S, IsFiniteSet(S), NEW x, x \notin S, NEW val,
           \A y \in S \cup {x} : val[y] \in Nat
    PROVE  SumFunctionOnSet(val, S \cup {x}) = SumFunctionOnSet(val, S) + val[x]
<1>1. IsFiniteSet(S \cup {x}) /\ (S \cup {x}) \ {x} = S
  BY FS_AddElement
<1>2. SumFunctionOnSet(val, S \cup {x}) = val[x] + SumFunctionOnSet(val, S)
  BY <1>1, SumWithout
<1>3. SumFunctionOnSet(val, S) \in Nat
  BY SumWithout
<1>. QED BY <1>2, <1>3

\* One value of the sum changes.
LEMMA SumChange ==
    ASSUME NEW S, IsFiniteSet(S), NEW x \in S, NEW val, NEW w,
           \A y \in S : val[y] \in Nat /\ w[y] \in Nat,
           \A y \in S \ {x} : val[y] = w[y]
    PROVE  SumFunctionOnSet(w, S) + val[x] = SumFunctionOnSet(val, S) + w[x]
<1>1. IsFiniteSet(S \ {x})
  BY FS_Subset
<1>2. SumFunctionOnSet(val, S \ {x}) = SumFunctionOnSet(w, S \ {x})
  BY <1>1, SumSame
<1>3. SumFunctionOnSet(val, S \ {x}) \in Nat
  BY <1>1, SumWithout
<1>4. SumFunctionOnSet(val, S) = val[x] + SumFunctionOnSet(val, S \ {x})
  BY SumWithout
<1>5. SumFunctionOnSet(w, S) = w[x] + SumFunctionOnSet(w, S \ {x})
  BY SumWithout
<1>. QED BY <1>2, <1>3, <1>4, <1>5
=============================================================================
