--------------------------- MODULE CollectionsProofs ---------------------------
(***************************************************************************)
(* The laws of Total, Kept and Sorted, for every summand, set, sequence    *)
(* and order.                                                              *)
(*                                                                         *)
(* Total is a fold of the community modules, a recursive function over the *)
(* subsets of a set; Kept is one over the prefixes of a sequence; Sorted   *)
(* chooses a list. That these exist, and each law, is shown by induction   *)
(* on the cardinality or on the length. The induction theorems of the      *)
(* library take the predicate as an operator; what is used here instead is *)
(* that a nonempty set of numbers has a least element (WFMin), for the set *)
(* of the numbers at which a law fails.                                    *)
(***************************************************************************)
EXTENDS Collections, Integers, FiniteSetTheorems, SequenceTheorems, WellFoundedInduction, TLAPS

NatLess == {pair \in Nat \X Nat : pair[1] < pair[2]}

LEMMA NatWellFounded == IsWellFoundedOn(NatLess, Nat)
  BY NatLessThanWellFounded DEF OpToRel, NatLess

\* Course-of-values induction, for a set of numbers.
LEMMA StrongInduction ==
  ASSUME NEW S, \A n \in Nat : (\A m \in Nat : m < n => m \in S) => n \in S
  PROVE  \A n \in Nat : n \in S
<1> DEFINE T == Nat \ S
<1>1. SUFFICES ASSUME T # {} PROVE FALSE
  OBVIOUS
<1>2. PICK x \in T : \A y \in T : ~ (<<y, x>> \in NatLess)
  <2>1. T \subseteq Nat
    OBVIOUS
  <2> HIDE DEF T
  <2>2. QED
    BY NatWellFounded, <1>1, <2>1, WFMin
<1>3. \A m \in Nat : m < x => m \in S
  <2>1. SUFFICES ASSUME NEW m \in Nat, m < x, m \notin S PROVE FALSE
    OBVIOUS
  <2>2. m \in T /\ <<m, x>> \in NatLess
    BY <2>1 DEF NatLess
  <2>3. QED
    BY <1>2, <2>2
<1>4. QED
  BY <1>3

-------------------------------------------------------------------------------
(* MapThenSumSet takes the sum of S from a recursive function over the        *)
(* subsets of S. It exists, and the functions for two sets agree on the       *)
(* subsets of both: both by induction on the cardinality.                     *)

Pick(s) == CHOOSE x \in s : TRUE

Iterates(g, f, S) ==
  g = [s \in SUBSET S |-> IF s = {} THEN 0 ELSE f[Pick(s)] + g[s \ {Pick(s)}]]

Iter(f, S) == CHOOSE g : Iterates(g, f, S)

\* What Total abbreviates.
LEMMA TotalIsIter == \A f, S : Total(f, S) = Iter(f, S)[S]
  BY DEF Total, MapThenSumSet, MapThenFoldSet, Iter, Iterates, Pick

LEMMA PickIn == \A s : s # {} => Pick(s) \in s
  BY DEF Pick

\* A set without the element picked is smaller.
LEMMA RestIsSmaller ==
  ASSUME NEW s, s # {}, IsFiniteSet(s)
  PROVE  /\ IsFiniteSet(s \ {Pick(s)})
         /\ Cardinality(s \ {Pick(s)}) \in Nat
         /\ Cardinality(s) \in Nat
         /\ Cardinality(s \ {Pick(s)}) < Cardinality(s)
<1>1. Pick(s) \in s
  BY PickIn
<1>2. Cardinality(s \ {Pick(s)}) = Cardinality(s) - 1 /\ IsFiniteSet(s \ {Pick(s)})
  BY <1>1, FS_RemoveElement
<1>3. Cardinality(s) \in Nat /\ Cardinality(s \ {Pick(s)}) \in Nat
  BY <1>2, FS_CardinalityType
<1>4. QED
  BY <1>2, <1>3

\* The recursive functions of two sets agree.
LEMMA IterAgree ==
  ASSUME NEW f, NEW S, NEW T, NEW g, NEW h, Iterates(g, f, S), Iterates(h, f, T)
  PROVE  \A s : IsFiniteSet(s) /\ s \subseteq S /\ s \subseteq T => g[s] = h[s]
<1> DEFINE Same == {n \in Nat : \A s : /\ IsFiniteSet(s) /\ s \subseteq S /\ s \subseteq T
                                       /\ Cardinality(s) = n
                                       => g[s] = h[s]}
<1>1. ASSUME NEW n \in Nat, \A m \in Nat : m < n => m \in Same
      PROVE  n \in Same
  <2>1. SUFFICES ASSUME NEW s, IsFiniteSet(s), s \subseteq S, s \subseteq T,
                        Cardinality(s) = n
                 PROVE  g[s] = h[s]
    OBVIOUS
  <2>2. /\ g[s] = IF s = {} THEN 0 ELSE f[Pick(s)] + g[s \ {Pick(s)}]
        /\ h[s] = IF s = {} THEN 0 ELSE f[Pick(s)] + h[s \ {Pick(s)}]
    BY <2>1 DEF Iterates
  <2>3. CASE s = {}
    BY <2>2, <2>3
  <2>4. CASE s # {}
    <3> DEFINE r == s \ {Pick(s)}
    <3>1. IsFiniteSet(r) /\ Cardinality(r) \in Nat /\ Cardinality(r) < n
      BY <2>1, <2>4, RestIsSmaller
    <3>2. Cardinality(r) \in Same
      BY <1>1, <3>1
    <3>3. g[r] = h[r]
      BY <2>1, <3>1, <3>2
    <3>4. QED
      BY <2>2, <2>4, <3>3
  <2>5. QED
    BY <2>3, <2>4
<1> HIDE DEF Same
<1>2. \A n \in Nat : n \in Same
  BY <1>1, StrongInduction
<1>3. SUFFICES ASSUME NEW s, IsFiniteSet(s), s \subseteq S, s \subseteq T
               PROVE  g[s] = h[s]
  OBVIOUS
<1>4. Cardinality(s) \in Same
  BY <1>2, <1>3, FS_CardinalityType
<1>5. QED
  BY <1>3, <1>4 DEF Same

\* The recursive function of a finite set exists.
LEMMA IterExists ==
  ASSUME NEW f
  PROVE  \A S : IsFiniteSet(S) => Iterates(Iter(f, S), f, S)
<1> DEFINE Have == {n \in Nat : \A S : IsFiniteSet(S) /\ Cardinality(S) = n =>
                                         \E g : Iterates(g, f, S)}
<1>1. ASSUME NEW n \in Nat, \A m \in Nat : m < n => m \in Have
      PROVE  n \in Have
  <2>1. SUFFICES ASSUME NEW S, IsFiniteSet(S), Cardinality(S) = n
                 PROVE  \E g : Iterates(g, f, S)
    OBVIOUS
  <2> DEFINE V(s) == Iter(f, s)[s]
             g == [s \in SUBSET S |-> IF s = {} THEN 0
                                      ELSE f[Pick(s)] + V(s \ {Pick(s)})]
  <2>2. ASSUME NEW s, s \subseteq S, s # S
        PROVE  Iterates(Iter(f, s), f, s) /\ IsFiniteSet(s)
    <3>1. /\ IsFiniteSet(s) /\ Cardinality(s) \in Nat
          /\ Cardinality(s) < n
      BY <2>1, <2>2, FS_Subset, FS_CardinalityType
    <3>2. Cardinality(s) \in Have
      BY <1>1, <3>1
    <3>3. \E h : Iterates(h, f, s)
      BY <3>1, <3>2
    <3>4. QED
      BY <3>1, <3>3 DEF Iter
  <2>3. ASSUME NEW r, r \subseteq S, r # S
        PROVE  g[r] = V(r)
    <3>1. Iterates(Iter(f, r), f, r) /\ IsFiniteSet(r)
      BY <2>2, <2>3
    <3>2. V(r) = IF r = {} THEN 0 ELSE f[Pick(r)] + Iter(f, r)[r \ {Pick(r)}]
      BY <3>1 DEF Iterates
    <3>3. CASE r = {}
      BY <2>3, <3>2, <3>3
    <3>4. CASE r # {}
      <4> DEFINE q == r \ {Pick(r)}
      <4>1. q \subseteq S /\ q # S /\ q \subseteq r
        BY <2>3
      <4>2. Iterates(Iter(f, q), f, q) /\ IsFiniteSet(q)
        BY <2>2, <4>1
      <4> HIDE DEF q
      <4>3. Iter(f, r)[q] = Iter(f, q)[q]
        BY <3>1, <4>1, <4>2, IterAgree
      <4>4. QED
        BY <2>3, <3>2, <3>4, <4>3 DEF q
    <3>5. QED
      BY <3>3, <3>4
  <2>4. Iterates(g, f, S)
    <3>1. SUFFICES ASSUME NEW s \in SUBSET S, s # {}
                   PROVE  V(s \ {Pick(s)}) = g[s \ {Pick(s)}]
      BY DEF Iterates
    <3>2. s \ {Pick(s)} \subseteq S /\ s \ {Pick(s)} # S
      BY <3>1, PickIn
    <3>3. QED
      BY <2>3, <3>2
  <2>5. QED
    BY <2>4
<1> HIDE DEF Have
<1>2. \A n \in Nat : n \in Have
  BY <1>1, StrongInduction
<1>3. SUFFICES ASSUME NEW S, IsFiniteSet(S)
               PROVE  \E g : Iterates(g, f, S)
  BY DEF Iter
<1>4. Cardinality(S) \in Have
  BY <1>2, <1>3, FS_CardinalityType
<1>5. QED
  BY <1>3, <1>4 DEF Have
-------------------------------------------------------------------------------
(* The laws of Total.                                                         *)

\* A sum is one of its summands and the sum of the rest, as the fold picks it.
LEMMA TotalUnfold ==
  ASSUME NEW f, NEW S, IsFiniteSet(S)
  PROVE  Total(f, S) = IF S = {} THEN 0 ELSE f[Pick(S)] + Total(f, S \ {Pick(S)})
<1>1. Iterates(Iter(f, S), f, S)
  BY IterExists
<1> DEFINE r == S \ {Pick(S)}
<1>2. Iterates(Iter(f, r), f, r) /\ IsFiniteSet(r)
  BY IterExists, FS_Subset
<1>3. Iter(f, S)[r] = Iter(f, r)[r]
  <2>1. r \subseteq S
    OBVIOUS
  <2> HIDE DEF r
  <2>2. QED
    BY <1>1, <1>2, <2>1, IterAgree
<1>4. Iter(f, S)[S] = IF S = {} THEN 0 ELSE f[Pick(S)] + Iter(f, S)[r]
  BY <1>1 DEF Iterates
<1> HIDE DEF r
<1>5. Total(f, S) = Iter(f, S)[S] /\ Total(f, r) = Iter(f, r)[r]
  BY TotalIsIter
<1>6. QED
  BY <1>3, <1>4, <1>5 DEF r

\* The empty sum is 0.
LEMMA TotalEmpty == \A f : Total(f, {}) = 0
  BY TotalUnfold, FS_EmptySet

\* A sum of numbers is a number.
LEMMA TotalType ==
  ASSUME NEW f
  PROVE  /\ \A S : IsFiniteSet(S) /\ (\A x \in S : f[x] \in Int) => Total(f, S) \in Int
         /\ \A S : IsFiniteSet(S) /\ (\A x \in S : f[x] \in Nat) => Total(f, S) \in Nat
<1> DEFINE Typed ==
      {n \in Nat : \A S : IsFiniteSet(S) /\ Cardinality(S) = n =>
         /\ (\A x \in S : f[x] \in Int) => Total(f, S) \in Int
         /\ (\A x \in S : f[x] \in Nat) => Total(f, S) \in Nat}
<1>1. ASSUME NEW n \in Nat, \A m \in Nat : m < n => m \in Typed
      PROVE  n \in Typed
  <2>1. SUFFICES ASSUME NEW S, IsFiniteSet(S), Cardinality(S) = n
                 PROVE  /\ (\A x \in S : f[x] \in Int) => Total(f, S) \in Int
                        /\ (\A x \in S : f[x] \in Nat) => Total(f, S) \in Nat
    OBVIOUS
  <2>2. Total(f, S) = IF S = {} THEN 0 ELSE f[Pick(S)] + Total(f, S \ {Pick(S)})
    BY <2>1, TotalUnfold
  <2>3. CASE S = {}
    BY <2>2, <2>3
  <2>4. CASE S # {}
    <3> DEFINE r == S \ {Pick(S)}
    <3>1. IsFiniteSet(r) /\ Cardinality(r) \in Nat /\ Cardinality(r) < n
      BY <2>1, <2>4, RestIsSmaller
    <3>2. Cardinality(r) \in Typed
      BY <1>1, <3>1
    <3>3. /\ (\A x \in S : f[x] \in Int) => Total(f, r) \in Int
          /\ (\A x \in S : f[x] \in Nat) => Total(f, r) \in Nat
      BY <3>1, <3>2
    <3>4. Pick(S) \in S
      BY <2>4, PickIn
    <3>5. Total(f, S) = f[Pick(S)] + Total(f, r)
      BY <2>2, <2>4
    <3>6. QED
      BY <3>3, <3>4, <3>5
  <2>5. QED
    BY <2>3, <2>4
<1> HIDE DEF Typed
<1>2. \A n \in Nat : n \in Typed
  BY <1>1, StrongInduction
<1>3. \A S : IsFiniteSet(S) => Cardinality(S) \in Typed
  BY <1>2, FS_CardinalityType
<1>4. QED
  BY <1>3 DEF Typed

\* The sum depends on the summands of its own elements only.
LEMMA TotalSame ==
  ASSUME NEW f, NEW g
  PROVE  \A S : IsFiniteSet(S) /\ (\A x \in S : f[x] = g[x]) => Total(f, S) = Total(g, S)
<1> DEFINE Same ==
      {n \in Nat : \A S : /\ IsFiniteSet(S) /\ Cardinality(S) = n
                          /\ \A x \in S : f[x] = g[x]
                          => Total(f, S) = Total(g, S)}
<1>1. ASSUME NEW n \in Nat, \A m \in Nat : m < n => m \in Same
      PROVE  n \in Same
  <2>1. SUFFICES ASSUME NEW S, IsFiniteSet(S), Cardinality(S) = n,
                        \A x \in S : f[x] = g[x]
                 PROVE  Total(f, S) = Total(g, S)
    OBVIOUS
  <2>2. /\ Total(f, S) = IF S = {} THEN 0 ELSE f[Pick(S)] + Total(f, S \ {Pick(S)})
        /\ Total(g, S) = IF S = {} THEN 0 ELSE g[Pick(S)] + Total(g, S \ {Pick(S)})
    BY <2>1, TotalUnfold
  <2>3. CASE S = {}
    BY <2>2, <2>3
  <2>4. CASE S # {}
    <3> DEFINE r == S \ {Pick(S)}
    <3>1. IsFiniteSet(r) /\ Cardinality(r) \in Nat /\ Cardinality(r) < n
      BY <2>1, <2>4, RestIsSmaller
    <3>2. Cardinality(r) \in Same
      BY <1>1, <3>1
    <3>3. Total(f, r) = Total(g, r)
      BY <2>1, <3>1, <3>2
    <3>4. QED
      BY <2>1, <2>2, <2>4, <3>3, PickIn
  <2>5. QED
    BY <2>3, <2>4
<1> HIDE DEF Same
<1>2. \A n \in Nat : n \in Same
  BY <1>1, StrongInduction
<1>3. \A S : IsFiniteSet(S) => Cardinality(S) \in Same
  BY <1>2, FS_CardinalityType
<1>4. QED
  BY <1>3 DEF Same

\* Any element may be taken out, whichever the fold picks.
LEMMA TotalRemove ==
  ASSUME NEW f
  PROVE  \A S : IsFiniteSet(S) /\ (\A x \in S : f[x] \in Int) =>
           \A x \in S : Total(f, S) = f[x] + Total(f, S \ {x})
<1> DEFINE Free ==
      {n \in Nat : \A S : /\ IsFiniteSet(S) /\ Cardinality(S) = n
                          /\ \A x \in S : f[x] \in Int
                          => \A x \in S : Total(f, S) = f[x] + Total(f, S \ {x})}
<1>1. ASSUME NEW n \in Nat, \A m \in Nat : m < n => m \in Free
      PROVE  n \in Free
  <2>1. SUFFICES ASSUME NEW S, IsFiniteSet(S), Cardinality(S) = n,
                        \A x \in S : f[x] \in Int, NEW x \in S
                 PROVE  Total(f, S) = f[x] + Total(f, S \ {x})
    OBVIOUS
  <2> DEFINE p == Pick(S)
             r == S \ {p}
  <2>2. Total(f, S) = f[p] + Total(f, r) /\ p \in S
    BY <2>1, TotalUnfold, PickIn
  <2>3. CASE x = p
    BY <2>2, <2>3
  <2>4. CASE x # p
    <3>1. IsFiniteSet(r) /\ Cardinality(r) \in Nat /\ Cardinality(r) < n
      BY <2>1, RestIsSmaller
    <3>2. Cardinality(r) \in Free
      BY <1>1, <3>1
    <3>3. Total(f, r) = f[x] + Total(f, r \ {x})
      BY <2>1, <2>4, <3>1, <3>2
    <3> DEFINE q == S \ {x}
    <3>4. IsFiniteSet(q) /\ Cardinality(q) \in Nat /\ Cardinality(q) < n
      <4>1. Cardinality(q) = n - 1 /\ IsFiniteSet(q)
        BY <2>1, FS_RemoveElement
      <4>2. QED
        BY <4>1, FS_CardinalityType
    <3>5. Cardinality(q) \in Free
      BY <1>1, <3>4
    <3>6. Total(f, q) = f[p] + Total(f, q \ {p})
      BY <2>1, <2>2, <2>4, <3>4, <3>5
    <3>7. q \ {p} = r \ {x}
      OBVIOUS
    <3>8. Total(f, r \ {x}) \in Int
      <4>1. IsFiniteSet(r \ {x})
        BY <3>1, FS_Subset
      <4>2. QED
        BY <2>1, <4>1, TotalType
    <3>9. f[x] \in Int /\ f[p] \in Int
      BY <2>1, <2>2
    <3> DEFINE t == Total(f, r \ {x})
    <3>10. Total(f, S) = f[p] + (f[x] + t) /\ Total(f, q) = f[p] + t
      BY <2>2, <3>3, <3>6, <3>7
    <3>11. t \in Int
      BY <3>8
    <3> HIDE DEF t, p, r
    <3>12. f[p] + (f[x] + t) = f[x] + (f[p] + t)
      BY <3>9, <3>11
    <3>13. QED
      BY <3>10, <3>12
  <2>5. QED
    BY <2>3, <2>4
<1> HIDE DEF Free
<1>2. \A n \in Nat : n \in Free
  BY <1>1, StrongInduction
<1>3. \A S : IsFiniteSet(S) => Cardinality(S) \in Free
  BY <1>2, FS_CardinalityType
<1>4. QED
  BY <1>3 DEF Free

\* When one summand changes, the sum changes by as much.
LEMMA TotalUpdate ==
  ASSUME NEW S, IsFiniteSet(S), NEW x \in S, NEW f, NEW g,
         \A y \in S : f[y] \in Int /\ g[y] \in Int,
         \A y \in S : y # x => g[y] = f[y]
  PROVE  Total(g, S) = Total(f, S) + (g[x] - f[x])
<1> DEFINE r == S \ {x}
<1>1. Total(f, S) = f[x] + Total(f, r) /\ Total(g, S) = g[x] + Total(g, r)
  BY TotalRemove
<1>2. IsFiniteSet(r)
  BY FS_Subset
<1>3. Total(f, r) = Total(g, r) /\ Total(f, r) \in Int
  BY <1>2, TotalSame, TotalType
<1>4. f[x] \in Int /\ g[x] \in Int
  OBVIOUS
<1> HIDE DEF r
<1>5. QED
  BY <1>1, <1>3, <1>4

\* A sum of zeros is zero.
LEMMA TotalZero ==
  ASSUME NEW f
  PROVE  \A S : IsFiniteSet(S) /\ (\A x \in S : f[x] = 0) => Total(f, S) = 0
<1> DEFINE Zero ==
      {n \in Nat : \A S : IsFiniteSet(S) /\ Cardinality(S) = n /\ (\A x \in S : f[x] = 0)
                          => Total(f, S) = 0}
<1>1. ASSUME NEW n \in Nat, \A m \in Nat : m < n => m \in Zero
      PROVE  n \in Zero
  <2>1. SUFFICES ASSUME NEW S, IsFiniteSet(S), Cardinality(S) = n, \A x \in S : f[x] = 0
                 PROVE  Total(f, S) = 0
    OBVIOUS
  <2>2. Total(f, S) = IF S = {} THEN 0 ELSE f[Pick(S)] + Total(f, S \ {Pick(S)})
    BY <2>1, TotalUnfold
  <2>3. CASE S = {}
    BY <2>2, <2>3
  <2>4. CASE S # {}
    <3> DEFINE r == S \ {Pick(S)}
    <3>1. IsFiniteSet(r) /\ Cardinality(r) \in Nat /\ Cardinality(r) < n
      BY <2>1, <2>4, RestIsSmaller
    <3>2. Cardinality(r) \in Zero
      BY <1>1, <3>1
    <3>3. Total(f, r) = 0
      BY <2>1, <3>1, <3>2
    <3>4. QED
      BY <2>1, <2>2, <2>4, <3>3, PickIn
  <2>5. QED
    BY <2>3, <2>4
<1> HIDE DEF Zero
<1>2. \A n \in Nat : n \in Zero
  BY <1>1, StrongInduction
<1>3. \A S : IsFiniteSet(S) => Cardinality(S) \in Zero
  BY <1>2, FS_CardinalityType
<1>4. QED
  BY <1>3 DEF Zero

\* The sum of a subset is the sum over the whole set of what is in the subset.
LEMMA TotalSubset ==
  ASSUME NEW S, IsFiniteSet(S), NEW f, \A x \in S : f[x] \in Int, NEW T \in SUBSET S
  PROVE  Total(f, T) = Total([x \in S |-> IF x \in T THEN f[x] ELSE 0], S)
<1> DEFINE Rest ==
      {n \in Nat : \A U : /\ U \subseteq S /\ T \subseteq U /\ Cardinality(U) = n
                          => Total([x \in S |-> IF x \in T THEN f[x] ELSE 0], U) = Total(f, T)}
           h == [x \in S |-> IF x \in T THEN f[x] ELSE 0]
<1>1. ASSUME NEW n \in Nat, \A m \in Nat : m < n => m \in Rest
      PROVE  n \in Rest
  <2>1. SUFFICES ASSUME NEW U, U \subseteq S, T \subseteq U, Cardinality(U) = n
                 PROVE  Total(h, U) = Total(f, T)
    OBVIOUS
  <2>2. IsFiniteSet(U)
    BY <2>1, FS_Subset
  <2>3. CASE U = T
    <3>1. \A x \in T : h[x] = f[x]
      OBVIOUS
    <3> HIDE DEF h
    <3>2. QED
      BY <2>2, <2>3, <3>1, TotalSame
  <2>4. CASE U # T
    <3>1. PICK x \in U : x \notin T
      BY <2>1, <2>4
    <3>2. \A y \in U : h[y] \in Int
      BY <2>1
    <3>3. h[x] = 0
      BY <2>1, <3>1
    <3>4. /\ Cardinality(U \ {x}) = n - 1 /\ IsFiniteSet(U \ {x})
          /\ Cardinality(U \ {x}) \in Nat
      BY <2>1, <2>2, FS_RemoveElement, FS_CardinalityType
    <3>5. n - 1 \in Rest
      BY <1>1, <3>4
    <3>6. Total(h, U \ {x}) = Total(f, T)
      BY <2>1, <3>1, <3>4, <3>5
    <3>7. Total(h, U) = h[x] + Total(h, U \ {x})
      <4> HIDE DEF h
      <4>1. QED
        BY <2>2, <3>2, TotalRemove
    <3>8. Total(f, T) \in Int
      <4>1. IsFiniteSet(T)
        BY FS_Subset
      <4>2. QED
        BY <4>1, TotalType
    <3> HIDE DEF h
    <3>9. QED
      BY <3>3, <3>6, <3>7, <3>8
  <2>5. QED
    BY <2>3, <2>4
<1> HIDE DEF Rest
<1>2. \A n \in Nat : n \in Rest
  BY <1>1, StrongInduction
<1>3. Cardinality(S) \in Rest
  BY <1>2, FS_CardinalityType
<1>4. QED
  BY <1>3 DEF Rest

\* The difference of two sums is the sum of the differences.
LEMMA TotalMinus ==
  ASSUME NEW f, NEW g, NEW h
  PROVE  \A S : /\ IsFiniteSet(S)
                /\ \A x \in S : f[x] \in Int /\ g[x] \in Int /\ h[x] = f[x] - g[x]
                => Total(h, S) = Total(f, S) - Total(g, S)
<1> DEFINE Minus ==
      {n \in Nat : \A S : /\ IsFiniteSet(S) /\ Cardinality(S) = n
                          /\ \A x \in S : f[x] \in Int /\ g[x] \in Int /\ h[x] = f[x] - g[x]
                          => Total(h, S) = Total(f, S) - Total(g, S)}
<1>1. ASSUME NEW n \in Nat, \A m \in Nat : m < n => m \in Minus
      PROVE  n \in Minus
  <2>1. SUFFICES ASSUME NEW S, IsFiniteSet(S), Cardinality(S) = n,
                        \A x \in S : f[x] \in Int /\ g[x] \in Int /\ h[x] = f[x] - g[x]
                 PROVE  Total(h, S) = Total(f, S) - Total(g, S)
    OBVIOUS
  <2> DEFINE p == Pick(S)
             r == S \ {p}
  <2>2. /\ Total(f, S) = IF S = {} THEN 0 ELSE f[p] + Total(f, r)
        /\ Total(g, S) = IF S = {} THEN 0 ELSE g[p] + Total(g, r)
        /\ Total(h, S) = IF S = {} THEN 0 ELSE h[p] + Total(h, r)
    BY <2>1, TotalUnfold
  <2>3. CASE S = {}
    BY <2>2, <2>3
  <2>4. CASE S # {}
    <3>1. IsFiniteSet(r) /\ Cardinality(r) \in Nat /\ Cardinality(r) < n
      BY <2>1, <2>4, RestIsSmaller
    <3>2. Cardinality(r) \in Minus
      BY <1>1, <3>1
    <3>3. Total(h, r) = Total(f, r) - Total(g, r)
      BY <2>1, <3>1, <3>2
    <3>4. Total(f, r) \in Int /\ Total(g, r) \in Int
      BY <2>1, <3>1, TotalType
    <3>5. f[p] \in Int /\ g[p] \in Int /\ h[p] = f[p] - g[p]
      BY <2>1, <2>4, PickIn
    <3> HIDE DEF p, r
    <3>6. QED
      BY <2>2, <2>4, <3>3, <3>4, <3>5
  <2>5. QED
    BY <2>3, <2>4
<1> HIDE DEF Minus
<1>2. \A n \in Nat : n \in Minus
  BY <1>1, StrongInduction
<1>3. \A S : IsFiniteSet(S) => Cardinality(S) \in Minus
  BY <1>2, FS_CardinalityType
<1>4. QED
  BY <1>3 DEF Minus

\* A sum of naturals is at least each of its summands.
LEMMA TotalBounds ==
  ASSUME NEW S, IsFiniteSet(S), NEW f, \A x \in S : f[x] \in Nat, NEW x \in S
  PROVE  Total(f, S) \in Nat /\ f[x] <= Total(f, S)
<1>1. Total(f, S) = f[x] + Total(f, S \ {x})
  BY TotalRemove
<1>2. Total(f, S \ {x}) \in Nat
  BY FS_Subset, TotalType
<1>3. QED
  BY <1>1, <1>2, TotalType

-------------------------------------------------------------------------------
(* The laws of Kept. Its recursive function over the prefixes of s exists,   *)
(* and what it does to each prefix follows by induction on the length.        *)

\* Induction from one number to the next, for a set of numbers.
LEMMA StepInduction ==
  ASSUME NEW S, 0 \in S, \A n \in Nat : n \in S => n + 1 \in S
  PROVE  \A n \in Nat : n \in S
<1>1. ASSUME NEW n \in Nat, \A m \in Nat : m < n => m \in S
      PROVE  n \in S
  <2>1. CASE n = 0
    BY <2>1
  <2>2. CASE n # 0
    <3>1. n - 1 \in Nat /\ n - 1 < n /\ (n - 1) + 1 = n
      BY <2>2
    <3>2. QED
      BY <1>1, <3>1
  <2>3. QED
    BY <2>1, <2>2
<1>2. QED
  BY <1>1, StrongInduction

Selects(g, s, S, n) ==
  g = [i \in 0 .. n |-> IF i = 0 THEN <<>>
                        ELSE IF s[i] \in S THEN Append(g[i - 1], s[i]) ELSE g[i - 1]]

Sel(s, S) == CHOOSE g : Selects(g, s, S, Len(s))

\* What Kept abbreviates.
LEMMA KeptIsSel == \A s, S : Kept(s, S) = Sel(s, S)[Len(s)]
  BY DEF Kept, Sel, Selects

\* The recursive function of every number of elements exists.
LEMMA SelExists == \A s, S : \A n \in Nat : \E g : Selects(g, s, S, n)
<1>1. TAKE s, S
<1> DEFINE Has == {n \in Nat : \E g : Selects(g, s, S, n)}
<1>2. 0 \in Has
  <2>1. Selects([i \in 0 .. 0 |-> <<>>], s, S, 0)
    BY DEF Selects
  <2>2. QED
    BY <2>1
<1>3. ASSUME NEW n \in Nat, n \in Has PROVE n + 1 \in Has
  <2>1. PICK g : Selects(g, s, S, n)
    BY <1>3
  <2> DEFINE h == [i \in 0 .. n + 1 |->
                     IF i <= n THEN g[i]
                     ELSE IF s[i] \in S THEN Append(g[n], s[i]) ELSE g[n]]
  <2>2. ASSUME NEW i \in 0 .. n + 1
        PROVE  h[i] = IF i = 0 THEN <<>>
                      ELSE IF s[i] \in S THEN Append(h[i - 1], s[i]) ELSE h[i - 1]
    <3>1. CASE i = n + 1
      <4>1. i - 1 = n /\ ~(i <= n) /\ i # 0 /\ n \in 0 .. n + 1 /\ n <= n
        BY <3>1
      <4>2. h[i - 1] = g[n]
        BY <4>1
      <4>3. QED
        BY <4>1, <4>2
    <3>2. CASE i # n + 1
      <4>1. i \in 0 .. n /\ (i # 0 => i - 1 \in 0 .. n /\ i - 1 \in 0 .. n + 1)
        BY <3>2
      <4>2. h[i] = g[i] /\ (i # 0 => h[i - 1] = g[i - 1])
        BY <4>1
      <4>3. g[i] = IF i = 0 THEN <<>>
                   ELSE IF s[i] \in S THEN Append(g[i - 1], s[i]) ELSE g[i - 1]
        BY <2>1, <4>1 DEF Selects
      <4>4. QED
        BY <4>1, <4>2, <4>3
    <3>3. QED
      BY <3>1, <3>2
  <2>3. Selects(h, s, S, n + 1)
    <3>1. h = [i \in 0 .. n + 1 |-> h[i]]
      OBVIOUS
    <3> HIDE DEF h
    <3>2. QED
      BY <2>2, <3>1 DEF Selects
  <2>4. QED
    BY <2>3
<1> HIDE DEF Has
<1>4. \A n \in Nat : n \in Has
  BY <1>2, <1>3, StepInduction
<1>5. QED
  BY <1>4 DEF Has

\* It keeps elements of S only, and every one of them.
LEMMA KeptElements ==
  ASSUME NEW T, NEW s \in Seq(T), NEW S
  PROVE  /\ Kept(s, S) \in Seq(T \cap S)
         /\ \A i \in 1 .. Len(Kept(s, S)) : \E j \in 1 .. Len(s) : Kept(s, S)[i] = s[j]
         /\ \A j \in 1 .. Len(s) :
              s[j] \in S => \E i \in 1 .. Len(Kept(s, S)) : Kept(s, S)[i] = s[j]
<1> DEFINE g == Sel(s, S)
<1>1. Len(s) \in Nat
  BY LenProperties
<1>2. Selects(g, s, S, Len(s))
  BY <1>1, SelExists DEF Sel
<1> HIDE DEF g
<1> DEFINE Good(n) ==
      /\ g[n] \in Seq(T \cap S)
      /\ \A i \in 1 .. Len(g[n]) : \E j \in 1 .. n : g[n][i] = s[j]
      /\ \A j \in 1 .. n : s[j] \in S => \E i \in 1 .. Len(g[n]) : g[n][i] = s[j]
    Goods == {n \in Nat : n <= Len(s) => Good(n)}
<1>3. 0 \in Goods
  <2>1. g[0] = <<>>
    BY <1>1, <1>2 DEF Selects
  <2>2. Good(0)
    BY <2>1, EmptySeq
  <2>3. QED
    BY <2>2
<1>4. ASSUME NEW n \in Nat, n \in Goods PROVE n + 1 \in Goods
  <2>1. SUFFICES ASSUME n + 1 <= Len(s) PROVE Good(n + 1)
    OBVIOUS
  <2>2. Good(n)
    BY <1>1, <1>4, <2>1
  <2>3. n + 1 \in 1 .. Len(s) /\ n + 1 # 0 /\ (n + 1) - 1 = n /\ n + 1 \in 0 .. Len(s)
    BY <1>1, <2>1
  <2>4. g[n + 1] = IF s[n + 1] \in S THEN Append(g[n], s[n + 1]) ELSE g[n]
    BY <1>2, <2>3 DEF Selects
  <2>5. s[n + 1] \in T
    BY <2>3, ElementOfSeq
  <2>6. CASE s[n + 1] \notin S
    <3>1. g[n + 1] = g[n]
      BY <2>4, <2>6
    <3>2. \A j \in 1 .. n + 1 : s[j] \in S => j \in 1 .. n
      BY <2>6
    <3>3. QED
      BY <2>2, <3>1, <3>2
  <2>7. CASE s[n + 1] \in S
    <3> DEFINE e == s[n + 1]
               k == Append(g[n], e)
    <3>1. g[n + 1] = k
      BY <2>4, <2>7
    <3>2. /\ k \in Seq(T \cap S) /\ Len(k) = Len(g[n]) + 1 /\ Len(g[n]) \in Nat
          /\ \A i \in 1 .. Len(g[n]) : k[i] = g[n][i]
          /\ k[Len(g[n]) + 1] = e
      BY <2>2, <2>5, <2>7, AppendProperties, LenProperties
    <3>3. ASSUME NEW i \in 1 .. Len(k)
          PROVE  \E j \in 1 .. n + 1 : k[i] = s[j]
      <4>1. CASE i = Len(g[n]) + 1
        BY <3>2, <4>1
      <4>2. CASE i # Len(g[n]) + 1
        <5>1. i \in 1 .. Len(g[n])
          BY <3>2, <4>2
        <5>2. PICK j \in 1 .. n : g[n][i] = s[j]
          BY <2>2, <5>1
        <5>3. QED
          BY <3>2, <5>1, <5>2
      <4>3. QED
        BY <4>1, <4>2
    <3>4. ASSUME NEW j \in 1 .. n + 1, s[j] \in S
          PROVE  \E i \in 1 .. Len(k) : k[i] = s[j]
      <4>1. CASE j = n + 1
        BY <3>2, <4>1
      <4>2. CASE j # n + 1
        <5>1. j \in 1 .. n
          BY <4>2
        <5>2. PICK i \in 1 .. Len(g[n]) : g[n][i] = s[j]
          BY <2>2, <3>4, <5>1
        <5>3. i \in 1 .. Len(k) /\ k[i] = g[n][i]
          BY <3>2, <5>2
        <5>4. QED
          BY <5>2, <5>3
      <4>3. QED
        BY <4>1, <4>2
    <3> HIDE DEF k
    <3>5. QED
      BY <3>1, <3>2, <3>3, <3>4
  <2>8. QED
    BY <2>6, <2>7
<1> HIDE DEF Goods
<1>5. \A n \in Nat : n \in Goods
  BY <1>3, <1>4, StepInduction
<1>6. Good(Len(s))
  BY <1>1, <1>5 DEF Goods
<1>7. g[Len(s)] = Kept(s, S)
  BY KeptIsSel DEF g
<1>8. QED
  BY <1>6, <1>7

\* Only what S says of the elements of s counts.
LEMMA KeptSame ==
  \A s, S, T : (\A i \in 1 .. Len(s) : s[i] \in S <=> s[i] \in T) /\ Len(s) \in Nat
                 => Kept(s, S) = Kept(s, T)
<1>1. SUFFICES ASSUME NEW s, NEW S, NEW T, Len(s) \in Nat,
                      \A i \in 1 .. Len(s) : s[i] \in S <=> s[i] \in T
               PROVE  Kept(s, S) = Kept(s, T)
  OBVIOUS
<1>2. ASSUME NEW g PROVE Selects(g, s, S, Len(s)) <=> Selects(g, s, T, Len(s))
  <2>1. ASSUME NEW i \in 0 .. Len(s)
        PROVE  (IF i = 0 THEN <<>>
                ELSE IF s[i] \in S THEN Append(g[i - 1], s[i]) ELSE g[i - 1])
             = (IF i = 0 THEN <<>>
                ELSE IF s[i] \in T THEN Append(g[i - 1], s[i]) ELSE g[i - 1])
    BY <1>1
  <2>2. QED
    BY <2>1 DEF Selects
<1>3. Sel(s, S) = Sel(s, T)
  BY <1>2 DEF Sel
<1>4. QED
  BY <1>3, KeptIsSel

-------------------------------------------------------------------------------
\* The range of a sequence.
LEMMA SeqRange ==
  ASSUME NEW S, NEW s \in Seq(S)
  PROVE  /\ Range(s) \subseteq S /\ s \in Seq(Range(s))
         /\ \A i \in 1 .. Len(s) : s[i] \in Range(s)
         /\ \A x \in Range(s) : \E i \in 1 .. Len(s) : x = s[i]
<1>1. Len(s) \in Nat /\ DOMAIN s = 1 .. Len(s) /\ s \in [1 .. Len(s) -> S]
  BY LenProperties
<1>2. /\ \A i \in 1 .. Len(s) : s[i] \in Range(s)
      /\ \A x \in Range(s) : \E i \in 1 .. Len(s) : x = s[i]
  BY <1>1 DEF Range
<1>3. s \in [1 .. Len(s) -> Range(s)]
  BY <1>1, <1>2
<1>4. s \in Seq(Range(s))
  BY <1>1, <1>3, SeqDef
<1>5. QED
  BY <1>1, <1>2, <1>4

\* The range of a sequence with one element more.
LEMMA AppendRange ==
  ASSUME NEW S, NEW s \in Seq(S), NEW e \in S
  PROVE  Range(Append(s, e)) = Range(s) \cup {e}
<1>1. /\ Append(s, e) \in Seq(S) /\ Len(Append(s, e)) = Len(s) + 1 /\ Len(s) \in Nat
      /\ \A i \in 1 .. Len(s) : Append(s, e)[i] = s[i]
      /\ Append(s, e)[Len(s) + 1] = e
  BY AppendProperties, LenProperties
<1>2. /\ DOMAIN Append(s, e) = 1 .. Len(s) + 1 /\ DOMAIN s = 1 .. Len(s)
      /\ 1 .. Len(s) + 1 = 1 .. Len(s) \cup {Len(s) + 1}
  BY <1>1, LenProperties
<1> HIDE <1>1
<1>3. QED
  BY <1>1, <1>2 DEF Range

-------------------------------------------------------------------------------
(* The greatest element, by which a fold over a sequence goes.                *)

LEMMA MaxIs ==
  ASSUME NEW S, S \subseteq Int, NEW x \in S, \A y \in S : y <= x
  PROVE  Max(S) = x
<1>1. x \in S /\ \A y \in S : x >= y
  OBVIOUS
<1>2. PICK z : z = Max(S)
  OBVIOUS
<1>3. z \in S /\ \A y \in S : z >= y
  BY <1>1, <1>2 DEF Max
<1>4. z >= x /\ x >= z /\ z \in Int /\ x \in Int
  BY <1>1, <1>3
<1>5. QED
  BY <1>2, <1>4

LEMMA MaxOfInterval ==
  ASSUME NEW n \in Nat \ {0}
  PROVE  Max(1 .. n) = n /\ (1 .. n) \ {Max(1 .. n)} = 1 .. n - 1
<1>1. Max(1 .. n) = n
  <2>1. 1 .. n \subseteq Int /\ n \in 1 .. n /\ \A y \in 1 .. n : y <= n
    OBVIOUS
  <2>2. QED
    BY <2>1, MaxIs
<1>2. QED
  BY <1>1


-------------------------------------------------------------------------------
(* Putting a finite set in order.                                             *)

\* R orders the elements of S in one line.
Orders(R, S) ==
  /\ \A x, y \in S : x # y => (<<x, y>> \in R <=> <<y, x>> \notin R)
  /\ \A x \in S : <<x, x>> \notin R
  /\ \A x, y, z \in S : <<x, y>> \in R /\ <<y, z>> \in R => <<x, z>> \in R

\* r lists n elements of S in the order R.
Lists(r, n, S, R) ==
  /\ r \in [1 .. n -> S]
  /\ \A i, j \in 1 .. n : i < j => <<r[i], r[j]>> \in R

\* Where x goes in a list without it.
Gap(r, n, R, x, k) ==
  /\ k \in 1 .. n + 1
  /\ \A i \in 1 .. k - 1 : <<r[i], x>> \in R
  /\ k = n + 1 \/ <<r[k], x>> \notin R

LEMMA GapExists ==
  ASSUME NEW n \in Nat, NEW r, NEW R, NEW x
  PROVE  \E k : Gap(r, n, R, x, k)
<1> DEFINE Low == {m \in Nat : m > n \/ (\A i \in 1 .. m : <<r[i], x>> \in R)}
<1>1. CASE \A i \in 1 .. n : <<r[i], x>> \in R
  BY <1>1 DEF Gap
<1>2. CASE ~ \A i \in 1 .. n : <<r[i], x>> \in R
  <2>1. 0 \in Low /\ n \notin Low
    BY <1>2
  <2>2. PICK m \in Nat : m \in Low /\ m + 1 \notin Low
    <3> HIDE DEF Low
    <3>1. QED
      BY <2>1, StepInduction
  <2>3. m + 1 <= n /\ <<r[m + 1], x>> \notin R /\ \A i \in 1 .. m : <<r[i], x>> \in R
    <3>1. m + 1 <= n
      BY <2>2
    <3>2. m <= n
      BY <3>1
    <3>3. \A i \in 1 .. m : <<r[i], x>> \in R
      BY <2>2, <3>2
    <3>4. \A i \in 1 .. m + 1 : i \in 1 .. m \/ i = m + 1
      OBVIOUS
    <3>5. QED
      BY <2>2, <3>1, <3>3, <3>4
  <2>4. Gap(r, n, R, x, m + 1)
    BY <2>3 DEF Gap
  <2>5. QED
    BY <2>4
<1>3. QED
  BY <1>1, <1>2

\* A list with one more element in its place.
LEMMA Inserted ==
  ASSUME NEW n \in Nat, NEW S, NEW R, Orders(R, S), NEW x \in S, NEW r,
         Lists(r, n, S \ {x}, R)
  PROVE  \E q : Lists(q, n + 1, S, R)
<1>1. PICK k : Gap(r, n, R, x, k)
  BY GapExists
<1>2. k \in 1 .. n + 1 /\ \A i \in 1 .. k - 1 : <<r[i], x>> \in R
  BY <1>1 DEF Gap
<1>3. r \in [1 .. n -> S] /\ \A i \in 1 .. n : r[i] # x /\ r[i] \in S
  BY DEF Lists
<1>4. \A i \in k .. n : <<x, r[i]>> \in R
  <2>1. SUFFICES ASSUME NEW i \in k .. n PROVE <<x, r[i]>> \in R
    OBVIOUS
  <2>2. i \in 1 .. n /\ k \in 1 .. n /\ k <= i
    BY <1>2
  <2>3. <<r[k], x>> \notin R
    BY <1>1, <2>2 DEF Gap
  <2>4. <<x, r[k]>> \in R
    BY <1>3, <2>2, <2>3 DEF Orders
  <2>5. CASE i = k
    BY <2>4, <2>5
  <2>6. CASE k < i
    <3>1. <<r[k], r[i]>> \in R
      BY <2>2, <2>6 DEF Lists
    <3>2. QED
      BY <1>3, <2>2, <2>4, <3>1 DEF Orders
  <2>7. QED
    BY <2>2, <2>5, <2>6
<1> DEFINE q == [i \in 1 .. n + 1 |-> IF i < k THEN r[i] ELSE IF i = k THEN x ELSE r[i - 1]]
<1>5. \A i \in 1 .. n + 1 :
        \/ i < k /\ i \in 1 .. n /\ i \in 1 .. k - 1 /\ q[i] = r[i]
        \/ i = k /\ q[i] = x
        \/ i > k /\ i - 1 \in 1 .. n /\ i - 1 \in k .. n /\ q[i] = r[i - 1]
  BY <1>2
<1>6. q \in [1 .. n + 1 -> S]
  BY <1>3, <1>5
<1>7. ASSUME NEW i \in 1 .. n + 1, NEW j \in 1 .. n + 1, i < j
      PROVE  <<q[i], q[j]>> \in R
  <2> HIDE DEF q
  <2>1. \A a, b \in 1 .. n : a < b => <<r[a], r[b]>> \in R
    BY DEF Lists
  <2>2. CASE j < k
    BY <1>2, <1>5, <1>7, <2>1, <2>2
  <2>3. CASE j = k
    BY <1>2, <1>5, <1>7, <2>3
  <2>4. CASE j > k /\ i = k
    BY <1>2, <1>4, <1>5, <1>7, <2>4
  <2>5. CASE j > k /\ i < k
    <3>1. i \in 1 .. n /\ j - 1 \in 1 .. n /\ i < j - 1 /\ q[i] = r[i] /\ q[j] = r[j - 1]
      BY <1>2, <1>5, <2>5
    <3>2. QED
      BY <2>1, <3>1
  <2>6. CASE j > k /\ i > k
    <3>1. i - 1 \in 1 .. n /\ j - 1 \in 1 .. n /\ q[i] = r[i - 1] /\ q[j] = r[j - 1]
      BY <1>2, <1>5, <2>6
    <3>2. i - 1 < j - 1
      BY <1>7
    <3>3. QED
      BY <2>1, <3>1, <3>2
  <2>7. QED
    BY <1>2, <2>2, <2>3, <2>4, <2>5, <2>6
<1>8. QED
  BY <1>6, <1>7 DEF Lists

\* Every finite set can be put in order.
LEMMA Sortable ==
  ASSUME NEW R
  PROVE  \A S : IsFiniteSet(S) /\ Orders(R, S) => \E r : Lists(r, Cardinality(S), S, R)
<1> DEFINE Can == {n \in Nat : \A S : IsFiniteSet(S) /\ Cardinality(S) = n /\ Orders(R, S)
                                        => \E r : Lists(r, n, S, R)}
<1>1. 0 \in Can
  <2>1. SUFFICES ASSUME NEW S PROVE \E r : Lists(r, 0, S, R)
    OBVIOUS
  <2>2. Lists([i \in 1 .. 0 |-> 0], 0, S, R)
    BY DEF Lists
  <2>3. QED
    BY <2>2
<1>2. ASSUME NEW n \in Nat, n \in Can PROVE n + 1 \in Can
  <2>1. SUFFICES ASSUME NEW S, IsFiniteSet(S), Cardinality(S) = n + 1, Orders(R, S)
                 PROVE  \E r : Lists(r, n + 1, S, R)
    OBVIOUS
  <2>2. S # {}
    BY <2>1, FS_EmptySet
  <2>3. PICK x : x \in S
    BY <2>2
  <2>4. IsFiniteSet(S \ {x}) /\ Cardinality(S \ {x}) = n
    BY <2>1, <2>3, FS_RemoveElement
  <2>5. Orders(R, S \ {x})
    BY <2>1 DEF Orders
  <2>6. PICK r : Lists(r, n, S \ {x}, R)
    BY <1>2, <2>4, <2>5
  <2>7. QED
    BY <2>1, <2>3, <2>6, Inserted
<1>3. \A n \in Nat : n \in Can
  <2> HIDE DEF Can
  <2>1. QED
    BY <1>1, <1>2, StepInduction
<1>4. QED
  BY <1>3, FS_CardinalityType

\* What Sorted returns: each element once, in the order R.
LEMMA SortedLists ==
  ASSUME NEW S, IsFiniteSet(S), NEW R, Orders(R, S)
  PROVE  /\ Cardinality(S) \in Nat
         /\ Lists(Sorted(S, R), Cardinality(S), S, R)
         /\ \A x \in S : \E i \in 1 .. Cardinality(S) : Sorted(S, R)[i] = x
         /\ Sorted(S, R) \in Seq(S) /\ Len(Sorted(S, R)) = Cardinality(S)
<1> DEFINE n == Cardinality(S)
           r == Sorted(S, R)
<1>1. n \in Nat
  BY FS_CardinalityType
<1>2. PICK q : Lists(q, n, S, R)
  BY Sortable
<1>3. /\ r \in [1 .. n -> S]
      /\ \A i, j \in 1 .. n : i < j => <<r[i], r[j]>> \in R
  BY <1>2 DEF Sorted, Lists
<1> HIDE DEF r
<1>4. r \in Injection(1 .. n, S)
  <2>1. ASSUME NEW i \in 1 .. n, NEW j \in 1 .. n, i # j PROVE r[i] # r[j]
    <3>1. i < j \/ j < i
      BY <1>1, <2>1
    <3>2. QED
      BY <1>3, <2>1, <3>1 DEF Orders
  <2>2. QED
    BY <1>3, <2>1 DEF Injection, IsInjective
<1>5. Cardinality(1 .. n) = n
  BY <1>1, FS_Interval
<1>6. r \in Surjection(1 .. n, S)
  BY <1>4, <1>5, FS_Injection
<1>7. \A x \in S : \E i \in 1 .. n : r[i] = x
  BY <1>6 DEF Surjection
<1>8. r \in Seq(S) /\ Len(r) = n
  BY <1>1, <1>3
<1>9. QED
  BY <1>1, <1>3, <1>7, <1>8 DEF Lists, r

\* The least element.
LEMMA MinIs ==
  ASSUME NEW S, S \subseteq Int, NEW x \in S, \A y \in S : x <= y
  PROVE  Min(S) = x
<1>1. PICK z : z = Min(S)
  OBVIOUS
<1>2. z \in S /\ \A y \in S : z =< y
  BY <1>1 DEF Min
<1>3. z >= x /\ x >= z /\ z \in Int /\ x \in Int
  BY <1>2
<1>4. QED
  BY <1>1, <1>3

\* Every set of numbers that is not empty has one.
LEMMA MinExists ==
  ASSUME NEW S, S \subseteq Nat, S # {}
  PROVE  Min(S) \in S /\ \A y \in S : Min(S) <= y
<1>1. PICK x \in S : \A y \in S : x <= y
  <2> DEFINE T == Nat \ S
  <2>1. ~ \A n \in Nat : n \in T
    OBVIOUS
  <2>2. PICK n \in Nat : n \notin T /\ \A m \in Nat : m < n => m \in T
    <3> HIDE DEF T
    <3>1. QED
      BY <2>1, StrongInduction
  <2>3. n \in S /\ \A y \in S : n <= y
    BY <2>2
  <2>4. QED
    BY <2>3
<1>2. Min(S) = x
  <2>1. S \subseteq Int
    OBVIOUS
  <2>2. QED
    BY <1>1, <2>1, MinIs
<1>3. QED
  BY <1>1, <1>2
===============================================================================
