---------------------------- MODULE SumTheorems ----------------------------
(***************************************************************************)
(* What the models and their proofs need to know of sums over finite sets. *)
(*                                                                         *)
(* SumFunctionOnSet (community module Functions) adds up the values of a   *)
(* function by a recursive function on the subsets of its index set.  That *)
(* this recursion is well defined, that the order of the summands does not *)
(* matter, and how a sum changes with its function and its index set, is   *)
(* proved here by induction over finite sets.  The induction principle     *)
(* takes the induction predicate as a set of sets.                         *)
(***************************************************************************)
EXTENDS Integers, FiniteSetsExt, FiniteSetTheorems, TLAPS

-----------------------------------------------------------------------------
(* Induction over the subsets of a finite set.                             *)

\* What holds of a set whenever it holds of all its proper subsets, holds of
\* every subset of a finite set.
LEMMA SubsetInduction ==
    ASSUME NEW S, IsFiniteSet(S), NEW Good,
           \A T \in SUBSET S :
               (\A U \in SUBSET T : U # T => U \in Good) => T \in Good
    PROVE  \A T \in SUBSET S : T \in Good
<1>. DEFINE Bad == {T \in SUBSET S : T \notin Good}
            R == StrictSubsetOrdering(S)
<1>. SUFFICES ASSUME Bad # {} PROVE FALSE
  OBVIOUS
<1>1. IsWellFoundedOn(R, SUBSET S)
  <2>1. IsWellFoundedOn(R, FiniteSubsetsOf(S))
    BY FS_StrictSubsetOrderingWellFounded, Zenon
  <2>2. FiniteSubsetsOf(S) = SUBSET S
    BY FS_FiniteSubsetsOfFinite, Zenon
  <2>. QED
    BY <2>1, <2>2, Zenon
<1>2. PICK T \in Bad : \A U \in Bad : ~ (<<U, T>> \in R)
  <2>1. Bad \subseteq SUBSET S
    OBVIOUS
  <2>. HIDE DEF R, Bad
  <2>2. ASSUME NEW T \in SUBSET (SUBSET S), T # {}
        PROVE  \E x \in T : \A y \in T : ~ (<<y, x>> \in R)
    BY <1>1, <2>2, WFMin
  <2>. QED
    BY <2>1, <2>2
<1>3. \A U \in SUBSET T : U # T => U \in Good
  <2>. SUFFICES ASSUME NEW U \in SUBSET T, U # T, U \notin Good PROVE FALSE
    OBVIOUS
  <2>1. U \in Bad /\ <<U, T>> \in (SUBSET S) \X (SUBSET S)
    OBVIOUS
  <2>2. <<U, T>> \in R
    BY <2>1 DEF StrictSubsetOrdering
  <2>. QED
    BY <1>2, <2>1, <2>2
<1>. QED
  BY <1>2, <1>3

-----------------------------------------------------------------------------
(* The recursion of SumFunctionOnSet.                                      *)

Pick(s) == CHOOSE x \in s : TRUE

SumStep(f, g, s) == IF s = {} THEN 0 ELSE f[Pick(s)] + g[s \ {Pick(s)}]

\* g holds the sums of f over the subsets of S.
IsSum(f, g, S) == g = [s \in SUBSET S |-> SumStep(f, g, s)]

\* The library's definition, unfolded.
LEMMA SumUnfold ==
    ASSUME NEW f, NEW S
    PROVE  SumFunctionOnSet(f, S) = (CHOOSE g : IsSum(f, g, S))[S]
BY DEF SumFunctionOnSet, FoldFunctionOnSet, MapThenFoldSet, IsSum, SumStep, Pick

\* The element that is picked is an element.
LEMMA PickIn == ASSUME NEW s, s # {} PROVE Pick(s) \in s
BY DEF Pick

\* What IsSum says, subset by subset.
LEMMA IsSumAt ==
    ASSUME NEW f, NEW S, NEW g
    PROVE  IsSum(f, g, S) <=>
             g = [s \in SUBSET S |-> g[s]] /\ \A s \in SUBSET S : g[s] = SumStep(f, g, s)
BY DEF IsSum

\* The recursion has at most one solution.
LEMMA SumUnique ==
    ASSUME NEW f, NEW S, IsFiniteSet(S), NEW g, NEW h, IsSum(f, g, S), IsSum(f, h, S)
    PROVE  g = h
<1>. DEFINE Good == {s \in SUBSET S : g[s] = h[s]}
<1>1. ASSUME NEW s \in SUBSET S, \A u \in SUBSET s : u # s => u \in Good
      PROVE  s \in Good
  <2>1. g[s] = SumStep(f, g, s) /\ h[s] = SumStep(f, h, s)
    BY IsSumAt
  <2>2. CASE s = {}
    BY <2>1, <2>2 DEF SumStep
  <2>3. CASE s # {}
    <3>1. s \ {Pick(s)} \in SUBSET s /\ s \ {Pick(s)} # s
      BY <2>3, PickIn
    <3>2. g[s \ {Pick(s)}] = h[s \ {Pick(s)}]
      BY <1>1, <3>1
    <3>. QED
      BY <2>1, <2>3, <3>2 DEF SumStep
  <2>. QED
    BY <2>2, <2>3
<1>. HIDE DEF Good
<1>2. \A s \in SUBSET S : s \in Good
  BY <1>1, SubsetInduction
<1>3. \A s \in SUBSET S : g[s] = h[s]
  BY <1>2 DEF Good
<1>. QED
  BY <1>3, IsSumAt, Zenon

\* A solution for a set yields one for each of its subsets.
LEMMA SumRestricts ==
    ASSUME NEW f, NEW S, NEW g, IsSum(f, g, S), NEW T \in SUBSET S
    PROVE  IsSum(f, [s \in SUBSET T |-> g[s]], T)
<1>. DEFINE h == [s \in SUBSET T |-> g[s]]
<1>1. ASSUME NEW s \in SUBSET T PROVE h[s] = SumStep(f, h, s)
  <2>1. h[s] = SumStep(f, g, s)
    BY IsSumAt
  <2>2. s \ {Pick(s)} \in SUBSET T
    OBVIOUS
  <2>3. h[s \ {Pick(s)}] = g[s \ {Pick(s)}]
    BY <2>2
  <2>. QED
    BY <2>1, <2>3 DEF SumStep
<1>2. h = [s \in SUBSET T |-> h[s]]
  OBVIOUS
<1>. HIDE DEF h
<1>3. IsSum(f, h, T)
  BY <1>1, <1>2, IsSumAt
<1>. QED
  BY <1>3 DEF h

\* The recursion has a solution.
LEMMA SumExists ==
    ASSUME NEW f, NEW S, IsFiniteSet(S)
    PROVE  \E g : IsSum(f, g, S)
<1>. DEFINE Good == {T \in SUBSET S : \E g : IsSum(f, g, T)}
            G(T) == CHOOSE g : IsSum(f, g, T)
<1>1. ASSUME NEW T \in SUBSET S, \A U \in SUBSET T : U # T => U \in Good
      PROVE  T \in Good
  <2>0. \A U \in SUBSET T : U # T => IsSum(f, G(U), U) /\ IsFiniteSet(U)
    <3>1. \A U \in SUBSET T : IsFiniteSet(U)
      BY FS_Subset
    <3>. QED
      BY <1>1, <3>1
  <2>. HIDE DEF G
  <2>. DEFINE h == [s \in SUBSET T |-> IF s = {} THEN 0 ELSE f[Pick(s)] + G(s \ {Pick(s)})[s \ {Pick(s)}]]
  <2>1. ASSUME NEW s \in SUBSET T, s # T PROVE h[s] = G(s)[s]
    <3>1. G(s)[s] = SumStep(f, G(s), s)
      BY <2>0, <2>1, IsSumAt
    <3>2. CASE s = {}
      BY <3>1, <3>2 DEF SumStep
    <3>3. CASE s # {}
      <4>. DEFINE u == s \ {Pick(s)}
      <4>1. u \in SUBSET s /\ u \in SUBSET T /\ u # T
        BY <2>1, <3>3, PickIn
      <4>2. IsSum(f, [v \in SUBSET u |-> G(s)[v]], u)
        BY <2>0, <2>1, <4>1, SumRestricts
      <4>3. [v \in SUBSET u |-> G(s)[v]] = G(u)
        <5>. HIDE DEF u
        <5>. QED
          BY <2>0, <4>1, <4>2, SumUnique
      <4>4. u \in SUBSET u /\ G(u)[u] = G(s)[u]
        BY <4>3
      <4>. QED
        BY <2>1, <3>1, <3>3, <4>4 DEF SumStep
    <3>. QED
      BY <3>2, <3>3
  <2>2. ASSUME NEW s \in SUBSET T PROVE h[s] = SumStep(f, h, s)
    <3>1. CASE s = {}
      BY <3>1 DEF SumStep
    <3>2. CASE s # {}
      <4>. DEFINE u == s \ {Pick(s)}
      <4>1. u \in SUBSET T /\ u # T
        BY <3>2, PickIn
      <4>2. h[u] = G(u)[u]
        BY <2>1, <4>1
      <4>3. h[s] = f[Pick(s)] + G(u)[u]
        BY <3>2
      <4>. QED
        BY <3>2, <4>2, <4>3 DEF SumStep
    <3>. QED
      BY <3>1, <3>2
  <2>3. h = [s \in SUBSET T |-> h[s]]
    OBVIOUS
  <2>. HIDE DEF h
  <2>4. IsSum(f, h, T)
    BY <2>2, <2>3, IsSumAt
  <2>. QED
    BY <2>4
<1>. HIDE DEF Good
<1>2. S \in Good
  BY <1>1, SubsetInduction
<1>. QED
  BY <1>2 DEF Good

-----------------------------------------------------------------------------
(* Sums.                                                                   *)

\* The sum over nothing is zero.
LEMMA SumEmpty == ASSUME NEW f PROVE SumFunctionOnSet(f, {}) = 0
<1>1. \E g : IsSum(f, g, {})
  BY SumExists, FS_EmptySet
<1>2. PICK g : IsSum(f, g, {}) /\ SumFunctionOnSet(f, {}) = g[{}]
  BY <1>1, SumUnfold
<1>3. g[{}] = SumStep(f, g, {})
  BY <1>2, IsSumAt
<1>. QED
  BY <1>2, <1>3 DEF SumStep

\* The sum over a set is one summand and the sum over the rest.
LEMMA SumPick ==
    ASSUME NEW f, NEW S, IsFiniteSet(S), S # {}
    PROVE  SumFunctionOnSet(f, S) = f[Pick(S)] + SumFunctionOnSet(f, S \ {Pick(S)})
<1>. DEFINE T == S \ {Pick(S)}
<1>1. PICK g : IsSum(f, g, S) /\ SumFunctionOnSet(f, S) = g[S]
  BY SumExists, SumUnfold
<1>2. IsFiniteSet(T) /\ T \in SUBSET S
  BY FS_RemoveElement
<1>3. PICK h : IsSum(f, h, T) /\ SumFunctionOnSet(f, T) = h[T]
  <2>. HIDE DEF T
  <2>. QED
    BY <1>2, SumExists, SumUnfold
<1>4. h = [s \in SUBSET T |-> g[s]]
  <2>. HIDE DEF T
  <2>1. IsSum(f, [s \in SUBSET T |-> g[s]], T)
    BY <1>1, <1>2, SumRestricts
  <2>. QED
    BY <1>2, <1>3, <2>1, SumUnique
<1>5. h[T] = g[T]
  BY <1>4
<1>6. g[S] = SumStep(f, g, S)
  <2>1. S \in SUBSET S
    OBVIOUS
  <2>. QED
    BY <1>1, <2>1, IsSumAt
<1>. QED
  BY <1>1, <1>3, <1>5, <1>6 DEF SumStep

\* A sum of integers is an integer.
LEMMA SumInt ==
    ASSUME NEW f, NEW S, IsFiniteSet(S), \A x \in S : f[x] \in Int
    PROVE  SumFunctionOnSet(f, S) \in Int
<1>. DEFINE Good == {T \in SUBSET S : SumFunctionOnSet(f, T) \in Int}
<1>1. ASSUME NEW T \in SUBSET S, \A U \in SUBSET T : U # T => U \in Good
      PROVE  T \in Good
  <2>1. CASE T = {}
    BY <2>1, SumEmpty
  <2>2. CASE T # {}
    <3>1. Pick(T) \in T /\ IsFiniteSet(T)
      BY <2>2, PickIn, FS_Subset
    <3>2. T \ {Pick(T)} \in Good
      BY <1>1, <3>1
    <3>3. SumFunctionOnSet(f, T) = f[Pick(T)] + SumFunctionOnSet(f, T \ {Pick(T)})
      BY <2>2, <3>1, SumPick
    <3>. QED
      BY <3>1, <3>2, <3>3
  <2>. QED
    BY <2>1, <2>2
<1>. HIDE DEF Good
<1>2. S \in Good
  BY <1>1, SubsetInduction
<1>. QED
  BY <1>2 DEF Good

\* Any summand may be taken out first.
LEMMA SumRemove ==
    ASSUME NEW f, NEW S, IsFiniteSet(S), \A x \in S : f[x] \in Int, NEW x \in S
    PROVE  SumFunctionOnSet(f, S) = f[x] + SumFunctionOnSet(f, S \ {x})
<1>. DEFINE Sum(T) == SumFunctionOnSet(f, T)
            Good == {T \in SUBSET S : \A y \in T : Sum(T) = f[y] + Sum(T \ {y})}
<1>0. \A T \in SUBSET S : IsFiniteSet(T) /\ Sum(T) \in Int
  <2>. SUFFICES ASSUME NEW T \in SUBSET S PROVE IsFiniteSet(T) /\ Sum(T) \in Int
    OBVIOUS
  <2>1. IsFiniteSet(T)
    BY FS_Subset
  <2>. QED
    BY <2>1, SumInt
<1>1. ASSUME NEW T \in SUBSET S, \A U \in SUBSET T : U # T => U \in Good, NEW y \in T
      PROVE  Sum(T) = f[y] + Sum(T \ {y})
  <2>. DEFINE p == Pick(T)
  <2>1. p \in T /\ IsFiniteSet(T)
    BY <1>0, PickIn
  <2>2. Sum(T) = f[p] + Sum(T \ {p})
    BY <2>1, SumPick
  <2>. HIDE DEF p, Sum
  <2>3. CASE y = p
    BY <2>2, <2>3
  <2>4. CASE y # p
    <3>1. T \ {p} \in Good /\ T \ {y} \in Good /\ y \in T \ {p} /\ p \in T \ {y}
      BY <1>1, <2>1, <2>4
    <3>2. /\ Sum(T \ {p}) = f[y] + Sum((T \ {p}) \ {y})
          /\ Sum(T \ {y}) = f[p] + Sum((T \ {y}) \ {p})
      BY <3>1
    <3>3. (T \ {p}) \ {y} = (T \ {y}) \ {p} /\ (T \ {p}) \ {y} \in SUBSET S
      OBVIOUS
    <3>4. Sum((T \ {p}) \ {y}) \in Int
      BY <1>0, <3>3
    <3>5. f[p] \in Int /\ f[y] \in Int
      BY <2>1
    <3>. DEFINE a == f[p]
                b == f[y]
                w == Sum((T \ {p}) \ {y})
    <3>6. Sum(T) = a + (b + w) /\ Sum(T \ {y}) = a + w
      BY <2>2, <3>2, <3>3
    <3>7. a \in Int /\ b \in Int /\ w \in Int
      BY <3>4, <3>5
    <3>. HIDE DEF a, b, w
    <3>8. a + (b + w) = b + (a + w)
      BY <3>7
    <3>. QED
      BY <3>6, <3>8 DEF b
  <2>. QED
    BY <2>3, <2>4
<1>2. ASSUME NEW T \in SUBSET S, \A U \in SUBSET T : U # T => U \in Good
      PROVE  T \in Good
  <2>. HIDE DEF Sum
  <2>. QED
    BY <1>1, <1>2
<1>. HIDE DEF Good
<1>3. S \in Good
  BY <1>2, SubsetInduction
<1>. QED
  BY <1>3 DEF Good

\* A set with one element more.
LEMMA SumAdd ==
    ASSUME NEW f, NEW S, IsFiniteSet(S), NEW x, x \notin S,
           \A y \in S \cup {x} : f[y] \in Int
    PROVE  SumFunctionOnSet(f, S \cup {x}) = f[x] + SumFunctionOnSet(f, S)
<1>1. IsFiniteSet(S \cup {x}) /\ x \in S \cup {x} /\ (S \cup {x}) \ {x} = S
  BY FS_AddElement
<1>. QED
  BY <1>1, SumRemove

\* Functions that agree on a set have the same sum over it.
LEMMA SumSame ==
    ASSUME NEW f, NEW g, NEW S, IsFiniteSet(S), \A x \in S : f[x] = g[x]
    PROVE  SumFunctionOnSet(f, S) = SumFunctionOnSet(g, S)
<1>. DEFINE Good == {T \in SUBSET S : SumFunctionOnSet(f, T) = SumFunctionOnSet(g, T)}
<1>1. ASSUME NEW T \in SUBSET S, \A U \in SUBSET T : U # T => U \in Good
      PROVE  T \in Good
  <2>1. CASE T = {}
    BY <2>1, SumEmpty
  <2>2. CASE T # {}
    <3>1. Pick(T) \in T /\ IsFiniteSet(T)
      BY <2>2, PickIn, FS_Subset
    <3>2. T \ {Pick(T)} \in Good
      BY <1>1, <3>1
    <3>3. /\ SumFunctionOnSet(f, T) = f[Pick(T)] + SumFunctionOnSet(f, T \ {Pick(T)})
          /\ SumFunctionOnSet(g, T) = g[Pick(T)] + SumFunctionOnSet(g, T \ {Pick(T)})
      BY <2>2, <3>1, SumPick
    <3>. QED
      BY <3>1, <3>2, <3>3
  <2>. QED
    BY <2>1, <2>2
<1>. HIDE DEF Good
<1>2. S \in Good
  BY <1>1, SubsetInduction
<1>. QED
  BY <1>2 DEF Good

\* One summand changes.
LEMMA SumUpdate ==
    ASSUME NEW f, NEW g, NEW S, IsFiniteSet(S), NEW x \in S,
           \A y \in S : f[y] \in Int /\ g[y] \in Int,
           \A y \in S : y # x => f[y] = g[y]
    PROVE  SumFunctionOnSet(g, S) = SumFunctionOnSet(f, S) - f[x] + g[x]
<1>. DEFINE T == S \ {x}
            F == SumFunctionOnSet(f, T)
            G == SumFunctionOnSet(g, T)
<1>1. IsFiniteSet(T)
  BY FS_RemoveElement
<1>2. SumFunctionOnSet(f, S) = f[x] + F /\ SumFunctionOnSet(g, S) = g[x] + G
  BY SumRemove
<1>3. F = G /\ F \in Int
  <2>1. \A y \in T : f[y] = g[y] /\ f[y] \in Int
    OBVIOUS
  <2>. HIDE DEF T
  <2>. QED
    BY <1>1, <2>1, SumSame, SumInt
<1>. HIDE DEF F, G
<1>. QED
  BY <1>2, <1>3

\* A sum of naturals is a natural, at most the largest of them times their
\* number.
LEMMA SumBound ==
    ASSUME NEW f, NEW S, IsFiniteSet(S), NEW m \in Nat,
           \A x \in S : f[x] \in Nat /\ f[x] <= m
    PROVE  /\ SumFunctionOnSet(f, S) \in Nat
           /\ SumFunctionOnSet(f, S) <= Cardinality(S) * m
<1>. DEFINE Good == {T \in SUBSET S : /\ SumFunctionOnSet(f, T) \in Nat
                                     /\ SumFunctionOnSet(f, T) <= Cardinality(T) * m}
<1>1. ASSUME NEW T \in SUBSET S, \A U \in SUBSET T : U # T => U \in Good
      PROVE  T \in Good
  <2>1. CASE T = {}
    BY <2>1, SumEmpty, FS_EmptySet
  <2>2. CASE T # {}
    <3>1. Pick(T) \in T /\ IsFiniteSet(T)
      BY <2>2, PickIn, FS_Subset
    <3>. DEFINE u == T \ {Pick(T)}
    <3>2. u \in Good /\ IsFiniteSet(u) /\ Cardinality(u) = Cardinality(T) - 1
      BY <1>1, <3>1, FS_RemoveElement
    <3>3. SumFunctionOnSet(f, T) = f[Pick(T)] + SumFunctionOnSet(f, u)
      BY <2>2, <3>1, SumPick
    <3>. DEFINE n == Cardinality(T)
                a == f[Pick(T)]
                b == SumFunctionOnSet(f, u)
    <3>4. /\ n \in Nat /\ a \in Nat /\ a <= m /\ b \in Nat /\ b <= (n - 1) * m
          /\ SumFunctionOnSet(f, T) = a + b
      BY <3>1, <3>2, <3>3, FS_CardinalityType
    <3>. HIDE DEF n, a, b
    <3>5. a + b \in Nat /\ a + b <= n * m
      <4>1. (n - 1) * m = n * m - m
        BY <3>4
      <4>2. n * m \in Int
        BY <3>4
      <4>. QED
        BY <3>4, <4>1, <4>2
    <3>. QED
      BY <3>4, <3>5 DEF n
  <2>. QED
    BY <2>1, <2>2
<1>. HIDE DEF Good
<1>2. S \in Good
  BY <1>1, SubsetInduction
<1>. QED
  BY <1>2 DEF Good

\* A sum of naturals is a natural.
LEMMA SumNat ==
    ASSUME NEW f, NEW S, IsFiniteSet(S), \A x \in S : f[x] \in Nat
    PROVE  SumFunctionOnSet(f, S) \in Nat
<1>. DEFINE Good == {T \in SUBSET S : SumFunctionOnSet(f, T) \in Nat}
<1>1. ASSUME NEW T \in SUBSET S, \A U \in SUBSET T : U # T => U \in Good
      PROVE  T \in Good
  <2>1. CASE T = {}
    BY <2>1, SumEmpty
  <2>2. CASE T # {}
    <3>1. Pick(T) \in T /\ IsFiniteSet(T)
      BY <2>2, PickIn, FS_Subset
    <3>2. T \ {Pick(T)} \in Good
      BY <1>1, <3>1
    <3>3. SumFunctionOnSet(f, T) = f[Pick(T)] + SumFunctionOnSet(f, T \ {Pick(T)})
      BY <2>2, <3>1, SumPick
    <3>. QED
      BY <3>1, <3>2, <3>3
  <2>. QED
    BY <2>1, <2>2
<1>. HIDE DEF Good
<1>2. S \in Good
  BY <1>1, SubsetInduction
<1>. QED
  BY <1>2 DEF Good

\* A sum of zeros is zero.
LEMMA SumZero ==
    ASSUME NEW f, NEW S, IsFiniteSet(S), \A x \in S : f[x] = 0
    PROVE  SumFunctionOnSet(f, S) = 0
<1>1. \A x \in S : f[x] \in Nat /\ f[x] <= 0
  OBVIOUS
<1>2. SumFunctionOnSet(f, S) \in Nat /\ SumFunctionOnSet(f, S) <= Cardinality(S) * 0
  BY <1>1, SumBound
<1>3. Cardinality(S) \in Nat
  BY FS_CardinalityType
<1>. QED
  BY <1>2, <1>3

\* A sum of zeros and ones is the number of ones.
LEMMA SumCount ==
    ASSUME NEW f, NEW S, IsFiniteSet(S), \A x \in S : f[x] \in {0, 1}
    PROVE  SumFunctionOnSet(f, S) = Cardinality({x \in S : f[x] = 1})
<1>. DEFINE Ones(T) == {x \in T : f[x] = 1}
            Good == {T \in SUBSET S : SumFunctionOnSet(f, T) = Cardinality(Ones(T))}
<1>1. ASSUME NEW T \in SUBSET S, \A U \in SUBSET T : U # T => U \in Good
      PROVE  T \in Good
  <2>1. CASE T = {}
    <3>1. Ones(T) = {}
      BY <2>1
    <3>. QED
      BY <2>1, <3>1, SumEmpty, FS_EmptySet
  <2>2. CASE T # {}
    <3>. DEFINE x == Pick(T)
                u == T \ {x}
    <3>1. x \in T /\ IsFiniteSet(T)
      BY <2>2, PickIn, FS_Subset
    <3>2. SumFunctionOnSet(f, T) = f[x] + SumFunctionOnSet(f, u)
      BY <2>2, <3>1, SumPick
    <3>. HIDE DEF x
    <3>3. SumFunctionOnSet(f, u) = Cardinality(Ones(u))
      BY <1>1, <3>1
    <3>4. IsFiniteSet(Ones(u))
      <4>1. Ones(u) \subseteq T
        OBVIOUS
      <4>. HIDE DEF Ones, u
      <4>. QED
        BY <3>1, <4>1, FS_Subset
    <3>5. Cardinality(Ones(u)) \in Nat
      BY <3>4, FS_CardinalityType
    <3>6. CASE f[x] = 0
      <4>1. Ones(T) = Ones(u)
        BY <3>1, <3>6
      <4>. DEFINE n == Cardinality(Ones(u))
      <4>2. SumFunctionOnSet(f, T) = 0 + n /\ Cardinality(Ones(T)) = n /\ n \in Nat
        BY <3>2, <3>3, <3>5, <3>6, <4>1
      <4>. HIDE DEF n
      <4>3. SumFunctionOnSet(f, T) = Cardinality(Ones(T))
        BY <4>2
      <4>. QED
        BY <4>3
    <3>7. CASE f[x] = 1
      <4>1. Ones(T) = Ones(u) \cup {x} /\ x \notin Ones(u)
        BY <3>1, <3>7
      <4>2. Cardinality(Ones(u) \cup {x}) = Cardinality(Ones(u)) + 1
        BY <3>4, <4>1, FS_AddElement
      <4>. DEFINE n == Cardinality(Ones(u))
      <4>3. SumFunctionOnSet(f, T) = 1 + n /\ Cardinality(Ones(T)) = n + 1 /\ n \in Nat
        BY <3>2, <3>3, <3>5, <3>7, <4>1, <4>2
      <4>. HIDE DEF n
      <4>4. SumFunctionOnSet(f, T) = Cardinality(Ones(T))
        BY <4>3
      <4>. QED
        BY <4>4
    <3>. QED
      BY <3>1, <3>6, <3>7
  <2>. QED
    BY <2>1, <2>2
<1>. HIDE DEF Good
<1>2. S \in Good
  BY <1>1, SubsetInduction
<1>. QED
  BY <1>2 DEF Good

\* A summand that is zero may be left out.
LEMMA SumDrop ==
    ASSUME NEW f, NEW S, IsFiniteSet(S), \A y \in S : f[y] \in Int,
           NEW x, x \in S => f[x] = 0
    PROVE  SumFunctionOnSet(f, S \ {x}) = SumFunctionOnSet(f, S)
<1>1. CASE x \in S
  <2>1. SumFunctionOnSet(f, S) = 0 + SumFunctionOnSet(f, S \ {x})
    BY <1>1, SumRemove
  <2>2. SumFunctionOnSet(f, S \ {x}) \in Int
    BY FS_RemoveElement, SumInt
  <2>. QED
    BY <2>1, <2>2
<1>2. CASE x \notin S
  <2>1. S \ {x} = S
    BY <1>2
  <2>. QED
    BY <2>1
<1>. QED
  BY <1>1, <1>2

-----------------------------------------------------------------------------
(* The largest element.                                                    *)

\* Summands that are zero may be left out together.
LEMMA SumWithoutZeros ==
    ASSUME NEW f, NEW S, IsFiniteSet(S), \A x \in S : f[x] \in Int,
           NEW T \in SUBSET S, \A x \in S \ T : f[x] = 0
    PROVE  SumFunctionOnSet(f, S) = SumFunctionOnSet(f, T)
<1>. DEFINE Sum(U) == SumFunctionOnSet(f, U)
            Good == {U \in SUBSET S : T \in SUBSET U => Sum(U) = Sum(T)}
<1>1. ASSUME NEW U \in SUBSET S, \A V \in SUBSET U : V # U => V \in Good
      PROVE  U \in Good
  <2>. SUFFICES ASSUME T \in SUBSET U, T # U PROVE Sum(U) = Sum(T)
    OBVIOUS
  <2>1. PICK x \in U : x \notin T
    OBVIOUS
  <2>2. U \ {x} \in SUBSET U /\ U \ {x} # U /\ T \in SUBSET (U \ {x})
    BY <2>1
  <2>3. Sum(U \ {x}) = Sum(T)
    BY <1>1, <2>2
  <2>4. IsFiniteSet(U) /\ (\A y \in U : f[y] \in Int) /\ f[x] = 0
    BY <2>1, FS_Subset
  <2>. QED
    BY <2>3, <2>4, SumDrop
<1>. HIDE DEF Good
<1>2. \A U \in SUBSET S : U \in Good
  BY <1>1, SubsetInduction
<1>. QED
  BY <1>2 DEF Good

\* Among finitely many values there is a largest one.
LEMMA LargestValue ==
    ASSUME NEW f, NEW S, IsFiniteSet(S), S # {}, \A x \in S : f[x] \in Int
    PROVE  \E x \in S : \A y \in S : f[x] >= f[y]
<1>. DEFINE Good == {T \in SUBSET S : T # {} => \E x \in T : \A y \in T : f[x] >= f[y]}
<1>1. ASSUME NEW T \in SUBSET S, \A U \in SUBSET T : U # T => U \in Good
      PROVE  T \in Good
  <2>. SUFFICES ASSUME T # {} PROVE \E x \in T : \A y \in T : f[x] >= f[y]
    OBVIOUS
  <2>1. PICK a \in T : TRUE
    OBVIOUS
  <2>2. CASE T = {a}
    <3>1. f[a] \in Int
      OBVIOUS
    <3>. QED
      BY <2>2, <3>1
  <2>3. CASE T # {a}
    <3>1. T \ {a} # {} /\ T \ {a} \in Good
      BY <1>1, <2>1, <2>3
    <3>2. PICK b \in T \ {a} : \A y \in T \ {a} : f[b] >= f[y]
      BY <3>1
    <3>3. f[a] \in Int /\ f[b] \in Int /\ \A y \in T : f[y] \in Int
      OBVIOUS
    <3>4. CASE f[a] >= f[b]
      <4>1. \A y \in T : f[a] >= f[y]
        BY <3>2, <3>3, <3>4
      <4>. QED
        BY <4>1
    <3>5. CASE ~(f[a] >= f[b])
      <4>1. \A y \in T : f[b] >= f[y]
        BY <3>2, <3>3, <3>5
      <4>. QED
        BY <3>2, <4>1
    <3>. QED
      BY <3>4, <3>5
  <2>. QED
    BY <2>2, <2>3
<1>. HIDE DEF Good
<1>2. S \in Good
  BY <1>1, SubsetInduction
<1>. QED
  BY <1>2 DEF Good

\* Max (community module FiniteSetsExt) is an upper bound of the values.
LEMMA MaxValue ==
    ASSUME NEW f, NEW S, IsFiniteSet(S), S # {}, \A x \in S : f[x] \in Int
    PROVE  /\ Max({f[x] : x \in S}) \in {f[x] : x \in S}
           /\ \A y \in S : f[y] <= Max({f[x] : x \in S})
<1>. DEFINE V == {f[x] : x \in S}
<1>1. \E v \in V : \A w \in V : v >= w
  BY LargestValue
<1>2. Max(V) \in V /\ \A w \in V : Max(V) >= w
  <2>. HIDE DEF V
  <2>. QED
    BY <1>1 DEF Max
<1>3. \A v \in V : v \in Int
  OBVIOUS
<1>4. ASSUME NEW y \in S PROVE f[y] <= Max(V)
  <2>1. f[y] \in V
    OBVIOUS
  <2>. HIDE DEF V
  <2>. QED
    BY <1>2, <1>3, <2>1
<1>. QED
  BY <1>2, <1>4

\* A sum of naturals over a subset is not larger.
LEMMA SumSubset ==
    ASSUME NEW f, NEW S, IsFiniteSet(S), \A x \in S : f[x] \in Nat, NEW T \in SUBSET S
    PROVE  SumFunctionOnSet(f, T) <= SumFunctionOnSet(f, S)
<1>. DEFINE Sum(U) == SumFunctionOnSet(f, U)
            Good == {U \in SUBSET S : \A V \in SUBSET U : Sum(V) <= Sum(U)}
<1>0. \A U \in SUBSET S : IsFiniteSet(U) /\ Sum(U) \in Nat
  <2>. SUFFICES ASSUME NEW U \in SUBSET S PROVE IsFiniteSet(U) /\ Sum(U) \in Nat
    OBVIOUS
  <2>1. IsFiniteSet(U)
    BY FS_Subset
  <2>. QED
    BY <2>1, SumNat
<1>1. ASSUME NEW U \in SUBSET S, \A V \in SUBSET U : V # U => V \in Good
      PROVE  U \in Good
  <2>. SUFFICES ASSUME NEW V \in SUBSET U PROVE Sum(V) <= Sum(U)
    OBVIOUS
  <2>1. CASE V = U
    <3>1. Sum(U) \in Nat
      BY <1>0
    <3>. HIDE DEF Sum
    <3>2. Sum(U) <= Sum(U)
      BY <3>1
    <3>. QED
      BY <2>1, <3>2
  <2>2. CASE V # U
    <3>1. PICK x \in U : x \notin V
      BY <2>2
    <3>. DEFINE W == U \ {x}
    <3>2. W \in SUBSET U /\ W # U /\ V \in SUBSET W /\ W \in SUBSET S /\ V \in SUBSET S
      BY <3>1
    <3>3. Sum(V) <= Sum(W)
      BY <1>1, <3>2
    <3>4. IsFiniteSet(U) /\ \A y \in U : f[y] \in Int
      BY <1>0
    <3>5. Sum(U) = f[x] + Sum(W)
      BY <3>1, <3>4, SumRemove
    <3>6. Sum(V) \in Nat /\ Sum(W) \in Nat /\ f[x] \in Nat
      BY <1>0, <3>1, <3>2
    <3>. HIDE DEF Sum, W
    <3>. QED
      BY <3>3, <3>5, <3>6
  <2>. QED
    BY <2>1, <2>2
<1>2. \A U \in SUBSET S : U \in Good
  <2>. HIDE DEF Good
  <2>. QED
    BY <1>1, SubsetInduction
<1>3. S \in Good
  BY <1>2
<1>. QED
  BY <1>3

\* Fewer summands, a smaller product.
LEMMA TimesLess ==
    ASSUME NEW a \in Nat, NEW b \in Nat, NEW m \in Nat, a <= b
    PROVE  a * m <= b * m
<1>1. b * m = a * m + (b - a) * m
  OBVIOUS
<1>2. (b - a) * m >= 0
  OBVIOUS
<1>3. a * m \in Nat /\ (b - a) * m \in Int
  OBVIOUS
<1>. QED
  BY <1>1, <1>2, <1>3

-----------------------------------------------------------------------------
(* The first n elements.                                                   *)

\* At most n elements of a finite set of integers have fewer than n elements
\* below them (ORDER BY id LIMIT n).
LEMMA FirstN ==
    ASSUME NEW S \in SUBSET Int, IsFiniteSet(S), NEW n \in Nat
    PROVE  LET F == {r \in S : Cardinality({q \in S : q < r}) < n}
           IN  IsFiniteSet(F) /\ Cardinality(F) <= n
<1>. DEFINE Below(r) == {q \in S : q < r}
            F == {r \in S : Cardinality(Below(r)) < n}
            rank == [r \in F |-> Cardinality(Below(r))]
<1>1. \A r \in S : IsFiniteSet(Below(r)) /\ Cardinality(Below(r)) \in Nat
  <2>. SUFFICES ASSUME NEW r \in S
                PROVE  IsFiniteSet(Below(r)) /\ Cardinality(Below(r)) \in Nat
    OBVIOUS
  <2>1. Below(r) \in SUBSET S
    OBVIOUS
  <2>. HIDE DEF Below
  <2>. QED
    BY <2>1, FS_Subset, FS_CardinalityType
<1>2. ASSUME NEW r \in S, NEW s \in S, r < s
      PROVE  Cardinality(Below(r)) < Cardinality(Below(s))
  <2>1. Below(r) \in SUBSET Below(s) /\ r \in Below(s) /\ r \notin Below(r)
    <3>1. r \in Int /\ s \in Int /\ \A q \in S : q \in Int
      OBVIOUS
    <3>2. \A q \in S : q < r => q < s
      BY <1>2, <3>1
    <3>3. ~(r < r)
      BY <3>1
    <3>. QED
      BY <1>2, <3>2, <3>3
  <2>. HIDE DEF Below
  <2>2. /\ Cardinality(Below(r)) <= Cardinality(Below(s))
        /\ Cardinality(Below(s)) # Cardinality(Below(r))
    BY <1>1, <2>1, FS_Subset
  <2>. QED
    BY <1>1, <2>2
<1>3. rank \in [F -> 0..(n-1)]
  <2>1. \A r \in F : Cardinality(Below(r)) \in 0..(n-1)
    <3>. HIDE DEF Below
    <3>. QED
      BY <1>1
  <2>. HIDE DEF Below, F
  <2>. QED
    BY <2>1
<1>4. \A r, s \in F : rank[r] = rank[s] => r = s
  <2>. SUFFICES ASSUME NEW r \in F, NEW s \in F, rank[r] = rank[s], r # s PROVE FALSE
    OBVIOUS
  <2>. HIDE DEF Below
  <2>1. r < s \/ s < r
    OBVIOUS
  <2>. QED
    BY <1>1, <1>2, <2>1
<1>5. rank \in Injection(F, 0..(n-1))
  <2>. HIDE DEF rank, F
  <2>. QED
    BY <1>3, <1>4 DEF Injection, IsInjective
<1>6. IsFiniteSet(0..(n-1)) /\ Cardinality(0..(n-1)) = n
  BY FS_Interval
<1>7. IsFiniteSet(F) /\ Cardinality(F) <= n
  <2>. HIDE DEF rank, F
  <2>. QED
    BY <1>5, <1>6, FS_Injection
<1>. QED
  BY <1>7
=============================================================================
