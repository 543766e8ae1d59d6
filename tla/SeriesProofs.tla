---------------------------- MODULE SeriesProofs ----------------------------
(***************************************************************************)
(* Lemmas that several parts need: what sums come to, what folds and       *)
(* filters make of a sequence and of the sequence read backwards, that a   *)
(* finite set has a least element, and two inductions, over the subsets of *)
(* a finite set and over sequences.                                        *)
(***************************************************************************)
EXTENDS Series, SequencesExt, FiniteSetTheorems, SequenceTheorems, WellFoundedInduction, TLAPS
---------------------------------------------------------------------------
(* Sums.                                                                   *)

\* A family that has every subset of a finite set all of whose proper subsets it has, has them all.
LEMMA SmallerFirst ==
  ASSUME NEW S, IsFiniteSet(S), NEW Good,
         \A T \in SUBSET S : (\A U \in SUBSET T : U # T => U \in Good) => T \in Good
  PROVE  SUBSET S \subseteq Good
<1> DEFINE Bad == (SUBSET S) \ Good
<1> SUFFICES ASSUME Bad # {} PROVE FALSE
  OBVIOUS
<1>1. IsWellFoundedOn(StrictSubsetOrdering(S), SUBSET S)
  <2>1. IsWellFoundedOn(StrictSubsetOrdering(S), FiniteSubsetsOf(S))
    BY FS_StrictSubsetOrderingWellFounded
  <2>2. FiniteSubsetsOf(S) = SUBSET S
    BY FS_FiniteSubsetsOfFinite
  <2> QED  BY <2>1, <2>2
<1>2. Bad \subseteq SUBSET S
  OBVIOUS
<1>3. PICK B \in Bad : \A T \in Bad : ~ (<<T, B>> \in StrictSubsetOrdering(S))
  <2> HIDE DEF Bad
  <2> QED  BY <1>1, <1>2, WFMin
<1>4. B \in SUBSET S /\ B \notin Good
  BY <1>3
<1>5. ASSUME NEW U \in SUBSET B, U # B
      PROVE  U \in Good
  <2>1. <<U, B>> \in StrictSubsetOrdering(S)
    BY <1>4, <1>5 DEF StrictSubsetOrdering
  <2>2. U \in SUBSET S
    BY <1>4
  <2> QED  BY <1>3, <2>1, <2>2
<1> QED  BY <1>4, <1>5

\* In particular one that has the empty set, and every one of its sets with one element more.
LEMMA OneAtATime ==
  ASSUME NEW S, IsFiniteSet(S), NEW Good, {} \in Good,
         \A T \in SUBSET S : \A x \in S : T \in Good /\ x \notin T => T \cup {x} \in Good
  PROVE  SUBSET S \subseteq Good
<1>1. ASSUME NEW T \in SUBSET S, \A U \in SUBSET T : U # T => U \in Good
      PROVE  T \in Good
  <2>1. CASE T = {}
    BY <2>1
  <2>2. CASE T # {}
    <3>1. PICK x \in T : TRUE
      BY <2>2
    <3> DEFINE U == T \ {x}
    <3>2. U \in SUBSET T /\ U # T /\ U \in SUBSET S /\ x \in S /\ x \notin U /\ U \cup {x} = T
      BY <3>1
    <3>3. U \in Good
      BY <1>1, <3>2
    <3> HIDE DEF U
    <3>4. U \cup {x} \in Good
      BY <3>2, <3>3
    <3> QED  BY <3>2, <3>4
  <2> QED  BY <2>1, <2>2
<1> QED  BY <1>1, SmallerFirst

\* What a sum unfolds: a function over the subsets of S that adds one element's share at a time.
Pick(T) == CHOOSE x \in T : TRUE
Adds(f, S, sum) ==
  sum = [T \in SUBSET S |-> IF T = {} THEN 0 ELSE f[Pick(T)] + sum[T \ {Pick(T)}]]
TheSum(f, S) == CHOOSE sum : Adds(f, S, sum)

LEMMA PickIsIn == ASSUME NEW T, T # {} PROVE Pick(T) \in T
  BY DEF Pick

LEMMA SumIsItsFunction ==
  ASSUME NEW f, NEW S
  PROVE  SumOver(f, S) = TheSum(f, S)[S]
BY Zenon DEF SumOver, TheSum, Adds, Pick

\* Such functions agree where both are defined.
LEMMA SumsAgree ==
  ASSUME NEW f, NEW S, IsFiniteSet(S), NEW R \in SUBSET S, NEW g, NEW h, Adds(f, S, g), Adds(f, R, h)
  PROVE  \A T \in SUBSET R : g[T] = h[T]
<1> DEFINE Good == {T \in SUBSET R : g[T] = h[T]}
<1>0. IsFiniteSet(R)
  BY FS_Subset
<1>1. ASSUME NEW T \in SUBSET R, \A U \in SUBSET T : U # T => U \in Good
      PROVE  T \in Good
  <2>0. T \in SUBSET S
    OBVIOUS
  <2>1. CASE T = {}
    <3>1. g[T] = 0
      BY <2>0, <2>1, Zenon DEF Adds
    <3>2. h[T] = 0
      BY <2>1, Zenon DEF Adds
    <3> QED  BY <3>1, <3>2
  <2>2. CASE T # {}
    <3> DEFINE U == T \ {Pick(T)}
    <3>1. g[T] = f[Pick(T)] + g[U]
      BY <2>0, <2>2, Zenon DEF Adds
    <3>2. h[T] = f[Pick(T)] + h[U]
      BY <2>2, Zenon DEF Adds
    <3>3. Pick(T) \in T
      BY <2>2, PickIsIn
    <3>4. U \in SUBSET T /\ U # T
      BY <3>3
    <3>5. g[U] = h[U]
      BY <1>1, <3>4
    <3> QED  BY <3>1, <3>2, <3>5, Zenon
  <2> QED  BY <2>1, <2>2
<1> HIDE DEF Good
<1>2. SUBSET R \subseteq Good
  BY <1>0, <1>1, SmallerFirst
<1> QED  BY <1>2 DEF Good

\* And there is one over every finite set.
LEMMA SumsExist ==
  ASSUME NEW f, NEW S, IsFiniteSet(S)
  PROVE  Adds(f, S, TheSum(f, S))
<1> DEFINE Good == {T \in SUBSET S : \E sum : Adds(f, T, sum)}
<1>1. ASSUME NEW T \in SUBSET S, \A U \in SUBSET T : U # T => U \in Good
      PROVE  T \in Good
  <2> DEFINE rest(V) == V \ {Pick(V)}
             g == [V \in SUBSET T |-> IF V = {} THEN 0 ELSE f[Pick(V)] + TheSum(f, rest(V))[rest(V)]]
  <2>1. ASSUME NEW V \in SUBSET T, V # T
        PROVE  Adds(f, V, TheSum(f, V))
    <3>1. V \in Good
      BY <1>1, <2>1
    <3>2. \E sum : Adds(f, V, sum)
      BY <3>1
    <3> QED  BY <3>2, Zenon DEF TheSum
  <2>2. ASSUME NEW V \in SUBSET T, V # T
        PROVE  g[V] = TheSum(f, V)[V]
    <3> DEFINE h == TheSum(f, V)
    <3>1. Adds(f, V, h)
      BY <2>1, <2>2, Zenon
    <3>2. CASE V = {}
      <4>1. g[V] = 0
        BY <3>2
      <4>2. h[V] = 0
        BY <3>1, <3>2, Zenon DEF Adds
      <4> QED  BY <4>1, <4>2
    <3>3. CASE V # {}
      <4> DEFINE U == rest(V)
      <4>1. g[V] = f[Pick(V)] + TheSum(f, U)[U]
        BY <3>3, Zenon
      <4>2. h[V] = f[Pick(V)] + h[U]
        BY <3>1, <3>3, Zenon DEF Adds
      <4>3. Pick(V) \in V
        BY <3>3, PickIsIn
      <4>4. U \in SUBSET V /\ U \in SUBSET T /\ U # T
        BY <4>3
      <4> HIDE DEF U, h
      <4>5. Adds(f, U, TheSum(f, U))
        BY <2>1, <4>4, Zenon
      <4>6. IsFiniteSet(V)
        BY FS_Subset
      <4>7. U \in SUBSET U
        OBVIOUS
      <4>8. h[U] = TheSum(f, U)[U]
        <5> DEFINE j == TheSum(f, U)
        <5>1. Adds(f, U, j)
          BY <4>5
        <5> HIDE DEF j
        <5>2. \A W \in SUBSET U : h[W] = j[W]
          BY <3>1, <4>4, <4>6, <5>1, SumsAgree
        <5> QED  BY <4>7, <5>2 DEF j
      <4> QED  BY <4>1, <4>2, <4>8, Zenon DEF h
    <3> QED  BY <3>2, <3>3
  <2>3. Adds(f, T, g)
    <3>1. ASSUME NEW V \in SUBSET T, V # {}
          PROVE  TheSum(f, rest(V))[rest(V)] = g[rest(V)]
      <4>1. Pick(V) \in V
        BY <3>1, PickIsIn
      <4>2. rest(V) \in SUBSET T /\ rest(V) # T
        BY <4>1
      <4> HIDE DEF g, rest
      <4> QED  BY <2>2, <4>2
    <3> DEFINE k == [V \in SUBSET T |-> IF V = {} THEN 0 ELSE f[Pick(V)] + g[rest(V)]]
    <3>2. \A V \in SUBSET T : (IF V = {} THEN 0 ELSE f[Pick(V)] + TheSum(f, rest(V))[rest(V)])
                               = (IF V = {} THEN 0 ELSE f[Pick(V)] + g[rest(V)])
      <4> HIDE DEF g, rest
      <4> QED  BY <3>1, Zenon
    <3>3. g = k
      <4>1. k = [V \in SUBSET T |-> IF V = {} THEN 0 ELSE f[Pick(V)] + TheSum(f, rest(V))[rest(V)]]
        <5> HIDE DEF g, rest
        <5> QED  BY <3>2, Zenon
      <4> QED  BY <4>1, Zenon
    <3> HIDE DEF g
    <3> QED  BY <3>3, Zenon DEF Adds
  <2> HIDE DEF g
  <2> QED  BY <2>3
<1> HIDE DEF Good
<1>2. S \in Good
  <2>1. SUBSET S \subseteq Good
    BY <1>1, SmallerFirst
  <2>2. S \in SUBSET S
    OBVIOUS
  <2> QED  BY <2>1, <2>2
<1> QED  BY <1>2, Zenon DEF TheSum, Good

\* A sum is one element's share and the sum of the others (SumOver).
LEMMA SumUnfolds ==
  ASSUME NEW f, NEW S, IsFiniteSet(S)
  PROVE  /\ S = {} => SumOver(f, S) = 0
         /\ S # {} => SumOver(f, S) = f[Pick(S)] + SumOver(f, S \ {Pick(S)})
<1> DEFINE g == TheSum(f, S)
<1>1. Adds(f, S, g) /\ SumOver(f, S) = g[S] /\ S \in SUBSET S
  BY SumsExist, SumIsItsFunction
<1> HIDE DEF g
<1>2. CASE S = {}
  <2>1. g[S] = 0
    BY <1>1, <1>2, Zenon DEF Adds
  <2> QED  BY <1>1, <1>2, <2>1
<1>3. CASE S # {}
  <2> DEFINE R == S \ {Pick(S)}
             h == TheSum(f, R)
  <2>1. g[S] = f[Pick(S)] + g[R]
    BY <1>1, <1>3, Zenon DEF Adds
  <2>2. IsFiniteSet(R) /\ R \in SUBSET S /\ R \in SUBSET R
    BY FS_Subset
  <2> HIDE DEF R
  <2>3. Adds(f, R, h) /\ SumOver(f, R) = h[R]
    BY <2>2, SumsExist, SumIsItsFunction
  <2> HIDE DEF h
  <2>4. \A T \in SUBSET R : g[T] = h[T]
    BY <1>1, <2>2, <2>3, SumsAgree
  <2>5. SumOver(f, S) = f[Pick(S)] + SumOver(f, R)
    BY <1>1, <2>1, <2>2, <2>3, <2>4
  <2> QED  BY <1>3, <2>5 DEF R
<1> QED  BY <1>2, <1>3

\* A sum of integers is one; of naturals, a natural.
LEMMA SumInt ==
  ASSUME NEW f, NEW S, IsFiniteSet(S), \A x \in S : f[x] \in Int
  PROVE  SumOver(f, S) \in Int
<1> DEFINE Good == {T \in SUBSET S : SumOver(f, T) \in Int}
<1>1. ASSUME NEW T \in SUBSET S, \A U \in SUBSET T : U # T => U \in Good
      PROVE  T \in Good
  <2>1. IsFiniteSet(T)
    BY FS_Subset
  <2>2. CASE T = {}
    <3>1. SumOver(f, T) = 0
      BY <2>1, <2>2, SumUnfolds
    <3> QED  BY <3>1
  <2>3. CASE T # {}
    <3>1. Pick(T) \in T /\ T \ {Pick(T)} \in SUBSET T /\ T \ {Pick(T)} # T
      BY <2>3, PickIsIn
    <3>2. SumOver(f, T) = f[Pick(T)] + SumOver(f, T \ {Pick(T)})
      BY <2>1, <2>3, SumUnfolds
    <3>3. SumOver(f, T \ {Pick(T)}) \in Int /\ f[Pick(T)] \in Int
      BY <1>1, <3>1
    <3> QED  BY <3>2, <3>3
  <2> QED  BY <2>2, <2>3
<1> HIDE DEF Good
<1>2. S \in Good
  <2>1. SUBSET S \subseteq Good
    BY <1>1, SmallerFirst
  <2>2. S \in SUBSET S
    OBVIOUS
  <2> QED  BY <2>1, <2>2
<1> QED  BY <1>2 DEF Good

\* It does not matter whose share is taken first.
LEMMA SumPeels ==
  ASSUME NEW f, NEW S, IsFiniteSet(S), \A x \in S : f[x] \in Int
  PROVE  \A x \in S : SumOver(f, S) = f[x] + SumOver(f, S \ {x})
<1> DEFINE Good == {T \in SUBSET S : \A x \in T : SumOver(f, T) = f[x] + SumOver(f, T \ {x})}
<1>1. ASSUME NEW T \in SUBSET S, \A U \in SUBSET T : U # T => U \in Good
      PROVE  T \in Good
  <2> SUFFICES ASSUME NEW x \in T
               PROVE  SumOver(f, T) = f[x] + SumOver(f, T \ {x})
    OBVIOUS
  <2> DEFINE p == Pick(T)
             A == T \ {x}
             B == T \ {p}
             C == (T \ {x}) \ {p}
  <2>0. IsFiniteSet(T) /\ T # {} /\ p \in T
    BY FS_Subset, PickIsIn
  <2>1. SumOver(f, T) = f[p] + SumOver(f, B)
    BY <2>0, SumUnfolds
  <2>2. CASE x = p
    BY <2>1, <2>2
  <2>3. CASE x # p
    <3>1. /\ A \in SUBSET T /\ A # T /\ p \in A /\ C = A \ {p}
          /\ B \in SUBSET T /\ B # T /\ x \in B /\ C = B \ {x}
      BY <2>0, <2>3
    <3>2. C \in SUBSET S /\ IsFiniteSet(C)
      BY <2>0, <3>1, FS_Subset
    <3> HIDE DEF p, A, B, C
    <3>3. SumOver(f, A) = f[p] + SumOver(f, C)
      BY <1>1, <3>1
    <3>4. SumOver(f, B) = f[x] + SumOver(f, C)
      BY <1>1, <3>1
    <3>5. SumOver(f, C) \in Int
      BY <3>2, SumInt
    <3>6. f[x] \in Int /\ f[p] \in Int
      BY <2>0
    <3>7. SumOver(f, T) = f[x] + SumOver(f, A)
      BY <2>1, <3>3, <3>4, <3>5, <3>6
    <3> QED  BY <3>7 DEF A
  <2> QED  BY <2>2, <2>3
<1> HIDE DEF Good
<1>2. S \in Good
  <2>1. SUBSET S \subseteq Good
    BY <1>1, SmallerFirst
  <2>2. S \in SUBSET S
    OBVIOUS
  <2> QED  BY <2>1, <2>2
<1> QED  BY <1>2 DEF Good

LEMMA SumGrows ==
  ASSUME NEW f, NEW S, IsFiniteSet(S), NEW x, x \notin S, f[x] \in Int, \A y \in S : f[y] \in Int
  PROVE  SumOver(f, S \cup {x}) = f[x] + SumOver(f, S)
<1>1. IsFiniteSet(S \cup {x}) /\ x \in S \cup {x} /\ (S \cup {x}) \ {x} = S
  BY FS_AddElement
<1>2. \A y \in S \cup {x} : f[y] \in Int
  OBVIOUS
<1> DEFINE T == S \cup {x}
<1> HIDE DEF T
<1>3. SumOver(f, T) = f[x] + SumOver(f, T \ {x})
  BY <1>1, <1>2, SumPeels DEF T
<1> QED  BY <1>1, <1>3 DEF T

\* Sums of functions that are alike are.
LEMMA SumSame ==
  ASSUME NEW f, NEW g, NEW S, IsFiniteSet(S), \A x \in S : f[x] = g[x] /\ g[x] \in Int
  PROVE  SumOver(f, S) = SumOver(g, S)
<1> DEFINE Good == {T \in SUBSET S : SumOver(f, T) = SumOver(g, T)}
<1>1. {} \in Good
  <2>1. \A any : SumOver(any, {}) = 0
    BY SumUnfolds, FS_EmptySet
  <2> QED  BY <2>1
<1>2. ASSUME NEW T \in SUBSET S, NEW x \in S, T \in Good, x \notin T
      PROVE  T \cup {x} \in Good
  <2>1. IsFiniteSet(T) /\ T \cup {x} \in SUBSET S
    BY FS_Subset
  <2>2. SumOver(f, T \cup {x}) = f[x] + SumOver(f, T)
    BY <1>2, <2>1, SumGrows
  <2>3. SumOver(g, T \cup {x}) = g[x] + SumOver(g, T)
    BY <1>2, <2>1, SumGrows
  <2> QED  BY <1>2, <2>1, <2>2, <2>3
<1> HIDE DEF Good
<1>3. SUBSET S \subseteq Good
  BY <1>1, <1>2, OneAtATime
<1> QED  BY <1>3 DEF Good

\* A sum is at most another where its shares are.
LEMMA SumAtMost ==
  ASSUME NEW f, NEW g, NEW S, IsFiniteSet(S),
         \A x \in S : f[x] \in Int /\ g[x] \in Int /\ f[x] <= g[x]
  PROVE  SumOver(f, S) <= SumOver(g, S)
<1> DEFINE Good == {T \in SUBSET S : SumOver(f, T) <= SumOver(g, T)}
<1>1. {} \in Good
  <2>1. \A any : SumOver(any, {}) = 0
    BY SumUnfolds, FS_EmptySet
  <2> QED  BY <2>1
<1>2. ASSUME NEW T \in SUBSET S, NEW x \in S, T \in Good, x \notin T
      PROVE  T \cup {x} \in Good
  <2>1. IsFiniteSet(T) /\ T \cup {x} \in SUBSET S
    BY FS_Subset
  <2>2. SumOver(f, T \cup {x}) = f[x] + SumOver(f, T)
    BY <1>2, <2>1, SumGrows
  <2>3. SumOver(g, T \cup {x}) = g[x] + SumOver(g, T)
    BY <1>2, <2>1, SumGrows
  <2>4. SumOver(f, T) \in Int /\ SumOver(g, T) \in Int
    BY <2>1, SumInt
  <2> QED  BY <1>2, <2>1, <2>2, <2>3, <2>4
<1> HIDE DEF Good
<1>3. SUBSET S \subseteq Good
  BY <1>1, <1>2, OneAtATime
<1> QED  BY <1>3 DEF Good

LEMMA SumOfNone ==
  ASSUME NEW f, NEW S, IsFiniteSet(S), \A x \in S : f[x] = 0
  PROVE  SumOver(f, S) = 0
<1> DEFINE Good == {T \in SUBSET S : SumOver(f, T) = 0}
<1>1. {} \in Good
  <2>1. \A any : SumOver(any, {}) = 0
    BY SumUnfolds, FS_EmptySet
  <2> QED  BY <2>1
<1>2. ASSUME NEW T \in SUBSET S, NEW x \in S, T \in Good, x \notin T
      PROVE  T \cup {x} \in Good
  <2>1. IsFiniteSet(T) /\ T \cup {x} \in SUBSET S
    BY FS_Subset
  <2>2. SumOver(f, T \cup {x}) = f[x] + SumOver(f, T)
    BY <1>2, <2>1, SumGrows
  <2> QED  BY <1>2, <2>1, <2>2
<1> HIDE DEF Good
<1>3. SUBSET S \subseteq Good
  BY <1>1, <1>2, OneAtATime
<1> QED  BY <1>3 DEF Good

\* A sum of naturals is one, and no share is more than it.
LEMMA SumNat ==
  ASSUME NEW f, NEW S, IsFiniteSet(S), \A x \in S : f[x] \in Nat
  PROVE  SumOver(f, S) \in Nat /\ \A x \in S : f[x] <= SumOver(f, S)
<1>1. ASSUME NEW T \in SUBSET S
      PROVE  SumOver(f, T) \in Nat
  <2> DEFINE zero == [x \in S |-> 0]
  <2>1. IsFiniteSet(T)
    BY FS_Subset
  <2>2. SumOver(zero, T) = 0
    BY <2>1, SumOfNone
  <2>3. SumOver(f, T) \in Int
    BY <2>1, SumInt
  <2>4. \A x \in T : zero[x] \in Int /\ f[x] \in Int /\ zero[x] <= f[x]
    OBVIOUS
  <2> HIDE DEF zero
  <2>5. SumOver(zero, T) <= SumOver(f, T)
    BY <2>1, <2>4, SumAtMost
  <2> QED  BY <2>2, <2>3, <2>5
<1>2. ASSUME NEW x \in S
      PROVE  f[x] <= SumOver(f, S)
  <2>1. SumOver(f, S) = f[x] + SumOver(f, S \ {x})
    BY SumPeels
  <2>2. SumOver(f, S \ {x}) \in Nat
    BY <1>1
  <2> QED  BY <2>1, <2>2
<1> QED  BY <1>1, <1>2

\* Sums add up share by share.
LEMMA SumPlus ==
  ASSUME NEW f, NEW g, NEW h, NEW S, IsFiniteSet(S),
         \A x \in S : f[x] \in Int /\ g[x] \in Int /\ h[x] = f[x] + g[x]
  PROVE  SumOver(h, S) = SumOver(f, S) + SumOver(g, S)
<1> DEFINE Good == {T \in SUBSET S : SumOver(h, T) = SumOver(f, T) + SumOver(g, T)}
<1>1. {} \in Good
  <2>1. \A any : SumOver(any, {}) = 0
    BY SumUnfolds, FS_EmptySet
  <2> QED  BY <2>1
<1>2. ASSUME NEW T \in SUBSET S, NEW x \in S, T \in Good, x \notin T
      PROVE  T \cup {x} \in Good
  <2>1. IsFiniteSet(T) /\ T \cup {x} \in SUBSET S
    BY FS_Subset
  <2>2. SumOver(f, T \cup {x}) = f[x] + SumOver(f, T)
    BY <1>2, <2>1, SumGrows
  <2>3. SumOver(g, T \cup {x}) = g[x] + SumOver(g, T)
    BY <1>2, <2>1, SumGrows
  <2>4. \A y \in S : h[y] \in Int
    OBVIOUS
  <2>5. SumOver(h, T \cup {x}) = h[x] + SumOver(h, T)
    BY <1>2, <2>1, <2>4, SumGrows
  <2>6. SumOver(f, T) \in Int /\ SumOver(g, T) \in Int
    BY <2>1, SumInt
  <2> QED  BY <1>2, <2>1, <2>2, <2>3, <2>5, <2>6
<1> HIDE DEF Good
<1>3. SUBSET S \subseteq Good
  BY <1>1, <1>2, OneAtATime
<1> QED  BY <1>3 DEF Good

\* Shares that are all so many times as large have a sum that is.
LEMMA SumTimes ==
  ASSUME NEW f, NEW g, NEW S, IsFiniteSet(S), NEW k \in Int,
         \A x \in S : f[x] \in Int /\ g[x] = k * f[x]
  PROVE  SumOver(g, S) = k * SumOver(f, S)
<1> DEFINE Good == {T \in SUBSET S : SumOver(g, T) = k * SumOver(f, T)}
<1>1. {} \in Good
  <2>1. SumOver(f, {}) = 0 /\ SumOver(g, {}) = 0
    BY FS_EmptySet, SumUnfolds
  <2> QED  BY <2>1
<1>2. ASSUME NEW T \in SUBSET S, NEW x \in S, T \in Good, x \notin T
      PROVE  T \cup {x} \in Good
  <2>1. IsFiniteSet(T) /\ \A y \in T \cup {x} : f[y] \in Int /\ g[y] \in Int /\ g[y] = k * f[y]
    BY FS_Subset
  <2> DEFINE a == SumOver(f, T)
             c == SumOver(g, T)
  <2>2. a \in Int /\ c = k * a
    BY <1>2, <2>1, SumInt
  <2>3. SumOver(f, T \cup {x}) = f[x] + a /\ SumOver(g, T \cup {x}) = g[x] + c
    BY <1>2, <2>1, SumGrows
  <2> HIDE DEF a, c
  <2>4. \A m, n \in Int : k * (m + n) = k * m + k * n
    OBVIOUS
  <2>5. g[x] + c = k * (f[x] + a)
    BY <2>1, <2>2, <2>4
  <2> QED  BY <2>3, <2>5
<1> HIDE DEF Good
<1>3. SUBSET S \subseteq Good
  BY <1>1, <1>2, OneAtATime
<1> QED  BY <1>3 DEF Good

\* Where only some of the shares are anything, the sum is theirs.
LEMMA SumOfSome ==
  ASSUME NEW f, NEW S, IsFiniteSet(S), NEW T \in SUBSET S, \A x \in S : f[x] \in Int,
         \A x \in S \ T : f[x] = 0
  PROVE  SumOver(f, S) = SumOver(f, T)
<1> DEFINE R == S \ T
           Good == {U \in SUBSET R : SumOver(f, T \cup U) = SumOver(f, T)}
<1>0. IsFiniteSet(R) /\ IsFiniteSet(T)
  BY FS_Subset
<1>1. {} \in Good
  <2>1. T \cup {} = T
    OBVIOUS
  <2> QED  BY <2>1
<1>2. ASSUME NEW U \in SUBSET R, NEW x \in R, U \in Good, x \notin U
      PROVE  U \cup {x} \in Good
  <2>1. /\ (T \cup U) \in SUBSET S /\ x \notin T \cup U /\ f[x] = 0 /\ f[x] \in Int
        /\ \A y \in T \cup U : f[y] \in Int
    BY <1>2
  <2>2. IsFiniteSet(T \cup U)
    BY <2>1, FS_Subset
  <2>3. SumOver(f, (T \cup U) \cup {x}) = f[x] + SumOver(f, T \cup U) /\ SumOver(f, T \cup U) \in Int
    BY <2>1, <2>2, SumGrows, SumInt
  <2>4. T \cup (U \cup {x}) = (T \cup U) \cup {x} /\ SumOver(f, T \cup U) = SumOver(f, T)
    BY <1>2
  <2>5. SumOver(f, (T \cup U) \cup {x}) = SumOver(f, T)
    BY <2>1, <2>3, <2>4
  <2>6. SumOver(f, T \cup (U \cup {x})) = SumOver(f, T) /\ (U \cup {x}) \in SUBSET R
    BY <2>4, <2>5
  <2> QED  BY <2>6
<1>3. T \cup R = S
  OBVIOUS
<1> HIDE DEF Good, R
<1>4. SUBSET R \subseteq Good
  BY <1>0, <1>1, <1>2, OneAtATime
<1> QED  BY <1>3, <1>4 DEF Good

LEMMA SumOfOne ==
  ASSUME NEW f, NEW S, IsFiniteSet(S), NEW o \in S, f[o] \in Int, \A x \in S \ {o} : f[x] = 0
  PROVE  SumOver(f, S) = f[o]
<1>1. \A x \in S : f[x] \in Int
  OBVIOUS
<1>2. IsFiniteSet(S \ {o})
  BY FS_Subset
<1>3. SumOver(f, S \ {o}) = 0
  BY <1>2, SumOfNone
<1>4. SumOver(f, S) = f[o] + SumOver(f, S \ {o})
  BY <1>1, SumPeels
<1> QED  BY <1>3, <1>4

\* A sum of shares that are each at most so much.
LEMMA SumIsBounded ==
  ASSUME NEW f, NEW S, IsFiniteSet(S), NEW k \in Nat, \A x \in S : f[x] \in Nat /\ f[x] <= k
  PROVE  SumOver(f, S) \in Nat /\ SumOver(f, S) <= k * Cardinality(S)
<1> DEFINE Good == {T \in SUBSET S : SumOver(f, T) <= k * Cardinality(T)}
<1>1. {} \in Good
  <2>1. SumOver(f, {}) = 0 /\ Cardinality({}) = 0
    BY FS_EmptySet, SumUnfolds
  <2> QED  BY <2>1
<1>2. ASSUME NEW T \in SUBSET S, NEW x \in S, T \in Good, x \notin T
      PROVE  T \cup {x} \in Good
  <2>1. IsFiniteSet(T) /\ f[x] \in Int /\ f[x] <= k /\ \A y \in T : f[y] \in Int
    BY FS_Subset
  <2> DEFINE a == SumOver(f, T)
             n == Cardinality(T)
  <2>2. a \in Int /\ n \in Nat /\ a <= k * n
    BY <1>2, <2>1, SumInt, FS_CardinalityType
  <2>3. SumOver(f, T \cup {x}) = f[x] + a /\ Cardinality(T \cup {x}) = n + 1
    BY <1>2, <2>1, SumGrows, FS_AddElement
  <2> HIDE DEF a, n
  <2>4. k * (n + 1) = k * n + k /\ k * n \in Int
    BY <2>2
  <2>5. f[x] + a <= k * (n + 1)
    BY <2>1, <2>2, <2>4
  <2> QED  BY <2>3, <2>5
<1> HIDE DEF Good
<1>3. SUBSET S \subseteq Good
  BY <1>1, <1>2, OneAtATime
<1> QED  BY <1>3, SumNat DEF Good

\* A table, by rows and by columns, and what each of them comes to.
Table(A, B, m, n, rows, columns) ==
  /\ IsFiniteSet(A) /\ IsFiniteSet(B)
  /\ \A a \in A, c \in B : m[a][c] \in Int /\ n[c][a] = m[a][c]
  /\ \A a \in A : rows[a] = SumOver(m[a], B)
  /\ \A c \in B : columns[c] = SumOver(n[c], A)

\* It does not matter whether the rows or the columns are added up first.
LEMMA SumsSwap ==
  ASSUME NEW A, NEW B, NEW m, NEW n, NEW rows, NEW columns, Table(A, B, m, n, rows, columns)
  PROVE  SumOver(rows, A) = SumOver(columns, B)
<1>t. /\ IsFiniteSet(A) /\ IsFiniteSet(B)
      /\ \A a \in A, c \in B : m[a][c] \in Int /\ n[c][a] = m[a][c]
      /\ \A a \in A : rows[a] = SumOver(m[a], B)
      /\ \A c \in B : columns[c] = SumOver(n[c], A)
  BY DEF Table
<1> USE <1>t
<1> DEFINE below(T) == [c \in B |-> SumOver(n[c], T)]
           Good == {T \in SUBSET A : SumOver(rows, T) = SumOver(below(T), B)}
<1>0. \A a \in A : rows[a] \in Int
  BY SumInt
<1>1. \A T \in SUBSET A : IsFiniteSet(T)
  BY FS_Subset
<1>2. \A a \in A, c \in B : n[c][a] = m[a][c] /\ n[c][a] \in Int
  OBVIOUS
<1>3. \A T \in SUBSET A, c \in B : below(T)[c] = SumOver(n[c], T)
  OBVIOUS
<1> HIDE DEF below
<1>4. {} \in Good
  <2>1. \A h : SumOver(h, {}) = 0
    BY FS_EmptySet, SumUnfolds
  <2>2. \A c \in B : below({})[c] = 0
    <3>1. {} \in SUBSET A
      OBVIOUS
    <3> QED  BY <1>3, <2>1, <3>1
  <2> QED  BY <2>1, <2>2, SumOfNone
<1>5. ASSUME NEW T \in SUBSET A, NEW x \in A, T \in Good, x \notin T
      PROVE  T \cup {x} \in Good
  <2>1. SumOver(rows, T \cup {x}) = rows[x] + SumOver(rows, T)
    BY <1>0, <1>1, <1>5, SumGrows
  <2>2. ASSUME NEW c \in B
        PROVE  /\ m[x][c] \in Int /\ below(T)[c] \in Int
               /\ below(T \cup {x})[c] = m[x][c] + below(T)[c]
    <3>1. \A y \in T \cup {x} : n[c][y] \in Int
      BY <1>2
    <3>2. SumOver(n[c], T \cup {x}) = n[c][x] + SumOver(n[c], T) /\ SumOver(n[c], T) \in Int
      BY <1>1, <1>5, <3>1, SumGrows, SumInt
    <3> QED  BY <1>2, <1>3, <3>2
  <2>3. SumOver(below(T \cup {x}), B) = SumOver(m[x], B) + SumOver(below(T), B)
    <3> DEFINE f == m[x]
               g == below(T)
               h == below(T \cup {x})
    <3>1. \A c \in B : f[c] \in Int /\ g[c] \in Int /\ h[c] = f[c] + g[c]
      BY <2>2
    <3> HIDE DEF f, g, h
    <3>2. SumOver(h, B) = SumOver(f, B) + SumOver(g, B)
      BY <3>1, SumPlus
    <3> QED  BY <3>2 DEF f, g, h
  <2> QED  BY <1>5, <2>1, <2>3
<1> HIDE DEF Good
<1>6. SUBSET A \subseteq Good
  BY <1>4, <1>5, OneAtATime
<1>7. SumOver(rows, A) = SumOver(below(A), B)
  BY <1>6 DEF Good
<1>8. SumOver(columns, B) = SumOver(below(A), B)
  <2>1. \A c \in B : columns[c] = below(A)[c] /\ below(A)[c] \in Int
    <3> SUFFICES ASSUME NEW c \in B
                 PROVE  columns[c] = below(A)[c] /\ below(A)[c] \in Int
      OBVIOUS
    <3>1. columns[c] = SumOver(n[c], A)
      OBVIOUS
    <3>2. SumOver(n[c], A) \in Int
      BY <1>2, SumInt
    <3> QED  BY <1>3, <3>1, <3>2
  <2> QED  BY <2>1, SumSame
<1> QED  BY <1>7, <1>8

LEMMA Products ==
  ASSUME NEW a \in Nat, NEW b \in Nat
  PROVE  a * b \in Nat
OBVIOUS

LEMMA Quotients ==
  ASSUME NEW a \in Nat, NEW n \in Nat, n > 0
  PROVE  a \div n \in Nat
OBVIOUS

---------------------------------------------------------------------------
(* Numbers and sequences.                                                  *)

\* A set that has zero and of every number the next has all of them.
LEMMA CountingUp ==
  ASSUME NEW Good, 0 \in Good, \A n \in Nat : n \in Good => n + 1 \in Good
  PROVE  Nat \subseteq Good
<1> DEFINE Bad == Nat \ Good
           Less == OpToRel(<, Nat)
<1> SUFFICES ASSUME Bad # {} PROVE FALSE
  OBVIOUS
<1>1. IsWellFoundedOn(Less, Nat)
  BY NatLessThanWellFounded
<1>2. Bad \subseteq Nat
  OBVIOUS
<1>3. PICK m \in Bad : \A n \in Bad : <<n, m>> \notin Less
  <2> HIDE DEF Bad, Less
  <2> QED BY <1>1, <1>2, WFMin
<1>4. m \in Nat /\ m \notin Good /\ m # 0 /\ m - 1 \in Nat /\ m - 1 < m
  OBVIOUS
<1>5. m - 1 \in Good
  <2>1. <<m - 1, m>> \in Less
    BY <1>4 DEF OpToRel
  <2> QED BY <1>3, <1>4, <2>1
<1> QED BY <1>4, <1>5

\* A set of sequences that has the empty one and of every one it has those with one element more
\* has all of them.
LEMMA OneLonger ==
  ASSUME NEW A, NEW Good, <<>> \in Good,
         \A s \in Seq(A) : \A x \in A : s \in Good => Append(s, x) \in Good
  PROVE  Seq(A) \subseteq Good
<1> DEFINE Fine == {n \in Nat : \A s \in Seq(A) : Len(s) = n => s \in Good}
<1>1. 0 \in Fine
  BY EmptySeq
<1>2. ASSUME NEW n \in Nat, n \in Fine
      PROVE  n + 1 \in Fine
  <2> SUFFICES ASSUME NEW s \in Seq(A), Len(s) = n + 1
               PROVE  s \in Good
    OBVIOUS
  <2>1. s # <<>>
    BY EmptySeq
  <2>2. PICK t \in Seq(A), x \in A : s = Append(t, x)
    BY <2>1, SequenceEmptyOrAppend
  <2>3. Len(t) = n
    BY <2>2
  <2> QED BY <1>2, <2>2, <2>3
<1> HIDE DEF Fine
<1>3. Nat \subseteq Fine
  BY <1>1, <1>2, CountingUp
<1> QED BY <1>3 DEF Fine

\* What is in a sequence.
LEMMA InASequence ==
  ASSUME NEW A
  PROVE  /\ ToSet(<<>>) = {}
         /\ \A s \in Seq(A) : /\ ToSet(s) \subseteq A /\ ToSet(s) = {s[i] : i \in 1 .. Len(s)}
                              /\ \A x \in A : ToSet(Append(s, x)) = ToSet(s) \cup {x}
                              /\ s # <<>> => ToSet(s) = {Head(s)} \cup ToSet(Tail(s))
         /\ \A s, t \in Seq(A) : ToSet(s \o t) = ToSet(s) \cup ToSet(t)
<1>1. ToSet(<<>>) = {}
  BY DEF ToSet
<1>2. ASSUME NEW s \in Seq(A)
      PROVE  /\ ToSet(s) \subseteq A /\ ToSet(s) = {s[i] : i \in 1 .. Len(s)}
             /\ \A x \in A : ToSet(Append(s, x)) = ToSet(s) \cup {x}
             /\ s # <<>> => ToSet(s) = {Head(s)} \cup ToSet(Tail(s))
  <2>1. ToSet(s) \subseteq A /\ ToSet(s) = {s[i] : i \in 1 .. Len(s)}
    BY DEF ToSet
  <2>2. ASSUME NEW x \in A
        PROVE  ToSet(Append(s, x)) = ToSet(s) \cup {x}
    <3> DEFINE t == Append(s, x)
    <3>1. /\ t \in Seq(A) /\ Len(t) = Len(s) + 1 /\ Len(s) \in Nat
          /\ DOMAIN s = 1 .. Len(s) /\ DOMAIN t = 1 .. Len(s) + 1
          /\ t[Len(s) + 1] = x /\ \A i \in 1 .. Len(s) : t[i] = s[i]
      BY AppendProperties, LenProperties
    <3> HIDE DEF t
    <3>2. ToSet(t) \subseteq ToSet(s) \cup {x}
      BY <3>1 DEF ToSet
    <3>3. ToSet(s) \subseteq ToSet(t)
      BY <3>1 DEF ToSet
    <3>4. x \in ToSet(t)
      BY <3>1 DEF ToSet
    <3>5. ToSet(t) = ToSet(s) \cup {x}
      BY <3>2, <3>3, <3>4
    <3> QED BY <3>5 DEF t
  <2>3. ASSUME s # <<>>
        PROVE  ToSet(s) = {Head(s)} \cup ToSet(Tail(s))
    <3> DEFINE t == Tail(s)
    <3>1. /\ t \in Seq(A) /\ Len(t) = Len(s) - 1 /\ Len(s) \in Nat /\ Len(s) > 0
          /\ DOMAIN s = 1 .. Len(s) /\ DOMAIN t = 1 .. Len(s) - 1
          /\ s[1] = Head(s) /\ \A i \in 1 .. Len(s) - 1 : t[i] = s[i + 1]
      BY <2>3, HeadTailProperties, LenProperties, EmptySeq
    <3> HIDE DEF t
    <3>2. ToSet(t) \subseteq ToSet(s) /\ Head(s) \in ToSet(s)
      BY <3>1 DEF ToSet
    <3>3. ASSUME NEW i \in 1 .. Len(s)
          PROVE  s[i] \in {Head(s)} \cup ToSet(t)
      <4>1. CASE i = 1
        BY <3>1, <4>1
      <4>2. CASE i # 1
        <5>1. i - 1 \in 1 .. Len(s) - 1 /\ (i - 1) + 1 = i
          BY <3>1, <4>2
        <5> QED BY <3>1, <5>1 DEF ToSet
      <4> QED BY <4>1, <4>2
    <3>4. ToSet(s) = {Head(s)} \cup ToSet(t)
      BY <2>1, <3>2, <3>3
    <3> QED BY <3>4 DEF t
  <2> QED BY <2>1, <2>2, <2>3
<1>3. ASSUME NEW s \in Seq(A), NEW t \in Seq(A)
      PROVE  ToSet(s \o t) = ToSet(s) \cup ToSet(t)
  <2> DEFINE u == s \o t
  <2>1. /\ u \in Seq(A) /\ Len(u) = Len(s) + Len(t) /\ Len(s) \in Nat /\ Len(t) \in Nat
        /\ DOMAIN s = 1 .. Len(s) /\ DOMAIN t = 1 .. Len(t) /\ DOMAIN u = 1 .. Len(s) + Len(t)
        /\ \A i \in 1 .. Len(s) + Len(t) : u[i] = IF i <= Len(s) THEN s[i] ELSE t[i - Len(s)]
    BY ConcatProperties, LenProperties
  <2> HIDE DEF u
  <2>2. ToSet(s) \subseteq ToSet(u)
    BY <2>1 DEF ToSet
  <2>3. ToSet(t) \subseteq ToSet(u)
    <3> SUFFICES ASSUME NEW i \in 1 .. Len(t) PROVE t[i] \in ToSet(u)
      BY <2>1 DEF ToSet
    <3>1. i + Len(s) \in 1 .. Len(s) + Len(t) /\ u[i + Len(s)] = t[i]
      BY <2>1
    <3> QED BY <2>1, <3>1 DEF ToSet
  <2>4. ToSet(u) \subseteq ToSet(s) \cup ToSet(t)
    <3> SUFFICES ASSUME NEW i \in 1 .. Len(s) + Len(t) PROVE u[i] \in ToSet(s) \cup ToSet(t)
      BY <2>1 DEF ToSet
    <3>1. CASE i <= Len(s)
      BY <2>1, <3>1 DEF ToSet
    <3>2. CASE ~(i <= Len(s))
      <4>1. i - Len(s) \in 1 .. Len(t) /\ u[i] = t[i - Len(s)]
        BY <2>1, <3>2
      <4> QED BY <2>1, <4>1 DEF ToSet
    <3> QED BY <3>1, <3>2
  <2>5. ToSet(u) = ToSet(s) \cup ToSet(t)
    BY <2>2, <2>3, <2>4
  <2> QED BY <2>5 DEF u
<1> QED BY <1>1, <1>2, <1>3

\* The numbers up to n are n.
LEMMA SoManyAreCounted ==
  ASSUME NEW n \in Nat
  PROVE  IsFiniteSet(1 .. n) /\ Cardinality(1 .. n) = n
<1>1. CASE n = 0
  BY <1>1, FS_EmptySet
<1>2. CASE n > 0
  BY <1>2, FS_Interval
<1> QED BY <1>1, <1>2

\* A sequence has finitely many elements.
LEMMA FinitelyMany ==
  ASSUME NEW A, NEW s \in Seq(A)
  PROVE  IsFiniteSet(ToSet(s))
<1>1. /\ Len(s) \in Nat /\ s \in [1 .. Len(s) -> A] /\ ToSet(s) = {s[i] : i \in 1 .. Len(s)}
  BY InASequence, LenProperties
<1>2. s \in Surjection(1 .. Len(s), ToSet(s))
  BY <1>1 DEF Surjection
<1>3. IsFiniteSet(1 .. Len(s))
  BY <1>1, SoManyAreCounted
<1> QED BY <1>2, <1>3, FS_Surjection

---------------------------------------------------------------------------
(* Folds.                                                                  *)

\* The function by which Folded is defined, for so much of a sequence.
FoldAt(step, base, s, f, i) == IF i = 0 THEN base ELSE step[<<f[i - 1], s[i]>>]
Folds(step, base, s, n, f) == f = [i \in 0 .. n |-> FoldAt(step, base, s, f, i)]
TheFold(step, base, s, n) == CHOOSE f : Folds(step, base, s, n, f)

LEMMA FoldedIsItsFunction ==
  ASSUME NEW step, NEW base, NEW s
  PROVE  Folded(step, base, s) = TheFold(step, base, s, Len(s))[Len(s)]
BY DEF Folded, TheFold, Folds, FoldAt

\* There is one for any part of a sequence.
LEMMA FoldsExist ==
  ASSUME NEW step, NEW base, NEW s, NEW n \in Nat
  PROVE  Folds(step, base, s, n, TheFold(step, base, s, n))
<1> DEFINE Good == {m \in Nat : \E f : Folds(step, base, s, m, f)}
<1>1. 0 \in Good
  <2> DEFINE f == [i \in 0 .. 0 |-> base]
  <2>1. Folds(step, base, s, 0, f)
    BY DEF Folds, FoldAt
  <2> QED BY <2>1
<1>2. ASSUME NEW m \in Nat, m \in Good
      PROVE  m + 1 \in Good
  <2>1. PICK f : Folds(step, base, s, m, f)
    BY <1>2
  <2> DEFINE more == [i \in 0 .. m + 1 |-> IF i <= m THEN f[i] ELSE step[<<f[m], s[i]>>]]
  <2>2. ASSUME NEW i \in 0 .. m + 1
        PROVE  more[i] = FoldAt(step, base, s, more, i)
    <3>1. CASE i <= m
      <4>1. i \in 0 .. m /\ more[i] = f[i] /\ (i # 0 => i - 1 \in 0 .. m + 1 /\ more[i - 1] = f[i - 1])
        BY <3>1
      <4>2. f[i] = FoldAt(step, base, s, f, i)
        BY <2>1, <4>1 DEF Folds
      <4> QED BY <4>1, <4>2 DEF FoldAt
    <3>2. CASE i = m + 1
      BY <3>2 DEF FoldAt
    <3> QED BY <3>1, <3>2
  <2>3. Folds(step, base, s, m + 1, more)
    <3>1. more = [i \in 0 .. m + 1 |-> more[i]]
      OBVIOUS
    <3> HIDE DEF more
    <3> QED BY <2>2, <3>1 DEF Folds
  <2> HIDE DEF more
  <2> QED BY <2>3
<1> HIDE DEF Good
<1>3. n \in Good
  BY <1>1, <1>2, CountingUp
<1> QED BY <1>3 DEF Good, TheFold

LEMMA FoldStep ==
  ASSUME NEW step, NEW base, NEW s, NEW n \in Nat, NEW f, Folds(step, base, s, n, f)
  PROVE  \A i \in 0 .. n : f[i] = FoldAt(step, base, s, f, i)
<1> DEFINE body == [i \in 0 .. n |-> FoldAt(step, base, s, f, i)]
<1>1. f = body
  BY DEF Folds
<1>2. \A i \in 0 .. n : body[i] = FoldAt(step, base, s, f, i)
  OBVIOUS
<1> HIDE DEF body
<1> QED BY <1>1, <1>2

\* Two of them agree as far as both go, if the sequences do.
LEMMA FoldsAgree ==
  ASSUME NEW step, NEW base, NEW s, NEW t, NEW m \in Nat, NEW n \in Nat, m <= n,
         \A i \in 1 .. m : s[i] = t[i],
         NEW f, Folds(step, base, s, m, f), NEW g, Folds(step, base, t, n, g)
  PROVE  \A i \in 0 .. m : f[i] = g[i]
<1> DEFINE Good == {i \in Nat : i <= m => f[i] = g[i]}
<1>0. \A i \in 0 .. m : f[i] = FoldAt(step, base, s, f, i) /\ g[i] = FoldAt(step, base, t, g, i)
  <2>1. \A i \in 0 .. m : f[i] = FoldAt(step, base, s, f, i)
    BY FoldStep
  <2>2. \A i \in 0 .. n : g[i] = FoldAt(step, base, t, g, i)
    BY FoldStep
  <2> QED BY <2>1, <2>2
<1>1. 0 \in Good
  <2>1. 0 \in 0 .. m
    OBVIOUS
  <2>2. f[0] = FoldAt(step, base, s, f, 0) /\ g[0] = FoldAt(step, base, t, g, 0)
    BY <1>0, <2>1
  <2>3. f[0] = g[0]
    BY <2>2, Zenon DEF FoldAt
  <2> QED BY <2>3
<1>2. ASSUME NEW i \in Nat, i \in Good
      PROVE  i + 1 \in Good
  <2> SUFFICES ASSUME i + 1 <= m PROVE f[i + 1] = g[i + 1]
    OBVIOUS
  <2> DEFINE k == i + 1
  <2>1. k \in 1 .. m /\ k - 1 = i /\ k # 0 /\ f[i] = g[i]
    BY <1>2
  <2> HIDE DEF k
  <2>2. s[k] = t[k] /\ f[k] = FoldAt(step, base, s, f, k) /\ g[k] = FoldAt(step, base, t, g, k)
    BY <1>0, <2>1
  <2>3. f[k] = step[<<f[i], s[k]>>] /\ g[k] = step[<<g[i], t[k]>>]
    BY <2>1, <2>2 DEF FoldAt
  <2>4. f[k] = g[k]
    BY <2>1, <2>2, <2>3
  <2> QED BY <2>4 DEF k
<1> HIDE DEF Good
<1>3. Nat \subseteq Good
  BY <1>1, <1>2, CountingUp
<1> QED BY <1>3 DEF Good

\* A fold over nothing is what it starts from; over one element more, a step from what it was.
LEMMA FoldedOfNothing ==
  ASSUME NEW step, NEW base
  PROVE  Folded(step, base, <<>>) = base
<1>1. Folds(step, base, <<>>, 0, TheFold(step, base, <<>>, 0))
  BY FoldsExist
<1>2. TheFold(step, base, <<>>, 0)[0] = base
  BY <1>1 DEF Folds, FoldAt
<1> QED BY <1>2, FoldedIsItsFunction

LEMMA FoldedOfOneMore ==
  ASSUME NEW step, NEW base, NEW A, NEW s \in Seq(A), NEW x \in A
  PROVE  Folded(step, base, Append(s, x)) = step[<<Folded(step, base, s), x>>]
<1> DEFINE n == Len(s)
           k == n + 1
           t == Append(s, x)
           f == TheFold(step, base, s, n)
           g == TheFold(step, base, t, k)
<1>1. n \in Nat /\ k \in Nat /\ k = n + 1 /\ Len(t) = k /\ t[k] = x /\ \A i \in 1 .. n : s[i] = t[i]
  BY AppendProperties
<1>2. Folds(step, base, s, n, f) /\ Folds(step, base, t, k, g)
  BY <1>1, FoldsExist
<1>3. Folded(step, base, s) = f[n] /\ Folded(step, base, t) = g[k]
  BY <1>1, FoldedIsItsFunction
<1> HIDE DEF n, k, t, f, g
<1>4. f[n] = g[n]
  <2>1. n <= k /\ n \in 0 .. n
    BY <1>1
  <2>2. /\ n \in Nat /\ k \in Nat /\ n <= k /\ \A i \in 1 .. n : s[i] = t[i]
        /\ Folds(step, base, s, n, f) /\ Folds(step, base, t, k, g)
    BY <1>1, <1>2, <2>1
  <2>3. \A i \in 0 .. n : f[i] = g[i]
    BY <2>2, FoldsAgree
  <2> QED BY <2>1, <2>3
<1>5. g[k] = step[<<g[n], t[k]>>]
  <2>1. k \in 0 .. k /\ k # 0 /\ k - 1 = n
    BY <1>1
  <2>2. g[k] = FoldAt(step, base, t, g, k)
    BY <1>1, <1>2, <2>1, FoldStep
  <2> QED BY <2>1, <2>2 DEF FoldAt
<1>6. Folded(step, base, t) = step[<<Folded(step, base, s), x>>]
  BY <1>1, <1>3, <1>4, <1>5
<1> QED BY <1>6 DEF t

\* A fold stays in what its steps stay in.
LEMMA FoldedIsIn ==
  ASSUME NEW step, NEW B, NEW base \in B, NEW A, \A b \in B, x \in A : step[<<b, x>>] \in B
  PROVE  \A s \in Seq(A) : Folded(step, base, s) \in B
<1> DEFINE Good == {s \in Seq(A) : Folded(step, base, s) \in B}
<1>1. <<>> \in Good
  BY FoldedOfNothing
<1>2. ASSUME NEW s \in Seq(A), NEW x \in A, s \in Good
      PROVE  Append(s, x) \in Good
  <2>1. Append(s, x) \in Seq(A)
    BY AppendProperties
  <2>2. Folded(step, base, Append(s, x)) = step[<<Folded(step, base, s), x>>]
    BY FoldedOfOneMore
  <2> QED BY <1>2, <2>1, <2>2
<1> HIDE DEF Good
<1>3. Seq(A) \subseteq Good
  BY <1>1, <1>2, OneLonger
<1> QED BY <1>3 DEF Good

---------------------------------------------------------------------------
(* What filter leaves.                                                     *)

\* The function by which Filtered is defined, for so much of a sequence.
UpTo(s, S, kept, i) ==
  IF i = 0 THEN <<>> ELSE IF s[i] \in S THEN Append(kept[i - 1], s[i]) ELSE kept[i - 1]
Filters(s, S, n, kept) == kept = [i \in 0 .. n |-> UpTo(s, S, kept, i)]
TheFilter(s, S, n) == CHOOSE kept : Filters(s, S, n, kept)

\* Filtered is what that function makes of the whole.
LEMMA FilteredIsItsFunction ==
  ASSUME NEW s, NEW S
  PROVE  Filtered(s, S) = TheFilter(s, S, Len(s))[Len(s)]
BY DEF Filtered, TheFilter, Filters, UpTo

\* There is one for any part of it.
LEMMA FiltersExist ==
  ASSUME NEW s, NEW S, NEW n \in Nat
  PROVE  Filters(s, S, n, TheFilter(s, S, n))
<1> DEFINE Good == {m \in Nat : \E kept : Filters(s, S, m, kept)}
<1>1. 0 \in Good
  <2> DEFINE kept == [i \in 0 .. 0 |-> <<>>]
  <2>1. Filters(s, S, 0, kept)
    BY DEF Filters, UpTo
  <2> QED BY <2>1
<1>2. ASSUME NEW m \in Nat, m \in Good
      PROVE  m + 1 \in Good
  <2>1. PICK kept : Filters(s, S, m, kept)
    BY <1>2
  <2> DEFINE more == [i \in 0 .. m + 1 |->
                        IF i <= m THEN kept[i]
                        ELSE IF s[i] \in S THEN Append(kept[m], s[i]) ELSE kept[m]]
  <2>2. ASSUME NEW i \in 0 .. m + 1
        PROVE  more[i] = UpTo(s, S, more, i)
    <3>1. CASE i <= m
      <4>1. i \in 0 .. m /\ more[i] = kept[i] /\ (i # 0 => i - 1 \in 0 .. m + 1 /\ more[i - 1] = kept[i - 1])
        BY <3>1
      <4>2. kept[i] = UpTo(s, S, kept, i)
        BY <2>1, <4>1 DEF Filters
      <4> QED BY <4>1, <4>2 DEF UpTo
    <3>2. CASE i = m + 1
      BY <3>2 DEF UpTo
    <3> QED BY <3>1, <3>2
  <2>3. Filters(s, S, m + 1, more)
    <3>1. more = [i \in 0 .. m + 1 |-> more[i]]
      OBVIOUS
    <3> HIDE DEF more
    <3> QED BY <2>2, <3>1 DEF Filters
  <2> HIDE DEF more
  <2> QED BY <2>3
<1> HIDE DEF Good
<1>3. n \in Good
  BY <1>1, <1>2, CountingUp
<1> QED BY <1>3 DEF Good, TheFilter

\* It obeys its rule at every place.
LEMMA FilterStep ==
  ASSUME NEW s, NEW S, NEW n \in Nat, NEW f, Filters(s, S, n, f)
  PROVE  \A i \in 0 .. n : f[i] = UpTo(s, S, f, i)
<1> DEFINE body == [i \in 0 .. n |-> UpTo(s, S, f, i)]
<1>1. f = body
  BY DEF Filters
<1>2. \A i \in 0 .. n : body[i] = UpTo(s, S, f, i)
  OBVIOUS
<1> HIDE DEF body
<1> QED BY <1>1, <1>2

\* Two of them agree as far as both go, if the sequences do.
LEMMA FiltersAgree ==
  ASSUME NEW s, NEW t, NEW S, NEW m \in Nat, NEW n \in Nat, m <= n,
         \A i \in 1 .. m : s[i] = t[i],
         NEW f, Filters(s, S, m, f), NEW g, Filters(t, S, n, g)
  PROVE  \A i \in 0 .. m : f[i] = g[i]
<1> DEFINE Good == {i \in Nat : i <= m => f[i] = g[i]}
<1>0. \A i \in 0 .. m : f[i] = UpTo(s, S, f, i) /\ g[i] = UpTo(t, S, g, i)
  <2>1. \A i \in 0 .. m : f[i] = UpTo(s, S, f, i)
    BY FilterStep
  <2>2. \A i \in 0 .. n : g[i] = UpTo(t, S, g, i)
    BY FilterStep
  <2> QED BY <2>1, <2>2
<1>1. 0 \in Good
  BY <1>0 DEF UpTo
<1>2. ASSUME NEW i \in Nat, i \in Good
      PROVE  i + 1 \in Good
  <2> SUFFICES ASSUME i + 1 <= m PROVE f[i + 1] = g[i + 1]
    OBVIOUS
  <2>1. /\ f[i + 1] = UpTo(s, S, f, i + 1) /\ g[i + 1] = UpTo(t, S, g, i + 1)
        /\ s[i + 1] = t[i + 1] /\ f[i] = g[i] /\ (i + 1) - 1 = i
    BY <1>0, <1>2
  <2> QED BY <2>1 DEF UpTo
<1> HIDE DEF Good
<1>3. Nat \subseteq Good
  BY <1>1, <1>2, CountingUp
<1> QED BY <1>3 DEF Good

\* Of nothing nothing is left.
LEMMA FilteredOfNothing ==
  ASSUME NEW S
  PROVE  Filtered(<<>>, S) = <<>>
<1>1. Filters(<<>>, S, 0, TheFilter(<<>>, S, 0))
  BY FiltersExist
<1>2. TheFilter(<<>>, S, 0)[0] = <<>>
  BY <1>1 DEF Filters, UpTo
<1> QED BY <1>2, FilteredIsItsFunction

\* Of one element more what is left of the others is, and that one if it passes.
LEMMA FilteredOfOneMore ==
  ASSUME NEW A, NEW S, NEW s \in Seq(A), NEW x \in A
  PROVE  /\ x \in S => Filtered(Append(s, x), S) = Append(Filtered(s, S), x)
         /\ x \notin S => Filtered(Append(s, x), S) = Filtered(s, S)
<1> DEFINE n == Len(s)
           t == Append(s, x)
           f == TheFilter(s, S, n)
           g == TheFilter(t, S, n + 1)
<1>1. n \in Nat /\ Len(t) = n + 1 /\ t[n + 1] = x /\ \A i \in 1 .. n : s[i] = t[i]
  BY AppendProperties
<1>2. Filters(s, S, n, f) /\ Filters(t, S, n + 1, g)
  BY <1>1, FiltersExist
<1>3. Filtered(s, S) = f[n] /\ Filtered(t, S) = g[n + 1]
  BY <1>1, FilteredIsItsFunction
<1> HIDE DEF n, t, f, g
<1>4. f[n] = g[n]
  <2>1. n + 1 \in Nat /\ n <= n + 1 /\ n \in 0 .. n
    BY <1>1
  <2>2. \A i \in 0 .. n : f[i] = g[i]
    <3> DEFINE k == n + 1
    <3>1. k \in Nat /\ n <= k /\ n \in Nat /\ Filters(t, S, k, g) /\ Filters(s, S, n, f)
          /\ \A i \in 1 .. n : s[i] = t[i]
      BY <1>1, <1>2, <2>1
    <3> HIDE DEF k
    <3> QED BY <3>1, FiltersAgree
  <2> QED BY <2>1, <2>2
<1>5. g[n + 1] = IF t[n + 1] \in S THEN Append(g[n], t[n + 1]) ELSE g[n]
  <2>1. n + 1 \in Nat /\ n + 1 \in 0 .. n + 1 /\ n + 1 # 0 /\ (n + 1) - 1 = n
    BY <1>1
  <2>2. g[n + 1] = UpTo(t, S, g, n + 1)
    BY <1>2, <2>1, FilterStep
  <2> QED BY <2>1, <2>2 DEF UpTo
<1>6. /\ x \in S => Filtered(t, S) = Append(Filtered(s, S), x)
      /\ x \notin S => Filtered(t, S) = Filtered(s, S)
  BY <1>1, <1>3, <1>4, <1>5
<1> QED BY <1>6 DEF t

\* What is left is so much of the sequence as is in the set, and not more of it.
LEMMA FilteredIs ==
  ASSUME NEW A, NEW S
  PROVE  \A s \in Seq(A) : /\ Filtered(s, S) \in Seq(A) /\ Len(Filtered(s, S)) <= Len(s)
                           /\ ToSet(Filtered(s, S)) = ToSet(s) \cap S
<1> DEFINE Good == {s \in Seq(A) : /\ Filtered(s, S) \in Seq(A) /\ Len(Filtered(s, S)) <= Len(s)
                                   /\ ToSet(Filtered(s, S)) = ToSet(s) \cap S}
<1>1. <<>> \in Good
  <2>1. Filtered(<<>>, S) = <<>>
    BY FilteredOfNothing
  <2>2. ToSet(<<>>) = {}
    BY InASequence
  <2>3. <<>> \in Seq(A) /\ Len(<<>>) <= Len(<<>>)
    OBVIOUS
  <2> QED BY <2>1, <2>2, <2>3
<1>2. ASSUME NEW s \in Seq(A), NEW x \in A, s \in Good
      PROVE  Append(s, x) \in Good
  <2> DEFINE f == Filtered(s, S)
             t == Append(s, x)
             g == Filtered(t, S)
  <2>1. /\ f \in Seq(A) /\ Len(f) <= Len(s) /\ ToSet(f) = ToSet(s) \cap S
        /\ Len(f) \in Nat /\ Len(s) \in Nat
    BY <1>2, LenProperties
  <2>2. (x \in S => g = Append(f, x)) /\ (x \notin S => g = f)
    BY FilteredOfOneMore
  <2>3. t \in Seq(A) /\ Len(t) = Len(s) + 1 /\ ToSet(t) = ToSet(s) \cup {x}
    BY AppendProperties, InASequence
  <2> HIDE DEF f
  <2>4. /\ Append(f, x) \in Seq(A) /\ Len(Append(f, x)) = Len(f) + 1
        /\ ToSet(Append(f, x)) = ToSet(f) \cup {x}
    BY <2>1, AppendProperties, InASequence
  <2> HIDE DEF t, g
  <2>5. g \in Seq(A) /\ Len(g) <= Len(t) /\ ToSet(g) = ToSet(t) \cap S
    <3>1. CASE x \in S
      <4>1. g = Append(f, x)
        BY <2>2, <3>1
      <4>2. g \in Seq(A) /\ Len(g) = Len(f) + 1 /\ ToSet(g) = ToSet(f) \cup {x}
        BY <2>4, <4>1
      <4>3. ToSet(g) = ToSet(t) \cap S
        BY <2>1, <2>3, <3>1, <4>2
      <4> QED BY <2>1, <2>3, <4>2, <4>3
    <3>2. CASE x \notin S
      BY <2>1, <2>2, <2>3, <3>2
    <3> QED BY <3>1, <3>2
  <2> QED BY <2>3, <2>5 DEF t, g
<1> HIDE DEF Good
<1>3. Seq(A) \subseteq Good
  BY <1>1, <1>2, OneLonger
<1> QED BY <1>3 DEF Good

\* Filtered by less, what was filtered already is what there would be anyway.
LEMMA FilteredTwice ==
  ASSUME NEW A, NEW S, NEW T, T \subseteq S
  PROVE  \A s \in Seq(A) : Filtered(Filtered(s, S), T) = Filtered(s, T)
<1> DEFINE Good == {s \in Seq(A) : Filtered(Filtered(s, S), T) = Filtered(s, T)}
<1>1. <<>> \in Good
  BY FilteredOfNothing, EmptySeq
<1>2. ASSUME NEW s \in Seq(A), NEW x \in A, s \in Good
      PROVE  Append(s, x) \in Good
  <2> DEFINE f == Filtered(s, S)
             t == Append(s, x)
  <2>1. f \in Seq(A) /\ Filtered(f, T) = Filtered(s, T)
    BY <1>2, FilteredIs
  <2>2. /\ x \in S => Filtered(t, S) = Append(f, x)
        /\ x \notin S => Filtered(t, S) = f
    BY FilteredOfOneMore
  <2>3. /\ x \in T => Filtered(t, T) = Append(Filtered(s, T), x)
        /\ x \notin T => Filtered(t, T) = Filtered(s, T)
    BY FilteredOfOneMore
  <2> HIDE DEF f
  <2>4. /\ x \in T => Filtered(Append(f, x), T) = Append(Filtered(f, T), x)
        /\ x \notin T => Filtered(Append(f, x), T) = Filtered(f, T)
    BY <2>1, FilteredOfOneMore
  <2>5. t \in Seq(A)
    BY AppendProperties
  <2> HIDE DEF t
  <2>6. Filtered(Filtered(t, S), T) = Filtered(t, T)
    <3>1. CASE x \in T
      BY <2>1, <2>2, <2>3, <2>4, <3>1
    <3>2. CASE x \notin T
      BY <2>1, <2>2, <2>3, <2>4, <3>2
    <3> QED BY <3>1, <3>2
  <2> QED BY <2>5, <2>6 DEF t
<1> HIDE DEF Good
<1>3. Seq(A) \subseteq Good
  BY <1>1, <1>2, OneLonger
<1> QED BY <1>3 DEF Good

---------------------------------------------------------------------------
(* The least of a finite set.                                              *)

\* R holds between any two, one way or the other, and is transitive.
Orders(R, S) ==
  /\ \A x, y \in S : <<x, y>> \in R \/ <<y, x>> \in R
  /\ \A x, y, z \in S : <<x, y>> \in R /\ <<y, z>> \in R => <<x, z>> \in R

LEMMA ALeastOne ==
  ASSUME NEW S, IsFiniteSet(S), S # {}, NEW R, Orders(R, S)
  PROVE  \E m \in S : \A x \in S : <<m, x>> \in R
<1> DEFINE Least(m, T) == \A x \in T : <<m, x>> \in R
           Good == {T \in SUBSET S : T # {} => \E m \in T : Least(m, T)}
<1>1. {} \in Good
  OBVIOUS
<1>2. ASSUME NEW T \in SUBSET S, NEW x \in S, T \in Good, x \notin T
      PROVE  T \cup {x} \in Good
  <2>0. <<x, x>> \in R
    BY DEF Orders
  <2>1. CASE T = {}
    <3>1. x \in T \cup {x} /\ Least(x, T \cup {x})
      BY <2>0, <2>1
    <3> QED BY <3>1
  <2>2. CASE T # {}
    <3>1. PICK m \in T : Least(m, T)
      BY <1>2, <2>2
    <3>2. CASE <<m, x>> \in R
      <4>1. m \in T \cup {x} /\ Least(m, T \cup {x})
        BY <3>1, <3>2
      <4> QED BY <4>1
    <3>3. CASE <<m, x>> \notin R
      <4>1. <<x, m>> \in R
        BY <3>1, <3>3 DEF Orders
      <4>2. \A y \in T : <<x, y>> \in R
        BY <3>1, <4>1 DEF Orders
      <4>3. x \in T \cup {x} /\ Least(x, T \cup {x})
        BY <2>0, <4>2
      <4> QED BY <4>3
    <3> QED BY <3>2, <3>3
  <2> QED BY <2>1, <2>2
<1> HIDE DEF Good
<1>3. S \in Good
  <2>1. SUBSET S \subseteq Good
    BY <1>1, <1>2, OneAtATime
  <2> QED BY <2>1
<1> QED BY <1>3 DEF Good

\* In particular of integers, the least and the greatest.
LEMMA LeastAndGreatest ==
  ASSUME NEW S \in SUBSET Int, IsFiniteSet(S), S # {}
  PROVE  /\ \E m \in S : \A x \in S : m <= x
         /\ \E m \in S : \A x \in S : x <= m
<1> DEFINE Up == {p \in S \X S : p[1] <= p[2]}
           Down == {p \in S \X S : p[2] <= p[1]}
<1>1. \A x, y \in S : (<<x, y>> \in Up <=> x <= y) /\ (<<x, y>> \in Down <=> y <= x)
  OBVIOUS
<1> HIDE DEF Up, Down
<1>2. Orders(Up, S) /\ Orders(Down, S)
  BY <1>1 DEF Orders
<1>3. \E m \in S : \A x \in S : <<m, x>> \in Up
  BY <1>2, ALeastOne
<1>4. \E m \in S : \A x \in S : <<m, x>> \in Down
  BY <1>2, ALeastOne
<1> QED BY <1>1, <1>3, <1>4
---------------------------------------------------------------------------
(* Backwards.                                                              *)

\* A sequence with one element more, read backwards, begins with it.
LEMMA BackwardsOfOneMore ==
  ASSUME NEW A, NEW s \in Seq(A), NEW x \in A
  PROVE  /\ Reverse(s) \in Seq(A) /\ <<x>> \o Reverse(s) \in Seq(A)
         /\ Reverse(Append(s, x)) = <<x>> \o Reverse(s)
<1> DEFINE r == Reverse(s)
           t == Append(s, x)
           u == Reverse(t)
           v == <<x>> \o r
<1>1. /\ Len(s) \in Nat /\ DOMAIN s = 1 .. Len(s) /\ \A i \in 1 .. Len(s) : s[i] \in A
      /\ t \in Seq(A) /\ Len(t) = Len(s) + 1 /\ t[Len(s) + 1] = x /\ \A i \in 1 .. Len(s) : t[i] = s[i]
  BY AppendProperties, LenProperties
<1>2. r \in Seq(A) /\ Len(r) = Len(s) /\ \A i \in 1 .. Len(s) : r[i] = s[Len(s) - i + 1]
  BY <1>1 DEF Reverse
<1>3. u \in Seq(A) /\ Len(u) = Len(s) + 1 /\ \A i \in 1 .. Len(s) + 1 : u[i] = t[(Len(s) + 1) - i + 1]
  <2> HIDE DEF t
  <2>1. \A i \in 1 .. Len(t) : t[Len(t) - i + 1] \in A
    BY <1>1
  <2> QED BY <1>1, <2>1 DEF Reverse
<1> HIDE DEF r, t, u
<1>4. <<x>> \in Seq(A) /\ Len(<<x>>) = 1 /\ <<x>>[1] = x
  OBVIOUS
<1>5. /\ v \in Seq(A) /\ Len(v) = 1 + Len(s) /\ v[1] = x
      /\ \A i \in 2 .. Len(s) + 1 : v[i] = r[i - 1]
  BY <1>1, <1>2, <1>4, ConcatProperties
<1> HIDE DEF v
<1>6. \A i \in 1 .. Len(s) + 1 : u[i] = v[i]
  <2> TAKE i \in 1 .. Len(s) + 1
  <2>1. CASE i = 1
    BY <1>1, <1>3, <1>5, <2>1
  <2>2. CASE i # 1
    <3>1. i \in 2 .. Len(s) + 1 /\ i - 1 \in 1 .. Len(s) /\ (Len(s) + 1) - i + 1 = Len(s) - (i - 1) + 1
          /\ Len(s) - (i - 1) + 1 \in 1 .. Len(s)
      BY <1>1, <2>2
    <3>2. u[i] = t[Len(s) - (i - 1) + 1] /\ v[i] = r[i - 1] /\ r[i - 1] = s[Len(s) - (i - 1) + 1]
      BY <1>2, <1>3, <1>5, <3>1
    <3> QED BY <1>1, <3>1, <3>2
  <2> QED BY <2>1, <2>2
<1>7. u = v
  <2>1. Len(u) = Len(v) /\ Len(u) = Len(s) + 1
    BY <1>1, <1>3, <1>5
  <2> QED BY <1>3, <1>5, <1>6, <2>1, SeqEqual
<1> QED BY <1>2, <1>5, <1>7 DEF r, t, u, v

\* An element put before all others, and one put after them.
LEMMA BothEnds ==
  ASSUME NEW A, NEW s \in Seq(A), NEW x \in A, NEW y \in A
  PROVE  /\ <<x>> \o s \in Seq(A) /\ <<x>> \o <<>> = Append(<<>>, x)
         /\ <<x>> \o Append(s, y) = Append(<<x>> \o s, y)
<1>1. <<x>> \in Seq(A) /\ Append(<<>>, x) = <<x>>
  OBVIOUS
<1>2. <<x>> \o s \in Seq(A) /\ <<x>> \o <<>> = <<x>>
  BY <1>1, ConcatProperties, ConcatEmptySeq
<1>3. Append(s, y) = s \o <<y>> /\ Append(<<x>> \o s, y) = (<<x>> \o s) \o <<y>> /\ <<y>> \in Seq(A)
  BY <1>2, AppendIsConcat
<1>4. <<x>> \o (s \o <<y>>) = (<<x>> \o s) \o <<y>>
  BY <1>1, <1>3, ConcatAssociative
<1> QED BY <1>1, <1>2, <1>3, <1>4

\* What filter leaves of a sequence with an element put first.
LEMMA FilteredOfOneFirst ==
  ASSUME NEW A, NEW S, NEW x \in A
  PROVE  \A s \in Seq(A) : /\ x \in S => Filtered(<<x>> \o s, S) = <<x>> \o Filtered(s, S)
                           /\ x \notin S => Filtered(<<x>> \o s, S) = Filtered(s, S)
<1> DEFINE Good == {s \in Seq(A) : /\ x \in S => Filtered(<<x>> \o s, S) = <<x>> \o Filtered(s, S)
                                   /\ x \notin S => Filtered(<<x>> \o s, S) = Filtered(s, S)}
<1>1. <<>> \in Good
  <2> DEFINE o == <<>>
  <2>1. o \in Seq(A) /\ <<x>> \o o = Append(o, x) /\ Filtered(o, S) = o
    BY BothEnds, EmptySeq, FilteredOfNothing
  <2> HIDE DEF o
  <2>2. /\ x \in S => Filtered(Append(o, x), S) = Append(Filtered(o, S), x)
        /\ x \notin S => Filtered(Append(o, x), S) = Filtered(o, S)
    BY <2>1, FilteredOfOneMore
  <2>3. o \in Good
    BY <2>1, <2>2
  <2> QED BY <2>3 DEF o
<1>2. ASSUME NEW s \in Seq(A), NEW y \in A, s \in Good
      PROVE  Append(s, y) \in Good
  <2> DEFINE f == Filtered(s, S)
             t == Append(s, y)
             u == <<x>> \o s
             g == Filtered(t, S)
             h == Filtered(<<x>> \o t, S)
  <2>1. /\ f \in Seq(A) /\ t \in Seq(A) /\ u \in Seq(A)
        /\ <<x>> \o t = Append(u, y)
        /\ <<x>> \o Append(f, y) = Append(<<x>> \o f, y)
    <3>1. f \in Seq(A)
      BY FilteredIs
    <3> QED BY <3>1, BothEnds, AppendProperties
  <2>2. /\ x \in S => Filtered(u, S) = <<x>> \o f
        /\ x \notin S => Filtered(u, S) = f
    BY <1>2
  <2>3. /\ y \in S => g = Append(f, y)
        /\ y \notin S => g = f
    BY FilteredOfOneMore
  <2>4. /\ y \in S => h = Append(Filtered(u, S), y)
        /\ y \notin S => h = Filtered(u, S)
    BY <2>1, FilteredOfOneMore
  <2> HIDE DEF f, t, u, g, h
  <2>5. /\ x \in S => h = <<x>> \o g
        /\ x \notin S => h = g
    BY <2>1, <2>2, <2>3, <2>4
  <2> QED BY <2>1, <2>5 DEF g, h, t
<1> HIDE DEF Good
<1>3. Seq(A) \subseteq Good
  BY <1>1, <1>2, OneLonger
<1> QED BY <1>3 DEF Good

\* To filter and to read backwards can be exchanged.
LEMMA FilteredBackwards ==
  ASSUME NEW A, NEW S
  PROVE  \A s \in Seq(A) : Filtered(Reverse(s), S) = Reverse(Filtered(s, S))
<1> DEFINE Good == {s \in Seq(A) : Filtered(Reverse(s), S) = Reverse(Filtered(s, S))}
<1>1. <<>> \in Good
  <2>1. Reverse(<<>>) = <<>> /\ <<>> \in Seq(A)
    BY DEF Reverse
  <2> QED BY <2>1, FilteredOfNothing
<1>2. ASSUME NEW s \in Seq(A), NEW y \in A, s \in Good
      PROVE  Append(s, y) \in Good
  <2> DEFINE f == Filtered(s, S)
             t == Append(s, y)
             r == Reverse(s)
  <2>1. f \in Seq(A) /\ Filtered(r, S) = Reverse(f) /\ t \in Seq(A)
    BY <1>2, FilteredIs, AppendProperties
  <2>2. r \in Seq(A) /\ Reverse(t) = <<y>> \o r
    BY BackwardsOfOneMore
  <2>3. /\ y \in S => Filtered(t, S) = Append(f, y)
        /\ y \notin S => Filtered(t, S) = f
    BY FilteredOfOneMore
  <2> HIDE DEF f, r, t
  <2>4. /\ y \in S => Filtered(<<y>> \o r, S) = <<y>> \o Filtered(r, S)
        /\ y \notin S => Filtered(<<y>> \o r, S) = Filtered(r, S)
    BY <2>2, FilteredOfOneFirst
  <2>5. Reverse(Append(f, y)) = <<y>> \o Reverse(f)
    BY <2>1, BackwardsOfOneMore
  <2>6. Filtered(Reverse(t), S) = Reverse(Filtered(t, S))
    <3>1. CASE y \in S
      BY <2>1, <2>2, <2>3, <2>4, <2>5, <3>1
    <3>2. CASE y \notin S
      BY <2>1, <2>2, <2>3, <2>4, <3>2
    <3> QED BY <3>1, <3>2
  <2> QED BY <2>1, <2>6 DEF t
<1> HIDE DEF Good
<1>3. Seq(A) \subseteq Good
  BY <1>1, <1>2, OneLonger
<1> QED BY <1>3 DEF Good

\* The order of any two steps makes no difference.
Commutes(step, A, B) ==
  \A b \in B : \A x, y \in A : /\ step[<<b, x>>] \in B
                             /\ step[<<step[<<b, x>>], y>>] = step[<<step[<<b, y>>], x>>]

\* What is put first may then come last.
LEMMA FoldedOfOneFirst ==
  ASSUME NEW A, NEW B, NEW step, Commutes(step, A, B), NEW base \in B, NEW x \in A
  PROVE  \A s \in Seq(A) : Folded(step, base, <<x>> \o s) = step[<<Folded(step, base, s), x>>]
<1> DEFINE Good == {s \in Seq(A) : Folded(step, base, <<x>> \o s) = step[<<Folded(step, base, s), x>>]}
<1>1. <<>> \in Good
  <2> DEFINE o == <<>>
  <2>1. o \in Seq(A) /\ <<x>> \o o = Append(o, x)
    BY BothEnds, EmptySeq
  <2> HIDE DEF o
  <2>2. Folded(step, base, Append(o, x)) = step[<<Folded(step, base, o), x>>]
    BY <2>1, FoldedOfOneMore
  <2>3. o \in Good
    BY <2>1, <2>2
  <2> QED BY <2>3 DEF o
<1>2. ASSUME NEW s \in Seq(A), NEW y \in A, s \in Good
      PROVE  Append(s, y) \in Good
  <2> DEFINE f == Folded(step, base, s)
             t == Append(s, y)
             u == <<x>> \o s
  <2>1. t \in Seq(A) /\ u \in Seq(A) /\ <<x>> \o t = Append(u, y)
    BY BothEnds, AppendProperties
  <2>2. Folded(step, base, u) = step[<<f, x>>]
    BY <1>2
  <2>3. Folded(step, base, t) = step[<<f, y>>]
    BY FoldedOfOneMore
  <2> HIDE DEF u
  <2>4. Folded(step, base, Append(u, y)) = step[<<Folded(step, base, u), y>>]
    BY <2>1, FoldedOfOneMore
  <2>5. f \in B
    <3>1. \A b \in B, z \in A : step[<<b, z>>] \in B
      BY DEF Commutes
    <3> HIDE DEF f, t, Good
    <3>2. \A r \in Seq(A) : Folded(step, base, r) \in B
      BY <3>1, FoldedIsIn
    <3> QED BY <3>2 DEF f
  <2> HIDE DEF f, t
  <2>6. step[<<step[<<f, x>>], y>>] = step[<<step[<<f, y>>], x>>]
    BY <2>5 DEF Commutes
  <2>7. Folded(step, base, <<x>> \o t) = step[<<Folded(step, base, t), x>>]
    BY <2>1, <2>2, <2>3, <2>4, <2>6
  <2> QED BY <2>1, <2>7 DEF t
<1> HIDE DEF Good
<1>3. Seq(A) \subseteq Good
  BY <1>1, <1>2, OneLonger
<1> QED BY <1>3 DEF Good

\* So it makes no difference from which end a sequence is folded.
LEMMA FoldedBackwards ==
  ASSUME NEW A, NEW B, NEW step, Commutes(step, A, B), NEW base \in B
  PROVE  \A s \in Seq(A) : Folded(step, base, Reverse(s)) = Folded(step, base, s)
<1> DEFINE Good == {s \in Seq(A) : Folded(step, base, Reverse(s)) = Folded(step, base, s)}
<1>1. <<>> \in Good
  <2>1. Reverse(<<>>) = <<>> /\ <<>> \in Seq(A)
    BY DEF Reverse
  <2> QED BY <2>1
<1>2. ASSUME NEW s \in Seq(A), NEW y \in A, s \in Good
      PROVE  Append(s, y) \in Good
  <2> DEFINE t == Append(s, y)
             r == Reverse(s)
  <2>1. t \in Seq(A) /\ r \in Seq(A) /\ Reverse(t) = <<y>> \o r
    BY BackwardsOfOneMore, AppendProperties
  <2>2. Folded(step, base, r) = Folded(step, base, s)
    BY <1>2
  <2>3. Folded(step, base, t) = step[<<Folded(step, base, s), y>>]
    BY FoldedOfOneMore
  <2> HIDE DEF r, t
  <2>4. Folded(step, base, <<y>> \o r) = step[<<Folded(step, base, r), y>>]
    BY <2>1, FoldedOfOneFirst
  <2>5. Folded(step, base, Reverse(t)) = Folded(step, base, t)
    BY <2>1, <2>2, <2>3, <2>4
  <2> QED BY <2>1, <2>5 DEF t
<1> HIDE DEF Good
<1>3. Seq(A) \subseteq Good
  BY <1>1, <1>2, OneLonger
<1> QED BY <1>3 DEF Good
==============================================================================
