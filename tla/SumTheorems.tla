------------------------------ MODULE SumTheorems ------------------------------
(***************************************************************************)
(* Facts about finite sets and about sums over them that the proofs of     *)
(* several components need.  Induction is stated for a set of good sets,   *)
(* so that it can be instantiated like any other lemma.                    *)
(***************************************************************************)
EXTENDS Integers, Functions, FiniteSetTheorems, TLAPS

\* Induction over the subsets of a finite set, from smaller to larger ones.
LEMMA SubsetInduction ==
    ASSUME NEW S, IsFiniteSet(S), NEW Good,
           \A T \in SUBSET S : (\A U \in SUBSET T : U # T => U \in Good) => T \in Good
    PROVE  \A T \in SUBSET S : T \in Good
  <1> DEFINE Bad == (SUBSET S) \ Good
  <1>1. IsWellFoundedOn(StrictSubsetOrdering(S), SUBSET S)
    BY FS_StrictSubsetOrderingWellFounded, FS_FiniteSubsetsOfFinite
  <1> SUFFICES ASSUME Bad # {} PROVE FALSE
    OBVIOUS
  <1>2. PICK T \in Bad : \A U \in Bad : ~(<<U, T>> \in StrictSubsetOrdering(S))
    <2>1. Bad \subseteq SUBSET S
      OBVIOUS
    <2> HIDE DEF Bad
    <2> QED
      BY <1>1, <2>1, WFMin
  <1>3. ASSUME NEW U \in SUBSET T, U # T PROVE U \in Good
    <2>1. U \in SUBSET S /\ T \in SUBSET S
      BY <1>2
    <2>2. <<U, T>> \in StrictSubsetOrdering(S)
      BY <2>1, <1>3 DEF StrictSubsetOrdering
    <2> QED
      BY <1>2, <2>1, <2>2
  <1> QED
    BY <1>2, <1>3

\* The same, one element at a time.
LEMMA SetInduction ==
    ASSUME NEW S, IsFiniteSet(S), NEW Good, {} \in Good,
           \A T \in SUBSET S, x \in S : T \in Good /\ x \notin T => T \cup {x} \in Good
    PROVE  S \in Good
  <1>1. ASSUME NEW T \in SUBSET S, \A U \in SUBSET T : U # T => U \in Good
        PROVE  T \in Good
    <2>1. CASE T = {}
      BY <2>1
    <2>2. ASSUME NEW x \in T PROVE T \in Good
      <3>1. T \ {x} \in Good /\ T \ {x} \in SUBSET S /\ x \in S /\ x \notin T \ {x}
        BY <1>1
      <3>2. (T \ {x}) \cup {x} = T
        OBVIOUS
      <3> QED
        BY <3>1, <3>2
    <2> QED
      BY <2>1, <2>2
  <1> QED
    BY <1>1, SubsetInduction

\* Some element of a finite set has the greatest value.
LEMMA GreatestOf ==
    ASSUME NEW S, IsFiniteSet(S), S # {}, NEW f, \A x \in S : f[x] \in Int
    PROVE  \E u \in S : \A v \in S : f[v] <= f[u]
  <1> DEFINE Good == {T \in SUBSET S : T # {} => \E u \in T : \A v \in T : f[v] <= f[u]}
  <1>1. {} \in Good
    OBVIOUS
  <1>2. ASSUME NEW T \in SUBSET S, NEW x \in S, T \in Good, x \notin T
        PROVE  T \cup {x} \in Good
    <2>1. CASE T = {}
      BY <2>1
    <2>2. CASE T # {}
      <3>1. PICK u \in T : \A v \in T : f[v] <= f[u]
        BY <1>2, <2>2
      <3>2. /\ f[u] \in Int /\ f[x] \in Int /\ f[x] <= f[x]
            /\ \A v \in T : f[v] \in Int
        OBVIOUS
      <3>3. f[u] <= f[x] => \A v \in T \cup {x} : f[v] <= f[x]
        BY <3>1, <3>2
      <3>4. f[x] <= f[u] => \A v \in T \cup {x} : f[v] <= f[u]
        BY <3>1
      <3>5. \E w \in T \cup {x} : \A v \in T \cup {x} : f[v] <= f[w]
        BY <3>1, <3>2, <3>3, <3>4
      <3> QED
        BY <3>5
    <2> QED
      BY <2>1, <2>2
  <1> HIDE DEF Good
  <1>3. S \in Good
    BY <1>1, <1>2, SetInduction
  <1> QED
    BY <1>3 DEF Good

\* A finite set of numbers has a greatest one.
LEMMA GreatestExists ==
    ASSUME NEW S \in SUBSET Int, IsFiniteSet(S), S # {}
    PROVE  \E u \in S : \A v \in S : v <= u
  <1> DEFINE f == [x \in S |-> x]
  <1>1. \A x \in S : f[x] = x /\ f[x] \in Int
    OBVIOUS
  <1> HIDE DEF f
  <1>2. \E u \in S : \A v \in S : f[v] <= f[u]
    BY <1>1, GreatestOf
  <1> QED
    BY <1>1, <1>2

\* Powers of two are the sizes of power sets.
LEMMA PowerOfTwo ==
    ASSUME NEW n \in Nat
    PROVE  2^n \in Nat \ {0}
  <1>1. IsFiniteSet(1..n) /\ Cardinality(1..n) = n
    BY FS_Interval
  <1>2. IsFiniteSet(SUBSET (1..n)) /\ Cardinality(SUBSET (1..n)) = 2^n
    BY <1>1, FS_SUBSET
  <1>3. Cardinality(SUBSET (1..n)) \in Nat /\ Cardinality(SUBSET (1..n)) # 0
    BY <1>2, FS_CardinalityType, FS_EmptySet
  <1> QED
    BY <1>2, <1>3
-----------------------------------------------------------------------------
(* Sums, as Functions defines them: any element is taken out first.        *)

Picked(s) == CHOOSE x \in s : TRUE

\* What the sums over the subsets of S satisfy.
Sums(f, S, g) ==
    g = [s \in SUBSET S |-> IF s = {} THEN 0 ELSE f[Picked(s)] + g[s \ {Picked(s)}]]

SumsOver(f, S) == CHOOSE g : Sums(f, S, g)

LEMMA SumIsLast ==
    ASSUME NEW f, NEW S
    PROVE  SumFunctionOnSet(f, S) = SumsOver(f, S)[S]
  BY DEF SumFunctionOnSet, FoldFunctionOnSet, MapThenFoldSet, SumsOver, Sums, Picked

LEMMA PickedIn ==
    ASSUME NEW s, s # {}
    PROVE  Picked(s) \in s
  BY DEF Picked

\* They are the same wherever they are taken.
LEMMA SumsAgree ==
    ASSUME NEW f, NEW S, NEW U \in SUBSET S, IsFiniteSet(U),
           NEW g, NEW h, Sums(f, S, g), Sums(f, U, h)
    PROVE  \A u \in SUBSET U : g[u] = h[u]
  <1> DEFINE Good == {u \in SUBSET U : g[u] = h[u]}
  <1>1. ASSUME NEW T \in SUBSET U, \A V \in SUBSET T : V # T => V \in Good
        PROVE  T \in Good
    <2>1. g[T] = IF T = {} THEN 0 ELSE f[Picked(T)] + g[T \ {Picked(T)}]
      BY DEF Sums
    <2>2. h[T] = IF T = {} THEN 0 ELSE f[Picked(T)] + h[T \ {Picked(T)}]
      BY DEF Sums
    <2>3. T # {} => g[T \ {Picked(T)}] = h[T \ {Picked(T)}]
      BY <1>1, PickedIn
    <2> QED
      BY <2>1, <2>2, <2>3
  <1> HIDE DEF Good
  <1>2. \A T \in SUBSET U : T \in Good
    BY <1>1, SubsetInduction
  <1> QED
    BY <1>2 DEF Good

\* They exist over finite sets.
LEMMA SumsExist ==
    ASSUME NEW f, NEW S, IsFiniteSet(S)
    PROVE  \A T \in SUBSET S : Sums(f, T, SumsOver(f, T))
  <1> DEFINE Good == {T \in SUBSET S : Sums(f, T, SumsOver(f, T))}
  <1>1. ASSUME NEW T \in SUBSET S, \A U \in SUBSET T : U # T => U \in Good
        PROVE  T \in Good
    <2> DEFINE of(s) == SumsOver(f, s)[s]
               G == [s \in SUBSET T |->
                       IF s # T THEN of(s)
                       ELSE IF T = {} THEN 0 ELSE f[Picked(T)] + of(T \ {Picked(T)})]
    <2>1. ASSUME NEW s \in SUBSET T
          PROVE  G[s] = IF s = {} THEN 0 ELSE f[Picked(s)] + G[s \ {Picked(s)}]
      <3>1. CASE s = T
        <4>1. T # {} => T \ {Picked(T)} # T
          BY PickedIn
        <4> QED
          BY <3>1, <4>1
      <3>2. CASE s # T /\ s = {}
        <4>1. Sums(f, s, SumsOver(f, s))
          BY <1>1, <3>2
        <4>2. of(s) = 0
          BY <4>1, <3>2 DEF Sums
        <4> QED
          BY <3>2, <4>2
      <3>3. CASE s # T /\ s # {}
        <4> DEFINE rest == s \ {Picked(s)}
        <4>1. rest \in SUBSET s /\ rest # T /\ s \in SUBSET S /\ rest \in SUBSET T
          BY <3>3, PickedIn
        <4>2. Sums(f, s, SumsOver(f, s)) /\ Sums(f, rest, SumsOver(f, rest))
          BY <1>1, <3>3, <4>1
        <4>3. of(s) = f[Picked(s)] + SumsOver(f, s)[rest]
          BY <4>2, <3>3 DEF Sums
        <4>4. IsFiniteSet(rest)
          BY <4>1, FS_Subset
        <4>5. SumsOver(f, s)[rest] = of(rest)
          <5>1. rest \in SUBSET rest
            OBVIOUS
          <5> HIDE DEF rest
          <5> QED
            BY <4>1, <4>2, <4>4, <5>1, SumsAgree
        <4> QED
          BY <3>3, <4>1, <4>3, <4>5
      <3> QED
        BY <3>1, <3>2, <3>3
    <2>2. Sums(f, T, G)
      <3>1. G = [s \in SUBSET T |-> G[s]]
        OBVIOUS
      <3> HIDE DEF G
      <3> QED
        BY <2>1, <3>1 DEF Sums
    <2> HIDE DEF G
    <2>3. Sums(f, T, SumsOver(f, T))
      BY <2>2 DEF SumsOver
    <2> QED
      BY <2>3
  <1> HIDE DEF Good
  <1>2. \A T \in SUBSET S : T \in Good
    BY <1>1, SubsetInduction
  <1> QED
    BY <1>2 DEF Good

\* The equations of a sum.
LEMMA SumOfNone ==
    ASSUME NEW f
    PROVE  SumFunctionOnSet(f, {}) = 0
  <1>1. Sums(f, {}, SumsOver(f, {}))
    BY SumsExist, FS_EmptySet
  <1> QED
    BY <1>1, SumIsLast DEF Sums

LEMMA SumPicked ==
    ASSUME NEW f, NEW S, IsFiniteSet(S), S # {}
    PROVE  SumFunctionOnSet(f, S)
             = f[Picked(S)] + SumFunctionOnSet(f, S \ {Picked(S)})
  <1> DEFINE rest == S \ {Picked(S)}
  <1>1. Sums(f, S, SumsOver(f, S)) /\ Sums(f, rest, SumsOver(f, rest))
    BY SumsExist
  <1>2. IsFiniteSet(rest) /\ rest \in SUBSET S
    BY FS_Subset
  <1>3. SumsOver(f, S)[rest] = SumsOver(f, rest)[rest]
    <2>1. rest \in SUBSET rest
      OBVIOUS
    <2> HIDE DEF rest
    <2> QED
      BY <1>1, <1>2, <2>1, SumsAgree
  <1>4. SumsOver(f, S)[S] = f[Picked(S)] + SumsOver(f, S)[rest]
    BY <1>1 DEF Sums
  <1> QED
    BY <1>3, <1>4, SumIsLast

LEMMA SumInt ==
    ASSUME NEW S, IsFiniteSet(S), NEW f, \A x \in S : f[x] \in Int
    PROVE  SumFunctionOnSet(f, S) \in Int
  <1> DEFINE Good == {T \in SUBSET S : SumFunctionOnSet(f, T) \in Int}
  <1>1. ASSUME NEW T \in SUBSET S, \A U \in SUBSET T : U # T => U \in Good
        PROVE  T \in Good
    <2>1. CASE T = {}
      BY <2>1, SumOfNone
    <2>2. CASE T # {}
      <3>1. Picked(T) \in T /\ IsFiniteSet(T)
        BY <2>2, PickedIn, FS_Subset
      <3>2. SumFunctionOnSet(f, T \ {Picked(T)}) \in Int
        BY <1>1, <3>1
      <3>3. SumFunctionOnSet(f, T) = f[Picked(T)] + SumFunctionOnSet(f, T \ {Picked(T)})
        BY <2>2, <3>1, SumPicked
      <3> QED
        BY <3>1, <3>2, <3>3
    <2> QED
      BY <2>1, <2>2
  <1> HIDE DEF Good
  <1>2. \A T \in SUBSET S : T \in Good
    BY <1>1, SubsetInduction
  <1> QED
    BY <1>2 DEF Good

\* Any element may be taken out first.
LEMMA SumSplit ==
    ASSUME NEW S, IsFiniteSet(S), NEW f, \A x \in S : f[x] \in Int
    PROVE  \A x \in S :
             SumFunctionOnSet(f, S) = f[x] + SumFunctionOnSet(f, S \ {x})
  <1> DEFINE Sum(s) == SumFunctionOnSet(f, s)
             Good == {T \in SUBSET S : \A x \in T : Sum(T) = f[x] + Sum(T \ {x})}
  <1>1. ASSUME NEW T \in SUBSET S, \A U \in SUBSET T : U # T => U \in Good
        PROVE  T \in Good
    <2> SUFFICES ASSUME NEW x \in T PROVE Sum(T) = f[x] + Sum(T \ {x})
      OBVIOUS
    <2> DEFINE p == Picked(T)
    <2>1. p \in T
      BY PickedIn
    <2>2. Sum(T) = f[p] + Sum(T \ {p})
      BY SumPicked, FS_Subset
    <2>3. CASE x = p
      BY <2>2, <2>3
    <2>4. CASE x # p
      <3> HIDE DEF p
      <3>1. T \ {p} \in Good /\ T \ {x} \in Good
        BY <1>1, <2>1
      <3>2. Sum(T \ {p}) = f[x] + Sum((T \ {p}) \ {x})
        BY <3>1, <2>4
      <3>3. Sum(T \ {x}) = f[p] + Sum((T \ {x}) \ {p})
        BY <3>1, <2>1, <2>4
      <3>4. (T \ {x}) \ {p} = (T \ {p}) \ {x}
        OBVIOUS
      <3>5. f[x] \in Int /\ f[p] \in Int /\ Sum((T \ {p}) \ {x}) \in Int
        <4>1. IsFiniteSet((T \ {p}) \ {x})
          BY FS_Subset
        <4> QED
          BY <4>1, <2>1, SumInt
      <3> HIDE DEF Sum
      <3>6. Sum(T) = f[p] + (f[x] + Sum((T \ {p}) \ {x}))
        BY <2>2, <3>2
      <3>7. f[x] + Sum(T \ {x}) = f[x] + (f[p] + Sum((T \ {p}) \ {x}))
        BY <3>3, <3>4
      <3> QED
        BY <3>5, <3>6, <3>7
    <2> QED
      BY <2>3, <2>4
  <1> HIDE DEF Good
  <1>2. S \in Good
    BY <1>1, SubsetInduction
  <1> QED
    BY <1>2 DEF Good

\* A sum by adding one element more.
LEMMA SumOneMore ==
    ASSUME NEW S, IsFiniteSet(S), NEW f, NEW x, x \notin S,
           \A y \in S \cup {x} : f[y] \in Int
    PROVE  SumFunctionOnSet(f, S \cup {x}) = f[x] + SumFunctionOnSet(f, S)
  <1>1. IsFiniteSet(S \cup {x})
    BY FS_AddElement
  <1>2. (S \cup {x}) \ {x} = S
    OBVIOUS
  <1>3. x \in S \cup {x}
    OBVIOUS
  <1>4. SumFunctionOnSet(f, S \cup {x}) = f[x] + SumFunctionOnSet(f, (S \cup {x}) \ {x})
    BY <1>1, <1>3, SumSplit
  <1> QED
    BY <1>2, <1>4

\* A sum of natural numbers is one, and at least each of them.
LEMMA SumNat ==
    ASSUME NEW S, IsFiniteSet(S), NEW f, \A x \in S : f[x] \in Nat
    PROVE  /\ SumFunctionOnSet(f, S) \in Nat
           /\ \A x \in S : f[x] <= SumFunctionOnSet(f, S)
  <1> DEFINE Good == {T \in SUBSET S : SumFunctionOnSet(f, T) \in Nat}
  <1>1. {} \in Good
    BY SumOfNone
  <1>2. ASSUME NEW T \in SUBSET S, NEW x \in S, T \in Good, x \notin T
        PROVE  T \cup {x} \in Good
    <2>1. IsFiniteSet(T) /\ \A y \in T \cup {x} : f[y] \in Int
      BY FS_Subset
    <2>2. SumFunctionOnSet(f, T \cup {x}) = f[x] + SumFunctionOnSet(f, T)
      BY <1>2, <2>1, SumOneMore
    <2>3. T \cup {x} \in SUBSET S
      OBVIOUS
    <2> QED
      BY <1>2, <2>2, <2>3
  <1>3. ASSUME NEW T \in SUBSET S PROVE SumFunctionOnSet(f, T) \in Nat
    <2> DEFINE Fine == {U \in SUBSET T : U \in Good}
    <2>1. IsFiniteSet(T) /\ {} \in Fine
      BY <1>1, FS_Subset
    <2>2. \A U \in SUBSET T, x \in T : U \in Fine /\ x \notin U => U \cup {x} \in Fine
      BY <1>2
    <2> HIDE DEF Fine
    <2>3. T \in Fine
      BY <2>1, <2>2, SetInduction
    <2> QED
      BY <2>3 DEF Fine
  <1>4. ASSUME NEW x \in S PROVE f[x] <= SumFunctionOnSet(f, S)
    <2>1. SumFunctionOnSet(f, S) = f[x] + SumFunctionOnSet(f, S \ {x})
      BY SumSplit
    <2>2. SumFunctionOnSet(f, S \ {x}) \in Nat
      BY <1>3
    <2> QED
      BY <2>1, <2>2
  <1> QED
    BY <1>3, <1>4

LEMMA ProductNat ==
    ASSUME NEW a \in Nat, NEW b \in Nat
    PROVE  a * b \in Nat
  OBVIOUS

\* And at most so many times a bound of them.
LEMMA SumAtMost ==
    ASSUME NEW S, IsFiniteSet(S), NEW f, NEW c \in Nat, \A x \in S : f[x] \in 0..c
    PROVE  SumFunctionOnSet(f, S) \in 0..(Cardinality(S) * c)
  <1> DEFINE Good == {T \in SUBSET S : SumFunctionOnSet(f, T) \in 0..(Cardinality(T) * c)}
  <1>1. {} \in Good
    BY SumOfNone, FS_EmptySet
  <1>2. ASSUME NEW T \in SUBSET S, NEW x \in S, T \in Good, x \notin T
        PROVE  T \cup {x} \in Good
    <2>1. IsFiniteSet(T) /\ \A y \in T \cup {x} : f[y] \in Int
      BY FS_Subset
    <2>2. SumFunctionOnSet(f, T \cup {x}) = f[x] + SumFunctionOnSet(f, T)
      BY <1>2, <2>1, SumOneMore
    <2>3. Cardinality(T \cup {x}) = Cardinality(T) + 1 /\ Cardinality(T) \in Nat
      BY <1>2, <2>1, FS_AddElement, FS_CardinalityType
    <2>4. (Cardinality(T) + 1) * c = Cardinality(T) * c + c
      BY <2>3
    <2>5. Cardinality(T) * c \in Nat
      BY <2>3, ProductNat
    <2>6. SumFunctionOnSet(f, T) \in 0..(Cardinality(T) * c) /\ f[x] \in 0..c
      BY <1>2
    <2>7. f[x] + SumFunctionOnSet(f, T) \in 0..(Cardinality(T) * c + c)
      BY <2>5, <2>6
    <2> QED
      BY <2>2, <2>3, <2>4, <2>7
  <1> HIDE DEF Good
  <1>3. S \in Good
    BY <1>1, <1>2, SetInduction
  <1> QED
    BY <1>3 DEF Good

\* The parts of a set, counted one by one, add up to all of it.
LEMMA SumOfParts ==
    ASSUME NEW S, IsFiniteSet(S), NEW T, IsFiniteSet(T), NEW part,
           \A t \in T : part[t] \in SUBSET S,
           \A x \in S : \E t \in T : x \in part[t],
           \A t \in T, u \in T : t # u => part[t] \cap part[u] = {},
           NEW f, \A t \in T : f[t] = Cardinality(part[t])
    PROVE  SumFunctionOnSet(f, T) = Cardinality(S)
  <1> DEFINE Of(U) == {x \in S : \E t \in U : x \in part[t]}
             Good == {U \in SUBSET T : SumFunctionOnSet(f, U) = Cardinality(Of(U))}
  <1>1. {} \in Good
    <2>1. Of({}) = {}
      OBVIOUS
    <2> QED
      BY <2>1, SumOfNone, FS_EmptySet
  <1>2. \A t \in T : IsFiniteSet(part[t]) /\ Cardinality(part[t]) \in Nat /\ f[t] \in Int
    BY FS_Subset, FS_CardinalityType
  <1>3. ASSUME NEW U \in SUBSET T, NEW t \in T, U \in Good, t \notin U
        PROVE  U \cup {t} \in Good
    <2> DEFINE A == Of(U)
               B == part[t]
               C == Of(U \cup {t})
    <2>1. IsFiniteSet(U) /\ IsFiniteSet(A) /\ IsFiniteSet(B)
      BY <1>2, FS_Subset
    <2>2. SumFunctionOnSet(f, U \cup {t}) = f[t] + SumFunctionOnSet(f, U)
      BY <1>2, <1>3, <2>1, SumOneMore
    <2>3. C = A \cup B /\ A \cap B = {}
      BY <1>3
    <2>4. f[t] = Cardinality(B) /\ SumFunctionOnSet(f, U) = Cardinality(A)
      BY <1>3
    <2>5. SumFunctionOnSet(f, U \cup {t}) = Cardinality(C)
      <3> HIDE DEF A, B, C
      <3>1. Cardinality(A \cup B) = Cardinality(A) + Cardinality(B) - Cardinality(A \cap B)
        BY <2>1, FS_Union
      <3>2. Cardinality(A) \in Nat /\ Cardinality(B) \in Nat /\ Cardinality({}) = 0
        BY <2>1, FS_CardinalityType, FS_EmptySet
      <3>3. Cardinality(A \cap B) = 0 /\ Cardinality(C) = Cardinality(A \cup B)
        BY <2>3, <3>2, Zenon
      <3>4. Cardinality(C) = Cardinality(A) + Cardinality(B)
        BY <3>1, <3>2, <3>3
      <3> QED
        BY <2>2, <2>4, <3>2, <3>4
    <2> QED
      BY <1>3, <2>5
  <1>4. Of(T) = S
    OBVIOUS
  <1> HIDE DEF Good, Of
  <1>5. T \in Good
    BY <1>1, <1>3, SetInduction
  <1> QED
    BY <1>4, <1>5 DEF Good

\* A positive factor cancels.
LEMMA Cancel ==
    ASSUME NEW a \in Int, NEW b \in Int, NEW c \in Nat \ {0}, a * c <= b * c
    PROVE  a <= b
  <1> SUFFICES ASSUME b + 1 <= a PROVE FALSE
    OBVIOUS
  <1>1. PICK e \in Nat : a = b + 1 + e
    <2>1. a - b - 1 \in Nat /\ a = b + 1 + (a - b - 1)
      OBVIOUS
    <2> QED
      BY <2>1
  <1>2. a * c = b * c + c + e * c
    BY <1>1
  <1>3. e * c \in Nat /\ b * c \in Int
    BY <1>1, ProductNat
  <1> QED
    BY <1>2, <1>3

LEMMA SquareNat ==
    ASSUME NEW x \in Int
    PROVE  x * x \in Nat
  <1>1. CASE x >= 0
    BY <1>1, ProductNat
  <1>2. CASE x < 0
    <2>1. -x \in Nat /\ x * x = (-x) * (-x)
      BY <1>2
    <2> QED
      BY <2>1, ProductNat
  <1> QED
    BY <1>1, <1>2

\* A sum has every term as often as there are terms as great as it.
LEMMA ManyAtLeast ==
    ASSUME NEW S, IsFiniteSet(S), NEW h, \A x \in S : h[x] \in Nat,
           NEW O \in SUBSET S, NEW c \in Nat, \A x \in O : h[x] >= c
    PROVE  Cardinality(O) * c <= SumFunctionOnSet(h, S)
  <1> DEFINE Good == {T \in SUBSET S : Cardinality(T \cap O) * c <= SumFunctionOnSet(h, T)}
  <1>1. {} \in Good
    <2>1. {} \cap O = {} /\ Cardinality({}) = 0 /\ SumFunctionOnSet(h, {}) = 0
      BY FS_EmptySet, SumOfNone
    <2> QED
      BY <2>1
  <1>2. ASSUME NEW T \in SUBSET S, NEW x \in S, T \in Good, x \notin T
        PROVE  T \cup {x} \in Good
    <2> DEFINE k == Cardinality(T \cap O)
               l == Cardinality((T \cup {x}) \cap O)
               sum == SumFunctionOnSet(h, T)
    <2>1. IsFiniteSet(T) /\ IsFiniteSet(T \cap O)
      BY FS_Subset
    <2>2. k \in Nat
      BY <2>1, FS_CardinalityType
    <2>3. sum \in Nat
      BY <2>1, SumNat
    <2>4. SumFunctionOnSet(h, T \cup {x}) = h[x] + sum
      <3>1. \A y \in T \cup {x} : h[y] \in Int
        OBVIOUS
      <3> QED
        BY <1>2, <2>1, <3>1, SumOneMore
    <2>5. k * c <= sum
      BY <1>2
    <2>6. IF x \in O THEN l = k + 1 ELSE l = k
      <3>1. CASE x \in O
        <4>1. (T \cup {x}) \cap O = (T \cap O) \cup {x} /\ x \notin T \cap O
          BY <1>2, <3>1
        <4>2. Cardinality((T \cap O) \cup {x}) = Cardinality(T \cap O) + 1
          BY <2>1, <4>1, FS_AddElement
        <4> QED
          BY <3>1, <4>1, <4>2
      <3>2. CASE x \notin O
        <4>1. (T \cup {x}) \cap O = T \cap O
          BY <3>2
        <4> QED
          BY <3>2, <4>1
      <3> QED
        BY <3>1, <3>2
    <2>7. h[x] \in Nat /\ (x \in O => h[x] >= c)
      OBVIOUS
    <2> HIDE DEF k, sum
    <2>8. (k + 1) * c = k * c + c /\ k * c \in Nat
      BY <2>2, ProductNat
    <2>9. l * c <= h[x] + sum
      BY <2>3, <2>5, <2>6, <2>7, <2>8
    <2> QED
      BY <2>4, <2>9 DEF sum
  <1> HIDE DEF Good
  <1>3. S \in Good
    BY <1>1, <1>2, SetInduction
  <1>4. S \cap O = O
    OBVIOUS
  <1> QED
    BY <1>3, <1>4 DEF Good

\* k squares of n * x - m, of which the x add up to f and their squares to g.
Spread(n, m, f, g, k) == (n * n) * g - (2 * (n * m)) * f + k * (m * m)

\* The squares of what the terms differ by from an n-th of m, n times each.
LEMMA Deviations ==
    ASSUME NEW S, IsFiniteSet(S), NEW n \in Int, NEW m \in Int,
           NEW f, \A x \in S : f[x] \in Int,
           NEW g, \A x \in S : g[x] = f[x] * f[x],
           NEW h, \A x \in S : h[x] = (n * f[x] - m) * (n * f[x] - m)
    PROVE  SumFunctionOnSet(h, S)
             = Spread(n, m, SumFunctionOnSet(f, S), SumFunctionOnSet(g, S), Cardinality(S))
  <1> DEFINE Total(w, T) == SumFunctionOnSet(w, T)
             a == n * n
             b == 2 * (n * m)
             c == m * m
             Good == {T \in SUBSET S :
                        Total(h, T) = a * Total(g, T) - b * Total(f, T) + Cardinality(T) * c}
  <1>1. a \in Int /\ b \in Int /\ c \in Int
    OBVIOUS
  <1>2. \A x \in S : /\ f[x] \in Int /\ g[x] \in Int /\ h[x] \in Int
                     /\ h[x] = a * g[x] - b * f[x] + c
    <2> SUFFICES ASSUME NEW x \in S
                 PROVE  /\ f[x] \in Int /\ g[x] \in Int /\ h[x] \in Int
                        /\ h[x] = a * g[x] - b * f[x] + c
      OBVIOUS
    <2>1. \A y \in Int : (n * y - m) * (n * y - m) = (n * n) * (y * y) - (2 * (n * m)) * y + m * m
      OBVIOUS
    <2>2. f[x] \in Int /\ g[x] = f[x] * f[x] /\ h[x] = (n * f[x] - m) * (n * f[x] - m)
      OBVIOUS
    <2> QED
      BY <2>1, <2>2
  <1> HIDE DEF a, b, c
  <1>3. {} \in Good
    <2>1. Total(h, {}) = 0 /\ Total(g, {}) = 0 /\ Total(f, {}) = 0 /\ Cardinality({}) = 0
      BY SumOfNone, FS_EmptySet
    <2> QED
      BY <1>1, <2>1
  <1>4. ASSUME NEW T \in SUBSET S, NEW x \in S, T \in Good, x \notin T
        PROVE  T \cup {x} \in Good
    <2>1. IsFiniteSet(T) /\ T \cup {x} \in SUBSET S
      BY FS_Subset
    <2>2. /\ \A y \in T \cup {x} : f[y] \in Int /\ g[y] \in Int /\ h[y] \in Int
      BY <1>2
    <2>3. /\ Total(h, T \cup {x}) = h[x] + Total(h, T)
          /\ Total(g, T \cup {x}) = g[x] + Total(g, T)
          /\ Total(f, T \cup {x}) = f[x] + Total(f, T)
      BY <1>4, <2>1, <2>2, SumOneMore
    <2>4. Total(g, T) \in Int /\ Total(f, T) \in Int
      BY <1>2, <2>1, SumInt
    <2>5. Cardinality(T \cup {x}) = Cardinality(T) + 1 /\ Cardinality(T) \in Nat
      BY <1>4, <2>1, FS_AddElement, FS_CardinalityType
    <2>6. Total(h, T) = a * Total(g, T) - b * Total(f, T) + Cardinality(T) * c
      BY <1>4
    <2> DEFINE G == Total(g, T)
               F == Total(f, T)
               k == Cardinality(T)
    <2> HIDE DEF Total, G, F, k
    <2>9. f[x] \in Int /\ g[x] \in Int /\ G \in Int /\ F \in Int /\ k \in Int
      BY <1>2, <2>4, <2>5 DEF G, F, k
    <2>10. \A y, z, w \in Int : y * (z + w) = y * z + y * w /\ y * z \in Int /\ z * y = y * z
      OBVIOUS
    <2>7. /\ a * (g[x] + G) = a * g[x] + a * G /\ b * (f[x] + F) = b * f[x] + b * F
          /\ (k + 1) * c = k * c + c
          /\ a * g[x] \in Int /\ a * G \in Int /\ b * f[x] \in Int /\ b * F \in Int
          /\ k * c \in Int
      <3>1. (k + 1) * c = k * c + c /\ k * c \in Int
        BY ONLY <1>1, <2>9
      <3>2. a * (g[x] + G) = a * g[x] + a * G /\ a * g[x] \in Int /\ a * G \in Int
        BY ONLY <1>1, <2>9, <2>10
      <3>3. b * (f[x] + F) = b * f[x] + b * F /\ b * f[x] \in Int /\ b * F \in Int
        BY ONLY <1>1, <2>9, <2>10
      <3> QED
        BY <3>1, <3>2, <3>3
    <2>8. Total(h, T \cup {x}) = a * (g[x] + G) - b * (f[x] + F) + (k + 1) * c
      BY <1>1, <1>2, <2>3, <2>6, <2>7 DEF G, F, k
    <2> QED
      BY <2>1, <2>3, <2>5, <2>8 DEF G, F, k
  <1> HIDE DEF Good
  <1>5. S \in Good
    BY <1>3, <1>4, SetInduction
  <1> QED
    BY <1>5 DEF Good, a, b, c, Spread

\* Chebyshev's inequality for two standard deviations: a quarter of the terms, at
\* most, is that far from the mean.
LEMMA Chebyshev ==
    ASSUME NEW S, IsFiniteSet(S), NEW f, \A x \in S : f[x] \in Int,
           NEW g, \A x \in S : g[x] = f[x] * f[x],
           NEW n, n = Cardinality(S), NEW m, m = SumFunctionOnSet(f, S),
           NEW q, q = SumFunctionOnSet(g, S), n * q # m * m,
           NEW O \in SUBSET S,
           \A x \in O : (n * f[x] - m) * (n * f[x] - m) >= 4 * (n * q - m * m)
    PROVE  4 * Cardinality(O) <= n
  <1> DEFINE h == [x \in S |-> (n * f[x] - m) * (n * f[x] - m)]
             v == n * q - m * m
             d == SumFunctionOnSet(h, S)
             k == Cardinality(O)
  <1>1. n \in Nat /\ k \in Nat
    BY FS_CardinalityType, FS_Subset
  <1>2. \A x \in S : g[x] \in Int
    OBVIOUS
  <1>3. m \in Int /\ q \in Int
    BY <1>2, SumInt
  <1>4. \A x \in S : h[x] = (n * f[x] - m) * (n * f[x] - m) /\ h[x] \in Nat
    <2> SUFFICES ASSUME NEW x \in S
                 PROVE  h[x] = (n * f[x] - m) * (n * f[x] - m) /\ h[x] \in Nat
      OBVIOUS
    <2>1. n * f[x] - m \in Int
      BY <1>1, <1>3
    <2> QED
      BY <2>1, SquareNat
  <1>5. \A x \in O : h[x] >= 4 * v
    OBVIOUS
  <1> HIDE DEF h
  <1>6. d \in Nat
    BY <1>4, SumNat
  <1>7. d = (n * n) * q - (2 * (n * m)) * m + n * (m * m)
    <2>1. /\ IsFiniteSet(S) /\ n \in Int /\ m \in Int /\ \A x \in S : f[x] \in Int
          /\ \A x \in S : g[x] = f[x] * f[x]
          /\ \A x \in S : h[x] = (n * f[x] - m) * (n * f[x] - m)
      BY <1>1, <1>3, <1>4
    <2>2. SumFunctionOnSet(h, S)
            = Spread(n, m, SumFunctionOnSet(f, S), SumFunctionOnSet(g, S), Cardinality(S))
      BY ONLY <2>1, Deviations
    <2> QED
      BY <2>2 DEF Spread
  <1>8. d = n * v
    BY <1>1, <1>3, <1>7
  <1>9. v \in Int /\ v # 0
    BY <1>1, <1>3
  <1> HIDE DEF d, v
  <1>10. n # 0
    <2> SUFFICES ASSUME n = 0 PROVE FALSE
      OBVIOUS
    <2>1. S = {}
      BY FS_EmptySet
    <2>2. m = 0 /\ q = 0
      BY <2>1, SumOfNone
    <2> QED
      BY <2>2
  <1>11. v > 0
    <2> SUFFICES ASSUME -v \in Nat \ {0} PROVE FALSE
      BY <1>9
    <2>1. n * (-v) \in Nat \ {0}
      BY <1>1, <1>10, ProductNat
    <2>2. n * v = -(n * (-v))
      BY <1>1, <1>9
    <2> QED
      BY <1>6, <1>8, <2>1, <2>2
  <1>12. k * (4 * v) <= d
    <2>1. 4 * v \in Nat
      BY <1>9, <1>11
    <2> QED
      BY <1>4, <1>5, <2>1, ManyAtLeast DEF d
  <1>13. (4 * k) * v <= n * v
    <2>1. k * (4 * v) = (4 * k) * v
      BY <1>1, <1>9
    <2> QED
      BY <1>8, <1>12, <2>1
  <1>14. v \in Nat \ {0} /\ 4 * k \in Int /\ n \in Int
    BY <1>1, <1>9, <1>11
  <1>15. 4 * k <= n
    BY <1>13, <1>14, Cancel
  <1> QED
    BY <1>15
================================================================================
