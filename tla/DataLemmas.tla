----------------------------- MODULE DataLemmas -----------------------------
(***************************************************************************)
(* Lemmas about the data of the models, for any amount of it: sums over    *)
(* functions, the sorting of trades, histories of records and what their   *)
(* trades add up to, loops. What needs induction rests on one fact: a set  *)
(* of naturals has a least element.                                        *)
(***************************************************************************)
EXTENDS History, FiniteSetTheorems, WellFoundedInduction, TLAPS

-----------------------------------------------------------------------------
(* Induction.                                                              *)

\* A set of naturals has a least element.
LEMMA LeastExists ==
  ASSUME NEW S, S \subseteq Nat, S # {}
  PROVE  \E x \in S : \A y \in S : x <= y
<1> DEFINE R == OpToRel(<, Nat)
<1>1. IsWellFoundedOn(R, Nat)
  BY Zenon, NatLessThanWellFounded
<1>2. \A x, y \in Nat : y < x => <<y, x>> \in R
  BY DEF OpToRel
<1> HIDE DEF R
<1>3. PICK x \in S : \A y \in S : ~(<<y, x>> \in R)
  BY <1>1, WFMin
<1>4. \A y \in S : ~(y < x)
  BY <1>2, <1>3
<1> QED
  BY <1>4

\* Induction over the naturals, for a set of them.
LEMMA NatSetInduction ==
  ASSUME NEW T, T \subseteq Nat, 0 \in T, \A n \in T : n + 1 \in T
  PROVE  T = Nat
<1>1. SUFFICES ASSUME T # Nat PROVE FALSE
  OBVIOUS
<1>2. PICK x \in Nat \ T : \A y \in Nat \ T : x <= y
  <2>1. Nat \ T \subseteq Nat /\ Nat \ T # {}
    BY <1>1
  <2> QED
    BY <2>1, LeastExists
<1>3. x - 1 \in Nat /\ ~(x <= x - 1)
  BY <1>2
<1>4. x - 1 \in T
  BY <1>2, <1>3
<1>5. (x - 1) + 1 \in T
  BY <1>4
<1> QED
  BY <1>2, <1>5

-----------------------------------------------------------------------------
(* Sums.                                                                   *)

IsSum(sum, f, S) ==
  sum = [T \in SUBSET S |-> IF T = {} THEN 0
                            ELSE f[CHOOSE x \in T : TRUE] + sum[T \ {CHOOSE x \in T : TRUE}]]

\* SumFunctionOnSet chooses a function that unfolds like this one.
LEMMA SumIsChosen ==
  ASSUME NEW f, NEW S
  PROVE  SumFunctionOnSet(f, S) = (CHOOSE sum : IsSum(sum, f, S))[S]
  BY DEF SumFunctionOnSet, FoldFunctionOnSet, MapThenFoldSet, IsSum

SumStep(sum, f, T) ==
  IF T = {} THEN 0
  ELSE f[CHOOSE x \in T : TRUE] + sum[T \ {CHOOSE x \in T : TRUE}]

\* Subsets of a finite set, and what is left when an element is taken out.
LEMMA SubsetsAreFinite ==
  ASSUME NEW S, IsFiniteSet(S), NEW T \in SUBSET S
  PROVE  /\ IsFiniteSet(T) /\ Cardinality(T) \in Nat /\ Cardinality(T) <= Cardinality(S)
         /\ Cardinality(T) = 0 <=> T = {}
         /\ \A x \in T : T \ {x} \in SUBSET S /\ Cardinality(T \ {x}) = Cardinality(T) - 1
<1>1. IsFiniteSet(T) /\ Cardinality(T) <= Cardinality(S)
  BY FS_Subset
<1>2. Cardinality(T) \in Nat /\ (Cardinality(T) = 0 <=> T = {})
  BY <1>1, FS_CardinalityType, FS_EmptySet
<1>3. \A x \in T : T \ {x} \in SUBSET S /\ Cardinality(T \ {x}) = Cardinality(T) - 1
  BY <1>1, FS_RemoveElement
<1> QED
  BY <1>1, <1>2, <1>3

\* The same for a subset of size n + 1.
LEMMA SubsetsOfNextSize ==
  ASSUME NEW S, IsFiniteSet(S), NEW n \in Nat, NEW T \in SUBSET S, Cardinality(T) = n + 1
  PROVE  /\ IsFiniteSet(T) /\ T # {}
         /\ \A x \in T : /\ T \ {x} \in SUBSET S /\ Cardinality(T \ {x}) = n
                       /\ IsFiniteSet(T \ {x})
<1>1. IsFiniteSet(T) /\ T # {}
  BY SubsetsAreFinite
<1>2. \A x \in T : T \ {x} \in SUBSET S /\ Cardinality(T \ {x}) = n
  BY SubsetsAreFinite
<1> QED
  BY <1>1, <1>2, FS_RemoveElement

\* There is a function to choose, by induction over the size of the subsets.
LEMMA SumExists ==
  ASSUME NEW f, NEW S, IsFiniteSet(S)
  PROVE  \E sum : IsSum(sum, f, S)
<1> DEFINE Good(g, n) == /\ g = [T \in SUBSET S |-> g[T]]
                         /\ \A T \in SUBSET S : Cardinality(T) <= n => g[T] = SumStep(g, f, T)
           N == {n \in Nat : \E g : Good(g, n)}
<1>1. 0 \in N
  <2> DEFINE g == [T \in SUBSET S |-> 0]
  <2>1. \A T \in SUBSET S : Cardinality(T) <= 0 => T = {}
    BY SubsetsAreFinite
  <2>2. Good(g, 0)
    BY <2>1 DEF SumStep
  <2> QED
    BY <2>2
<1>2. ASSUME NEW n \in N
      PROVE  n + 1 \in N
  <2>1. PICK g : Good(g, n)
    BY <1>2
  <2> DEFINE h == [T \in SUBSET S |-> SumStep(g, f, T)]
  <2>2. ASSUME NEW T \in SUBSET S, Cardinality(T) <= n + 1
        PROVE  h[T] = SumStep(h, f, T)
    <3>1. CASE T = {}
      BY <3>1 DEF SumStep
    <3>2. CASE T # {}
      <4>1. PICK x \in T : x = CHOOSE y \in T : TRUE
        BY <3>2
      <4>2. /\ T \ {x} \in SUBSET S /\ Cardinality(T \ {x}) = Cardinality(T) - 1
            /\ Cardinality(T) \in Nat
        BY SubsetsAreFinite
      <4>3. Cardinality(T \ {x}) <= n
        BY <4>2, <2>2
      <4>4. g[T \ {x}] = h[T \ {x}]
        BY <4>2, <4>3, <2>1
      <4>5. h[T] = f[x] + g[T \ {x}]
        BY <3>2, <4>1 DEF SumStep
      <4>6. SumStep(h, f, T) = f[x] + h[T \ {x}]
        BY <3>2, <4>1 DEF SumStep
      <4> QED
        BY <4>4, <4>5, <4>6
    <3> QED
      BY <3>1, <3>2
  <2>3. Good(h, n + 1)
    BY <2>2
  <2> HIDE DEF Good, h
  <2> QED
    BY <2>3
<1>3. N = Nat
  <2> HIDE DEF N
  <2>1. N \subseteq Nat
    BY DEF N
  <2> QED
    BY <1>1, <1>2, <2>1, NatSetInduction
<1>4. Cardinality(S) \in Nat
  BY FS_CardinalityType
<1>5. PICK g : Good(g, Cardinality(S))
  BY <1>3, <1>4
<1>6. \A T \in SUBSET S : g[T] = SumStep(g, f, T)
  BY <1>5, SubsetsAreFinite
<1>7. IsSum(g, f, S)
  BY <1>5, <1>6 DEF IsSum, SumStep
<1> QED
  BY <1>7

\* Sums of functions that agree on a set agree on it.
LEMMA SumIsUnique ==
  ASSUME NEW f, NEW g, NEW A, NEW B, NEW sum, NEW other, IsSum(sum, f, A), IsSum(other, g, B),
         NEW S, IsFiniteSet(S), S \subseteq A, S \subseteq B, \A x \in S : f[x] = g[x]
  PROVE  sum[S] = other[S]
<1> DEFINE N == {n \in Nat : \A T \in SUBSET S : Cardinality(T) = n => sum[T] = other[T]}
<1>0. \A T \in SUBSET S : sum[T] = SumStep(sum, f, T) /\ other[T] = SumStep(other, g, T)
  BY DEF IsSum, SumStep
<1>1. 0 \in N
  BY <1>0, SubsetsAreFinite DEF SumStep
<1>2. ASSUME NEW n \in N
      PROVE  n + 1 \in N
  <2>1. ASSUME NEW T \in SUBSET S, Cardinality(T) = n + 1
        PROVE  sum[T] = other[T]
    <3>1. T # {}
      BY <2>1, SubsetsAreFinite
    <3>2. PICK x \in T : x = CHOOSE y \in T : TRUE
      BY <3>1
    <3>3. T \ {x} \in SUBSET S /\ Cardinality(T \ {x}) = n
      BY <2>1, SubsetsAreFinite
    <3>4. sum[T \ {x}] = other[T \ {x}] /\ f[x] = g[x]
      BY <1>2, <3>3
    <3> QED
      BY <1>0, <3>1, <3>2, <3>4 DEF SumStep
  <2> QED
    BY <2>1
<1>3. N = Nat
  <2> HIDE DEF N
  <2>1. N \subseteq Nat
    BY DEF N
  <2> QED
    BY <1>1, <1>2, <2>1, NatSetInduction
<1> QED
  BY <1>3, FS_CardinalityType

\* Functions that agree on a set have one sum over it.
LEMMA SumOfEqual ==
  ASSUME NEW f, NEW g, NEW S, IsFiniteSet(S), \A x \in S : f[x] = g[x]
  PROVE  SumFunctionOnSet(f, S) = SumFunctionOnSet(g, S)
<1> DEFINE a == CHOOSE sum : IsSum(sum, f, S)
           b == CHOOSE sum : IsSum(sum, g, S)
<1>1. IsSum(a, f, S) /\ IsSum(b, g, S)
  BY SumExists
<1> HIDE DEF a, b
<1>2. a[S] = b[S]
  BY <1>1, SumIsUnique
<1> QED
  BY <1>2, SumIsChosen DEF a, b

\* A sum is an element's value and the sum of the rest, for the element chosen.
LEMMA SumUnfolds ==
  ASSUME NEW f, NEW S, IsFiniteSet(S)
  PROVE  /\ S = {} => SumFunctionOnSet(f, S) = 0
         /\ S # {} => \E x \in S : SumFunctionOnSet(f, S) = f[x] + SumFunctionOnSet(f, S \ {x})
<1> DEFINE sum == CHOOSE sum : IsSum(sum, f, S)
<1>1. IsSum(sum, f, S) /\ SumFunctionOnSet(f, S) = sum[S]
  BY SumExists, SumIsChosen
<1> HIDE DEF sum
<1>2. CASE S = {}
  BY <1>1, <1>2 DEF IsSum
<1>3. CASE S # {}
  <2> DEFINE x == CHOOSE x \in S : TRUE
             U == S \ {x}
             rest == CHOOSE sum_ : IsSum(sum_, f, U)
  <2>1. x \in S /\ IsFiniteSet(U) /\ U \subseteq S
    BY <1>3, FS_RemoveElement
  <2>2. sum[S] = f[x] + sum[U]
    BY <1>1, <1>3 DEF IsSum
  <2>3. IsSum(rest, f, U) /\ SumFunctionOnSet(f, U) = rest[U]
    BY <2>1, SumExists, SumIsChosen
  <2> HIDE DEF rest, x
  <2>4. rest[U] = sum[U]
    BY <1>1, <2>1, <2>3, SumIsUnique
  <2> QED
    BY <1>1, <1>3, <2>1, <2>2, <2>3, <2>4
<1> QED
  BY <1>2, <1>3

\* No elements add up to nothing.
LEMMA SumEmpty ==
  ASSUME NEW f
  PROVE  SumFunctionOnSet(f, {}) = 0
  BY SumUnfolds, FS_EmptySet

\* Integers add up to an integer.
LEMMA SumInt ==
  ASSUME NEW f, NEW S, IsFiniteSet(S), \A x \in S : f[x] \in Int
  PROVE  SumFunctionOnSet(f, S) \in Int
<1> DEFINE N == {n \in Nat : \A T \in SUBSET S : Cardinality(T) = n => SumFunctionOnSet(f, T) \in Int}
<1>1. 0 \in N
  <2>1. \A T \in SUBSET S : Cardinality(T) = 0 => T = {}
    BY SubsetsAreFinite
  <2> QED
    BY <2>1, SumEmpty
<1>2. ASSUME NEW n \in N
      PROVE  n + 1 \in N
  <2>1. ASSUME NEW T \in SUBSET S, Cardinality(T) = n + 1
        PROVE  SumFunctionOnSet(f, T) \in Int
    <3>1. T # {} /\ IsFiniteSet(T)
      BY <2>1, SubsetsAreFinite
    <3>2. PICK x \in T : SumFunctionOnSet(f, T) = f[x] + SumFunctionOnSet(f, T \ {x})
      BY <3>1, SumUnfolds
    <3>3. T \ {x} \in SUBSET S /\ Cardinality(T \ {x}) = n
      BY <2>1, SubsetsAreFinite
    <3>4. SumFunctionOnSet(f, T \ {x}) \in Int /\ f[x] \in Int
      BY <1>2, <3>3
    <3> QED
      BY <3>2, <3>4
  <2> QED
    BY <2>1
<1>3. N = Nat
  <2> HIDE DEF N
  <2>1. N \subseteq Nat
    BY DEF N
  <2> QED
    BY <1>1, <1>2, <2>1, NatSetInduction
<1> QED
  BY <1>3, FS_CardinalityType

\* Any element can be taken out of a sum of integers.
LEMMA SumTakeOut ==
  ASSUME NEW f, NEW S, IsFiniteSet(S), \A x \in S : f[x] \in Int, NEW x \in S
  PROVE  SumFunctionOnSet(f, S) = f[x] + SumFunctionOnSet(f, S \ {x})
<1> DEFINE N == {n \in Nat : \A T \in SUBSET S : Cardinality(T) = n =>
                   \A y \in T : SumFunctionOnSet(f, T) = f[y] + SumFunctionOnSet(f, T \ {y})}
<1>1. 0 \in N
  BY SubsetsAreFinite
<1>2. ASSUME NEW n \in N
      PROVE  n + 1 \in N
  <2>1. ASSUME NEW T \in SUBSET S, Cardinality(T) = n + 1, NEW y \in T
        PROVE  SumFunctionOnSet(f, T) = f[y] + SumFunctionOnSet(f, T \ {y})
    <3>1. T # {} /\ IsFiniteSet(T)
      BY <2>1, SubsetsAreFinite
    <3>2. PICK z \in T : SumFunctionOnSet(f, T) = f[z] + SumFunctionOnSet(f, T \ {z})
      BY <3>1, SumUnfolds
    <3>3. CASE y = z
      BY <3>2, <3>3
    <3>4. CASE y # z
      <4>1. /\ T \ {y} \in SUBSET S /\ Cardinality(T \ {y}) = n
            /\ T \ {z} \in SUBSET S /\ Cardinality(T \ {z}) = n
        BY <2>1, SubsetsAreFinite
      <4>2. (T \ {z}) \ {y} = (T \ {y}) \ {z} /\ IsFiniteSet((T \ {y}) \ {z})
        BY <3>1, FS_RemoveElement
      <4>3. PICK rest \in Int : rest = SumFunctionOnSet(f, (T \ {y}) \ {z})
        BY <4>2, SumInt
      <4>4. /\ SumFunctionOnSet(f, T \ {z}) = f[y] + rest
            /\ SumFunctionOnSet(f, T \ {y}) = f[z] + rest
        BY <1>2, <3>4, <4>1, <4>2, <4>3
      <4>5. f[y] \in Int /\ f[z] \in Int
        OBVIOUS
      <4> QED
        BY <3>2, <4>4, <4>5
    <3> QED
      BY <3>3, <3>4
  <2> QED
    BY <2>1
<1>3. N = Nat
  <2> HIDE DEF N
  <2>1. N \subseteq Nat
    BY DEF N
  <2> QED
    BY <1>1, <1>2, <2>1, NatSetInduction
<1> QED
  BY <1>3, FS_CardinalityType

\* An element is added to a sum.
LEMMA SumAdd ==
  ASSUME NEW f, NEW S, IsFiniteSet(S), NEW x, x \notin S, \A y \in S \cup {x} : f[y] \in Int
  PROVE  SumFunctionOnSet(f, S \cup {x}) = SumFunctionOnSet(f, S) + f[x]
<1>1. IsFiniteSet(S \cup {x}) /\ (S \cup {x}) \ {x} = S
  BY FS_AddElement
<1>2. SumFunctionOnSet(f, S \cup {x}) = f[x] + SumFunctionOnSet(f, S)
  BY <1>1, SumTakeOut
<1>3. SumFunctionOnSet(f, S) \in Int
  BY SumInt
<1> QED
  BY <1>2, <1>3

\* The sum of sums.
LEMMA SumPlus ==
  ASSUME NEW f, NEW g, NEW h, NEW S, IsFiniteSet(S),
         \A x \in S : f[x] \in Int /\ g[x] \in Int /\ h[x] = f[x] + g[x]
  PROVE  SumFunctionOnSet(h, S) = SumFunctionOnSet(f, S) + SumFunctionOnSet(g, S)
<1> DEFINE N == {n \in Nat : \A T \in SUBSET S : Cardinality(T) = n =>
                   SumFunctionOnSet(h, T) = SumFunctionOnSet(f, T) + SumFunctionOnSet(g, T)}
<1>1. 0 \in N
  <2>1. \A T \in SUBSET S : Cardinality(T) = 0 => T = {}
    BY SubsetsAreFinite
  <2>2. /\ SumFunctionOnSet(f, {}) = 0 /\ SumFunctionOnSet(g, {}) = 0
        /\ SumFunctionOnSet(h, {}) = 0
    BY SumEmpty
  <2>3. \A T \in SUBSET S : Cardinality(T) = 0 =>
          SumFunctionOnSet(h, T) = SumFunctionOnSet(f, T) + SumFunctionOnSet(g, T)
    <3> SUFFICES ASSUME NEW T \in SUBSET S, Cardinality(T) = 0
                 PROVE  SumFunctionOnSet(h, T) = SumFunctionOnSet(f, T) + SumFunctionOnSet(g, T)
      OBVIOUS
    <3>1. /\ SumFunctionOnSet(f, T) = 0 /\ SumFunctionOnSet(g, T) = 0
          /\ SumFunctionOnSet(h, T) = 0
      BY Zenon, <2>1, <2>2
    <3> QED
      BY <3>1
  <2> QED
    BY <2>3
<1>2. ASSUME NEW n \in N
      PROVE  n + 1 \in N
  <2>1. ASSUME NEW T \in SUBSET S, Cardinality(T) = n + 1
        PROVE  SumFunctionOnSet(h, T) = SumFunctionOnSet(f, T) + SumFunctionOnSet(g, T)
    <3>1. PICK x \in T : TRUE
      BY <2>1, SubsetsOfNextSize
    <3>2. /\ IsFiniteSet(T) /\ IsFiniteSet(T \ {x})
          /\ T \ {x} \in SUBSET S /\ Cardinality(T \ {x}) = n
      BY <2>1, SubsetsOfNextSize
    <3>4. /\ SumFunctionOnSet(f, T) = f[x] + SumFunctionOnSet(f, T \ {x})
          /\ SumFunctionOnSet(g, T) = g[x] + SumFunctionOnSet(g, T \ {x})
          /\ SumFunctionOnSet(h, T) = h[x] + SumFunctionOnSet(h, T \ {x})
      BY <3>2, SumTakeOut
    <3>5. SumFunctionOnSet(f, T \ {x}) \in Int /\ SumFunctionOnSet(g, T \ {x}) \in Int
      BY <3>2, SumInt
    <3>6. SumFunctionOnSet(h, T \ {x}) = SumFunctionOnSet(f, T \ {x}) + SumFunctionOnSet(g, T \ {x})
      BY <1>2, <3>2
    <3>7. f[x] \in Int /\ g[x] \in Int /\ h[x] = f[x] + g[x]
      OBVIOUS
    <3> QED
      BY <3>4, <3>5, <3>6, <3>7
  <2> QED
    BY <2>1
<1>3. N = Nat
  <2> HIDE DEF N
  <2>1. N \subseteq Nat
    BY DEF N
  <2> QED
    BY <1>1, <1>2, <2>1, NatSetInduction
<1> QED
  BY <1>3, FS_CardinalityType

\* A sum of zeros is zero.
LEMMA SumOfZeros ==
  ASSUME NEW f, NEW S, IsFiniteSet(S), \A x \in S : f[x] = 0
  PROVE  SumFunctionOnSet(f, S) = 0
<1>1. PICK sum \in Int : sum = SumFunctionOnSet(f, S)
  BY SumInt
<1>2. sum = sum + sum
  BY <1>1, SumPlus
<1>3. \A k \in Int : k = k + k => k = 0
  OBVIOUS
<1> QED
  BY Zenon, <1>1, <1>2, <1>3

\* A sum in which the value of one element changes.
LEMMA SumChanged ==
  ASSUME NEW f, NEW g, NEW S, IsFiniteSet(S), NEW x \in S,
         \A y \in S : f[y] \in Int, g[x] \in Int, \A y \in S \ {x} : g[y] = f[y]
  PROVE  SumFunctionOnSet(g, S) = SumFunctionOnSet(f, S) - f[x] + g[x]
<1>1. IsFiniteSet(S \ {x})
  BY FS_RemoveElement
<1>2. \A y \in S : g[y] \in Int
  OBVIOUS
<1>3. PICK rest \in Int : rest = SumFunctionOnSet(f, S \ {x})
  BY <1>1, SumInt
<1>4. SumFunctionOnSet(g, S \ {x}) = rest
  BY <1>1, <1>3, SumOfEqual
<1>5. SumFunctionOnSet(f, S) = f[x] + rest /\ SumFunctionOnSet(g, S) = g[x] + rest
  BY <1>2, <1>3, <1>4, SumTakeOut
<1>6. f[x] \in Int
  OBVIOUS
<1> QED
  BY <1>5, <1>6

\* A sum over elements that are renamed one to one.
LEMMA SumRename ==
  ASSUME NEW f, NEW g, NEW b, NEW S, NEW I, IsFiniteSet(S),
         \A x \in S : b[x] \in I, \A y \in I : \E x \in S : b[x] = y,
         \A x, y \in S : b[x] = b[y] => x = y,
         \A x \in S : g[x] \in Int, \A x \in S : f[b[x]] = g[x]
  PROVE  SumFunctionOnSet(f, I) = SumFunctionOnSet(g, S)
<1> DEFINE Image(T) == {b[x] : x \in T}
           N == {n \in Nat : \A T \in SUBSET S : Cardinality(T) = n =>
                   /\ IsFiniteSet(Image(T))
                   /\ SumFunctionOnSet(f, Image(T)) = SumFunctionOnSet(g, T)}
<1>1. 0 \in N
  <2>1. \A T \in SUBSET S : Cardinality(T) = 0 => T = {} /\ Image(T) = {}
    BY SubsetsAreFinite
  <2> QED
    BY <2>1, SumEmpty, FS_EmptySet
<1>2. ASSUME NEW n \in N
      PROVE  n + 1 \in N
  <2>1. ASSUME NEW T \in SUBSET S, Cardinality(T) = n + 1
        PROVE  /\ IsFiniteSet(Image(T))
               /\ SumFunctionOnSet(f, Image(T)) = SumFunctionOnSet(g, T)
    <3>1. PICK x \in T : TRUE
      BY <2>1, SubsetsOfNextSize
    <3>2. /\ IsFiniteSet(T) /\ IsFiniteSet(T \ {x})
          /\ T \ {x} \in SUBSET S /\ Cardinality(T \ {x}) = n
      BY <2>1, SubsetsOfNextSize
    <3>3. /\ IsFiniteSet(Image(T \ {x}))
          /\ SumFunctionOnSet(f, Image(T \ {x})) = SumFunctionOnSet(g, T \ {x})
      BY <1>2, <3>2
    <3>4. Image(T) = Image(T \ {x}) \cup {b[x]} /\ b[x] \notin Image(T \ {x})
      OBVIOUS
    <3>5. PICK J : J = Image(T \ {x}) /\ Image(T) = J \cup {b[x]} /\ b[x] \notin J
      BY <3>4
    <3>6. \A y \in J \cup {b[x]} : f[y] \in Int
      <4>1. \A y \in Image(T) : f[y] \in Int
        OBVIOUS
      <4> HIDE DEF Image
      <4> QED
        BY <3>5, <4>1
    <3>7. IsFiniteSet(J) /\ SumFunctionOnSet(f, J) = SumFunctionOnSet(g, T \ {x})
      BY <3>3, <3>5
    <3>8. /\ IsFiniteSet(J \cup {b[x]})
          /\ SumFunctionOnSet(f, J \cup {b[x]}) = SumFunctionOnSet(f, J) + f[b[x]]
      <4>1. b[x] \notin J /\ IsFiniteSet(J)
        BY <3>5, <3>7
      <4>2. IsFiniteSet(J \cup {b[x]})
        BY <4>1, FS_AddElement
      <4>3. PICK y : y = b[x]
        OBVIOUS
      <4>4. SumFunctionOnSet(f, J \cup {y}) = SumFunctionOnSet(f, J) + f[y]
        BY <3>6, <4>1, <4>3, SumAdd
      <4> QED
        BY <4>2, <4>3, <4>4
    <3>9. SumFunctionOnSet(g, T) = g[x] + SumFunctionOnSet(g, T \ {x})
      BY <3>2, SumTakeOut
    <3>11. PICK rest \in Int : rest = SumFunctionOnSet(g, T \ {x})
      BY <3>2, SumInt
    <3>12. f[b[x]] = g[x] /\ g[x] \in Int
      OBVIOUS
    <3>13. SumFunctionOnSet(f, J \cup {b[x]}) = SumFunctionOnSet(g, T)
      BY <3>7, <3>8, <3>9, <3>11, <3>12
    <3> HIDE DEF Image
    <3> QED
      BY <3>5, <3>8, <3>13
  <2> QED
    BY <2>1
<1>3. N = Nat
  <2> HIDE DEF N
  <2>1. N \subseteq Nat
    BY DEF N
  <2> QED
    BY <1>1, <1>2, <2>1, NatSetInduction
<1>4. Image(S) = I
  OBVIOUS
<1>5. SumFunctionOnSet(f, Image(S)) = SumFunctionOnSet(g, S)
  <2> HIDE DEF Image
  <2> QED
    BY <1>3, FS_CardinalityType
<1> QED
  BY Zenon, <1>4, <1>5

\* A sum over elements that are permuted.
LEMMA SumPermuted ==
  ASSUME NEW f, NEW g, NEW S, IsFiniteSet(S), NEW b \in Bijection(S, S),
         \A x \in S : g[x] \in Int, \A x \in S : f[b[x]] = g[x]
  PROVE  SumFunctionOnSet(f, S) = SumFunctionOnSet(g, S)
<1>1. \A x \in S : b[x] \in S
  BY DEF Bijection, Injection
<1>2. \A y \in S : \E x \in S : b[x] = y
  BY DEF Bijection, Surjection
<1>3. \A x, y \in S : b[x] = b[y] => x = y
  BY DEF Bijection, Injection, IsInjective
<1> QED
  BY <1>1, <1>2, <1>3, SumRename

\* A sum over two sets without a common element.
LEMMA SumUnion ==
  ASSUME NEW f, NEW S, NEW U, IsFiniteSet(S), IsFiniteSet(U), S \cap U = {},
         \A x \in S \cup U : f[x] \in Int
  PROVE  SumFunctionOnSet(f, S \cup U) = SumFunctionOnSet(f, S) + SumFunctionOnSet(f, U)
<1> DEFINE N == {n \in Nat : \A T \in SUBSET U : Cardinality(T) = n =>
                   SumFunctionOnSet(f, S \cup T) = SumFunctionOnSet(f, S) + SumFunctionOnSet(f, T)}
<1>0. SumFunctionOnSet(f, S) \in Int
  BY SumInt
<1>1. 0 \in N
  <2>1. \A T \in SUBSET U : Cardinality(T) = 0 => T = {}
    BY SubsetsAreFinite
  <2>2. SumFunctionOnSet(f, {}) = 0 /\ S \cup {} = S
    BY SumEmpty
  <2>3. \A T \in SUBSET U : Cardinality(T) = 0 =>
          SumFunctionOnSet(f, S \cup T) = SumFunctionOnSet(f, S) + SumFunctionOnSet(f, T)
    <3> SUFFICES ASSUME NEW T \in SUBSET U, Cardinality(T) = 0
                 PROVE  SumFunctionOnSet(f, S \cup T)
                          = SumFunctionOnSet(f, S) + SumFunctionOnSet(f, T)
      OBVIOUS
    <3>1. /\ SumFunctionOnSet(f, T) = 0
          /\ SumFunctionOnSet(f, S \cup T) = SumFunctionOnSet(f, S)
      BY Zenon, <2>1, <2>2
    <3> QED
      BY <1>0, <3>1
  <2> QED
    BY <2>3
<1>2. ASSUME NEW n \in N
      PROVE  n + 1 \in N
  <2>1. ASSUME NEW T \in SUBSET U, Cardinality(T) = n + 1
        PROVE  SumFunctionOnSet(f, S \cup T) = SumFunctionOnSet(f, S) + SumFunctionOnSet(f, T)
    <3>1. PICK x \in T : TRUE
      BY <2>1, SubsetsOfNextSize
    <3>2. /\ IsFiniteSet(T) /\ IsFiniteSet(T \ {x})
          /\ T \ {x} \in SUBSET U /\ Cardinality(T \ {x}) = n
      BY <2>1, SubsetsOfNextSize
    <3>3. IsFiniteSet(S \cup T) /\ (S \cup T) \ {x} = S \cup (T \ {x})
      BY <3>2, FS_Union
    <3>4. PICK rest \in Int : rest = SumFunctionOnSet(f, T \ {x})
      BY <3>2, SumInt
    <3>5. SumFunctionOnSet(f, S \cup (T \ {x})) = SumFunctionOnSet(f, S) + rest
      BY <1>2, <3>2, <3>4
    <3>6. SumFunctionOnSet(f, T) = f[x] + rest
      <4>1. \A y \in T : f[y] \in Int
        OBVIOUS
      <4>2. SumFunctionOnSet(f, T) = f[x] + SumFunctionOnSet(f, T \ {x})
        BY <3>2, <4>1, SumTakeOut
      <4> QED
        BY Zenon, <3>4, <4>2
    <3>7. SumFunctionOnSet(f, S \cup T) = f[x] + SumFunctionOnSet(f, S \cup (T \ {x}))
      BY <3>3, SumTakeOut
    <3>8. f[x] \in Int
      OBVIOUS
    <3> QED
      BY <1>0, <3>4, <3>5, <3>6, <3>7, <3>8
  <2> QED
    BY <2>1
<1>3. N = Nat
  <2> HIDE DEF N
  <2>1. N \subseteq Nat
    BY DEF N
  <2> QED
    BY <1>1, <1>2, <2>1, NatSetInduction
<1> QED
  BY <1>3, FS_CardinalityType

\* Ranks.
Predecessors(before, n, k) == {j \in 1..n : <<j, k>> \in before}

\* before is a strict total order of 1..n.
IsStrictOrder(before, n) ==
  /\ \A j \in 1..n : <<j, j>> \notin before
  /\ \A j, k \in 1..n : j # k => <<j, k>> \in before \/ <<k, j>> \in before
  /\ \A i, j, k \in 1..n : <<i, j>> \in before /\ <<j, k>> \in before => <<i, k>> \in before

\* place[i] is the one with i - 1 predecessors.
Ranks(place, before, n) ==
  \A i, k \in 1..n : Cardinality(Predecessors(before, n, k)) = i - 1 <=> k = place[i]

\* A strict order of 1..n ranks them one to one.
LEMMA RanksAreDistinct ==
  ASSUME NEW n \in Nat, NEW before, IsStrictOrder(before, n)
  PROVE  \E place \in Bijection(1..n, 1..n) : Ranks(place, before, n)
<1> USE DEF IsStrictOrder
<1> DEFINE P(k) == Predecessors(before, n, k)
           rank == [k \in 1..n |-> Cardinality(P(k)) + 1]
<1>1. IsFiniteSet(1..n) /\ Cardinality(1..n) = n
  BY FS_Interval
<1>2. \A k \in 1..n : IsFiniteSet(P(k)) /\ Cardinality(P(k)) \in Nat /\ Cardinality(P(k)) + 1 <= n
  <2> SUFFICES ASSUME NEW k \in 1..n
               PROVE  IsFiniteSet(P(k)) /\ Cardinality(P(k)) \in Nat /\ Cardinality(P(k)) + 1 <= n
    OBVIOUS
  <2>1. P(k) \subseteq 1..n /\ P(k) # 1..n
    BY DEF Predecessors
  <2>2. IsFiniteSet(P(k)) /\ Cardinality(P(k)) <= n /\ Cardinality(P(k)) # n
    BY <1>1, <2>1, FS_Subset
  <2>3. Cardinality(P(k)) \in Nat
    BY <2>2, FS_CardinalityType
  <2> QED
    BY <2>2, <2>3
<1>3. rank \in [1..n -> 1..n]
  BY <1>2
<1>4. ASSUME NEW j \in 1..n, NEW k \in 1..n, <<j, k>> \in before
      PROVE  rank[j] # rank[k]
  <2>1. P(j) \subseteq P(k) /\ P(j) # P(k)
    BY <1>4 DEF Predecessors
  <2>2. Cardinality(P(j)) # Cardinality(P(k))
    BY <1>2, <2>1, FS_Subset
  <2> QED
    BY <1>2, <2>2
<1>5. rank \in Injection(1..n, 1..n)
  <2> HIDE DEF rank
  <2>1. ASSUME NEW j \in 1..n, NEW k \in 1..n, rank[j] = rank[k]
        PROVE  j = k
    BY Zenon, <1>1, <1>4, <2>1
  <2> QED
    BY Zenon, <1>3, <2>1 DEF Injection, IsInjective
<1>6. rank \in Surjection(1..n, 1..n)
  BY <1>1, <1>5, FS_Injection
<1> DEFINE place == [i \in 1..n |-> CHOOSE k \in 1..n : rank[k] = i]
<1>7. ASSUME NEW i \in 1..n
      PROVE  place[i] \in 1..n /\ rank[place[i]] = i
  <2>1. \E k \in 1..n : rank[k] = i
    BY <1>6 DEF Surjection
  <2> HIDE DEF rank
  <2> QED
    BY <2>1
<1>8. ASSUME NEW i \in 1..n, NEW k \in 1..n
      PROVE  rank[k] = i <=> k = place[i]
  <2> HIDE DEF rank, place
  <2>1. \A j \in 1..n : rank[j] = rank[k] => j = k
    BY <1>3, <1>5 DEF Injection, IsInjective
  <2> QED
    BY <1>7, <2>1
<1>9. place \in Bijection(1..n, 1..n)
  <2>1. place \in [1..n -> 1..n] /\ \A i \in 1..n : rank[place[i]] = i
    BY <1>7
  <2>2. \A k \in 1..n : rank[k] \in 1..n /\ place[rank[k]] = k
    BY <1>3, <1>8
  <2> HIDE DEF place, rank
  <2>3. place \in Injection(1..n, 1..n)
    BY SMTT(30), <2>1 DEF Injection, IsInjective
  <2>4. place \in Surjection(1..n, 1..n)
    BY <2>1, <2>2 DEF Surjection
  <2> QED
    BY <2>3, <2>4 DEF Bijection
<1>10. \A i, k \in 1..n : Cardinality(P(k)) = i - 1 <=> k = place[i]
  <2>1. \A i, k \in 1..n : Cardinality(P(k)) = i - 1 <=> rank[k] = i
    BY <1>2
  <2> HIDE DEF place, rank, P
  <2> QED
    BY <1>8, <2>1
<1> QED
  BY <1>9, <1>10 DEF Ranks

-----------------------------------------------------------------------------
\* Trades that can be sorted.
CanBeSorted(T) == \A t \in T : t.side \in Sides /\ t.price \in Int

\* Sorting trades neither loses, doubles nor changes one.
LEMMA SortIsPermutation ==
  ASSUME NEW T, CanBeSorted(T), NEW trades \in Seq(T)
  PROVE  /\ SortTrades(trades) \in Seq(T)
         /\ \E place \in Bijection(DOMAIN trades, DOMAIN trades) :
              SortTrades(trades) = [i \in DOMAIN trades |-> trades[place[i]]]
<1> DEFINE n == Len(trades)
           before == {jk \in (1..n) \X (1..n) : ComesBefore(trades, jk[1], jk[2])}
<1>1. n \in Nat /\ DOMAIN trades = 1..n
  OBVIOUS
<1>2. \A k \in 1..n : trades[k] \in T /\ trades[k].side \in {"long", "short"} /\ trades[k].price \in Int
  BY DEF CanBeSorted, Sides
<1>3. \A j, k \in 1..n : <<j, k>> \in before <=> ComesBefore(trades, j, k)
  OBVIOUS
<1>4. \A j \in 1..n : ~ComesBefore(trades, j, j)
  BY <1>1, <1>2 DEF ComesBefore
<1>5. \A j, k \in 1..n : j # k => ComesBefore(trades, j, k) \/ ComesBefore(trades, k, j)
  BY <1>1, <1>2 DEF ComesBefore
<1>6. \A i, j, k \in 1..n :
        ComesBefore(trades, i, j) /\ ComesBefore(trades, j, k) => ComesBefore(trades, i, k)
  BY <1>1, <1>2 DEF ComesBefore
<1>7. \A k \in 1..n : Predecessors(before, n, k) = {j \in DOMAIN trades : ComesBefore(trades, j, k)}
  BY <1>1, <1>3 DEF Predecessors
<1> HIDE DEF before, n
<1>8. PICK place \in Bijection(1..n, 1..n) :
        \A i, k \in 1..n : Cardinality(Predecessors(before, n, k)) = i - 1 <=> k = place[i]
  <2>1. \A j \in 1..n : <<j, j>> \notin before
    BY <1>3, <1>4
  <2>2. \A j, k \in 1..n : j # k => <<j, k>> \in before \/ <<k, j>> \in before
    BY <1>3, <1>5
  <2>3. \A i, j, k \in 1..n :
          <<i, j>> \in before /\ <<j, k>> \in before => <<i, k>> \in before
    BY <1>3, <1>6
  <2>4. IsStrictOrder(before, n)
    BY <2>1, <2>2, <2>3 DEF IsStrictOrder
  <2>5. \E place \in Bijection(1..n, 1..n) : Ranks(place, before, n)
    BY <1>1, <2>4, RanksAreDistinct
  <2> QED
    BY Zenon, <2>5 DEF Ranks
<1>9. place \in [1..n -> 1..n]
  BY <1>8 DEF Bijection, Injection
<1>10. \A i, k \in 1..n : Rank(trades, k) = i <=> k = place[i]
  <2> SUFFICES ASSUME NEW i \in 1..n, NEW k \in 1..n
               PROVE  Rank(trades, k) = i <=> k = place[i]
    OBVIOUS
  <2>1. Rank(trades, k) = 1 + Cardinality(Predecessors(before, n, k))
    BY <1>7 DEF Rank
  <2>2. Cardinality(Predecessors(before, n, k)) \in Nat
    <3>1. Predecessors(before, n, k) \subseteq 1..n /\ IsFiniteSet(1..n)
      BY <1>1, FS_Interval DEF Predecessors
    <3> QED
      BY <3>1, FS_Subset, FS_CardinalityType
  <2> QED
    BY <1>8, <2>1, <2>2
<1>11. \A i \in 1..n : (CHOOSE k \in 1..n : Rank(trades, k) = i) = place[i]
  BY <1>9, <1>10
<1>12. SortTrades(trades) = [i \in DOMAIN trades |-> trades[place[i]]]
  <2> DEFINE ranked(i) == CHOOSE k \in 1..n : Rank(trades, k) = i
  <2>1. \A i \in 1..n : ranked(i) = place[i]
    BY <1>11
  <2>2. SortTrades(trades) = [i \in 1..n |-> trades[ranked(i)]]
    BY <1>1 DEF SortTrades
  <2> HIDE DEF ranked
  <2> QED
    BY <1>1, <2>1, <2>2
<1>13. SortTrades(trades) \in Seq(T)
  <2>1. \A i \in 1..n : trades[place[i]] \in T
    BY <1>2, <1>9
  <2> DEFINE sorted == [i \in 1..n |-> trades[place[i]]]
  <2>2. sorted \in [1..n -> T]
    BY <2>1
  <2>3. sorted \in Seq(T)
    <3> HIDE DEF sorted
    <3> QED
      BY <1>1, <2>2
  <2> QED
    BY <1>1, <1>12, <2>3
<1> QED
  BY <1>1, <1>8, <1>12, <1>13

-----------------------------------------------------------------------------
\* Histories of trades and balances of given types.
RecordsOf(T, B) == [timestamp : Nat, trades : Seq(T), balances : B]
HistoriesOf(T, B) == [records : Seq(RecordsOf(T, B)), current : RecordsOf(T, B)]

\* The records of a history, the current one last.
LEMMA RecordsType ==
  ASSUME NEW T, NEW B, NEW h \in HistoriesOf(T, B)
  PROVE  /\ Records(h) \in Seq(RecordsOf(T, B))
         /\ Len(Records(h)) = Len(h.records) + 1
         /\ DOMAIN Records(h) = 1..(Len(h.records) + 1)
         /\ Len(h.records) \in Nat
         /\ Records(h)[Len(h.records) + 1] = h.current
         /\ \A i \in 1..Len(h.records) : Records(h)[i] = h.records[i]
         /\ \A i \in DOMAIN Records(h) : Records(h)[i].trades \in Seq(T)
         /\ h.current.trades \in Seq(T) /\ h.current.balances \in B
         /\ h.records \in Seq(RecordsOf(T, B)) /\ h.current \in RecordsOf(T, B)
<1>1. h.records \in Seq(RecordsOf(T, B)) /\ h.current \in RecordsOf(T, B)
  BY DEF HistoriesOf
<1>2. /\ Records(h) \in Seq(RecordsOf(T, B))
      /\ Len(Records(h)) = Len(h.records) + 1
      /\ DOMAIN Records(h) = 1..(Len(h.records) + 1)
      /\ Len(h.records) \in Nat
      /\ Records(h)[Len(h.records) + 1] = h.current
      /\ \A i \in 1..Len(h.records) : Records(h)[i] = h.records[i]
  BY <1>1 DEF Records
<1>3. \A i \in DOMAIN Records(h) : Records(h)[i] \in RecordsOf(T, B)
  BY <1>2
<1>4. \A r \in RecordsOf(T, B) : r.trades \in Seq(T) /\ r.balances \in B
  BY DEF RecordsOf
<1> QED
  BY <1>1, <1>2, <1>3, <1>4

\* A place is the number of a record and that of a trade in it.
LEMMA PlaceIs ==
  ASSUME NEW T, NEW B, NEW h \in HistoriesOf(T, B)
  PROVE  /\ \A i, k : <<i, k>> \in Places(h) <=>
              i \in 1..(Len(h.records) + 1) /\ k \in 1..Len(Records(h)[i].trades)
         /\ \A p \in Places(h) : p = <<p[1], p[2]>>
         /\ \A p \in Places(h) : AllTrades(h)[p] = Records(h)[p[1]].trades[p[2]]
         /\ \A p \in Places(h) : AllTrades(h)[p] \in T
         /\ IsFiniteSet(Places(h))
<1>1. \A i \in DOMAIN Records(h) : DOMAIN Records(h)[i].trades = 1..Len(Records(h)[i].trades)
                                   /\ Len(Records(h)[i].trades) \in Nat
  BY RecordsType
<1>2. DOMAIN Records(h) = 1..(Len(h.records) + 1) /\ Len(h.records) \in Nat
  BY RecordsType
<1>3. \A i, k : <<i, k>> \in Places(h) <=>
        i \in 1..(Len(h.records) + 1) /\ k \in 1..Len(Records(h)[i].trades)
  BY <1>1, <1>2 DEF Places
<1>4. \A p \in Places(h) : p = <<p[1], p[2]>> /\ p[1] \in DOMAIN Records(h) /\ p[2] \in DOMAIN Records(h)[p[1]].trades
  BY DEF Places
<1>5. \A p \in Places(h) : AllTrades(h)[p] = Records(h)[p[1]].trades[p[2]]
  BY DEF AllTrades
<1>6. \A p \in Places(h) : AllTrades(h)[p] \in T
  BY <1>4, <1>5, RecordsType
<1>7. IsFiniteSet(Places(h))
  <2> DEFINE Of(i) == {i} \X DOMAIN Records(h)[i].trades
             Parts == {Of(i) : i \in DOMAIN Records(h)}
             part == [i \in DOMAIN Records(h) |-> Of(i)]
  <2>1. IsFiniteSet(DOMAIN Records(h))
    BY <1>2, FS_Interval
  <2>2. part \in Surjection(DOMAIN Records(h), Parts)
    BY DEF Surjection
  <2>3. IsFiniteSet(Parts)
    <3> HIDE DEF part, Parts
    <3> QED
      BY <2>1, <2>2, FS_Surjection
  <2>4. ASSUME NEW i \in DOMAIN Records(h)
        PROVE  IsFiniteSet(Of(i))
    <3>1. PICK m \in Nat : DOMAIN Records(h)[i].trades = 1..m
      BY <1>1
    <3>2. IsFiniteSet(1..m)
      BY FS_Interval
    <3>3. IsFiniteSet({i})
      BY FS_Singleton
    <3> QED
      BY Zenon, <3>1, <3>2, <3>3, FS_Product
  <2>5. \A P \in Parts : IsFiniteSet(P)
    <3> HIDE DEF Of
    <3> QED
      BY <2>4
  <2>6. Places(h) = UNION Parts
    BY DEF Places
  <2> HIDE DEF Parts
  <2> QED
    BY <2>3, <2>5, <2>6, FS_UNION
<1> QED
  BY <1>3, <1>4, <1>5, <1>6, <1>7

\* A record with no trades has no places, and sorts to itself.
LEMMA NewHistoryPlaces ==
  ASSUME NEW T, NEW B, NEW timestamp \in Nat, NEW balances \in B
  PROVE  /\ NewHistory(timestamp, balances) \in HistoriesOf(T, B)
         /\ Places(NewHistory(timestamp, balances)) = {}
<1> DEFINE h == NewHistory(timestamp, balances)
<1>1. h.records = <<>> /\ h.current = [timestamp |-> timestamp, trades |-> <<>>, balances |-> balances]
  BY DEF NewHistory, NewRecord
<1>2. h = [records |-> h.records, current |-> h.current]
  BY DEF NewHistory
<1>3. h.current \in RecordsOf(T, B) /\ h.records \in Seq(RecordsOf(T, B))
  BY <1>1 DEF RecordsOf
<1>4. h \in HistoriesOf(T, B)
  BY <1>1, <1>2, <1>3 DEF HistoriesOf, NewHistory
<1>5. Records(h)[1] = h.current /\ Len(h.records) = 0
  <2> HIDE DEF h
  <2>1. Len(h.records) = 0
    BY <1>1
  <2> QED
    BY <2>1, <1>4, RecordsType
<1>6. Records(h)[1].trades = <<>>
  BY <1>1, <1>5
<1>7. Places(h) = {}
  <2> HIDE DEF h
  <2>1. \A p \in Places(h) : p = <<p[1], p[2]>>
    BY <1>4, PlaceIs
  <2>2. \A i, k : <<i, k>> \in Places(h) => i \in 1..1 /\ k \in 1..Len(Records(h)[i].trades)
    BY <1>4, <1>5, PlaceIs
  <2>3. \A i, k : <<i, k>> \notin Places(h)
    <3> SUFFICES ASSUME NEW i, NEW k, <<i, k>> \in Places(h)
                 PROVE  FALSE
      OBVIOUS
    <3>1. i = 1 /\ k \in 1..Len(Records(h)[i].trades)
      BY <2>2
    <3>2. k \in 1..Len(<<>>)
      BY Zenon, <1>6, <3>1
    <3> QED
      BY <3>2
  <2> QED
    BY <2>1, <2>3
<1> QED
  BY <1>4, <1>7

\* Adding a trade adds one place, with that trade.
LEMMA AddTradePlaces ==
  ASSUME NEW T, NEW B, NEW h \in HistoriesOf(T, B), NEW t \in T
  PROVE  /\ AddTrade(h, t) \in HistoriesOf(T, B)
         /\ \E new :
              /\ new \notin Places(h)
              /\ Places(AddTrade(h, t)) = Places(h) \cup {new}
              /\ AllTrades(AddTrade(h, t))[new] = t
              /\ \A p \in Places(h) : AllTrades(AddTrade(h, t))[p] = AllTrades(h)[p]
<1> DEFINE g == AddTrade(h, t)
           last == Len(h.records) + 1
           size == Len(h.current.trades)
           current == [h.current EXCEPT !.trades = Append(@, t)]
<1>1. /\ h.records \in Seq(RecordsOf(T, B)) /\ h.current \in RecordsOf(T, B)
      /\ h.current.trades \in Seq(T)
  BY RecordsType
<1>2. Append(h.current.trades, t) \in Seq(T)
  BY <1>1
<1>3. current \in RecordsOf(T, B) /\ current.trades = Append(h.current.trades, t)
  BY <1>1, <1>2 DEF RecordsOf
<1>4. g = [h EXCEPT !.current = current]
  BY DEF AddTrade
<1> HIDE DEF current, g
<1>6. g \in HistoriesOf(T, B) /\ g.records = h.records /\ g.current = current
  BY <1>3, <1>4 DEF HistoriesOf
<1>7. /\ Records(h)[last].trades = h.current.trades
      /\ Records(g)[last].trades = Append(h.current.trades, t)
      /\ \A i \in 1..Len(h.records) : Records(g)[i] = Records(h)[i]
      /\ last \in Nat \ {0} /\ Len(h.records) \in Nat
  <2>1. /\ Records(h)[last] = h.current /\ Len(h.records) \in Nat
        /\ \A i \in 1..Len(h.records) : Records(h)[i] = h.records[i]
    BY RecordsType
  <2>2. /\ Records(g)[last] = g.current
        /\ \A i \in 1..Len(h.records) : Records(g)[i] = h.records[i]
    <3>1. /\ Records(g)[Len(g.records) + 1] = g.current
          /\ \A i \in 1..Len(g.records) : Records(g)[i] = g.records[i]
      BY <1>6, RecordsType
    <3> QED
      BY Zenon, <1>6, <3>1
  <2> QED
    BY <1>3, <1>6, <2>1, <2>2
<1>8. size \in Nat
  BY <1>1
<1>9. /\ Len(Append(h.current.trades, t)) = size + 1
      /\ Append(h.current.trades, t)[size + 1] = t
      /\ \A k \in 1..size : Append(h.current.trades, t)[k] = h.current.trades[k]
  BY <1>1
<1>10. \A i, k : <<i, k>> \in Places(h) <=>
         \/ i \in 1..Len(h.records) /\ k \in 1..Len(Records(h)[i].trades)
         \/ i = last /\ k \in 1..size
  <2>1. \A i : i \in 1..last <=> i \in 1..Len(h.records) \/ i = last
    BY <1>7
  <2>2. last \notin 1..Len(h.records)
    BY <1>7
  <2>3. \A i, k : <<i, k>> \in Places(h) <=>
          i \in 1..last /\ k \in 1..Len(Records(h)[i].trades)
    BY PlaceIs
  <2> HIDE DEF last
  <2> QED
    BY Zenon, <1>7, <2>1, <2>2, <2>3
<1>11. \A i, k : <<i, k>> \in Places(g) <=>
         \/ i \in 1..Len(h.records) /\ k \in 1..Len(Records(h)[i].trades)
         \/ i = last /\ k \in 1..(size + 1)
  <2>1. \A i : i \in 1..last <=> i \in 1..Len(h.records) \/ i = last
    BY <1>7
  <2>2. last \notin 1..Len(h.records)
    BY <1>7
  <2>3. \A i, k : <<i, k>> \in Places(g) <=>
          i \in 1..last /\ k \in 1..Len(Records(g)[i].trades)
    BY <1>6, PlaceIs
  <2>4. Len(Records(g)[last].trades) = size + 1
    BY <1>7, <1>9
  <2> HIDE DEF last, size
  <2> QED
    BY Zenon, <1>7, <2>1, <2>2, <2>3, <2>4
<1> DEFINE new == <<last, size + 1>>
<1>12. /\ \A p \in Places(h) : p = <<p[1], p[2]>> /\ AllTrades(h)[p] = Records(h)[p[1]].trades[p[2]]
       /\ \A p \in Places(g) : p = <<p[1], p[2]>> /\ AllTrades(g)[p] = Records(g)[p[1]].trades[p[2]]
  BY <1>6, PlaceIs
<1>13. size + 1 \notin 1..size /\ \A k : k \in 1..(size + 1) <=> k \in 1..size \/ k = size + 1
  BY <1>8
<1>13a. last \notin 1..Len(h.records)
  BY <1>7
<1> HIDE DEF last, size
<1>14. new \notin Places(h)
  BY Zenon, <1>10, <1>13, <1>13a
<1>15. \A i, k : <<i, k>> \in Places(g) <=> <<i, k>> \in Places(h) \/ (i = last /\ k = size + 1)
  BY Zenon, <1>10, <1>11, <1>13
<1>16. Places(g) = Places(h) \cup {new}
  <2>1. ASSUME NEW p \in Places(g)
        PROVE  p \in Places(h) \/ p = new
    <3>1. p = <<p[1], p[2]>>
      BY Zenon, <1>12
    <3>2. <<p[1], p[2]>> \in Places(h) \/ (p[1] = last /\ p[2] = size + 1)
      BY Zenon, <1>15, <3>1
    <3> QED
      BY <3>1, <3>2
  <2>2. ASSUME NEW p \in Places(h)
        PROVE  p \in Places(g)
    <3>1. p = <<p[1], p[2]>>
      BY Zenon, <1>12
    <3> QED
      BY Zenon, <1>15, <3>1
  <2>3. new \in Places(g)
    BY Zenon, <1>15
  <2> QED
    BY Zenon, <2>1, <2>2, <2>3
<1>17. AllTrades(g)[new] = t
  <2>1. new \in Places(g)
    BY Zenon, <1>15
  <2>2. new[1] = last /\ new[2] = size + 1
    OBVIOUS
  <2>3. AllTrades(g)[new] = Records(g)[last].trades[size + 1]
    BY Zenon, <1>12, <2>1, <2>2
  <2> QED
    BY Zenon, <1>7, <1>9, <2>3
<1>18. ASSUME NEW p \in Places(h)
       PROVE  AllTrades(g)[p] = AllTrades(h)[p]
  <2>1. p \in Places(g)
    BY Zenon, <1>16
  <2>2. <<p[1], p[2]>> \in Places(h)
    BY Zenon, <1>12
  <2>3. CASE p[1] \in 1..Len(h.records)
    <3>1. Records(g)[p[1]] = Records(h)[p[1]]
      BY Zenon, <1>7, <2>3
    <3>2. /\ AllTrades(g)[p] = Records(g)[p[1]].trades[p[2]]
          /\ AllTrades(h)[p] = Records(h)[p[1]].trades[p[2]]
      BY Zenon, <1>12, <2>1
    <3> QED
      BY <3>1, <3>2
  <2>4. CASE p[1] = last /\ p[2] \in 1..size
    <3>1. Records(g)[p[1]].trades[p[2]] = Records(h)[p[1]].trades[p[2]]
      BY Zenon, <1>7, <1>9, <2>4
    <3> QED
      BY Zenon, <1>12, <2>1, <3>1
  <2> QED
    BY Zenon, <1>10, <2>2, <2>3, <2>4
<1> QED
  BY Zenon, <1>6, <1>14, <1>16, <1>17, <1>18 DEF g

\* A flush only sorts trades: they stay in their record, one to one.
LEMMA FlushPlaces ==
  ASSUME NEW T, NEW B, CanBeSorted(T), NEW h \in HistoriesOf(T, B),
         NEW timestamp \in Nat, NEW balances \in B
  PROVE  /\ Flush(h, timestamp, balances) \in HistoriesOf(T, B)
         /\ Flush(h, timestamp, balances).current = NewRecord(timestamp, balances)
         /\ Places(Flush(h, timestamp, balances)) = Places(h)
         /\ \E b \in Bijection(Places(h), Places(h)) : \A p \in Places(h) :
              AllTrades(Flush(h, timestamp, balances))[p] = AllTrades(h)[b[p]]
<1> DEFINE g == Flush(h, timestamp, balances)
           sorted == SortTrades(h.current.trades)
           closed == [h.current EXCEPT !.trades = sorted]
           opened == NewRecord(timestamp, balances)
           last == Len(h.records) + 1
           size == Len(h.current.trades)
<1>1. /\ h.records \in Seq(RecordsOf(T, B)) /\ h.current \in RecordsOf(T, B)
      /\ h.current.trades \in Seq(T)
  BY RecordsType
<1>2. size \in Nat /\ DOMAIN h.current.trades = 1..size
  BY <1>1
<1>3. sorted \in Seq(T)
  BY <1>1, SortIsPermutation
<1>4. PICK place \in Bijection(1..size, 1..size) :
        sorted = [i \in 1..size |-> h.current.trades[place[i]]]
  <2>1. \E place \in Bijection(DOMAIN h.current.trades, DOMAIN h.current.trades) :
          SortTrades(h.current.trades)
            = [i \in DOMAIN h.current.trades |-> h.current.trades[place[i]]]
    BY <1>1, SortIsPermutation
  <2> HIDE DEF size
  <2> QED
    BY Zenon, <1>2, <2>1
<1>4a. closed = [h.current EXCEPT !.trades = sorted]
  OBVIOUS
<1> HIDE DEF sorted
<1>5. closed \in RecordsOf(T, B) /\ closed.trades = sorted
  BY <1>1, <1>3 DEF RecordsOf
<1>6. opened \in RecordsOf(T, B) /\ opened.trades = <<>>
  BY DEF NewRecord, RecordsOf
<1>7. g = [records |-> Append(h.records, closed), current |-> opened]
  BY DEF Flush, sorted
<1>7a. g.current = opened
  BY <1>7
<1> HIDE DEF closed, opened, g
<1>8. g.records = Append(h.records, closed) /\ g.current = opened
  BY <1>7
<1>9. /\ Append(h.records, closed) \in Seq(RecordsOf(T, B))
      /\ Len(Append(h.records, closed)) = last
      /\ Append(h.records, closed)[last] = closed
      /\ \A i \in 1..Len(h.records) : Append(h.records, closed)[i] = h.records[i]
      /\ last \in Nat \ {0} /\ Len(h.records) \in Nat
  BY <1>1, <1>5
<1>10. g \in HistoriesOf(T, B)
  BY <1>6, <1>7, <1>9 DEF HistoriesOf
<1>11. /\ Records(h)[last] = h.current
       /\ \A i \in 1..Len(h.records) : Records(h)[i] = h.records[i]
  BY RecordsType
<1>12. /\ Records(g)[last + 1] = opened
       /\ Records(g)[last] = closed
       /\ \A i \in 1..Len(h.records) : Records(g)[i] = Records(h)[i]
  <2>1. Len(g.records) = last
    BY Zenon, <1>8, <1>9
  <2>2. /\ Records(g)[Len(g.records) + 1] = g.current
        /\ \A i \in 1..Len(g.records) : Records(g)[i] = g.records[i]
    BY <1>10, RecordsType
  <2>3. last \in 1..last /\ \A i \in 1..Len(h.records) : i \in 1..last
    BY <1>9
  <2> HIDE DEF last
  <2> QED
    BY Zenon, <1>8, <1>9, <1>11, <2>1, <2>2, <2>3
<1>13. Len(sorted) = size
  <2>1. sorted \in Seq(T) /\ DOMAIN sorted = 1..size
    BY <1>3, <1>4
  <2> HIDE DEF size
  <2> QED
    BY <1>2, <2>1
<1>14. \A i, k : <<i, k>> \in Places(h) <=>
         \/ i \in 1..Len(h.records) /\ k \in 1..Len(Records(h)[i].trades)
         \/ i = last /\ k \in 1..size
  <2>1. \A i : i \in 1..last <=> i \in 1..Len(h.records) \/ i = last
    BY <1>9
  <2>2. last \notin 1..Len(h.records)
    BY <1>9
  <2>3. \A i, k : <<i, k>> \in Places(h) <=>
          i \in 1..last /\ k \in 1..Len(Records(h)[i].trades)
    BY PlaceIs
  <2> HIDE DEF last
  <2> QED
    BY Zenon, <1>11, <2>1, <2>2, <2>3
<1>15. \A i, k : <<i, k>> \in Places(g) <=>
         \/ i \in 1..Len(h.records) /\ k \in 1..Len(Records(h)[i].trades)
         \/ i = last /\ k \in 1..size
  <2>1. \A i : i \in 1..(last + 1) <=> i \in 1..Len(h.records) \/ i = last \/ i = last + 1
    BY <1>9
  <2>2. last \notin 1..Len(h.records) /\ last # last + 1 /\ last + 1 \notin 1..Len(h.records)
    BY <1>9
  <2>3. \A i, k : <<i, k>> \in Places(g) <=>
          i \in 1..(last + 1) /\ k \in 1..Len(Records(g)[i].trades)
    <3>1. \A i, k : <<i, k>> \in Places(g) <=>
            i \in 1..(Len(g.records) + 1) /\ k \in 1..Len(Records(g)[i].trades)
      BY <1>10, PlaceIs
    <3>2. Len(g.records) = last
      BY Zenon, <1>8, <1>9
    <3> QED
      BY Zenon, <3>1, <3>2
  <2>4. Len(Records(g)[last].trades) = size
    BY Zenon, <1>5, <1>12, <1>13
  <2>5. \A k : k \notin 1..Len(Records(g)[last + 1].trades)
    <3>1. Records(g)[last + 1].trades = <<>>
      BY Zenon, <1>6, <1>12
    <3>2. \A k : k \notin 1..Len(<<>>)
      OBVIOUS
    <3> QED
      BY Zenon, <3>1, <3>2
  <2> HIDE DEF last, size
  <2> QED
    BY Zenon, <1>12, <2>1, <2>2, <2>3, <2>4, <2>5
<1>16. /\ \A p \in Places(h) : p = <<p[1], p[2]>> /\ AllTrades(h)[p] = Records(h)[p[1]].trades[p[2]]
       /\ \A p \in Places(g) : p = <<p[1], p[2]>> /\ AllTrades(g)[p] = Records(g)[p[1]].trades[p[2]]
  BY <1>10, PlaceIs
<1>17. Places(g) = Places(h)
  <2>1. \A i, k : <<i, k>> \in Places(g) <=> <<i, k>> \in Places(h)
    BY Zenon, <1>14, <1>15
  <2>2. ASSUME NEW p \in Places(g) PROVE p \in Places(h)
    <3>1. p = <<p[1], p[2]>>
      BY Zenon, <1>16
    <3> QED
      BY Zenon, <2>1, <3>1
  <2>3. ASSUME NEW p \in Places(h) PROVE p \in Places(g)
    <3>1. p = <<p[1], p[2]>>
      BY Zenon, <1>16
    <3> QED
      BY Zenon, <2>1, <3>1
  <2> QED
    BY Zenon, <2>2, <2>3
<1> DEFINE moved(p) == IF p[1] = last THEN <<last, place[p[2]]>> ELSE p
           b == [p \in Places(h) |-> moved(p)]
<1>18. last \notin 1..Len(h.records)
  BY <1>9
<1>19. /\ \A k \in 1..size : place[k] \in 1..size
       /\ \A k, m \in 1..size : place[k] = place[m] => k = m
       /\ \A m \in 1..size : \E k \in 1..size : place[k] = m
  BY <1>4 DEF Bijection, Injection, Surjection, IsInjective
<1> HIDE DEF last, size
<1>20. ASSUME NEW p \in Places(h)
       PROVE  \/ p[1] = last /\ p[2] \in 1..size /\ p = <<last, p[2]>>
              \/ p[1] # last /\ p[1] \in 1..Len(h.records)
  <2>1. p = <<p[1], p[2]>>
    BY Zenon, <1>16
  <2>2. <<p[1], p[2]>> \in Places(h)
    BY Zenon, <2>1
  <2>3. \/ p[1] \in 1..Len(h.records)
        \/ p[1] = last /\ p[2] \in 1..size
    BY Zenon, <1>14, <2>2
  <2>4. CASE p[1] \in 1..Len(h.records)
    BY Zenon, <1>18, <2>4
  <2>5. CASE p[1] = last /\ p[2] \in 1..size
    BY Zenon, <2>1, <2>5
  <2> QED
    BY Zenon, <2>3, <2>4, <2>5
<1>21. \A m \in 1..size : <<last, m>> \in Places(h) /\ <<last, m>>[1] = last /\ <<last, m>>[2] = m
  BY <1>14
<1>22. \A p \in Places(h) : b[p] = moved(p)
  OBVIOUS
<1>23. \A m \in 1..size : b[<<last, m>>] = <<last, place[m]>>
  BY Zenon, <1>21, <1>22
<1>24. \A p \in Places(h) : p[1] # last => b[p] = p
  BY Zenon, <1>22
<1> DEFINE P == Places(h)
<1>24a. P = Places(h) /\ b = [p \in P |-> moved(p)]
  OBVIOUS
<1>24b. b = [p \in P |-> b[p]]
  BY Zenon, <1>24a
<1> HIDE DEF b, moved, P
<1>25. ASSUME NEW p \in P
       PROVE  b[p] \in P /\ b[p][1] = p[1]
  <2>1. CASE p[1] = last
    <3>1. p[2] \in 1..size /\ p = <<last, p[2]>>
      BY Zenon, <1>20, <1>24a, <2>1
    <3>2. place[p[2]] \in 1..size /\ b[p] = <<last, place[p[2]]>>
      BY Zenon, <1>19, <1>23, <3>1
    <3>3. <<last, place[p[2]]>> \in P /\ <<last, place[p[2]]>>[1] = last
      BY Zenon, <1>21, <1>24a, <3>2
    <3> QED
      BY <2>1, <3>2, <3>3
  <2>2. CASE p[1] # last
    BY Zenon, <1>24, <1>24a, <2>2
  <2> QED
    BY Zenon, <2>1, <2>2
<1>26. ASSUME NEW p \in P, NEW q \in P, b[p] = b[q]
       PROVE  p = q
  <2>1. p[1] = q[1]
    <3>1. b[p][1] = b[q][1]
      BY <1>26
    <3>2. b[p][1] = p[1] /\ b[q][1] = q[1]
      BY Zenon, <1>25
    <3> QED
      BY <3>1, <3>2
  <2>2. CASE p[1] = last
    <3>1. p = <<last, p[2]>> /\ q = <<last, q[2]>> /\ p[2] \in 1..size /\ q[2] \in 1..size
      BY Zenon, <1>20, <1>24a, <2>1, <2>2
    <3>2. b[p] = <<last, place[p[2]]>> /\ b[q] = <<last, place[q[2]]>>
      BY Zenon, <1>23, <3>1
    <3>3. <<last, place[p[2]]>> = <<last, place[q[2]]>>
      BY <1>26, <3>2
    <3>4. place[p[2]] = place[q[2]]
      BY <3>3
    <3>5. p[2] = q[2]
      <4>1. p[2] \in 1..size /\ q[2] \in 1..size
        BY Zenon, <3>1
      <4>2. \A k, m \in 1..size : place[k] = place[m] => k = m
        BY Zenon, <1>19
      <4> QED
        BY <3>4, <4>1, <4>2
    <3> QED
      BY <3>1, <3>5
  <2>3. CASE p[1] # last
    BY Zenon, <1>24, <1>24a, <1>26, <2>1, <2>3
  <2> QED
    BY Zenon, <2>2, <2>3
<1>27. ASSUME NEW q \in P
       PROVE  \E p \in P : b[p] = q
  <2>1. CASE q[1] = last
    <3>1. q = <<last, q[2]>> /\ q[2] \in 1..size
      BY Zenon, <1>20, <1>24a, <2>1
    <3>2. PICK k \in 1..size : place[k] = q[2]
      BY Zenon, <1>19, <3>1
    <3>3. <<last, k>> \in P /\ b[<<last, k>>] = q
      BY Zenon, <1>21, <1>23, <1>24a, <3>1, <3>2
    <3> QED
      BY Zenon, <3>3
  <2>2. CASE q[1] # last
    BY Zenon, <1>24, <1>24a, <2>2
  <2> QED
    BY Zenon, <2>1, <2>2
<1>28. b \in Bijection(P, P)
  <2>1. b \in [P -> P]
    BY <1>24b, <1>25
  <2>2. b \in Injection(P, P)
    BY <1>26, <2>1 DEF Injection, IsInjective
  <2>3. b \in Surjection(P, P)
    BY <1>27, <2>1 DEF Surjection
  <2> QED
    BY <2>2, <2>3 DEF Bijection
<1>29. ASSUME NEW p \in P
       PROVE  AllTrades(g)[p] = AllTrades(h)[b[p]]
  <2>0. /\ AllTrades(g)[p] = Records(g)[p[1]].trades[p[2]]
        /\ AllTrades(h)[b[p]] = Records(h)[b[p][1]].trades[b[p][2]]
    BY Zenon, <1>16, <1>17, <1>24a, <1>25
  <2>1. CASE p[1] = last
    <3>1. p = <<last, p[2]>> /\ p[2] \in 1..size
      BY Zenon, <1>20, <1>24a, <2>1
    <3>2. b[p] = <<last, place[p[2]]>>
      BY Zenon, <1>23, <3>1
    <3>3. b[p][1] = last /\ b[p][2] = place[p[2]]
      BY <3>2
    <3>4. Records(g)[last].trades[p[2]] = h.current.trades[place[p[2]]]
      <4>1. Records(g)[last].trades = sorted
        BY Zenon, <1>5, <1>12
      <4>2. sorted[p[2]] = h.current.trades[place[p[2]]]
        BY <1>4, <3>1
      <4> QED
        BY Zenon, <4>1, <4>2
    <3> QED
      BY Zenon, <1>11, <2>0, <2>1, <3>3, <3>4
  <2>2. CASE p[1] # last
    <3>1. b[p] = p /\ p[1] \in 1..Len(h.records)
      BY Zenon, <1>20, <1>24, <1>24a, <2>2
    <3>2. Records(g)[p[1]] = Records(h)[p[1]]
      BY Zenon, <1>12, <3>1
    <3> QED
      BY Zenon, <2>0, <3>1, <3>2
  <2> QED
    BY Zenon, <2>1, <2>2
<1> QED
  BY Zenon, <1>7a, <1>10, <1>17, <1>24a, <1>28, <1>29 DEF g, opened

-----------------------------------------------------------------------------
\* What V of each trade adds up to over the run.
TradeSum(h, V) == SumFunctionOnSet([p \in Places(h) |-> V[AllTrades(h)[p]]], Places(h))

\* SumOf of the history is the sum of the trades' values.
LEMMA TradeSumOfNew ==
  ASSUME NEW V, NEW timestamp \in Nat, NEW balances
  PROVE  TradeSum(NewHistory(timestamp, balances), V) = 0
<1>1. Places(NewHistory(timestamp, balances)) = {}
  <2>1. balances \in {balances}
    OBVIOUS
  <2> QED
    BY <2>1, NewHistoryPlaces
<1> QED
  BY Zenon, <1>1, SumEmpty DEF TradeSum

\* Integers of a history's trades add up to an integer.
LEMMA TradeSumType ==
  ASSUME NEW T, NEW B, NEW h \in HistoriesOf(T, B), NEW V \in [T -> Int]
  PROVE  TradeSum(h, V) \in Int
<1>1. IsFiniteSet(Places(h)) /\ \A p \in Places(h) : AllTrades(h)[p] \in T
  BY PlaceIs
<1> DEFINE f == [p \in Places(h) |-> V[AllTrades(h)[p]]]
<1>2. \A p \in Places(h) : f[p] \in Int
  BY <1>1
<1> HIDE DEF f
<1>3. SumFunctionOnSet(f, Places(h)) \in Int
  BY <1>1, <1>2, SumInt
<1> QED
  BY Zenon, <1>3 DEF TradeSum, f

\* A trade that is added adds its value.
LEMMA TradeSumOfAdd ==
  ASSUME NEW T, NEW B, NEW h \in HistoriesOf(T, B), NEW t \in T, NEW V \in [T -> Int]
  PROVE  TradeSum(AddTrade(h, t), V) = TradeSum(h, V) + V[t]
<1> DEFINE g == AddTrade(h, t)
           f == [p \in Places(h) |-> V[AllTrades(h)[p]]]
           k == [p \in Places(g) |-> V[AllTrades(g)[p]]]
<1>1. PICK new :
        /\ new \notin Places(h)
        /\ Places(g) = Places(h) \cup {new}
        /\ AllTrades(g)[new] = t
        /\ \A p \in Places(h) : AllTrades(g)[p] = AllTrades(h)[p]
  BY AddTradePlaces
<1>2. IsFiniteSet(Places(h)) /\ \A p \in Places(h) : AllTrades(h)[p] \in T
  BY PlaceIs
<1>3. k[new] = V[t] /\ V[t] \in Int
  BY <1>1
<1>4. \A p \in Places(h) : f[p] \in Int /\ k[p] = f[p]
  BY <1>1, <1>2
<1>5. TradeSum(g, V) = SumFunctionOnSet(k, Places(g)) /\ TradeSum(h, V) = SumFunctionOnSet(f, Places(h))
  BY Zenon DEF TradeSum
<1> HIDE DEF g, f, k
<1>6. SumFunctionOnSet(k, Places(h) \cup {new}) = SumFunctionOnSet(k, Places(h)) + k[new]
  <2>1. \A p \in Places(h) \cup {new} : k[p] \in Int
    BY <1>3, <1>4
  <2> QED
    BY <1>1, <1>2, <2>1, SumAdd
<1>7. SumFunctionOnSet(k, Places(h)) = SumFunctionOnSet(f, Places(h))
  BY <1>2, <1>4, SumOfEqual
<1> QED
  BY Zenon, <1>1, <1>3, <1>5, <1>6, <1>7 DEF g

\* A flush adds nothing and loses nothing.
LEMMA TradeSumOfFlush ==
  ASSUME NEW T, NEW B, CanBeSorted(T), NEW h \in HistoriesOf(T, B),
         NEW timestamp \in Nat, NEW balances \in B, NEW V \in [T -> Int]
  PROVE  TradeSum(Flush(h, timestamp, balances), V) = TradeSum(h, V)
<1> DEFINE g == Flush(h, timestamp, balances)
           P == Places(h)
           f == [p \in Places(h) |-> V[AllTrades(h)[p]]]
           k == [p \in Places(g) |-> V[AllTrades(g)[p]]]
<1>1. Places(g) = P
  BY FlushPlaces
<1>2. PICK b \in Bijection(P, P) : \A p \in P : AllTrades(g)[p] = AllTrades(h)[b[p]]
  BY FlushPlaces
<1>3. IsFiniteSet(P) /\ \A p \in P : AllTrades(h)[p] \in T
  BY PlaceIs
<1>4. /\ \A p \in P : b[p] \in P
      /\ \A p, q \in P : b[p] = b[q] => p = q
      /\ \A q \in P : \E p \in P : b[p] = q
  <2> HIDE DEF P
  <2> QED
    BY <1>2 DEF Bijection, Injection, Surjection, IsInjective
<1>5. TradeSum(g, V) = SumFunctionOnSet(k, P) /\ TradeSum(h, V) = SumFunctionOnSet(f, P)
  BY Zenon, <1>1 DEF TradeSum
<1>6. \A p \in P : f[p] = V[AllTrades(h)[p]] /\ k[p] = V[AllTrades(g)[p]]
  BY <1>1
<1> HIDE DEF g, f, k, P
<1>7. (\A p \in P : k[p] \in Int) /\ (\A p \in P : f[b[p]] = k[p])
  BY <1>2, <1>3, <1>4, <1>6
<1>8. SumFunctionOnSet(f, P) = SumFunctionOnSet(k, P)
  BY <1>2, <1>3, <1>7, SumPermuted
<1> QED
  BY Zenon, <1>5, <1>8 DEF g

-----------------------------------------------------------------------------
\* What V of each element of a sequence adds up to.
SeqSum(trades, V) == SumFunctionOnSet([k \in DOMAIN trades |-> V[trades[k]]], DOMAIN trades)

\* No trades add up to nothing.
LEMMA SeqSumOfNone ==
  ASSUME NEW V
  PROVE  SeqSum(<<>>, V) = 0
<1>1. DOMAIN <<>> = {}
  OBVIOUS
<1> QED
  BY Zenon, <1>1, SumEmpty DEF SeqSum

\* Integers of trades add up to an integer.
LEMMA SeqSumType ==
  ASSUME NEW T, NEW trades \in Seq(T), NEW V \in [T -> Int]
  PROVE  SeqSum(trades, V) \in Int
<1> DEFINE f == [k \in DOMAIN trades |-> V[trades[k]]]
<1>1. Len(trades) \in Nat /\ DOMAIN trades = 1..Len(trades)
  OBVIOUS
<1>2. IsFiniteSet(DOMAIN trades)
  BY <1>1, FS_Interval
<1>3. \A k \in DOMAIN trades : f[k] \in Int
  OBVIOUS
<1> HIDE DEF f
<1>4. SumFunctionOnSet(f, DOMAIN trades) \in Int
  BY <1>2, <1>3, SumInt
<1> QED
  BY Zenon, <1>4 DEF SeqSum, f

\* An appended trade adds its value.
LEMMA SeqSumOfAppend ==
  ASSUME NEW T, NEW trades \in Seq(T), NEW t \in T, NEW V \in [T -> Int]
  PROVE  SeqSum(Append(trades, t), V) = SeqSum(trades, V) + V[t]
<1> DEFINE n == Len(trades)
           S == 1..n
           all == Append(trades, t)
           f == [k \in DOMAIN trades |-> V[trades[k]]]
           g == [k \in DOMAIN all |-> V[all[k]]]
<1>1. n \in Nat /\ DOMAIN trades = 1..n /\ DOMAIN all = 1..(n + 1)
  OBVIOUS
<1>2. DOMAIN all = S \cup {n + 1} /\ DOMAIN trades = S /\ n + 1 \notin S
  BY <1>1
<1>3. IsFiniteSet(S)
  BY <1>1, FS_Interval
<1>4. /\ \A k \in S : f[k] \in Int /\ g[k] = f[k]
      /\ g[n + 1] = V[t] /\ V[t] \in Int
  BY <1>1
<1>5. SeqSum(all, V) = SumFunctionOnSet(g, DOMAIN all)
      /\ SeqSum(trades, V) = SumFunctionOnSet(f, DOMAIN trades)
  BY Zenon DEF SeqSum
<1> HIDE DEF f, g, all, S, n
<1>6. SumFunctionOnSet(g, S \cup {n + 1}) = SumFunctionOnSet(g, S) + g[n + 1]
  BY <1>2, <1>3, <1>4, SumAdd
<1>7. SumFunctionOnSet(g, S) = SumFunctionOnSet(f, S)
  BY <1>3, <1>4, SumOfEqual
<1> QED
  BY Zenon, <1>2, <1>4, <1>5, <1>6, <1>7 DEF all

\* Sorting does not change what trades add up to.
LEMMA SeqSumOfSorted ==
  ASSUME NEW T, CanBeSorted(T), NEW trades \in Seq(T), NEW V \in [T -> Int]
  PROVE  SeqSum(SortTrades(trades), V) = SeqSum(trades, V)
<1> DEFINE D == DOMAIN trades
           sorted == SortTrades(trades)
           f == [k \in DOMAIN trades |-> V[trades[k]]]
           g == [k \in DOMAIN sorted |-> V[sorted[k]]]
<1>1. PICK place \in Bijection(D, D) : sorted = [i \in D |-> trades[place[i]]]
  BY SortIsPermutation
<1>2. /\ \A i \in D : place[i] \in D
      /\ \A i, j \in D : place[i] = place[j] => i = j
      /\ \A j \in D : \E i \in D : place[i] = j
  <2> HIDE DEF D
  <2> QED
    BY <1>1 DEF Bijection, Injection, Surjection, IsInjective
<1>3. DOMAIN sorted = D
  BY <1>1
<1>4. IsFiniteSet(D)
  <2>1. Len(trades) \in Nat /\ D = 1..Len(trades)
    OBVIOUS
  <2> QED
    BY <2>1, FS_Interval
<1>5. \A k \in D : trades[k] \in T
  OBVIOUS
<1>6. \A k \in D : f[k] = V[trades[k]] /\ g[k] = V[trades[place[k]]]
  BY <1>1, <1>3
<1>7. SeqSum(sorted, V) = SumFunctionOnSet(g, D) /\ SeqSum(trades, V) = SumFunctionOnSet(f, D)
  BY Zenon, <1>3 DEF SeqSum
<1> HIDE DEF f, g, D, sorted
<1>8. (\A k \in D : g[k] \in Int) /\ (\A k \in D : f[place[k]] = g[k])
  BY <1>2, <1>5, <1>6
<1>9. SumFunctionOnSet(f, D) = SumFunctionOnSet(g, D)
  BY <1>1, <1>4, <1>8, SumPermuted
<1> QED
  BY Zenon, <1>7, <1>9 DEF sorted

-----------------------------------------------------------------------------
\* What adding a trade and flushing do to the records themselves.
LEMMA AddTradeRecords ==
  ASSUME NEW T, NEW B, NEW h \in HistoriesOf(T, B), NEW t \in T
  PROVE  /\ AddTrade(h, t).records = h.records
         /\ AddTrade(h, t).current.trades = Append(h.current.trades, t)
         /\ AddTrade(h, t).current.balances = h.current.balances
         /\ AddTrade(h, t).current.timestamp = h.current.timestamp
<1> DEFINE current == [h.current EXCEPT !.trades = Append(@, t)]
<1>1. h.current \in RecordsOf(T, B)
  BY RecordsType
<1>2. /\ current.trades = Append(h.current.trades, t)
      /\ current.balances = h.current.balances
      /\ current.timestamp = h.current.timestamp
  BY <1>1 DEF RecordsOf
<1>3. AddTrade(h, t) = [h EXCEPT !.current = current]
  BY DEF AddTrade
<1> HIDE DEF current
<1>4. AddTrade(h, t).records = h.records /\ AddTrade(h, t).current = current
  BY <1>3 DEF HistoriesOf
<1> QED
  BY Zenon, <1>2, <1>4

\* A flush finishes the current record, sorted, and leaves the earlier ones alone.
LEMMA FlushRecords ==
  ASSUME NEW T, NEW B, CanBeSorted(T), NEW h \in HistoriesOf(T, B), NEW timestamp, NEW balances
  PROVE  /\ Len(Flush(h, timestamp, balances).records) = Len(h.records) + 1
         /\ \A i \in 1..Len(h.records) : Flush(h, timestamp, balances).records[i] = h.records[i]
         /\ Flush(h, timestamp, balances).records[Len(h.records) + 1].trades
              = SortTrades(h.current.trades)
         /\ Flush(h, timestamp, balances).records[Len(h.records) + 1].balances
              = h.current.balances
         /\ Flush(h, timestamp, balances).records[Len(h.records) + 1].timestamp
              = h.current.timestamp
         /\ Flush(h, timestamp, balances).current = NewRecord(timestamp, balances)
<1> DEFINE closed == [h.current EXCEPT !.trades = SortTrades(@)]
<1>1. h.current \in RecordsOf(T, B) /\ h.records \in Seq(RecordsOf(T, B))
      /\ h.current.trades \in Seq(T)
  BY RecordsType
<1>2. SortTrades(h.current.trades) \in Seq(T)
  BY <1>1, SortIsPermutation
<1>3. /\ closed \in RecordsOf(T, B)
      /\ closed.trades = SortTrades(h.current.trades)
      /\ closed.balances = h.current.balances
      /\ closed.timestamp = h.current.timestamp
  BY <1>1, <1>2 DEF RecordsOf
<1>4. /\ Flush(h, timestamp, balances).records = Append(h.records, closed)
      /\ Flush(h, timestamp, balances).current = NewRecord(timestamp, balances)
  BY DEF Flush
<1> HIDE DEF closed
<1>5. /\ Len(Append(h.records, closed)) = Len(h.records) + 1
      /\ Append(h.records, closed)[Len(h.records) + 1] = closed
      /\ \A i \in 1..Len(h.records) : Append(h.records, closed)[i] = h.records[i]
  BY <1>1, <1>3
<1> QED
  BY Zenon, <1>3, <1>4, <1>5

-----------------------------------------------------------------------------
\* One to one correspondences.
LEMMA CorrespondenceExtends ==
  ASSUME NEW P, NEW F, NEW b \in Bijection(P, F), NEW p, p \notin P, NEW f, f \notin F
  PROVE  [x \in P \cup {p} |-> IF x = p THEN f ELSE b[x]] \in Bijection(P \cup {p}, F \cup {f})
<1> DEFINE c == [x \in P \cup {p} |-> IF x = p THEN f ELSE b[x]]
<1>1. /\ \A x \in P : b[x] \in F
      /\ \A x, y \in P : b[x] = b[y] => x = y
      /\ \A y \in F : \E x \in P : b[x] = y
  BY DEF Bijection, Injection, Surjection, IsInjective
<1>2. c[p] = f /\ \A x \in P : c[x] = b[x]
  OBVIOUS
<1>3. c \in [P \cup {p} -> F \cup {f}]
  BY <1>1
<1> HIDE DEF c
<1>4. c \in Injection(P \cup {p}, F \cup {f})
  BY <1>1, <1>2, <1>3 DEF Injection, IsInjective
<1>5. c \in Surjection(P \cup {p}, F \cup {f})
  <2>1. \A y \in F \cup {f} : \E x \in P \cup {p} : c[x] = y
    BY <1>1, <1>2
  <2> QED
    BY <1>3, <2>1 DEF Surjection
<1> QED
  BY <1>4, <1>5 DEF Bijection, c

\* Correspondences compose.
LEMMA CorrespondenceComposes ==
  ASSUME NEW P, NEW Q, NEW F, NEW b \in Bijection(P, F), NEW c \in Bijection(Q, P)
  PROVE  [x \in Q |-> b[c[x]]] \in Bijection(Q, F)
<1> DEFINE d == [x \in Q |-> b[c[x]]]
<1>1. /\ \A x \in P : b[x] \in F
      /\ \A x, y \in P : b[x] = b[y] => x = y
      /\ \A y \in F : \E x \in P : b[x] = y
  BY DEF Bijection, Injection, Surjection, IsInjective
<1>2. /\ \A x \in Q : c[x] \in P
      /\ \A x, y \in Q : c[x] = c[y] => x = y
      /\ \A y \in P : \E x \in Q : c[x] = y
  BY DEF Bijection, Injection, Surjection, IsInjective
<1>3. \A x \in Q : d[x] = b[c[x]]
  OBVIOUS
<1>4. d \in [Q -> F]
  BY <1>1, <1>2
<1> HIDE DEF d
<1>5. d \in Injection(Q, F)
  BY <1>1, <1>2, <1>3, <1>4 DEF Injection, IsInjective
<1>6. d \in Surjection(Q, F)
  <2>1. \A y \in F : \E x \in Q : d[x] = y
    BY <1>1, <1>2, <1>3
  <2> QED
    BY <1>4, <2>1 DEF Surjection
<1> QED
  BY <1>5, <1>6 DEF Bijection, d

\* Parts that correspond are of one size.
LEMMA CorrespondenceCounts ==
  ASSUME NEW P, NEW F, IsFiniteSet(P), NEW b \in Bijection(P, F),
         NEW Q \in SUBSET P, NEW G \in SUBSET F, \A x \in P : x \in Q <=> b[x] \in G
  PROVE  IsFiniteSet(G) /\ Cardinality(G) = Cardinality(Q)
<1> DEFINE d == [x \in Q |-> b[x]]
<1>1. /\ \A x \in P : b[x] \in F
      /\ \A x, y \in P : b[x] = b[y] => x = y
      /\ \A y \in F : \E x \in P : b[x] = y
  BY DEF Bijection, Injection, Surjection, IsInjective
<1>2. \A x \in Q : d[x] = b[x]
  OBVIOUS
<1>3. d \in [Q -> G]
  OBVIOUS
<1> HIDE DEF d
<1>4. d \in Injection(Q, G)
  BY <1>1, <1>2, <1>3 DEF Injection, IsInjective
<1>5. d \in Surjection(Q, G)
  <2>1. \A y \in G : \E x \in Q : d[x] = y
    BY <1>1, <1>2
  <2> QED
    BY <1>3, <2>1 DEF Surjection
<1>6. ExistsBijection(Q, G)
  BY <1>4, <1>5 DEF Bijection, ExistsBijection
<1>7. IsFiniteSet(Q)
  BY FS_Subset
<1> QED
  BY <1>6, <1>7, FS_Bijection

-----------------------------------------------------------------------------
(* Loops.                                                                  *)

\* The states of a loop over 1..n.
IsLoop(f, S, base, step, n) ==
  /\ f \in [0..n -> S] /\ f[0] = base
  /\ \A k \in 1..n : f[k] = step[k][f[k - 1]]

\* A loop has them.
LEMMA LoopExists ==
  ASSUME NEW S, NEW base \in S, NEW n \in Nat, NEW step \in [1..n -> [S -> S]]
  PROVE  \E f : IsLoop(f, S, base, step, n)
<1> DEFINE Trace(f, m) == /\ f \in [0..m -> S] /\ f[0] = base
                          /\ \A k \in 1..m : f[k] = step[k][f[k - 1]]
           N == {m \in Nat : m <= n => \E f : Trace(f, m)}
<1>1. 0 \in N
  <2>1. Trace([k \in 0..0 |-> base], 0)
    OBVIOUS
  <2> QED
    BY <2>1
<1>2. ASSUME NEW m \in N
      PROVE  m + 1 \in N
  <2> HIDE DEF Trace
  <2>0. m \in Nat /\ (m <= n => \E g : Trace(g, m))
    OBVIOUS
  <2> SUFFICES ASSUME m + 1 <= n
               PROVE  \E f : Trace(f, m + 1)
    BY <2>0
  <2>1. PICK g : Trace(g, m)
    BY <2>0
  <2> USE DEF Trace
  <2>2. g[m] \in S /\ m + 1 \in 1..n
    BY <2>0, <2>1
  <2>3. step[m + 1][g[m]] \in S
    BY <2>2
  <2> DEFINE f == [k \in 0..(m + 1) |-> IF k = m + 1 THEN step[m + 1][g[m]] ELSE g[k]]
  <2>4. f \in [0..(m + 1) -> S] /\ f[0] = base /\ f[m + 1] = step[m + 1][g[m]]
        /\ \A k \in 0..m : f[k] = g[k]
    BY <2>1, <2>3
  <2> HIDE DEF f
  <2>5. ASSUME NEW k \in 1..(m + 1)
        PROVE  f[k] = step[k][f[k - 1]]
    <3>1. CASE k = m + 1
      <4>1. k - 1 = m /\ m \in 0..m
        BY <3>1
      <4> QED
        BY <2>4, <3>1, <4>1
    <3>2. CASE k # m + 1
      <4>1. k \in 1..m /\ k \in 0..m /\ k - 1 \in 0..m
        BY <3>2
      <4> QED
        BY <2>1, <2>4, <4>1
    <3> QED
      BY <3>1, <3>2
  <2>6. Trace(f, m + 1)
    BY <2>4, <2>5
  <2> QED
    BY <2>6
<1>3. N = Nat
  <2> HIDE DEF N
  <2>1. N \subseteq Nat
    BY DEF N
  <2> QED
    BY <1>1, <1>2, <2>1, NatSetInduction
<1>4. PICK f : Trace(f, n)
  <2>1. n \in N
    BY <1>3
  <2> QED
    BY <2>1
<1> QED
  BY <1>4 DEF IsLoop
=============================================================================
