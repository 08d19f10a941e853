-------------------------------- MODULE Sums --------------------------------
(***************************************************************************)
(* Finite sums and cardinalities, for the proofs about the numbers that    *)
(* are shown: the sums of the aggregation queries, of the metrics window   *)
(* and of a chart.  The sum of f over S is SumFunctionOnSet(f, S): a fold  *)
(* over S in an order nobody chose.                                        *)
(*                                                                         *)
(* Each induction is an argument on a smallest counterexample.             *)
(***************************************************************************)
EXTENDS Integers, Sequences, SequencesExt, FiniteSetsExt, FiniteSetTheorems, TLAPS

(***************************************************************************)
(* Smallest counterexamples.                                               *)
(***************************************************************************)
\* Numbers that fail have a least one among them.
LEMMA LeastNumber ==
  ASSUME NEW C \in SUBSET Nat, C # {}
  PROVE  \E n \in C : \A m \in C : n <= m
<1>1. PICK n \in C : \A m \in C : ~ (<<m, n>> \in OpToRel(<, Nat))
  BY NatLessThanWellFounded, WFMin
<1>2. \A m \in C : ~ (m < n)
  BY <1>1 DEF OpToRel
<1> QED BY <1>2

\* Parts of a finite set that fail have one among them with no smaller part that fails.
LEMMA SmallestPart ==
  ASSUME NEW S, IsFiniteSet(S), NEW C \in SUBSET SUBSET S, C # {}
  PROVE  \E T \in C : IsFiniteSet(T) /\ \A U \in SUBSET T : U # T => U \notin C
<1>1. C \subseteq FiniteSubsetsOf(S)
  BY FS_FiniteSubsetsOfFinite
<1>2. PICK T \in C : \A U \in C : ~ (<<U, T>> \in StrictSubsetOrdering(S))
  BY <1>1, FS_StrictSubsetOrderingWellFounded, WFMin
<1>3. \A U \in SUBSET T : U # T => U \notin C
  BY <1>2 DEF StrictSubsetOrdering
<1>4. IsFiniteSet(T)
  BY FS_Subset
<1> QED BY <1>3, <1>4

\* A finite set of integers that is not empty has a greatest element.
LEMMA Greatest ==
  ASSUME NEW S, IsFiniteSet(S), S \subseteq Int, S # {}
  PROVE  Max(S) \in S /\ \A x \in S : x <= Max(S)
<1> DEFINE C == {T \in SUBSET S : T # {} /\ ~ \E m \in T : \A x \in T : x <= m}
<1>1. C = {}
  <2> SUFFICES ASSUME C # {} PROVE FALSE
    OBVIOUS
  <2>1. PICK T \in C : \A U \in SUBSET T : U # T => U \notin C
    <3>1. C \in SUBSET SUBSET S
      OBVIOUS
    <3> HIDE DEF C
    <3> QED BY <3>1, SmallestPart
  <2>2. PICK y \in T : TRUE
    OBVIOUS
  <2>3. T \ {y} \in SUBSET T /\ T \ {y} # T /\ T \in SUBSET S
    BY <2>2
  <2>4. CASE T \ {y} = {}
    BY <2>2, <2>4
  <2>5. CASE T \ {y} # {}
    <3>1. PICK m \in T \ {y} : \A x \in T \ {y} : x <= m
      BY <2>1, <2>3, <2>5
    <3>2. m \in Int /\ y \in Int /\ \A x \in T : x \in Int
      BY <2>2, <2>3, <3>1
    <3>3. CASE y <= m
      BY <3>1, <3>3
    <3>4. CASE m <= y
      BY <2>2, <3>1, <3>2, <3>4
    <3> QED BY <3>2, <3>3, <3>4
  <2> QED BY <2>4, <2>5
<1>2. \E m \in S : \A x \in S : x <= m
  BY <1>1
<1>3. \E m \in S : \A x \in S : m >= x
  BY <1>2
<1>4. Max(S) \in S /\ \A x \in S : Max(S) >= x
  BY <1>3, Zenon DEF Max
<1> QED BY <1>4

\* And a least one.
LEMMA Least ==
  ASSUME NEW S, IsFiniteSet(S), S \subseteq Int, S # {}
  PROVE  Min(S) \in S /\ \A x \in S : Min(S) <= x
<1> DEFINE negated == {-x : x \in S}
           negate == [x \in S |-> -x]
<1>1. IsFiniteSet(negated)
  <2>1. negate \in Surjection(S, negated)
    BY DEF Surjection
  <2> QED BY <2>1, FS_Surjection
<1>2. negated \subseteq Int /\ negated # {}
  OBVIOUS
<1>3. PICK m \in negated : \A x \in negated : x <= m
  BY <1>1, <1>2, Greatest
<1>4. -m \in S /\ \A x \in S : -m <= x
  <2>1. PICK y \in S : m = -y
    OBVIOUS
  <2>2. \A x \in S : -x <= m
    BY <1>3
  <2>3. \A x \in S : x \in Int
    OBVIOUS
  <2> HIDE DEF negated
  <2> QED BY <2>1, <2>2, <2>3
<1>5. Min(S) \in S /\ \A x \in S : Min(S) <= x
  BY <1>4, Zenon DEF Min
<1> QED BY <1>5

(***************************************************************************)
(* The fold that SumFunctionOnSet is: which element it takes away first is *)
(* the choice of CHOOSE.                                                   *)
(***************************************************************************)
Chosen(s) == CHOOSE x \in s : TRUE

Folds(g, f, S) ==
  g = [s \in SUBSET S |-> IF s = {} THEN 0 ELSE f[Chosen(s)] + g[s \ {Chosen(s)}]]

\* The choice is an element, and taking it away takes something away.
LEMMA ChosenIn == \A s : s # {} => Chosen(s) \in s /\ s \ {Chosen(s)} # s
BY DEF Chosen

\* A fold begins at 0.
LEMMA FoldsEmpty == ASSUME NEW g, NEW f, NEW S, Folds(g, f, S) PROVE g[{}] = 0
BY DEF Folds

\* It adds what it takes away.
LEMMA FoldsAt ==
  ASSUME NEW g, NEW f, NEW S, Folds(g, f, S), NEW s \in SUBSET S, s # {}
  PROVE  g[s] = f[Chosen(s)] + g[s \ {Chosen(s)}]
BY DEF Folds

\* Folds over two sets agree on what the sets share.
LEMMA FoldsAgree ==
  ASSUME NEW S, IsFiniteSet(S), NEW T, NEW f, NEW g, NEW h, Folds(g, f, S), Folds(h, f, T)
  PROVE  \A s \in SUBSET (S \cap T) : g[s] = h[s]
<1> DEFINE C == {s \in SUBSET (S \cap T) : g[s] # h[s]}
<1> SUFFICES ASSUME C # {} PROVE FALSE
  OBVIOUS
<1>1. C \in SUBSET SUBSET S
  OBVIOUS
<1>2. PICK s \in C : \A U \in SUBSET s : U # s => U \notin C
  <2> HIDE DEF C
  <2> QED BY <1>1, SmallestPart
<1>3. s \in SUBSET S /\ s \in SUBSET T /\ g[s] # h[s]
  OBVIOUS
<1> HIDE DEF C
<1>4. CASE s = {}
  BY <1>3, <1>4, FoldsEmpty
<1>5. CASE s # {}
  <2>1. g[s] = f[Chosen(s)] + g[s \ {Chosen(s)}]
    BY <1>3, <1>5, FoldsAt
  <2>2. h[s] = f[Chosen(s)] + h[s \ {Chosen(s)}]
    BY <1>3, <1>5, FoldsAt
  <2>3. s \ {Chosen(s)} \in SUBSET s /\ s \ {Chosen(s)} # s
    BY <1>5, ChosenIn
  <2>4. g[s \ {Chosen(s)}] = h[s \ {Chosen(s)}]
    BY <1>2, <1>3, <2>3 DEF C
  <2> QED BY <1>3, <2>1, <2>2, <2>4
<1> QED BY <1>4, <1>5

\* There is a fold over every finite set.
LEMMA FoldExists ==
  ASSUME NEW S, IsFiniteSet(S), NEW f
  PROVE  \E g : Folds(g, f, S)
<1> DEFINE C == {T \in SUBSET S : ~ \E g : Folds(g, f, T)}
           fold(T) == CHOOSE g : Folds(g, f, T)
<1>1. SUFFICES ASSUME C # {} PROVE FALSE
  OBVIOUS
<1>2. PICK T \in C : IsFiniteSet(T) /\ \A U \in SUBSET T : U # T => U \notin C
  <2>1. C \in SUBSET SUBSET S
    OBVIOUS
  <2> HIDE DEF C
  <2> QED BY <1>1, <2>1, SmallestPart
<1>3. T \in SUBSET S /\ ~ \E g : Folds(g, f, T)
  OBVIOUS
<1>4. ASSUME NEW U \in SUBSET T, U # T PROVE Folds(fold(U), f, U)
  <2>1. \E g : Folds(g, f, U)
    BY <1>2, <1>3, <1>4
  <2> QED BY <2>1, Zenon
<1> HIDE DEF fold, C
<1> DEFINE rest(s) == s \ {Chosen(s)}
           h == [s \in SUBSET T |-> IF s = T /\ s # {} THEN f[Chosen(s)] + fold(rest(s))[rest(s)]
                                    ELSE IF s = T THEN 0 ELSE fold(s)[s]]
<1>5. h[{}] = 0
  <2>1. CASE T # {}
    <3>1. Folds(fold({}), f, {})
      BY <1>4, <2>1
    <3>2. fold({})[{}] = 0
      BY <3>1, FoldsEmpty
    <3> QED BY <2>1, <3>2
  <2> QED BY <2>1
<1>6. ASSUME NEW s \in SUBSET T, s # {}
      PROVE  h[s] = f[Chosen(s)] + h[rest(s)]
  <2>1. rest(s) \in SUBSET s /\ rest(s) # s /\ rest(s) # T /\ rest(s) \in SUBSET T
    BY <1>6, ChosenIn
  <2>2. h[rest(s)] = fold(rest(s))[rest(s)]
    BY <2>1
  <2>3. CASE s = T
    BY <1>6, <2>2, <2>3
  <2>4. CASE s # T
    <3>1. h[s] = fold(s)[s]
      BY <2>4
    <3>2. Folds(fold(s), f, s) /\ Folds(fold(rest(s)), f, rest(s))
      BY <1>4, <2>1, <2>4
    <3>3. fold(s)[s] = f[Chosen(s)] + fold(s)[rest(s)]
      BY <1>6, <3>2, FoldsAt
    <3>4. fold(s)[rest(s)] = fold(rest(s))[rest(s)]
      <4>1. IsFiniteSet(s) /\ rest(s) \in SUBSET (s \cap rest(s))
        BY <1>2, <2>1, FS_Subset
      <4> HIDE DEF rest
      <4> QED BY <3>2, <4>1, FoldsAgree
    <3> QED BY <2>2, <3>1, <3>3, <3>4
  <2> QED BY <2>3, <2>4
<1>7. Folds(h, f, T)
  <2>1. DOMAIN h = SUBSET T /\ h = [s \in SUBSET T |-> h[s]]
    OBVIOUS
  <2>2. \A s \in SUBSET T : h[s] = IF s = {} THEN 0 ELSE f[Chosen(s)] + h[s \ {Chosen(s)}]
    BY <1>5, <1>6
  <2> HIDE DEF h
  <2> QED BY <2>1, <2>2 DEF Folds
<1> QED BY <1>3, <1>7

\* A sum is some fold over its set.
LEMMA SumIsChosenFold ==
  ASSUME NEW f, NEW S
  PROVE  SumFunctionOnSet(f, S) = (CHOOSE g : Folds(g, f, S))[S]
BY DEF SumFunctionOnSet, FoldFunctionOnSet, MapThenFoldSet, Folds, Chosen

\* The sum is the value of any fold that goes as far.
LEMMA SumIsFold ==
  ASSUME NEW S, IsFiniteSet(S), NEW f, NEW g, NEW T, Folds(g, f, T), S \subseteq T
  PROVE  SumFunctionOnSet(f, S) = g[S]
<1> DEFINE iter == CHOOSE h : Folds(h, f, S)
<1>1. SumFunctionOnSet(f, S) = iter[S]
  BY SumIsChosenFold
<1>2. Folds(iter, f, S)
  BY FoldExists
<1> HIDE DEF iter
<1>3. S \in SUBSET (S \cap T)
  OBVIOUS
<1> QED BY <1>1, <1>2, <1>3, FoldsAgree

(***************************************************************************)
(* Sums.                                                                   *)
(***************************************************************************)
\* A sum over nothing.
LEMMA SumOfNothing == ASSUME NEW f PROVE SumFunctionOnSet(f, {}) = 0
<1>1. IsFiniteSet({})
  BY FS_EmptySet
<1>2. PICK g : Folds(g, f, {})
  BY <1>1, FoldExists
<1> QED BY <1>1, <1>2, SumIsFold, FoldsEmpty

\* The element taken away first, and the others.
LEMMA SumAtChosen ==
  ASSUME NEW S, IsFiniteSet(S), NEW f, S # {}
  PROVE  SumFunctionOnSet(f, S) = f[Chosen(S)] + SumFunctionOnSet(f, S \ {Chosen(S)})
<1> DEFINE rest == S \ {Chosen(S)}
<1>1. PICK g : Folds(g, f, S)
  BY FoldExists
<1>2. S \in SUBSET S /\ rest \subseteq S /\ IsFiniteSet(rest)
  BY FS_RemoveElement
<1>3. SumFunctionOnSet(f, S) = g[S]
  BY <1>1, SumIsFold
<1>4. SumFunctionOnSet(f, rest) = g[rest]
  <2> HIDE DEF rest
  <2> QED BY <1>1, <1>2, SumIsFold
<1>5. g[S] = f[Chosen(S)] + g[rest]
  BY <1>1, <1>2, FoldsAt
<1> QED BY <1>3, <1>4, <1>5

\* A sum of integers is one.
LEMMA SumType ==
  ASSUME NEW S, IsFiniteSet(S), NEW f, \A x \in S : f[x] \in Int
  PROVE  SumFunctionOnSet(f, S) \in Int
<1> DEFINE C == {T \in SUBSET S : SumFunctionOnSet(f, T) \notin Int}
<1> SUFFICES ASSUME C # {} PROVE FALSE
  OBVIOUS
<1>1. C \in SUBSET SUBSET S
  OBVIOUS
<1> HIDE DEF C
<1>2. PICK T \in C : IsFiniteSet(T) /\ \A U \in SUBSET T : U # T => U \notin C
  BY <1>1, SmallestPart
<1>3. T \in SUBSET S /\ SumFunctionOnSet(f, T) \notin Int
  BY DEF C
<1>4. T # {}
  BY <1>3, SumOfNothing
<1>5. Chosen(T) \in T /\ T \ {Chosen(T)} \in SUBSET T /\ T \ {Chosen(T)} # T
  BY <1>4, ChosenIn
<1>6. SumFunctionOnSet(f, T \ {Chosen(T)}) \in Int
  BY <1>2, <1>3, <1>5 DEF C
<1>7. SumFunctionOnSet(f, T) = f[Chosen(T)] + SumFunctionOnSet(f, T \ {Chosen(T)})
  BY <1>2, <1>4, SumAtChosen
<1> QED BY <1>3, <1>5, <1>6, <1>7

\* Any element may be the one taken away first.
LEMMA SumAt ==
  ASSUME NEW S, IsFiniteSet(S), NEW f, \A x \in S : f[x] \in Int, NEW x \in S
  PROVE  SumFunctionOnSet(f, S) = f[x] + SumFunctionOnSet(f, S \ {x})
<1> DEFINE sum(T) == SumFunctionOnSet(f, T)
           C == {T \in SUBSET S : \E y \in T : sum(T) # f[y] + sum(T \ {y})}
<1> SUFFICES ASSUME C # {} PROVE FALSE
  OBVIOUS
<1>1. C \in SUBSET SUBSET S
  OBVIOUS
<1>2. \A T \in SUBSET S : IsFiniteSet(T) /\ sum(T) \in Int
  <2> TAKE T \in SUBSET S
  <2>1. IsFiniteSet(T) /\ \A y \in T : f[y] \in Int
    BY FS_Subset
  <2> QED BY <2>1, SumType
<1> HIDE DEF C
<1>3. PICK T \in C : \A U \in SUBSET T : U # T => U \notin C
  BY <1>1, SmallestPart
<1>4. PICK y \in T : sum(T) # f[y] + sum(T \ {y})
  BY DEF C
<1> DEFINE z == Chosen(T)
<1>5. T \in SUBSET S /\ T # {} /\ z \in T /\ T \ {z} # T
  BY <1>1, ChosenIn
<1>6. sum(T) = f[z] + sum(T \ {z})
  BY <1>2, <1>5, SumAtChosen
<1> HIDE DEF sum, z
<1>7. y # z
  BY <1>4, <1>6
<1>8. sum(T \ {z}) = f[y] + sum((T \ {z}) \ {y})
  <2>1. T \ {z} \in SUBSET T /\ T \ {z} \notin C /\ y \in T \ {z} /\ T \ {z} \in SUBSET S
    BY <1>3, <1>5, <1>7
  <2> QED BY <2>1 DEF C
<1>9. sum(T \ {y}) = f[z] + sum((T \ {y}) \ {z})
  <2>1. T \ {y} \in SUBSET T /\ T \ {y} # T /\ z \in T \ {y} /\ T \ {y} \in SUBSET S
    BY <1>5, <1>7
  <2>2. T \ {y} \notin C
    BY <1>3, <2>1
  <2> QED BY <2>1, <2>2 DEF C
<1>10. (T \ {z}) \ {y} = (T \ {y}) \ {z}
  OBVIOUS
<1>11. /\ f[y] \in Int /\ f[z] \in Int /\ sum(T) \in Int /\ sum(T \ {z}) \in Int
       /\ sum(T \ {y}) \in Int /\ sum((T \ {y}) \ {z}) \in Int
  BY <1>2, <1>5
<1> DEFINE others == sum((T \ {y}) \ {z})
<1>12. sum(T) = f[z] + (f[y] + others) /\ sum(T \ {y}) = f[z] + others
  BY <1>6, <1>8, <1>9, <1>10
<1>13. others \in Int
  BY <1>11
<1> HIDE DEF others
<1>14. f[y] \in Int /\ f[z] \in Int
  BY <1>11
<1>15. sum(T) = f[y] + sum(T \ {y})
  BY <1>12, <1>13, <1>14
<1> QED BY <1>4, <1>15

\* Whatever takes the elements away one by one, in any order, computes the sum.
LEMMA SumInAnyOrder ==
  ASSUME NEW S, IsFiniteSet(S), NEW f, \A x \in S : f[x] \in Int,
         NEW g, g[{}] = 0,
         \A T \in SUBSET S : T # {} =>
           \E x \in T : g[T \ {x}] \in Int => g[T] = f[x] + g[T \ {x}]
  PROVE  g[S] = SumFunctionOnSet(f, S)
<1> DEFINE sum(T) == SumFunctionOnSet(f, T)
           C == {T \in SUBSET S : g[T] # sum(T)}
<1> SUFFICES ASSUME C # {} PROVE FALSE
  OBVIOUS
<1>1. C \in SUBSET SUBSET S
  OBVIOUS
<1> HIDE DEF C
<1>2. PICK T \in C : IsFiniteSet(T) /\ \A U \in SUBSET T : U # T => U \notin C
  BY <1>1, SmallestPart
<1>3. T \in SUBSET S /\ g[T] # sum(T)
  BY DEF C
<1>4. T # {}
  BY <1>3, SumOfNothing
<1>5. PICK x \in T : g[T \ {x}] \in Int => g[T] = f[x] + g[T \ {x}]
  BY <1>3, <1>4
<1>6. T \ {x} \in SUBSET T /\ T \ {x} # T /\ T \ {x} \in SUBSET S
  BY <1>3
<1>7. g[T \ {x}] = sum(T \ {x})
  BY <1>2, <1>6 DEF C
<1>8. \A y \in T : f[y] \in Int
  BY <1>3
<1>9. sum(T \ {x}) \in Int
  BY <1>2, <1>8, SumType, FS_RemoveElement
<1>10. sum(T) = f[x] + sum(T \ {x})
  BY <1>2, <1>8, SumAt
<1> QED BY <1>3, <1>5, <1>7, <1>9, <1>10

\* Only the values at the elements count.
LEMMA SumsOfEqual ==
  ASSUME NEW S, IsFiniteSet(S), NEW f, NEW h, \A x \in S : f[x] \in Int /\ h[x] = f[x]
  PROVE  SumFunctionOnSet(h, S) = SumFunctionOnSet(f, S)
<1> DEFINE g == [T \in SUBSET S |-> SumFunctionOnSet(h, T)]
<1>1. g[{}] = 0
  BY SumOfNothing
<1>2. ASSUME NEW T \in SUBSET S, T # {}
      PROVE  \E x \in T : g[T \ {x}] \in Int => g[T] = f[x] + g[T \ {x}]
  <2>1. Chosen(T) \in T /\ IsFiniteSet(T) /\ T \ {Chosen(T)} \in SUBSET S
    BY <1>2, ChosenIn, FS_Subset
  <2>2. SumFunctionOnSet(h, T) = h[Chosen(T)] + SumFunctionOnSet(h, T \ {Chosen(T)})
    BY <1>2, <2>1, SumAtChosen
  <2> QED BY <2>1, <2>2
<1>3. g[S] = SumFunctionOnSet(f, S)
  <2> HIDE DEF g
  <2> QED BY <1>1, <1>2, SumInAnyOrder
<1> QED BY <1>3

\* Nothing is added by zeros.
LEMMA SumOfZeros ==
  ASSUME NEW S, IsFiniteSet(S), NEW f, \A x \in S : f[x] = 0
  PROVE  SumFunctionOnSet(f, S) = 0
<1> DEFINE g == [T \in SUBSET S |-> 0]
<1>1. g[{}] = 0 /\ g[S] = 0
  OBVIOUS
<1>2. \A T \in SUBSET S : T # {} =>
        \E x \in T : g[T \ {x}] \in Int => g[T] = f[x] + g[T \ {x}]
  OBVIOUS
<1>3. g[S] = SumFunctionOnSet(f, S)
  <2>1. \A x \in S : f[x] \in Int
    OBVIOUS
  <2> HIDE DEF g
  <2> QED BY <1>1, <1>2, <2>1, SumInAnyOrder
<1> QED BY <1>1, <1>3

\* Two sets with nothing in common.
LEMMA SumOfUnion ==
  ASSUME NEW S, IsFiniteSet(S), NEW T, IsFiniteSet(T), S \cap T = {},
         NEW f, \A x \in S \cup T : f[x] \in Int
  PROVE  SumFunctionOnSet(f, S \cup T) = SumFunctionOnSet(f, S) + SumFunctionOnSet(f, T)
<1> DEFINE sum(U) == SumFunctionOnSet(f, U)
           g == [U \in SUBSET S |-> sum(U \cup T) - sum(T)]
<1>1. \A U \in SUBSET S : /\ IsFiniteSet(U \cup T) /\ sum(U \cup T) \in Int
                          /\ \A x \in U \cup T : f[x] \in Int
  <2> TAKE U \in SUBSET S
  <2>1. IsFiniteSet(U \cup T) /\ \A x \in U \cup T : f[x] \in Int
    BY FS_Subset, FS_Union
  <2> QED BY <2>1, SumType
<1>2. sum(T) \in Int /\ sum(S) \in Int
  BY SumType
<1>3. g[{}] = 0
  <2>1. {} \cup T = T
    OBVIOUS
  <2> HIDE DEF sum
  <2> QED BY <1>2, <2>1
<1>4. ASSUME NEW U \in SUBSET S, U # {}
      PROVE  \E x \in U : g[U \ {x}] \in Int => g[U] = f[x] + g[U \ {x}]
  <2>1. PICK x \in U : TRUE
    BY <1>4
  <2>2. (U \cup T) \ {x} = (U \ {x}) \cup T /\ U \ {x} \in SUBSET S
    BY <2>1
  <2>3. sum(U \cup T) = f[x] + sum((U \cup T) \ {x})
    BY <1>1, SumAt
  <2>4. f[x] \in Int /\ sum(U \cup T) \in Int /\ sum((U \ {x}) \cup T) \in Int
    BY <1>1, <2>2
  <2>5. sum(U \cup T) - sum(T) = f[x] + (sum((U \ {x}) \cup T) - sum(T))
    <3>1. sum(U \cup T) = f[x] + sum((U \ {x}) \cup T)
      BY <2>2, <2>3
    <3> HIDE DEF sum
    <3> QED BY <1>2, <2>4, <3>1
  <2>6. g[U] = sum(U \cup T) - sum(T) /\ g[U \ {x}] = sum((U \ {x}) \cup T) - sum(T)
    <3> HIDE DEF sum
    <3> QED BY <2>2
  <2> QED BY <2>1, <2>5, <2>6
<1>5. g[S] = sum(S)
  <2> HIDE DEF g
  <2> QED BY <1>3, <1>4, SumInAnyOrder
<1>6. sum(S \cup T) - sum(T) = sum(S)
  <2>1. S \in SUBSET S
    OBVIOUS
  <2> HIDE DEF sum
  <2> QED BY <1>5, <2>1
<1>7. S \in SUBSET S /\ sum(S \cup T) \in Int
  BY <1>1
<1> QED BY <1>2, <1>6, <1>7

\* What adds nothing may be left out.
LEMMA SumOfSome ==
  ASSUME NEW S, IsFiniteSet(S), NEW T \in SUBSET S,
         NEW f, \A x \in S : f[x] \in Int, \A x \in S \ T : f[x] = 0
  PROVE  SumFunctionOnSet(f, S) = SumFunctionOnSet(f, T)
<1>1. IsFiniteSet(T) /\ IsFiniteSet(S \ T)
  BY FS_Subset
<1>2. SumFunctionOnSet(f, S \ T) = 0
  BY <1>1, SumOfZeros
<1>3. S = T \cup (S \ T) /\ T \cap (S \ T) = {}
  OBVIOUS
<1>4. SumFunctionOnSet(f, T \cup (S \ T)) = SumFunctionOnSet(f, T) + SumFunctionOnSet(f, S \ T)
  <2> DEFINE U == S \ T
  <2>1. IsFiniteSet(U) /\ T \cap U = {} /\ \A x \in T \cup U : f[x] \in Int
    BY <1>1
  <2> HIDE DEF U
  <2>2. SumFunctionOnSet(f, T \cup U) = SumFunctionOnSet(f, T) + SumFunctionOnSet(f, U)
    BY <1>1, <2>1, SumOfUnion
  <2> QED BY <2>2 DEF U
<1>5. SumFunctionOnSet(f, T) \in Int
  BY <1>1, SumType
<1>6. SumFunctionOnSet(f, T \cup (S \ T)) = SumFunctionOnSet(f, T)
  BY <1>2, <1>4, <1>5
<1> QED BY <1>3, <1>6

\* One more element.
LEMMA SumWithOneMore ==
  ASSUME NEW S, IsFiniteSet(S), NEW x, x \notin S, NEW f, \A y \in S \cup {x} : f[y] \in Int
  PROVE  SumFunctionOnSet(f, S \cup {x}) = f[x] + SumFunctionOnSet(f, S)
<1>1. IsFiniteSet(S \cup {x}) /\ (S \cup {x}) \ {x} = S
  BY FS_AddElement
<1> QED BY <1>1, SumAt

\* Counting is adding ones.
LEMMA CountIsSum ==
  ASSUME NEW S, IsFiniteSet(S), NEW P, P \subseteq S, NEW f,
         \A x \in S : f[x] = IF x \in P THEN 1 ELSE 0
  PROVE  SumFunctionOnSet(f, S) = Cardinality(P)
<1> DEFINE g == [T \in SUBSET S |-> Cardinality(T \cap P)]
<1>1. g[{}] = 0
  <2>1. {} \cap P = {}
    OBVIOUS
  <2> QED BY <2>1, FS_EmptySet
<1>2. ASSUME NEW T \in SUBSET S, T # {}
      PROVE  \E x \in T : g[T \ {x}] \in Int => g[T] = f[x] + g[T \ {x}]
  <2>1. PICK x \in T : TRUE
    BY <1>2
  <2>2. (T \ {x}) \cap P = (T \cap P) \ {x} /\ T \ {x} \in SUBSET S
    OBVIOUS
  <2>3. IsFiniteSet(T \cap P) /\ Cardinality(T \cap P) \in Nat
    BY FS_Subset, FS_CardinalityType
  <2>4. Cardinality((T \cap P) \ {x}) = IF x \in T \cap P THEN Cardinality(T \cap P) - 1 ELSE Cardinality(T \cap P)
    BY <2>3, FS_RemoveElement
  <2>5. Cardinality(T \cap P) = f[x] + Cardinality((T \cap P) \ {x})
    <3>1. x \in P <=> x \in T \cap P
      OBVIOUS
    <3>2. f[x] = IF x \in T \cap P THEN 1 ELSE 0
      BY <3>1
    <3> QED BY <2>3, <2>4, <3>2
  <2> QED BY <2>2, <2>5
<1>3. g[S] = SumFunctionOnSet(f, S)
  <2>1. \A x \in S : f[x] \in Int
    OBVIOUS
  <2> HIDE DEF g
  <2> QED BY <1>1, <1>2, <2>1, SumInAnyOrder
<1>4. S \cap P = P
  OBVIOUS
<1> QED BY <1>3, <1>4

\* A sum may be counted under other names.
LEMMA SumOfRenamed ==
  ASSUME NEW S, NEW T, IsFiniteSet(S), NEW b \in Bijection(S, T),
         NEW f, NEW h, \A x \in S : f[x] \in Int /\ h[b[x]] = f[x]
  PROVE  SumFunctionOnSet(h, T) = SumFunctionOnSet(f, S)
<1> DEFINE image(U) == {b[x] : x \in U}
           g == [U \in SUBSET S |-> SumFunctionOnSet(h, image(U))]
<1>0. /\ b \in [S -> T] /\ \A x, y \in S : b[x] = b[y] => x = y
      /\ \A y \in T : \E x \in S : b[x] = y
  BY DEF Bijection, Injection, IsInjective, Surjection
<1>1. g[{}] = 0
  <2>1. image({}) = {}
    OBVIOUS
  <2> QED BY <2>1, SumOfNothing
<1>2. ASSUME NEW U \in SUBSET S, U # {}
      PROVE  \E x \in U : g[U \ {x}] \in Int => g[U] = f[x] + g[U \ {x}]
  <2>1. PICK x \in U : TRUE
    BY <1>2
  <2>2. IsFiniteSet(image(U)) /\ b[x] \in image(U) /\ \A y \in image(U) : h[y] \in Int
    <3>1. IsFiniteSet(U)
      BY FS_Subset
    <3>2. [y \in U |-> b[y]] \in Surjection(U, image(U))
      BY DEF Surjection
    <3>3. IsFiniteSet(image(U))
      <4> HIDE DEF image
      <4> QED BY <3>1, <3>2, FS_Surjection
    <3> QED BY <3>3
  <2>3. image(U) \ {b[x]} = image(U \ {x}) /\ U \ {x} \in SUBSET S
    BY <1>0
  <2> HIDE DEF image
  <2>4. SumFunctionOnSet(h, image(U)) = h[b[x]] + SumFunctionOnSet(h, image(U) \ {b[x]})
    BY <2>2, SumAt
  <2> QED BY <2>1, <2>3, <2>4
<1>3. g[S] = SumFunctionOnSet(f, S)
  <2> HIDE DEF g
  <2> QED BY <1>1, <1>2, SumInAnyOrder
<1>4. image(S) = T
  BY <1>0
<1> QED BY <1>3, <1>4

\* A sum may be taken block by block: block is what each element belongs to.
LEMMA SumOfBlocks ==
  ASSUME NEW S, IsFiniteSet(S), NEW B, IsFiniteSet(B), NEW block \in [S -> B],
         NEW f, \A x \in S : f[x] \in Int,
         NEW part, \A b \in B : part[b] \subseteq S /\ \A x \in S : x \in part[b] <=> block[x] = b,
         NEW h, \A b \in B : h[b] = SumFunctionOnSet(f, part[b])
  PROVE  SumFunctionOnSet(h, B) = SumFunctionOnSet(f, S)
<1> DEFINE in(C) == {x \in S : block[x] \in C}
           of(b) == {x \in S : block[x] = b}
           g == [C \in SUBSET B |-> SumFunctionOnSet(f, in(C))]
<1>0. \A b \in B : part[b] = of(b)
  OBVIOUS
<1>1. \A b \in B : h[b] \in Int
  <2> TAKE b \in B
  <2>1. IsFiniteSet(part[b]) /\ \A x \in part[b] : f[x] \in Int
    BY FS_Subset
  <2> QED BY <2>1, SumType
<1>2. g[{}] = 0
  <2>1. in({}) = {}
    OBVIOUS
  <2> QED BY <2>1, SumOfNothing
<1>3. ASSUME NEW C \in SUBSET B, C # {}
      PROVE  \E b \in C : g[C \ {b}] \in Int => g[C] = h[b] + g[C \ {b}]
  <2>1. PICK b \in C : TRUE
    BY <1>3
  <2>2. /\ in(C) = of(b) \cup in(C \ {b}) /\ of(b) \cap in(C \ {b}) = {}
        /\ C \ {b} \in SUBSET B
    BY <2>1
  <2>3. IsFiniteSet(of(b)) /\ IsFiniteSet(in(C \ {b})) /\ \A x \in of(b) \cup in(C \ {b}) : f[x] \in Int
    BY FS_Subset
  <2>4. h[b] = SumFunctionOnSet(f, of(b))
    BY <1>0, <2>1
  <2> DEFINE one == of(b)
             others == in(C \ {b})
  <2>5. SumFunctionOnSet(f, one \cup others) = SumFunctionOnSet(f, one) + SumFunctionOnSet(f, others)
    <3>1. /\ IsFiniteSet(one) /\ IsFiniteSet(others) /\ one \cap others = {}
          /\ \A x \in one \cup others : f[x] \in Int
      BY <2>2, <2>3
    <3> HIDE DEF one, others
    <3> QED BY <3>1, SumOfUnion
  <2> HIDE DEF in, of
  <2> QED BY <2>1, <2>2, <2>4, <2>5
<1>4. g[B] = SumFunctionOnSet(h, B)
  <2> HIDE DEF g
  <2> QED BY <1>1, <1>2, <1>3, SumInAnyOrder
<1>5. in(B) = S
  OBVIOUS
<1> QED BY <1>4, <1>5

\* A union has no more elements than its parts together.
LEMMA CountOfUnion ==
  ASSUME NEW B, IsFiniteSet(B), NEW part, \A b \in B : IsFiniteSet(part[b]),
         NEW f, \A b \in B : f[b] = Cardinality(part[b])
  PROVE  Cardinality(UNION {part[b] : b \in B}) <= SumFunctionOnSet(f, B)
<1> DEFINE union(C) == UNION {part[b] : b \in C}
           Bad == {C \in SUBSET B : ~ (/\ IsFiniteSet(union(C))
                                      /\ Cardinality(union(C)) <= SumFunctionOnSet(f, C))}
<1>1. \A b \in B : f[b] \in Int
  BY FS_CardinalityType
<1>2. Bad = {}
  <2> SUFFICES ASSUME Bad # {} PROVE FALSE
    OBVIOUS
  <2>1. Bad \in SUBSET SUBSET B
    OBVIOUS
  <2> HIDE DEF Bad
  <2>2. PICK C \in Bad : IsFiniteSet(C) /\ \A D \in SUBSET C : D # C => D \notin Bad
    BY <2>1, SmallestPart
  <2>3. C \in SUBSET B /\ ~ (IsFiniteSet(union(C)) /\ Cardinality(union(C)) <= SumFunctionOnSet(f, C))
    BY DEF Bad
  <2>4. CASE C = {}
    <3>1. union(C) = {}
      BY <2>4
    <3> HIDE DEF union
    <3> QED BY <2>3, <2>4, <3>1, SumOfNothing, FS_EmptySet
  <2>5. CASE C # {}
    <3>1. PICK b \in C : TRUE
      BY <2>5
    <3> DEFINE rest == C \ {b}
    <3>2. rest \in SUBSET C /\ rest # C /\ rest \in SUBSET B /\ IsFiniteSet(rest)
      BY <2>2, <2>3, FS_RemoveElement
    <3>3. IsFiniteSet(union(rest)) /\ Cardinality(union(rest)) <= SumFunctionOnSet(f, rest)
      <4>1. rest \notin Bad
        BY <2>2, <3>2
      <4> HIDE DEF rest
      <4> QED BY <3>2, <4>1 DEF Bad
    <3>4. union(C) = union(rest) \cup part[b]
      BY <3>1
    <3>5. IsFiniteSet(part[b]) /\ f[b] = Cardinality(part[b]) /\ f[b] \in Int
      BY <1>1, <2>3
    <3> HIDE DEF union
    <3>6. IsFiniteSet(union(C)) /\ Cardinality(union(C)) <= Cardinality(union(rest)) + f[b]
      <4>1. /\ IsFiniteSet(union(rest) \cup part[b])
            /\ Cardinality(union(rest) \cup part[b]) =
                 Cardinality(union(rest)) + Cardinality(part[b]) - Cardinality(union(rest) \cap part[b])
        BY <3>3, <3>5, FS_Union
      <4>2. /\ Cardinality(union(rest) \cap part[b]) \in Nat /\ Cardinality(union(rest)) \in Nat
            /\ Cardinality(part[b]) \in Nat
        BY <3>3, <3>5, FS_Intersection, FS_CardinalityType
      <4> QED BY <3>4, <3>5, <4>1, <4>2
    <3>7. SumFunctionOnSet(f, C) = f[b] + SumFunctionOnSet(f, rest)
      BY <1>1, <2>2, <2>3, SumAt
    <3>8. SumFunctionOnSet(f, rest) \in Int
      <4>1. \A x \in rest : f[x] \in Int
        BY <1>1, <3>2
      <4> HIDE DEF rest
      <4> QED BY <3>2, <4>1, SumType
    <3>9. Cardinality(union(C)) \in Nat /\ Cardinality(union(rest)) \in Nat
      BY <3>3, <3>6, FS_CardinalityType
    <3> HIDE DEF rest
    <3>10. Cardinality(union(C)) <= SumFunctionOnSet(f, C)
      BY <3>3, <3>5, <3>6, <3>7, <3>8, <3>9
    <3> QED BY <2>3, <3>6, <3>10
  <2> QED BY <2>4, <2>5
<1>3. B \notin Bad
  BY <1>2
<1> QED BY <1>3
=============================================================================
