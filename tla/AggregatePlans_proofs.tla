------------------------- MODULE AggregatePlans_proofs -------------------------
(***************************************************************************)
(* For every table, every task and every group of tasks: the filters of    *)
(* the fragments select the rows the task is about, and an answer is that  *)
(* of one query over one source.                                           *)
(*                                                                         *)
(* Sums are folds over finite sets.  What holds of them is proved by       *)
(* induction over the family of the subsets of a set (FiniteInduction),    *)
(* which needs no operator as a parameter.                                 *)
(***************************************************************************)
EXTENDS AggregatePlans, FiniteSetTheorems, TLAPS

\* Every decision follows from the case, and what is fetched from the plan.
Decided ==
    /\ asked \in Cases
    /\ phase \in {"bound", "rejected", "planned", "fetched", "answered"}
    /\ phase \in {"planned", "fetched", "answered"} => plan = [t \in Tasks |-> Decide(t)]
    /\ phase \in {"fetched", "answered"} => fetched = [t \in Tasks |-> FetchOf(t)]
    /\ phase = "answered" => \A t \in Tasks : ~answer[t].failed =>
            answer[t].rows = AnswerOf(t) /\ ~ColumnMissing(t)

-----------------------------------------------------------------------------
(* Finite sets                                                              *)

\* A family that contains the empty set, and every subset of S it contains all
\* of but one element of, contains every subset of S.
LEMMA FiniteInduction ==
    ASSUME NEW S, IsFiniteSet(S), NEW Good, {} \in Good,
           \A T \in SUBSET S : T # {} /\ (\A y \in T : T \ {y} \in Good) => T \in Good
    PROVE  SUBSET S \subseteq Good
  <1> DEFINE B == {T \in SUBSET S : T \notin Good}
             N == {Cardinality(T) : T \in B}
  <1>1. \A T \in SUBSET S : IsFiniteSet(T) /\ Cardinality(T) \in Nat
    BY FS_Subset, FS_CardinalityType
  <1>2. SUFFICES ASSUME B # {} PROVE FALSE
    OBVIOUS
  <1>3. N # {} /\ N \subseteq Nat
    BY <1>1, <1>2
  <1>4. PICK n \in N : \A m \in N : ~(<<m, n>> \in OpToRel(<, Nat))
    <2> HIDE DEF N
    <2> QED BY <1>3, NatLessThanWellFounded, WFMin, Zenon
  <1>5. PICK T \in B : n = Cardinality(T)
    OBVIOUS
  <1>6. PICK y \in T : T \ {y} \notin Good
    BY <1>5
  <1>7. T \ {y} \in SUBSET S /\ IsFiniteSet(T) /\ Cardinality(T) \in Nat
    BY <1>1, <1>5
  <1>8. Cardinality(T \ {y}) = Cardinality(T) - 1
    BY <1>6, <1>7, FS_RemoveElement
  <1>9. Cardinality(T \ {y}) \in N
    BY <1>6, <1>7
  <1>10. Cardinality(T \ {y}) \in Nat /\ Cardinality(T \ {y}) < Cardinality(T)
    BY <1>1, <1>7, <1>8
  <1>11. <<Cardinality(T \ {y}), n>> \in OpToRel(<, Nat)
    BY <1>5, <1>7, <1>10 DEF OpToRel
  <1> QED BY <1>4, <1>9, <1>11

\* The image of a finite set is finite.
LEMMA ImageFinite ==
    ASSUME NEW S, IsFiniteSet(S), NEW m
    PROVE  IsFiniteSet({m[x] : x \in S})
  <1> DEFINE T == {m[x] : x \in S}
             f == [x \in S |-> m[x]]
  <1>1. f \in Surjection(S, T)
    BY DEF Surjection
  <1> HIDE DEF T, f
  <1>2. IsFiniteSet(T)
    BY <1>1, FS_Surjection
  <1> QED BY <1>2 DEF T

-----------------------------------------------------------------------------
(* Sums                                                                     *)

Sum(w, S) == SumFunctionOnSet(w, S)

Pick(s) == CHOOSE x \in s : TRUE
Unfolds(w, sum, S) ==
    sum = [s \in SUBSET S |-> IF s = {} THEN 0 ELSE w[Pick(s)] + sum[s \ {Pick(s)}]]

LEMMA PickIn ==
    ASSUME NEW s, s # {}
    PROVE  Pick(s) \in s
  BY DEF Pick

LEMMA SumIsFold ==
    ASSUME NEW w, NEW S
    PROVE  Sum(w, S) = (CHOOSE sum : Unfolds(w, sum, S))[S]
  BY DEF Sum, SumFunctionOnSet, FoldFunctionOnSet, MapThenFoldSet, Unfolds, Pick

\* The recursion of a sum over a finite set has a solution.
LEMMA FoldExists ==
    ASSUME NEW w, NEW S, IsFiniteSet(S)
    PROVE  \E sum : Unfolds(w, sum, S)
  <1> DEFINE Upto(n, g) == \A s \in SUBSET S : Cardinality(s) <= n =>
                 g[s] = IF s = {} THEN 0 ELSE w[Pick(s)] + g[s \ {Pick(s)}]
             Good == {T \in SUBSET S : \E g : Upto(Cardinality(T), g)}
  <1>1. \A s \in SUBSET S : IsFiniteSet(s) /\ Cardinality(s) \in Nat
    BY FS_Subset, FS_CardinalityType
  <1>2. \A s \in SUBSET S : s # {} =>
           /\ s \ {Pick(s)} \in SUBSET S
           /\ Cardinality(s \ {Pick(s)}) = Cardinality(s) - 1
    BY <1>1, PickIn, FS_RemoveElement
  <1>3. \A s \in SUBSET S : Cardinality(s) = 0 => s = {}
    BY <1>1, FS_EmptySet
  <1>4. {} \in Good
    <2>1. Upto(0, [s \in SUBSET S |-> 0])
      BY <1>1, <1>3
    <2> QED BY <2>1, FS_EmptySet
  <1>5. ASSUME NEW T \in SUBSET S, T # {}, \A y \in T : T \ {y} \in Good
        PROVE  T \in Good
    <2> DEFINE n == Cardinality(T)
    <2>1. Pick(T) \in T /\ Cardinality(T \ {Pick(T)}) = n - 1 /\ n \in Nat
      BY <1>1, <1>2, <1>5, PickIn
    <2>2. PICK g : Upto(n - 1, g)
      <3> HIDE DEF Upto
      <3>1. \E g : Upto(Cardinality(T \ {Pick(T)}), g)
        BY <1>5, <2>1
      <3> QED BY <2>1, <3>1
    <2> DEFINE h == [s \in SUBSET S |->
                 IF Cardinality(s) = n /\ s # {} THEN w[Pick(s)] + g[s \ {Pick(s)}] ELSE g[s]]
    <2> HIDE DEF n
    <2>3. ASSUME NEW s \in SUBSET S, Cardinality(s) <= n
          PROVE  h[s] = IF s = {} THEN 0 ELSE w[Pick(s)] + h[s \ {Pick(s)}]
      <3>1. CASE s = {}
        <4>1. Cardinality(s) = 0 /\ n # 0
          BY <1>3, <1>5, <3>1, FS_EmptySet DEF n
        <4>2. g[s] = 0
          <5>1. Cardinality(s) <= n - 1
            BY <2>1, <4>1
          <5> QED BY <2>2, <3>1, <5>1
        <4>3. h[s] = g[s]
          BY <3>1
        <4> HIDE DEF h
        <4> QED BY <3>1, <4>2, <4>3
      <3>2. CASE s # {}
        <4>1. /\ s \ {Pick(s)} \in SUBSET S /\ Cardinality(s) \in Nat
              /\ Cardinality(s \ {Pick(s)}) = Cardinality(s) - 1
          BY <1>1, <1>2, <3>2
        <4>2. h[s \ {Pick(s)}] = g[s \ {Pick(s)}]
          BY <2>1, <2>3, <4>1
        <4>3. CASE Cardinality(s) = n
          BY <3>2, <4>2, <4>3
        <4>4. CASE Cardinality(s) # n
          <5>1. Cardinality(s) <= n - 1
            BY <2>1, <2>3, <4>1, <4>4
          <5>2. g[s] = w[Pick(s)] + g[s \ {Pick(s)}]
            BY <2>2, <3>2, <5>1
          <5> QED BY <3>2, <4>2, <4>4, <5>2
        <4> QED BY <4>3, <4>4
      <3> QED BY <3>1, <3>2
    <2>4. Upto(n, h)
      <3> HIDE DEF h
      <3> QED BY <2>3
    <2> QED BY <2>4 DEF n
  <1>6. S \in Good
    <2> HIDE DEF Good
    <2>1. SUBSET S \subseteq Good
      BY <1>4, <1>5, FiniteInduction
    <2> QED BY <2>1
  <1>7. PICK g : Upto(Cardinality(S), g)
    BY <1>6
  <1>8. \A s \in SUBSET S : Cardinality(s) <= Cardinality(S)
    BY FS_Subset
  <1> DEFINE f == [s \in SUBSET S |-> g[s]]
  <1>9. \A s \in SUBSET S : f[s] = IF s = {} THEN 0 ELSE w[Pick(s)] + f[s \ {Pick(s)}]
    BY <1>2, <1>7, <1>8
  <1>10. f = [s \in SUBSET S |-> f[s]]
    OBVIOUS
  <1>11. Unfolds(w, f, S)
    <2> HIDE DEF f
    <2> QED BY <1>9, <1>10 DEF Unfolds
  <1> QED BY <1>11

\* ... and one solution only.
LEMMA FoldUnique ==
    ASSUME NEW w, NEW f, NEW S, IsFiniteSet(S), Unfolds(w, f, S),
           NEW g, NEW T, T \subseteq S, Unfolds(w, g, T)
    PROVE  f[T] = g[T]
  <1> DEFINE Good == {s \in SUBSET T : f[s] = g[s]}
  <1>1. IsFiniteSet(T)
    BY FS_Subset
  <1>2. \A s \in SUBSET T :
          /\ f[s] = IF s = {} THEN 0 ELSE w[Pick(s)] + f[s \ {Pick(s)}]
          /\ g[s] = IF s = {} THEN 0 ELSE w[Pick(s)] + g[s \ {Pick(s)}]
    BY DEF Unfolds
  <1>3. {} \in Good
    BY <1>2
  <1>4. ASSUME NEW s \in SUBSET T, s # {}, \A y \in s : s \ {y} \in Good
        PROVE  s \in Good
    BY <1>2, <1>4, PickIn
  <1> HIDE DEF Good
  <1>5. SUBSET T \subseteq Good
    BY <1>1, <1>3, <1>4, FiniteInduction
  <1>6. T \in Good
    BY <1>5
  <1> QED BY <1>6 DEF Good

LEMMA SumUnfolds ==
    ASSUME NEW w, NEW S, IsFiniteSet(S)
    PROVE  /\ Sum(w, {}) = 0
           /\ S # {} => Sum(w, S) = w[Pick(S)] + Sum(w, S \ {Pick(S)})
  <1>1. \A T : IsFiniteSet(T) => Unfolds(w, CHOOSE sum : Unfolds(w, sum, T), T)
    BY FoldExists
  <1>2. Sum(w, {}) = 0
    <2> DEFINE f == CHOOSE sum : Unfolds(w, sum, {})
    <2>1. Unfolds(w, f, {})
      BY <1>1, FS_EmptySet
    <2>2. Sum(w, {}) = f[{}]
      BY SumIsFold
    <2> HIDE DEF f
    <2> QED BY <2>1, <2>2 DEF Unfolds
  <1>3. ASSUME S # {}
        PROVE  Sum(w, S) = w[Pick(S)] + Sum(w, S \ {Pick(S)})
    <2> DEFINE T == S \ {Pick(S)}
               f == CHOOSE sum : Unfolds(w, sum, S)
               g == CHOOSE sum : Unfolds(w, sum, T)
    <2>1. Unfolds(w, f, S) /\ Unfolds(w, g, T)
      <3>1. IsFiniteSet(T)
        BY FS_RemoveElement
      <3> QED BY <1>1, <3>1
    <2>2. Sum(w, S) = f[S] /\ Sum(w, T) = g[T]
      BY SumIsFold
    <2>3. T \subseteq S
      OBVIOUS
    <2> HIDE DEF f, g
    <2>4. f[T] = g[T]
      BY <2>1, <2>3, FoldUnique
    <2>5. f[S] = w[Pick(S)] + f[T]
      BY <1>3, <2>1 DEF Unfolds
    <2> QED BY <2>2, <2>4, <2>5
  <1> QED BY <1>2, <1>3

LEMMA Regroup == \A a, b, c \in Int : a + (b + c) = b + (a + c)
  OBVIOUS

Ints(w, S) == \A x \in S : w[x] \in Int

LEMMA SumType ==
    ASSUME NEW w, NEW S, IsFiniteSet(S), Ints(w, S)
    PROVE  Sum(w, S) \in Int
  <1> DEFINE Good == {T \in SUBSET S : Sum(w, T) \in Int}
  <1>1. {} \in Good
    <2>1. Sum(w, {}) = 0
      BY SumUnfolds
    <2> QED BY <2>1
  <1>2. ASSUME NEW T \in SUBSET S, T # {}, \A y \in T : T \ {y} \in Good
        PROVE  T \in Good
    <2>1. Sum(w, T) = w[Pick(T)] + Sum(w, T \ {Pick(T)})
      BY <1>2, FS_Subset, SumUnfolds
    <2> QED BY <1>2, <2>1, PickIn DEF Ints
  <1> HIDE DEF Good
  <1>3. SUBSET S \subseteq Good
    BY <1>1, <1>2, FiniteInduction
  <1>4. S \in Good
    BY <1>3
  <1> QED BY <1>4 DEF Good

\* Any element may be taken out of a sum.
LEMMA SumRemove ==
    ASSUME NEW w, NEW S, IsFiniteSet(S), Ints(w, S), NEW z \in S
    PROVE  Sum(w, S) = w[z] + Sum(w, S \ {z})
  <1> DEFINE Good == {T \in SUBSET S : \A x \in T : Sum(w, T) = w[x] + Sum(w, T \ {x})}
  <1>1. {} \in Good
    OBVIOUS
  <1>2. ASSUME NEW T \in SUBSET S, T # {}, \A y \in T : T \ {y} \in Good
        PROVE  T \in Good
    <2> SUFFICES ASSUME NEW x \in T PROVE Sum(w, T) = w[x] + Sum(w, T \ {x})
      OBVIOUS
    <2> DEFINE y == Pick(T)
    <2>1. y \in T /\ Sum(w, T) = w[y] + Sum(w, T \ {y})
      BY <1>2, FS_Subset, SumUnfolds, PickIn
    <2> HIDE DEF y
    <2>2. CASE x = y
      BY <2>1, <2>2
    <2>3. CASE x # y
      <3>1. Sum(w, T \ {y}) = w[x] + Sum(w, (T \ {y}) \ {x})
        BY <1>2, <2>1, <2>3
      <3>2. Sum(w, T \ {x}) = w[y] + Sum(w, (T \ {x}) \ {y})
        BY <1>2, <2>1, <2>3
      <3>3. (T \ {y}) \ {x} = (T \ {x}) \ {y}
        OBVIOUS
      <3>4. Sum(w, (T \ {x}) \ {y}) \in Int /\ w[x] \in Int /\ w[y] \in Int
        <4>1. IsFiniteSet((T \ {x}) \ {y}) /\ Ints(w, (T \ {x}) \ {y})
          BY FS_Subset DEF Ints
        <4> QED BY <2>1, <4>1, SumType DEF Ints
      <3>5. w[y] + (w[x] + Sum(w, (T \ {y}) \ {x})) = w[x] + (w[y] + Sum(w, (T \ {y}) \ {x}))
        BY <3>3, <3>4, Regroup
      <3> QED BY <2>1, <3>1, <3>2, <3>3, <3>5
    <2> QED BY <2>2, <2>3
  <1> HIDE DEF Good
  <1>3. SUBSET S \subseteq Good
    BY <1>1, <1>2, FiniteInduction
  <1>4. S \in Good
    BY <1>3
  <1> QED BY <1>4 DEF Good

LEMMA SumUnion ==
    ASSUME NEW w, NEW A, NEW B, IsFiniteSet(A), IsFiniteSet(B), A \cap B = {}, Ints(w, A \cup B)
    PROVE  Sum(w, A \cup B) = Sum(w, A) + Sum(w, B)
  <1> DEFINE Good == {T \in SUBSET B : Sum(w, A \cup T) = Sum(w, A) + Sum(w, T)}
  <1>0. Sum(w, A) \in Int
    BY SumType DEF Ints
  <1>1. {} \in Good
    <2>1. A \cup {} = A /\ Sum(w, {}) = 0
      BY SumUnfolds
    <2> QED BY <1>0, <2>1
  <1>2. ASSUME NEW T \in SUBSET B, T # {}, \A y \in T : T \ {y} \in Good
        PROVE  T \in Good
    <2>1. PICK y \in T : TRUE
      BY <1>2
    <2>2. Sum(w, A \cup (T \ {y})) = Sum(w, A) + Sum(w, T \ {y})
      BY <1>2, <2>1
    <2>3. /\ IsFiniteSet(T) /\ IsFiniteSet(T \ {y}) /\ IsFiniteSet(A \cup T)
          /\ Ints(w, T) /\ Ints(w, T \ {y}) /\ Ints(w, A \cup T) /\ w[y] \in Int
      <3>1. IsFiniteSet(T)
        BY FS_Subset
      <3>2. IsFiniteSet(T \ {y}) /\ IsFiniteSet(A \cup T)
        BY <3>1, FS_RemoveElement, FS_Union
      <3> QED BY <3>1, <3>2 DEF Ints
    <2>4. (A \cup T) \ {y} = A \cup (T \ {y})
      BY <2>1
    <2>5. Sum(w, A \cup T) = w[y] + Sum(w, (A \cup T) \ {y})
      BY <2>3, SumRemove
    <2>6. Sum(w, T) = w[y] + Sum(w, T \ {y})
      BY <2>3, SumRemove
    <2>7. Sum(w, T \ {y}) \in Int
      BY <2>3, SumType
    <2>8. Sum(w, A \cup T) = Sum(w, A) + Sum(w, T)
      <3>1. w[y] + (Sum(w, A) + Sum(w, T \ {y})) = Sum(w, A) + (w[y] + Sum(w, T \ {y}))
        BY <1>0, <2>3, <2>7, Regroup
      <3> QED BY <2>2, <2>4, <2>5, <2>6, <3>1
    <2> QED BY <2>8
  <1> HIDE DEF Good
  <1>3. SUBSET B \subseteq Good
    BY <1>1, <1>2, FiniteInduction
  <1>4. B \in Good
    BY <1>3
  <1> QED BY <1>4 DEF Good

\* A sum over equal values, or over the image under an injection, is the same.
LEMMA SumImage ==
    ASSUME NEW w, NEW S, IsFiniteSet(S), NEW v, NEW m,
           \A x, y \in S : m[x] = m[y] => x = y,
           \A x \in S : w[x] \in Int /\ v[m[x]] = w[x]
    PROVE  Sum(v, {m[x] : x \in S}) = Sum(w, S)
  <1> DEFINE Image(T) == {m[x] : x \in T}
             Good == {T \in SUBSET S : Sum(v, Image(T)) = Sum(w, T)}
  <1>1. {} \in Good
    <2>1. Image({}) = {}
      OBVIOUS
    <2>2. Sum(v, {}) = 0 /\ Sum(w, {}) = 0
      BY SumUnfolds
    <2> QED BY <2>1, <2>2
  <1>2. ASSUME NEW T \in SUBSET S, T # {}, \A y \in T : T \ {y} \in Good
        PROVE  T \in Good
    <2>1. PICK y \in T : TRUE
      BY <1>2
    <2>2. Sum(v, Image(T \ {y})) = Sum(w, T \ {y})
      BY <1>2, <2>1
    <2>3. Image(T) \ {m[y]} = Image(T \ {y}) /\ m[y] \in Image(T)
      OBVIOUS
    <2>5. IsFiniteSet(T) /\ IsFiniteSet(Image(T))
      BY FS_Subset, ImageFinite
    <2>6. Ints(v, Image(T)) /\ Ints(w, T) /\ v[m[y]] = w[y]
      BY DEF Ints
    <2>7. Sum(w, T) = w[y] + Sum(w, T \ {y})
      BY <2>5, <2>6, SumRemove
    <2>8. Sum(v, Image(T)) = v[m[y]] + Sum(v, Image(T) \ {m[y]})
      <3> HIDE DEF Image
      <3> QED BY <2>3, <2>5, <2>6, SumRemove
    <2>9. Sum(v, Image(T)) = Sum(w, T)
      <3> HIDE DEF Image
      <3> QED BY <2>2, <2>3, <2>6, <2>7, <2>8
    <2> QED BY <2>9
  <1> HIDE DEF Good
  <1>3. SUBSET S \subseteq Good
    BY <1>1, <1>2, FiniteInduction
  <1>4. S \in Good
    BY <1>3
  <1> QED BY <1>4 DEF Good

Fibre(m, S, y) == {x \in S : m[x] = y}

\* The sum of the sums over the fibres of a function is the sum over all.
LEMMA SumFibres ==
    ASSUME NEW w, NEW S, IsFiniteSet(S), Ints(w, S), NEW T, IsFiniteSet(T), NEW m,
           \A x \in S : m[x] \in T,
           NEW u, \A y \in T : u[y] = Sum(w, Fibre(m, S, y))
    PROVE  Sum(u, T) = Sum(w, S)
  <1> DEFINE Over(Y) == {x \in S : m[x] \in Y}
             Good == {Y \in SUBSET T : Sum(u, Y) = Sum(w, Over(Y))}
  <1>1. {} \in Good
    <2>1. Over({}) = {}
      OBVIOUS
    <2>2. Sum(u, {}) = 0 /\ Sum(w, {}) = 0
      BY SumUnfolds
    <2> QED BY <2>1, <2>2
  <1>2. \A Y : IsFiniteSet(Over(Y)) /\ Ints(w, Over(Y))
    BY FS_Subset DEF Ints
  <1>3. \A y \in T : u[y] = Sum(w, Over({y}))
    <2> SUFFICES ASSUME NEW y \in T PROVE u[y] = Sum(w, Over({y}))
      OBVIOUS
    <2>1. Over({y}) = Fibre(m, S, y)
      BY DEF Fibre
    <2> QED BY <2>1
  <1>4. Ints(u, T)
    <2> HIDE DEF Over
    <2> SUFFICES ASSUME NEW y \in T PROVE u[y] \in Int
      BY DEF Ints
    <2>1. Sum(w, Over({y})) \in Int
      BY <1>2, SumType
    <2> QED BY <1>3, <2>1
  <1>5. ASSUME NEW Y \in SUBSET T, Y # {}, \A y \in Y : Y \ {y} \in Good
        PROVE  Y \in Good
    <2>1. PICK y \in Y : TRUE
      BY <1>5
    <2>2. Sum(u, Y \ {y}) = Sum(w, Over(Y \ {y}))
      BY <1>5, <2>1
    <2>3. Over(Y) = Over({y}) \cup Over(Y \ {y}) /\ Over({y}) \cap Over(Y \ {y}) = {}
      BY <2>1
    <2> HIDE DEF Over
    <2>4. Sum(w, Over(Y)) = Sum(w, Over({y})) + Sum(w, Over(Y \ {y}))
      <3> DEFINE A == Over({y})
                 B == Over(Y \ {y})
      <3>1. IsFiniteSet(A) /\ IsFiniteSet(B) /\ A \cap B = {} /\ Ints(w, A \cup B)
        BY <1>2, <2>3
      <3> HIDE DEF A, B
      <3>2. Sum(w, A \cup B) = Sum(w, A) + Sum(w, B)
        BY <3>1, SumUnion
      <3> QED BY <2>3, <3>2 DEF A, B
    <2>5. IsFiniteSet(Y) /\ Ints(u, Y)
      BY <1>4, FS_Subset DEF Ints
    <2>6. Sum(u, Y) = u[y] + Sum(u, Y \ {y})
      BY <2>5, SumRemove
    <2> QED BY <1>3, <2>1, <2>2, <2>4, <2>6
  <1>6. SUBSET T \subseteq Good
    <2> HIDE DEF Good
    <2> QED BY <1>1, <1>5, FiniteInduction
  <1>7. T \in Good
    BY <1>6
  <1>8. Over(T) = S
    OBVIOUS
  <1> QED BY <1>7, <1>8

\* The sum of ones is the cardinality.
LEMMA SumOnes ==
    ASSUME NEW w, NEW S, IsFiniteSet(S), \A x \in S : w[x] = 1
    PROVE  Sum(w, S) = Cardinality(S)
  <1> DEFINE Good == {T \in SUBSET S : Sum(w, T) = Cardinality(T)}
  <1>1. {} \in Good
    <2>1. Sum(w, {}) = 0 /\ Cardinality({}) = 0
      BY SumUnfolds, FS_EmptySet
    <2> QED BY <2>1
  <1>2. ASSUME NEW T \in SUBSET S, T # {}, \A y \in T : T \ {y} \in Good
        PROVE  T \in Good
    <2>1. PICK y \in T : TRUE
      BY <1>2
    <2>2. IsFiniteSet(T) /\ Ints(w, T)
      BY FS_Subset DEF Ints
    <2>3. Sum(w, T) = 1 + Sum(w, T \ {y})
      BY <2>2, SumRemove
    <2>4. Cardinality(T \ {y}) = Cardinality(T) - 1 /\ Cardinality(T) \in Nat
      BY <2>2, FS_RemoveElement, FS_CardinalityType
    <2>5. Sum(w, T \ {y}) = Cardinality(T \ {y})
      BY <1>2
    <2>6. Sum(w, T) = Cardinality(T)
      BY <2>3, <2>4, <2>5
    <2> QED BY <2>6
  <1> HIDE DEF Good
  <1>3. SUBSET S \subseteq Good
    BY <1>1, <1>2, FiniteInduction
  <1>4. S \in Good
    BY <1>3
  <1> QED BY <1>4 DEF Good

\* A finite set of numbers has a least element.
LEMMA MinExists ==
    ASSUME NEW S, IsFiniteSet(S), S # {}, S \subseteq Int
    PROVE  Min(S) \in S /\ \A x \in S : Min(S) <= x
  <1> DEFINE Good == {T \in SUBSET S : T # {} => \E x \in T : \A y \in T : x <= y}
  <1>1. {} \in Good
    OBVIOUS
  <1>2. ASSUME NEW T \in SUBSET S, T # {}, \A y \in T : T \ {y} \in Good
        PROVE  T \in Good
    <2>1. PICK z \in T : TRUE
      BY <1>2
    <2>2. CASE T \ {z} = {}
      <3>1. \A y \in T : z <= y
        BY <2>2
      <3> QED BY <3>1
    <2>3. CASE T \ {z} # {}
      <3>1. PICK x \in T \ {z} : \A y \in T \ {z} : x <= y
        BY <1>2, <2>3
      <3>2. CASE x <= z
        <4>1. \A y \in T : x <= y
          BY <3>1, <3>2
        <4> QED BY <4>1
      <3>3. CASE ~(x <= z)
        <4>1. \A y \in T : z <= y
          BY <3>1, <3>3
        <4> QED BY <4>1
      <3> QED BY <3>2, <3>3
    <2> QED BY <2>2, <2>3
  <1>3. SUBSET S \subseteq Good
    <2> HIDE DEF Good
    <2> QED BY <1>1, <1>2, FiniteInduction
  <1>4. \E x \in S : \A y \in S : x <= y
    <2>1. S \in Good
      BY <1>3
    <2> QED BY <2>1
  <1> QED BY <1>4 DEF Min

LEMMA MaxExists ==
    ASSUME NEW S, IsFiniteSet(S), S # {}, S \subseteq Int
    PROVE  Max(S) \in S /\ \A x \in S : Max(S) >= x
  <1> DEFINE N == {-x : x \in S}
  <1>1. IsFiniteSet(N) /\ N # {} /\ N \subseteq Int
    <2> DEFINE f == [x \in S |-> -x]
    <2>1. N = {f[x] : x \in S}
      OBVIOUS
    <2>2. IsFiniteSet(N)
      <3> HIDE DEF N, f
      <3> QED BY <2>1, ImageFinite
    <2>3. N # {} /\ N \subseteq Int
      <3>1. \A x \in S : -x \in Int /\ -x \in N
        OBVIOUS
      <3>2. \A y \in N : y \in Int
        OBVIOUS
      <3> HIDE DEF N
      <3> QED BY <3>1, <3>2
    <2> HIDE DEF N
    <2> QED BY <2>2, <2>3
  <1>2. Min(N) \in N /\ \A x \in N : Min(N) <= x
    <2> HIDE DEF N
    <2> QED BY <1>1, MinExists
  <1>3. PICK x \in S : Min(N) = -x
    BY <1>2
  <1>4. \A y \in S : x >= y
    <2> SUFFICES ASSUME NEW y \in S PROVE x >= y
      OBVIOUS
    <2>1. -y \in N
      OBVIOUS
    <2>2. -x <= -y
      BY <1>2, <1>3, <2>1
    <2> QED BY <2>2
  <1> QED BY <1>4 DEF Max

-----------------------------------------------------------------------------
(* Filters                                                                  *)

\* A scope may be applied in two steps, as a fused query does.
LEMMA FilterTwice ==
    ASSUME NEW S, NEW T, NEW rows
    PROVE  Filter(T, Filter(S, rows)) = Filter(S \cup T, rows)
  BY DEF Filter

\* A conjunct reads the facts, the dimensions or both.
LEMMA ReadsOne ==
    ASSUME NEW p
    PROVE  /\ Reads(p) \in {{"facts"}, {"dims"}, {"facts", "dims"}}
           /\ Reads(p) = {"facts"} <=> p = "fact"
           /\ Reads(p) = {"dims"} <=> p = "dim"
           /\ Cardinality(Reads(p)) = 1 <=> p \in {"fact", "dim"}
  <1>1. {"facts"} # {"dims"} /\ {"facts"} # {"facts", "dims"} /\ {"dims"} # {"facts", "dims"}
    OBVIOUS
  <1>2. Cardinality({"facts"}) = 1 /\ Cardinality({"dims"}) = 1
    BY FS_Singleton
  <1>3. Cardinality({"facts", "dims"}) = 2
    <2>1. IsFiniteSet({"facts"}) /\ "dims" \notin {"facts"}
      BY FS_Singleton
    <2>2. Cardinality({"facts"} \cup {"dims"}) = 2
      BY <2>1, <1>2, FS_AddElement
    <2>3. {"facts"} \cup {"dims"} = {"facts", "dims"}
      OBVIOUS
    <2> QED BY <2>2, <2>3
  <1> QED BY <1>1, <1>2, <1>3 DEF Reads

\* A conjunct on the facts does not see the dimension row, and one on the
\* dimensions does not see the fact.
LEMMA HoldsOne ==
    ASSUME NEW f, NEW d, NEW p
    PROVE  /\ p = "fact" => (Holds(p, <<f, d>>) <=> Holds(p, <<f, NoRow>>))
           /\ p = "dim" /\ d # NoRow => (Holds(p, <<f, d>>) <=> d.g = "in")
  BY DEF Holds, C, G

\* Filtering a join by conjuncts that each read one table is joining the
\* filtered tables; with a LEFT join, when none reads the dimensions.
THEOREM PushDown ==
    ASSUME NEW facts, NEW dims, NEW S, NEW type,
           \A d \in dims : d # NoRow,
           \A p \in S : p = "fact" \/ (p = "dim" /\ type = "INNER")
    PROVE  Filter(S, Join(facts, dims, type)) =
             Join({f \in facts : \A p \in S : p = "fact" => Holds(p, <<f, NoRow>>)},
                  {d \in dims : \A p \in S : p = "dim" => d.g = "in"}, type)
  <1> DEFINE F == {f \in facts : \A p \in S : p = "fact" => Holds(p, <<f, NoRow>>)}
             D == {d \in dims : \A p \in S : p = "dim" => d.g = "in"}
  <1>1. ASSUME NEW f \in facts, NEW d \in dims
        PROVE  (\A p \in S : Holds(p, <<f, d>>)) <=> f \in F /\ d \in D
    BY HoldsOne
  <1>2. Filter(S, {r \in facts \X dims : Matches(r[1], r[2])})
          = {r \in F \X D : Matches(r[1], r[2])}
    <2>1. ASSUME NEW r \in facts \X dims
          PROVE  (\A p \in S : Holds(p, r)) <=> r \in F \X D
      <3>1. PICK f \in facts, d \in dims : r = <<f, d>>
        OBVIOUS
      <3> QED BY <3>1, <1>1
    <2>2. F \X D \subseteq facts \X dims
      OBVIOUS
    <2> HIDE DEF F, D
    <2> QED BY <2>1, <2>2 DEF Filter
  <1>3. CASE type = "LEFT"
    <2>1. D = dims
      BY <1>3
    <2>2. Filter(S, Alone({f \in facts : \A d \in dims : ~Matches(f, d)}))
            = Alone({f \in F : \A d \in D : ~Matches(f, d)})
      BY <1>3, <2>1 DEF Filter, Alone
    <2>3. Filter(S, Join(facts, dims, type))
            = Filter(S, {r \in facts \X dims : Matches(r[1], r[2])})
                \cup Filter(S, Alone({f \in facts : \A d \in dims : ~Matches(f, d)}))
      BY <1>3 DEF Join, Filter
    <2> QED BY <1>2, <1>3, <2>2, <2>3 DEF Join
  <1>4. CASE type # "LEFT"
    <2>1. Join(facts, dims, type) = {r \in facts \X dims : Matches(r[1], r[2])}
      BY <1>4 DEF Join
    <2>2. Join(F, D, type) = {r \in F \X D : Matches(r[1], r[2])}
      BY <1>4 DEF Join
    <2> QED BY <1>2, <2>1, <2>2
  <1> QED BY <1>3, <1>4

-----------------------------------------------------------------------------
(* The plan                                                                 *)

\* A task is in its own group, and a plan puts every conjunct somewhere: only
\* over two sources may one be left out.
LEMMA PlanFilters ==
    ASSUME asked \in Cases, NEW t \in Tasks
    PROVE  /\ Decide(t).pushed \subseteq TaskOf(t).scope
           /\ Decide(t).branch \subseteq TaskOf(t).scope \ Decide(t).pushed
           /\ Decide(t).form \in {"single", "fused", "lifted", "cross"}
           /\ Decide(t).partial \in BOOLEAN
           /\ Decide(t).partial => Decide(t).form = "cross"
           /\ Decide(t).form # "cross" => Decide(t).pushed \cup Decide(t).branch = TaskOf(t).scope
           /\ Decide(t).form \notin {"cross", "fused"} => Decide(t).branch = {}
  <1>1. TaskOf(t).scope \subseteq Conjuncts
    BY ConstantsOK DEF WellFormed, Tasks, TaskOf, Task
  <1>2. Form(t) \in {"single", "fused", "lifted", "cross"}
    BY DEF Form
  <1>3. Form(t) = "fused" => t \in GroupOf(t)
    BY DEF Form, GroupOf
  <1>4. Form(t) = "fused" => Pushed(t, Form(t)) \subseteq TaskOf(t).scope
    BY <1>3 DEF Pushed
  <1>5. Pushed(t, Form(t)) \subseteq TaskOf(t).scope
    BY <1>2, <1>4 DEF Pushed
  <1>6. /\ Decide(t).form = Form(t) /\ Decide(t).pushed = Pushed(t, Form(t))
        /\ Decide(t).branch = Branch(t, Form(t))
        /\ Decide(t).partial = (Form(t) = "cross" /\ Preaggregated(TaskOf(t)))
    BY DEF Decide
  <1>7. Form(t) \in {"single", "lifted"} =>
          Pushed(t, Form(t)) = TaskOf(t).scope /\ Branch(t, Form(t)) = {}
    BY DEF Pushed, Branch
  <1>8. Branch(t, Form(t)) \subseteq TaskOf(t).scope \ Pushed(t, Form(t))
    BY DEF Branch
  <1>9. Form(t) = "fused" => Branch(t, Form(t)) = TaskOf(t).scope \ Pushed(t, Form(t))
    BY DEF Branch
  <1> QED BY <1>2, <1>4, <1>5, <1>6, <1>7, <1>8, <1>9

\* What is decided depends on the case alone.
LEMMA DecideStable ==
    ASSUME asked' = asked
    PROVE  Tasks' = Tasks /\ \A t \in Tasks : Decide(t)' = Decide(t)
  <1>1. Tasks' = Tasks
    BY DEF Tasks
  <1>2. \A t : TaskOf(t)' = TaskOf(t)
    BY DEF TaskOf
  <1>3. ASSUME NEW s
        PROVE  /\ Sources(s)' = Sources(s) /\ RequiresCompute(s)' = RequiresCompute(s)
               /\ Preaggregated(s)' = Preaggregated(s) /\ Local(s)' = Local(s)
    <2>1. Sources(s)' = Sources(s)
      BY DEF Sources
    <2>2. RequiresCompute(s)' = RequiresCompute(s)
      BY DEF RequiresCompute
    <2> QED BY <2>1, <2>2 DEF Preaggregated, Local
  <1>4. ASSUME NEW t \in Tasks
        PROVE  GroupOf(t)' = GroupOf(t)
    BY <1>1, <1>2, <1>3 DEF GroupOf
  <1>5. ASSUME NEW t \in Tasks
        PROVE  Decide(t)' = Decide(t)
    <2>1. Form(t)' = Form(t)
      BY <1>2, <1>3, <1>4 DEF Form
    <2>2. Pushed(t, Form(t))' = Pushed(t, Form(t))
      BY <1>2, <1>4, <2>1 DEF Pushed
    <2>3. Branch(t, Form(t))' = Branch(t, Form(t))
      BY <1>2, <2>1, <2>2 DEF Branch
    <2> QED BY <1>2, <1>3, <2>1, <2>2, <2>3 DEF Decide
  <1> QED BY <1>1, <1>5

\* What is fetched depends on the case and the plan.
LEMMA FetchStable ==
    ASSUME asked' = asked, plan' = plan
    PROVE  \A t \in Tasks : FetchOf(t)' = FetchOf(t)
  <1>1. \A t : TaskOf(t)' = TaskOf(t)
    BY DEF TaskOf
  <1>2. ASSUME NEW s
        PROVE  /\ Scan(s)' = Scan(s) /\ SingleQuery(s)' = SingleQuery(s)
    BY DEF Scan, SingleQuery, RowsOf
  <1>3. ASSUME NEW t
        PROVE  Tables(t)' = Tables(t)
    <2>1. OnFacts(plan[t].pushed)' = OnFacts(plan[t].pushed)
      BY DEF OnFacts
    <2> QED BY <1>1, <2>1 DEF Tables
  <1>4. ASSUME NEW t
        PROVE  FusedColumn(t)' = FusedColumn(t)
    BY <1>1, <1>2 DEF FusedColumn
  <1> QED BY <1>1, <1>2, <1>3, <1>4 DEF FetchOf

LEMMA AnswerStable ==
    ASSUME asked' = asked, plan' = plan, fetched' = fetched
    PROVE  \A t \in Tasks : AnswerOf(t)' = AnswerOf(t) /\ ColumnMissing(t)' = ColumnMissing(t)
  <1>1. \A t : TaskOf(t)' = TaskOf(t)
    BY DEF TaskOf
  <1>2. ASSUME NEW t
        PROVE  /\ Combined(t)' = Combined(t) /\ FinalFunction(t)' = FinalFunction(t)
               /\ FinalDistinct(t)' = FinalDistinct(t)
    BY <1>1 DEF Combined, FinalFunction, FinalDistinct
  <1>3. ASSUME NEW t
        PROVE  AnswerOf(t)' = AnswerOf(t)
    BY <1>1, <1>2 DEF AnswerOf
  <1>4. ASSUME NEW t
        PROVE  ColumnMissing(t)' = ColumnMissing(t)
    BY <1>1 DEF ColumnMissing
  <1> QED BY <1>3, <1>4

LEMMA DecidedHolds == Spec => []Decided
  <1>1. Init => Decided
    BY DEF Init, Decided
  <1>2. Decided /\ [Next]_vars => Decided'
    <2> SUFFICES ASSUME Decided, [Next]_vars
                 PROVE  Decided'
      OBVIOUS
    <2>1. CASE Plan
      <3>1. asked' = asked /\ phase' \in {"rejected", "planned"}
        BY <2>1 DEF Plan
      <3>2. phase' = "planned" => plan' = [t \in Tasks |-> Decide(t)]
        BY <2>1 DEF Plan
      <3>3. Tasks' = Tasks /\ (\A t \in Tasks : Decide(t)' = Decide(t))
        BY <3>1, DecideStable
      <3> QED BY <3>1, <3>2, <3>3 DEF Decided
    <2>2. CASE Fetch
      <3>1. asked' = asked /\ plan' = plan /\ phase = "planned" /\ phase' = "fetched"
        BY <2>2 DEF Fetch
      <3>2. Tasks' = Tasks /\ (\A t \in Tasks : Decide(t)' = Decide(t))
        BY <3>1, DecideStable
      <3>3. fetched' = [t \in Tasks |-> FetchOf(t)]
        BY <2>2 DEF Fetch
      <3>4. \A t \in Tasks : FetchOf(t)' = FetchOf(t)
        BY <3>1, FetchStable
      <3> QED BY <3>1, <3>2, <3>3, <3>4 DEF Decided
    <2>3. CASE Compute
      <3>1. /\ asked' = asked /\ plan' = plan /\ fetched' = fetched
            /\ phase = "fetched" /\ phase' = "answered"
        BY <2>3 DEF Compute
      <3>2. Tasks' = Tasks /\ (\A t \in Tasks : Decide(t)' = Decide(t))
        BY <3>1, DecideStable
      <3>3. \A t \in Tasks : FetchOf(t)' = FetchOf(t)
        BY <3>1, FetchStable
      <3>4. \A t \in Tasks : AnswerOf(t)' = AnswerOf(t) /\ ColumnMissing(t)' = ColumnMissing(t)
        BY <3>1, AnswerStable
      <3>5. \A t \in Tasks : ~answer'[t].failed => answer'[t].rows = AnswerOf(t) /\ ~ColumnMissing(t)
        <4>1. PICK failed \in SUBSET Tasks :
                /\ \A t \in Tasks : ColumnMissing(t) => t \in failed
                /\ answer' = [t \in Tasks |-> [failed |-> t \in failed,
                                             rows |-> IF t \in failed THEN {} ELSE AnswerOf(t)]]
          BY <2>3 DEF Compute
        <4>2. TAKE t \in Tasks
        <4>3. answer'[t] = [failed |-> t \in failed,
                            rows |-> IF t \in failed THEN {} ELSE AnswerOf(t)]
          BY <4>1, <4>2
        <4>4. /\ answer'[t].failed = (t \in failed)
              /\ answer'[t].rows = IF t \in failed THEN {} ELSE AnswerOf(t)
          BY <4>3
        <4> QED BY <4>1, <4>4
      <3> QED BY <3>1, <3>2, <3>3, <3>4, <3>5 DEF Decided
    <2>4. CASE UNCHANGED vars
      <3>1. asked' = asked /\ plan' = plan /\ fetched' = fetched /\ phase' = phase /\ answer' = answer
        BY <2>4 DEF vars
      <3>2. Tasks' = Tasks /\ (\A t \in Tasks : Decide(t)' = Decide(t))
        BY <3>1, DecideStable
      <3>3. \A t \in Tasks : FetchOf(t)' = FetchOf(t)
        BY <3>1, FetchStable
      <3>4. \A t \in Tasks : AnswerOf(t)' = AnswerOf(t) /\ ColumnMissing(t)' = ColumnMissing(t)
        BY <3>1, AnswerStable
      <3> QED BY <3>1, <3>2, <3>3, <3>4 DEF Decided
    <2> QED BY <2>1, <2>2, <2>3, <2>4 DEF Next
  <1> QED BY <1>1, <1>2, PTL DEF Spec

-----------------------------------------------------------------------------
(* The theorems                                                             *)

\* Every plan filters by conjuncts of its task only, each in one place, and
\* only a task over two sources is pre-aggregated (Optimizer._physical).
THEOREM TypeCorrect == Spec => []TypeOK
  <1>1. Decided => TypeOK
    <2> SUFFICES ASSUME Decided
                 PROVE  TypeOK
      OBVIOUS
    <2>1. WellFormed(asked)
      BY ConstantsOK DEF Decided
    <2>2. ASSUME phase \in {"planned", "fetched", "answered"}
          PROVE  /\ DOMAIN plan = Tasks
                 /\ \A t \in Tasks :
                      /\ plan[t].form \in {"single", "fused", "lifted", "cross"}
                      /\ plan[t].pushed \subseteq TaskOf(t).scope
                      /\ plan[t].branch \subseteq TaskOf(t).scope \ plan[t].pushed
                      /\ plan[t].partial \in BOOLEAN
                      /\ plan[t].partial => plan[t].form = "cross"
      <3>1. asked \in Cases /\ plan = [t \in Tasks |-> Decide(t)]
        BY <2>2 DEF Decided
      <3>2. DOMAIN plan = Tasks /\ \A t \in Tasks : plan[t] = Decide(t)
        BY <3>1
      <3> QED BY <3>1, <3>2, PlanFilters
    <2> QED BY <2>1, <2>2 DEF TypeOK, Decided
  <1> QED BY <1>1, DecidedHolds, PTL

\* Over two sources the two fragments select what the scope selects of the
\* join, when it is separable.
LEMMA CrossRows ==
    ASSUME asked \in Cases, NEW t \in Tasks, Form(t) = "cross", Separable(TaskOf(t))
    PROVE  /\ NeedsDims(TaskOf(t))
           /\ RowsOf(TaskOf(t)) =
                Join(OnFacts(Pushed(t, "cross")),
                     {d \in asked.dims : OnDims(Pushed(t, "cross"), d)}, JoinType(TaskOf(t)))
  <1> DEFINE s == TaskOf(t)
             S == Pushed(t, "cross")
             type == JoinType(s)
  <1>1. Cardinality(Sources(s)) = 2 /\ S = {p \in s.scope : Cardinality(Reads(p)) = 1}
    BY DEF Form, Pushed
  <1>2. \A p \in s.scope : p = "fact" \/ (p = "dim" /\ type = "INNER")
    BY <1>1, ReadsOne DEF Separable
  <1>3. S = s.scope
    BY <1>1, <1>2, ReadsOne
  <1>4. NeedsDims(s)
    <2>1. Cardinality({"facts"}) = 1
      BY FS_Singleton
    <2> HIDE DEF s
    <2> QED BY <1>1, <2>1 DEF Sources
  <1>5. \A d \in asked.dims : d # NoRow
    BY ConstantsOK DEF WellFormed, Dimension
  <1>6. /\ OnFacts(S) = {f \in asked.facts : \A p \in S : p = "fact" => Holds(p, <<f, NoRow>>)}
        /\ {d \in asked.dims : OnDims(S, d)} = {d \in asked.dims : \A p \in S : p = "dim" => d.g = "in"}
    BY ReadsOne DEF OnFacts, OnDims
  <1>7. Filter(S, Join(asked.facts, asked.dims, type))
          = Join(OnFacts(S), {d \in asked.dims : OnDims(S, d)}, type)
    <2> HIDE DEF S, type, s
    <2> QED BY <1>2, <1>3, <1>5, <1>6, PushDown
  <1>8. RowsOf(s) = Filter(S, Join(asked.facts, asked.dims, type))
    BY <1>3, <1>4 DEF RowsOf, Scan
  <1> QED BY <1>4, <1>7, <1>8

\* Outside two sources the filters of a plan make up the scope.
LEMMA LocalRows ==
    ASSUME asked \in Cases, NEW t \in Tasks, Form(t) # "cross"
    PROVE  /\ Filter(Decide(t).branch, Filter(Decide(t).pushed, Scan(TaskOf(t)))) = RowsOf(TaskOf(t))
           /\ Form(t) # "fused" => Filter(Decide(t).pushed, Scan(TaskOf(t))) = RowsOf(TaskOf(t))
  <1>1. Decide(t).form = Form(t)
    BY DEF Decide
  <1>2. Decide(t).pushed \cup Decide(t).branch = TaskOf(t).scope
    BY <1>1, PlanFilters
  <1>3. Form(t) # "fused" => Decide(t).pushed = TaskOf(t).scope
    BY <1>1, PlanFilters
  <1> QED BY <1>2, <1>3, FilterTwice DEF RowsOf

\* Whatever the tables and the tasks, the filters that _fused_aggregates and
\* _cross_source give to the fragments select together the rows the task is
\* about, when its scope is separable.
THEOREM ScopeSplit == Spec => []SameRows
  <1>1. Decided => SameRows
    <2> SUFFICES ASSUME Decided, phase = "fetched",
                        NEW t \in Tasks, Separable(TaskOf(t)), ~plan[t].partial
                 PROVE  Contributing(t) = RowsOf(TaskOf(t))
      BY DEF SameRows
    <2>1. /\ asked \in Cases /\ plan[t] = Decide(t) /\ fetched[t] = FetchOf(t)
          /\ plan[t].form = Form(t) /\ plan[t].pushed = Pushed(t, Form(t))
      BY DEF Decided, Decide
    <2>2. CASE Form(t) = "cross"
      <3>1. /\ fetched[t].facts = OnFacts(Pushed(t, "cross"))
            /\ fetched[t].dims = {d \in asked.dims : OnDims(Pushed(t, "cross"), d)}
        BY <2>1, <2>2 DEF FetchOf, Tables
      <3>2. Contributing(t) = Combined(t)
        BY <2>1, <2>2 DEF Contributing
      <3> QED BY <2>1, <2>2, <3>1, <3>2, CrossRows DEF Combined
    <2>3. CASE Form(t) = "fused"
      BY <2>1, <2>3, LocalRows DEF Contributing
    <2>4. CASE Form(t) \notin {"cross", "fused"}
      BY <2>1, <2>4, LocalRows DEF Contributing
    <2> QED BY <2>2, <2>3, <2>4
  <1> QED BY <1>1, DecidedHolds, PTL

-----------------------------------------------------------------------------
(* Groups                                                                   *)

\* A row is in the group of its key.
LEMMA EmptyGroup ==
    ASSUME NEW rows, NEW by, NEW key, key \notin Keys(rows, by), by # {}
    PROVE  Group(rows, by, key) = {}
  BY DEF Group, Keys

LEMMA FilterGroup ==
    ASSUME NEW S, NEW rows, NEW by, NEW key
    PROVE  Filter(S, Group(rows, by, key)) = Group(Filter(S, rows), by, key)
  BY DEF Filter, Group

LEMMA QueryKeys ==
    ASSUME NEW s, NEW rows, NEW by, NEW fn, NEW distinct,
           NEW o \in ResultFilter(s, GroupBy(rows, by, fn, distinct))
    PROVE  o.key \in Keys(rows, by)
  BY DEF ResultFilter, GroupBy

\* One of each row is a row.
LEMMA OneOfEachIn ==
    ASSUME NEW rows
    PROVE  OneOfEach(rows) \subseteq rows
  <1>1. ASSUME NEW x \in {r[1].v : r \in rows}
        PROVE  (CHOOSE r \in rows : r[1].v = x) \in rows
    <2>1. \E r \in rows : r[1].v = x
      OBVIOUS
    <2> QED BY <2>1
  <1> QED BY <1>1 DEF OneOfEach

\* Of no rows, the distinct ones are none.
LEMMA OfNoRows ==
    ASSUME NEW fn, NEW distinct
    PROVE  AggregateOf(fn, distinct, {}) = Aggregate(fn, {})
  <1>1. OneOfEach({}) = {}
    BY OneOfEachIn
  <1> QED BY <1>1 DEF AggregateOf

\* A partial is made of a fact with its key.
LEMMA PartialOf ==
    ASSUME NEW s, NEW facts, NEW p \in Partials(s, facts)
    PROVE  \E f \in facts : f.k = p.k
  <1> DEFINE made(k) == AggregateOf(s.fn, s.distinct, Alone({f \in facts : f.k = k}))
  <1>1. Partials(s, facts) = {[k |-> k, v |-> made(k)] : k \in {f.k : f \in facts}}
    BY DEF Partials
  <1> HIDE DEF made
  <1>2. PICK k \in {f.k : f \in facts} : p = [k |-> k, v |-> made(k)]
    BY <1>1
  <1> QED BY <1>2

\* Partial aggregates joined to the dimensions give no group that the facts
\* they were made of do not.
LEMMA PartialKeys ==
    ASSUME NEW s, NEW facts, NEW dims, NEW type, NEW by, "c" \notin by
    PROVE  Keys(Join(Partials(s, facts), dims, type), by) \subseteq Keys(Join(facts, dims, type), by)
  <1> DEFINE P == Partials(s, facts)
  <1>1. ASSUME NEW r \in Join(P, dims, type)
        PROVE  \E q \in Join(facts, dims, type) : Key(q, by) = Key(r, by)
    <2>1. r[1] \in P
      BY DEF Join, Alone
    <2>2. PICK f \in facts : f.k = r[1].k
      BY <2>1, PartialOf
    <2>3. \A d : Matches(f, d) <=> Matches(r[1], d)
      BY <2>2 DEF Matches
    <2>4. <<f, r[2]>> \in Join(facts, dims, type)
      <3>1. CASE r \in P \X dims /\ Matches(r[1], r[2])
        BY <2>3, <3>1 DEF Join
      <3>2. CASE /\ type = "LEFT"
                 /\ r \in Alone({p \in P : \A d \in dims : ~Matches(p, d)})
        <4>1. r[2] = NoRow /\ \A d \in dims : ~Matches(r[1], d)
          BY <3>2 DEF Alone
        <4>2. <<f, NoRow>> \in Alone({x \in facts : \A d \in dims : ~Matches(x, d)})
          BY <2>3, <4>1 DEF Alone
        <4> QED BY <3>2, <4>1, <4>2 DEF Join
      <3> QED BY <3>1, <3>2 DEF Join
    <2>5. Key(<<f, r[2]>>, by) = Key(r, by)
      BY DEF Key, G
    <2> QED BY <2>4, <2>5
  <1>2. CASE by = {}
    BY <1>2 DEF Keys
  <1>3. CASE by # {}
    <2>1. Keys(Join(P, dims, type), by) = {Key(r, by) : r \in Join(P, dims, type)}
      BY <1>3 DEF Keys
    <2>2. Keys(Join(facts, dims, type), by) = {Key(r, by) : r \in Join(facts, dims, type)}
      BY <1>3 DEF Keys
    <2> HIDE DEF P
    <2>3. Keys(Join(P, dims, type), by) \subseteq Keys(Join(facts, dims, type), by)
      BY <1>1, <2>1, <2>2
    <2> QED BY <2>3 DEF P
  <1> QED BY <1>2, <1>3

\* Only a fused task is answered with groups that it has not asked about, and
\* these carry the aggregate of no rows: fusion, pre-aggregation and the join
\* in the compute engine invent no value.
THEOREM NothingIsInvented == Spec => []NothingInvented
  <1>1. Decided => NothingInvented
    <2> SUFFICES ASSUME Decided, phase = "answered",
                        NEW t \in Tasks, Separable(TaskOf(t)), ~answer[t].failed,
                        NEW o \in answer[t].rows, o.key \notin Keys(RowsOf(TaskOf(t)), TaskOf(t).by)
                 PROVE  plan[t].form = "fused" /\ o.value = Aggregate(TaskOf(t).fn, {})
      BY DEF NothingInvented
    <2> DEFINE s == TaskOf(t)
    <2>1. /\ asked \in Cases /\ plan[t] = Decide(t) /\ fetched[t] = FetchOf(t)
          /\ plan[t].form = Form(t) /\ plan[t].pushed = Pushed(t, Form(t))
          /\ o \in AnswerOf(t) /\ ~ColumnMissing(t)
          /\ Form(t) \in {"single", "fused", "lifted", "cross"}
      BY DEF Decided, Decide, Form
    <2>2. Form(t) # "single"
      <3>1. SUFFICES ASSUME Form(t) = "single" PROVE FALSE
        OBVIOUS
      <3>2. o \in SingleQuery(s)
        BY <2>1, <3>1 DEF AnswerOf, FetchOf
      <3> QED BY <3>2, QueryKeys DEF SingleQuery
    <2>3. Form(t) # "lifted"
      <3>1. SUFFICES ASSUME Form(t) = "lifted" PROVE FALSE
        OBVIOUS
      <3>2. fetched[t] = RowsOf(s)
        BY <2>1, <3>1, LocalRows DEF FetchOf
      <3>3. o \in ResultFilter(s, GroupBy(RowsOf(s), s.by, s.fn, s.distinct))
        BY <2>1, <3>1, <3>2 DEF AnswerOf
      <3> QED BY <3>3, QueryKeys
    <2>4. Form(t) # "cross"
      <3>1. SUFFICES ASSUME Form(t) = "cross" PROVE FALSE
        OBVIOUS
      <3> DEFINE F == OnFacts(Pushed(t, "cross"))
                 D == {d \in asked.dims : OnDims(Pushed(t, "cross"), d)}
      <3>2. RowsOf(s) = Join(F, D, JoinType(s))
        BY <2>1, <3>1, CrossRows
      <3>3. o.key \in Keys(Combined(t), s.by)
        <4>1. o \in ResultFilter(s, GroupBy(Combined(t), s.by, FinalFunction(t), FinalDistinct(t)))
          BY <2>1, <3>1 DEF AnswerOf
        <4> QED BY <4>1, QueryKeys
      <3>4. /\ fetched[t].facts = IF plan[t].partial THEN Partials(s, F) ELSE F
            /\ fetched[t].dims = D
        BY <2>1, <3>1 DEF FetchOf, Tables
      <3>5. CASE ~plan[t].partial
        BY <3>2, <3>3, <3>4, <3>5 DEF Combined
      <3>6. CASE plan[t].partial
        <4>1. "c" \notin s.by
          BY <2>1, <3>1, <3>6 DEF ColumnMissing
        <4>2. Combined(t) = Join(Partials(s, F), D, JoinType(s))
          BY <3>4, <3>6 DEF Combined
        <4>3. o.key \notin Keys(Join(F, D, JoinType(s)), s.by)
          BY <3>2
        <4> HIDE DEF F, D, s
        <4> QED BY <3>3, <4>1, <4>2, <4>3, PartialKeys
      <3> QED BY <3>5, <3>6
    <2>5. Form(t) = "fused"
      BY <2>1, <2>2, <2>3, <2>4
    <2> DEFINE rows == Filter(plan[t].pushed, Scan(s))
    <2>6. PICK key \in Keys(rows, s.by) :
            o = [key |-> key,
                 value |-> AggregateOf(s.fn, s.distinct, Filter(plan[t].branch, Group(rows, s.by, key)))]
      BY <2>1, <2>5 DEF AnswerOf, FetchOf, FusedColumn, ResultFilter
    <2>7. Filter(plan[t].branch, Group(rows, s.by, key)) = Group(RowsOf(s), s.by, key)
      <3>1. Filter(plan[t].branch, rows) = RowsOf(s)
        BY <2>1, <2>5, LocalRows
      <3> QED BY <3>1, FilterGroup
    <2>8. s.by # {}
      BY <2>6 DEF Keys
    <2>9. Group(RowsOf(s), s.by, key) = {}
      BY <2>6, <2>8, EmptyGroup
    <2>10. AggregateOf(s.fn, s.distinct, {}) = Aggregate(s.fn, {})
      BY OfNoRows
    <2> QED BY <2>1, <2>5, <2>6, <2>7, <2>9, <2>10
  <1> QED BY <1>1, DecidedHolds, PTL

-----------------------------------------------------------------------------
(* Values                                                                   *)

Final(fn) == IF fn = "COUNT" THEN "SUM" ELSE fn
\* A count that is Null is 0.
Fix(fn, value) == IF fn = "COUNT" /\ value = Null THEN 0 ELSE value

KnownRows(rows) == {r \in rows : r[1].v # Null}
Valued(rows) == IsFiniteSet(rows) /\ \A r \in rows : r[1].v \in Int \cup {Null}
Value(rows) == [r \in KnownRows(rows) |-> r[1].v]

LEMMA AggregateIs ==
    ASSUME NEW rows
    PROVE  /\ Aggregate("COUNT", rows) = Cardinality(KnownRows(rows))
           /\ KnownRows(rows) = {} => \A fn \in {"SUM", "MIN", "MAX"} : Aggregate(fn, rows) = Null
           /\ KnownRows(rows) # {} =>
                /\ Aggregate("SUM", rows) = Sum(Value(rows), KnownRows(rows))
                /\ Aggregate("MIN", rows) = Min({r[1].v : r \in KnownRows(rows)})
                /\ Aggregate("MAX", rows) = Max({r[1].v : r \in KnownRows(rows)})
  <1>1. {Value(rows)[r] : r \in KnownRows(rows)} = {r[1].v : r \in KnownRows(rows)}
    BY DEF Value
  <1>2. DOMAIN Value(rows) = KnownRows(rows)
    BY DEF Value
  <1>3. Aggregate("COUNT", rows) = Cardinality(KnownRows(rows))
    BY DEF Aggregate, KnownRows
  <1>4. ASSUME KnownRows(rows) = {}, NEW fn \in {"SUM", "MIN", "MAX"}
        PROVE  Aggregate(fn, rows) = Null
    BY <1>4 DEF Aggregate, KnownRows
  <1>5. ASSUME KnownRows(rows) # {}
        PROVE  /\ Aggregate("SUM", rows) = SumFunction(Value(rows))
               /\ Aggregate("MIN", rows) = Min({Value(rows)[r] : r \in KnownRows(rows)})
               /\ Aggregate("MAX", rows) = Max({Value(rows)[r] : r \in KnownRows(rows)})
    BY <1>5 DEF Aggregate, KnownRows, Value
  <1> QED BY <1>1, <1>2, <1>3, <1>4, <1>5 DEF SumFunction, Sum

LEMMA CountIsNat ==
    ASSUME NEW rows, IsFiniteSet(rows)
    PROVE  Aggregate("COUNT", rows) \in Nat
  <1>1. IsFiniteSet(KnownRows(rows))
    BY FS_Subset DEF KnownRows
  <1> QED BY <1>1, AggregateIs, FS_CardinalityType

\* What the aggregates of Valued rows are.
\* An aggregate takes no notice of DISTINCT when it is not asked for, nor when
\* it is the least or the greatest value.
LEMMA AsBag ==
    ASSUME NEW fn, NEW distinct, NEW rows, ~distinct \/ fn \in {"MIN", "MAX"}
    PROVE  AggregateOf(fn, distinct, rows) = Aggregate(fn, rows)
  <1>1. CASE ~distinct
    BY <1>1 DEF AggregateOf
  <1>2. CASE fn \in {"MIN", "MAX"}
    <2> DEFINE S == OneOfEach(rows)
    <2>1. ASSUME NEW x \in {r[1].v : r \in rows}
          PROVE  \E q \in S : q[1].v = x
      <3> DEFINE q == CHOOSE r \in rows : r[1].v = x
      <3>1. \E r \in rows : r[1].v = x
        OBVIOUS
      <3>2. q[1].v = x
        BY <3>1
      <3>3. q \in S
        BY DEF OneOfEach
      <3> QED BY <3>2, <3>3
    <2>2. S \subseteq rows
      BY OneOfEachIn
    <2> HIDE DEF S
    <2>3. {r[1].v : r \in KnownRows(rows)} = {r[1].v : r \in KnownRows(S)}
      BY <2>1, <2>2 DEF KnownRows
    <2>4. KnownRows(rows) = {} <=> KnownRows(S) = {}
      BY <2>3
    <2>5. Aggregate(fn, rows) = Aggregate(fn, S)
      <3>1. CASE KnownRows(rows) = {}
        BY <1>2, <2>4, <3>1, AggregateIs
      <3>2. CASE KnownRows(rows) # {}
        BY <1>2, <2>3, <2>4, <3>2, AggregateIs
      <3> QED BY <3>1, <3>2
    <2> QED BY <2>5 DEF AggregateOf, S
  <1> QED BY <1>1, <1>2

LEMMA AggregateType ==
    ASSUME NEW rows, Valued(rows), KnownRows(rows) # {}
    PROVE  /\ \A fn \in {"SUM", "MIN", "MAX"} : Aggregate(fn, rows) \in Int
           /\ \E r \in KnownRows(rows) : Aggregate("MIN", rows) = r[1].v
           /\ \A r \in KnownRows(rows) : Aggregate("MIN", rows) <= r[1].v
           /\ \E r \in KnownRows(rows) : Aggregate("MAX", rows) = r[1].v
           /\ \A r \in KnownRows(rows) : Aggregate("MAX", rows) >= r[1].v
  <1> DEFINE values == {Value(rows)[r] : r \in KnownRows(rows)}
  <1>1. IsFiniteSet(KnownRows(rows)) /\ \A r \in KnownRows(rows) : r[1].v \in Int
    BY FS_Subset DEF Valued, KnownRows
  <1>2. values = {r[1].v : r \in KnownRows(rows)}
    BY DEF Value
  <1>3. IsFiniteSet(values)
    BY <1>1, ImageFinite
  <1>4. values # {} /\ values \subseteq Int
    BY <1>1, <1>2
  <1>5. Ints(Value(rows), KnownRows(rows))
    BY <1>1 DEF Ints, Value
  <1>6. Sum(Value(rows), KnownRows(rows)) \in Int
    BY <1>1, <1>5, SumType
  <1>7. /\ Min(values) \in values /\ \A x \in values : Min(values) <= x
        /\ Max(values) \in values /\ \A x \in values : Max(values) >= x
    <2> HIDE DEF values
    <2> QED BY <1>3, <1>4, MinExists, MaxExists
  <1>8. Aggregate("MIN", rows) = Min(values) /\ Aggregate("MAX", rows) = Max(values)
    BY <1>2, AggregateIs
  <1>9. Aggregate("SUM", rows) \in Int
    BY <1>6, AggregateIs
  <1> HIDE DEF values
  <1> QED BY <1>2, <1>4, <1>7, <1>8, <1>9

\* Aggregating the aggregates of the fibres of m is aggregating all.
LEMMA Reaggregate ==
    ASSUME NEW R, Valued(R), NEW Q, IsFiniteSet(Q), NEW m,
           \A r \in R : m[r] \in Q,
           \A q \in Q : \E r \in R : m[r] = q,
           NEW fn \in {"SUM", "COUNT", "MIN", "MAX"},
           \A q \in Q : q[1].v = Aggregate(fn, Fibre(m, R, q))
    PROVE  Fix(fn, Aggregate(Final(fn), Q)) = Aggregate(fn, R)
  <1> DEFINE K == KnownRows(R)
             u == Value(Q)
  <1>1. /\ IsFiniteSet(K) /\ \A r \in K : r \in R /\ r[1].v \in Int
        /\ IsFiniteSet(KnownRows(Q))
    BY FS_Subset DEF Valued, KnownRows
  <1>2. ASSUME NEW q
        PROVE  /\ KnownRows(Fibre(m, R, q)) = Fibre(m, K, q) /\ Valued(Fibre(m, R, q))
               /\ IsFiniteSet(Fibre(m, K, q)) /\ Fibre(m, K, q) \subseteq K
    <2>1. KnownRows(Fibre(m, R, q)) = Fibre(m, K, q)
      BY DEF KnownRows, Fibre
    <2>2. Valued(Fibre(m, R, q)) /\ IsFiniteSet(Fibre(m, K, q))
      BY <1>1, FS_Subset DEF Valued, Fibre
    <2> QED BY <2>1, <2>2 DEF Fibre
  <1>3. \A r \in K : m[r] \in Q /\ r \in Fibre(m, K, m[r])
    BY <1>1 DEF Fibre
  <1>4. Null \notin Int
    BY ConstantsOK
  <1> HIDE DEF K
  <1>5. CASE fn = "COUNT"
    <2> DEFINE w == [r \in K |-> 1]
    <2>1. ASSUME NEW q \in Q
          PROVE  q[1].v = Cardinality(Fibre(m, K, q)) /\ q[1].v \in Nat
      <3>1. q[1].v = Cardinality(Fibre(m, K, q))
        BY <1>2, <1>5, AggregateIs
      <3> QED BY <1>2, <3>1, FS_CardinalityType
    <2>2. KnownRows(Q) = Q
      <3>1. \A q \in Q : q[1].v # Null
        BY <1>4, <2>1
      <3> QED BY <3>1 DEF KnownRows
    <2>3. ASSUME NEW q \in Q
          PROVE  u[q] = Sum(w, Fibre(m, K, q))
      <3>1. \A r \in Fibre(m, K, q) : w[r] = 1
        BY <1>2
      <3> HIDE DEF w
      <3>2. Sum(w, Fibre(m, K, q)) = Cardinality(Fibre(m, K, q))
        BY <1>2, <3>1, SumOnes
      <3> QED BY <2>1, <2>2, <3>2 DEF Value
    <2>4. Ints(w, K) /\ \A r \in K : w[r] = 1
      BY DEF Ints
    <2> HIDE DEF u, w
    <2>5. Sum(u, Q) = Sum(w, K)
      BY <1>1, <2>3, <2>4, SumFibres
    <2>6. Sum(w, K) = Cardinality(K)
      BY <1>1, <2>4, SumOnes
    <2>7. Aggregate("COUNT", R) = Sum(u, Q) /\ Aggregate("COUNT", R) \in Nat
      BY <2>5, <2>6, AggregateIs, CountIsNat DEF Valued, K
    <2>8. CASE Q = {}
      <3>1. Aggregate("SUM", Q) = Null
        BY <2>2, <2>8, AggregateIs
      <3>2. Sum(u, Q) = 0
        BY <2>8, SumUnfolds, FS_EmptySet
      <3> QED BY <1>5, <2>7, <3>1, <3>2 DEF Fix, Final
    <2>9. CASE Q # {}
      <3>1. Aggregate("SUM", Q) = Sum(u, Q)
        BY <2>2, <2>9, AggregateIs DEF u
      <3> QED BY <1>4, <1>5, <2>7, <3>1 DEF Fix, Final
    <2> QED BY <2>8, <2>9
  <1>6. ASSUME fn # "COUNT", NEW q \in Q
        PROVE  /\ q[1].v # Null <=> Fibre(m, K, q) # {}
               /\ q[1].v # Null => q[1].v \in Int
    <2>1. q[1].v = Aggregate(fn, Fibre(m, R, q)) /\ fn \in {"SUM", "MIN", "MAX"}
      BY <1>6
    <2>2. Fibre(m, K, q) = {} => q[1].v = Null
      BY <1>2, <2>1, AggregateIs
    <2>3. Fibre(m, K, q) # {} => q[1].v \in Int
      BY <1>2, <2>1, AggregateType
    <2> QED BY <1>4, <2>2, <2>3
  <1>7. ASSUME fn # "COUNT"
        PROVE  /\ Fix(fn, Aggregate(Final(fn), Q)) = Aggregate(fn, Q)
               /\ K = {} => Aggregate(fn, R) = Null /\ Aggregate(fn, Q) = Null
               /\ Valued(Q)
               /\ KnownRows(Q) = {q \in Q : Fibre(m, K, q) # {}}
               /\ \A r \in K : m[r] \in KnownRows(Q) /\ r \in Fibre(m, K, m[r])
    <2>1. KnownRows(Q) = {q \in Q : Fibre(m, K, q) # {}}
      BY <1>6, <1>7 DEF KnownRows
    <2>2. Valued(Q)
      BY <1>6, <1>7 DEF Valued
    <2>3. \A r \in K : m[r] \in KnownRows(Q) /\ r \in Fibre(m, K, m[r])
      BY <1>3, <2>1
    <2>4. K = {} => KnownRows(Q) = {}
      BY <1>2, <2>1
    <2>5. K = {} => Aggregate(fn, R) = Null /\ Aggregate(fn, Q) = Null
      BY <1>7, <2>4, AggregateIs DEF K
    <2>6. Fix(fn, Aggregate(Final(fn), Q)) = Aggregate(fn, Q)
      BY <1>7 DEF Fix, Final
    <2> QED BY <2>1, <2>2, <2>3, <2>5, <2>6
  <1>8. CASE fn = "SUM" /\ K # {}
    <2> DEFINE w == Value(R)
    <2>1. Ints(w, K)
      BY <1>1 DEF Ints, Value, K
    <2>2. ASSUME NEW q \in KnownRows(Q)
          PROVE  u[q] = Sum(w, Fibre(m, K, q))
      <3>1. q \in Q /\ Fibre(m, K, q) # {}
        BY <1>7, <1>8
      <3> DEFINE F == Fibre(m, K, q)
                 v == Value(Fibre(m, R, q))
                 id == [r \in F |-> r]
      <3>2. u[q] = Sum(v, F)
        <4>1. KnownRows(Fibre(m, R, q)) = F
          BY <1>2
        <4>2. Aggregate("SUM", Fibre(m, R, q)) = Sum(v, F)
          BY <3>1, <4>1, AggregateIs
        <4>3. u[q] = q[1].v
          BY <2>2 DEF Value
        <4> QED BY <1>8, <3>1, <4>2, <4>3
      <3>3. \A r \in F : v[r] \in Int /\ w[id[r]] = v[r]
        BY <1>1, <1>2 DEF Value, K
      <3>4. F = {id[r] : r \in F} /\ \A x, y \in F : id[x] = id[y] => x = y
        OBVIOUS
      <3>5. IsFiniteSet(F)
        BY <1>2
      <3> HIDE DEF v, id, w, F
      <3>6. Sum(w, {id[r] : r \in F}) = Sum(v, F)
        BY <3>3, <3>4, <3>5, SumImage
      <3> QED BY <3>2, <3>4, <3>6 DEF F
    <2>3. \A r \in K : m[r] \in KnownRows(Q)
      BY <1>7, <1>8
    <2> HIDE DEF u, w
    <2>4. Sum(u, KnownRows(Q)) = Sum(w, K)
      BY <1>1, <2>1, <2>2, <2>3, SumFibres
    <2>5. KnownRows(Q) # {}
      BY <1>8, <2>3
    <2>6. Aggregate("SUM", Q) = Sum(u, KnownRows(Q)) /\ Aggregate("SUM", R) = Sum(w, K)
      BY <1>8, <2>5, AggregateIs DEF u, w, K
    <2> QED BY <1>7, <1>8, <2>4, <2>6
  <1>9. ASSUME fn \in {"MIN", "MAX"}, K # {}
        PROVE  /\ KnownRows(Q) # {}
               /\ \A q \in KnownRows(Q) : \E r \in K : q[1].v = r[1].v
               /\ \A r \in K :
                    /\ m[r] \in KnownRows(Q) /\ m[r][1].v \in Int
                    /\ fn = "MIN" => m[r][1].v <= r[1].v
                    /\ fn = "MAX" => m[r][1].v >= r[1].v
    <2>1. \A r \in K : m[r] \in KnownRows(Q) /\ r \in Fibre(m, K, m[r])
      BY <1>7, <1>9
    <2>2. ASSUME NEW q \in KnownRows(Q)
          PROVE  q \in Q /\ q[1].v = Aggregate(fn, Fibre(m, R, q)) /\ KnownRows(Fibre(m, R, q)) # {} /\ q[1].v \in Int
      BY <1>2, <1>6, <1>7, <1>9
    <2>3. ASSUME NEW q \in KnownRows(Q)
          PROVE  /\ \E r \in Fibre(m, K, q) : q[1].v = r[1].v
                 /\ \A r \in Fibre(m, K, q) :
                      /\ fn = "MIN" => q[1].v <= r[1].v
                      /\ fn = "MAX" => q[1].v >= r[1].v
      <3>1. Valued(Fibre(m, R, q)) /\ KnownRows(Fibre(m, R, q)) = Fibre(m, K, q) /\ Fibre(m, K, q) # {}
        BY <1>2, <2>2
      <3> QED BY <1>9, <2>2, <3>1, AggregateType
    <2>4. \A q : Fibre(m, K, q) \subseteq K
      BY <1>2
    <2> QED BY <1>9, <2>1, <2>2, <2>3, <2>4
  <1>10. CASE fn = "MIN" /\ K # {}
    <2>1. PICK q \in KnownRows(Q) : Aggregate("MIN", Q) = q[1].v
      BY <1>7, <1>9, <1>10, AggregateType
    <2>2. PICK a \in K : q[1].v = a[1].v
      BY <1>9, <1>10
    <2>3. PICK b \in K : Aggregate("MIN", R) = b[1].v
      BY <1>10, AggregateType DEF K
    <2>4. b[1].v <= a[1].v
      BY <1>10, <2>3, AggregateType DEF K
    <2>5. a[1].v <= m[b][1].v
      BY <1>7, <1>9, <1>10, <2>1, <2>2, AggregateType
    <2>6. m[b][1].v <= b[1].v /\ m[b][1].v \in Int
      BY <1>9, <1>10
    <2>7. a[1].v \in Int /\ b[1].v \in Int
      BY <1>1
    <2>8. a[1].v = b[1].v
      BY <2>4, <2>5, <2>6, <2>7
    <2> QED BY <1>7, <1>10, <2>1, <2>2, <2>3, <2>8
  <1>11. CASE fn = "MAX" /\ K # {}
    <2>1. PICK q \in KnownRows(Q) : Aggregate("MAX", Q) = q[1].v
      BY <1>7, <1>9, <1>11, AggregateType
    <2>2. PICK a \in K : q[1].v = a[1].v
      BY <1>9, <1>11
    <2>3. PICK b \in K : Aggregate("MAX", R) = b[1].v
      BY <1>11, AggregateType DEF K
    <2>4. b[1].v >= a[1].v
      BY <1>11, <2>3, AggregateType DEF K
    <2>5. a[1].v >= m[b][1].v
      BY <1>7, <1>9, <1>11, <2>1, <2>2, AggregateType
    <2>6. m[b][1].v >= b[1].v /\ m[b][1].v \in Int
      BY <1>9, <1>11
    <2>7. a[1].v \in Int /\ b[1].v \in Int
      BY <1>1
    <2>8. a[1].v = b[1].v
      BY <2>4, <2>5, <2>6, <2>7
    <2> QED BY <1>7, <1>11, <2>1, <2>2, <2>3, <2>8
  <1> QED BY <1>5, <1>7, <1>8, <1>10, <1>11

-----------------------------------------------------------------------------
(* Answers                                                                  *)

\* What an aggregate gives does not depend on the dimension rows: d stands
\* beside each fact.
LEMMA BesideOne ==
    ASSUME NEW Z, NEW d, IsFiniteSet(Z), \A f \in Z : f.v \in Int \cup {Null},
           NEW fn \in {"SUM", "COUNT", "MIN", "MAX"}
    PROVE  Aggregate(fn, {<<f, d>> : f \in Z}) = Aggregate(fn, Alone(Z))
  <1> DEFINE R == {<<f, d>> : f \in Z}
             A == Alone(Z)
             K == KnownRows(A)
             L == KnownRows(R)
             m == [r \in K |-> <<r[1], d>>]
  <1>1. A = {<<f, NoRow>> : f \in Z}
    BY DEF Alone
  <1> DEFINE Y == {f \in Z : f.v # Null}
  <1>2. K = {<<f, NoRow>> : f \in Y} /\ L = {<<f, d>> : f \in Y}
    BY <1>1 DEF KnownRows
  <1> DEFINE u(f) == <<f, NoRow>>
             w(f) == <<f, d>>
  <1>a. \A f : u(f)[1] = f /\ w(f)[1] = f
    OBVIOUS
  <1>b. K = {u(f) : f \in Y} /\ L = {w(f) : f \in Y}
    BY <1>2
  <1>c. \A f \in Y : m[u(f)] = w(f)
    BY <1>b, <1>a
  <1> HIDE DEF Y, K, L, u, w, m
  <1>3. L = {m[r] : r \in K} /\ \A x, y \in K : m[x] = m[y] => x = y
    <2>1. \A y : y \in L <=> \E f \in Y : y = m[u(f)]
      BY <1>b, <1>c
    <2>2. L = {m[r] : r \in K}
      BY <1>b, <2>1
    <2>3. ASSUME NEW x \in K, NEW y \in K, m[x] = m[y]
          PROVE  x = y
      <3>1. PICK f \in Y : x = u(f)
        BY <1>b
      <3>2. PICK g \in Y : y = u(g)
        BY <1>b
      <3>3. w(f) = w(g)
        BY <1>c, <2>3, <3>1, <3>2
      <3>4. f = g
        BY <1>a, <3>3
      <3> QED BY <3>1, <3>2, <3>4
    <2> QED BY <2>2, <2>3
  <1>4. {r[1].v : r \in L} = {r[1].v : r \in K} /\ (L = {} <=> K = {})
    <2>1. {r[1].v : r \in L} = {f.v : f \in Y}
      BY <1>a, <1>b
    <2>2. {r[1].v : r \in K} = {f.v : f \in Y}
      BY <1>a, <1>b
    <2>3. L = {} <=> K = {}
      BY <1>3
    <2> QED BY <2>1, <2>2, <2>3
  <1>5. IsFiniteSet(K) /\ \A r \in K : r[1].v \in Int
    <2>1. IsFiniteSet(A)
      <3> DEFINE g == [f \in Z |-> <<f, NoRow>>]
      <3>1. A = {g[f] : f \in Z}
        BY <1>1
      <3> HIDE DEF A, g
      <3> QED BY <3>1, ImageFinite
    <2>2. IsFiniteSet(K)
      BY <2>1, FS_Subset DEF K, KnownRows
    <2>3. \A f \in Y : f.v \in Int
      BY DEF Y
    <2> QED BY <1>a, <1>b, <2>2, <2>3
  <1>6. \A r \in K : Value(A)[r] = r[1].v /\ Value(R)[m[r]] = r[1].v
    <2>1. \A r \in K : Value(A)[r] = r[1].v
      BY DEF Value, K
    <2>2. \A r \in L : Value(R)[r] = r[1].v
      BY DEF Value, L
    <2>3. ASSUME NEW r \in K
          PROVE  m[r] \in L /\ m[r][1] = r[1]
      <3>1. PICK f \in Y : r = u(f)
        BY <1>b
      <3> QED BY <1>a, <1>b, <1>c, <3>1
    <2> QED BY <2>1, <2>2, <2>3
  <1>7. fn = "SUM" => Sum(Value(R), L) = Sum(Value(A), K)
    <2> HIDE DEF R, A
    <2> QED BY <1>3, <1>5, <1>6, SumImage
  <1>8. Cardinality(L) = Cardinality(K)
    <2>1. m \in Bijection(K, L)
      <3>1. m = [r \in K |-> m[r]]
        BY DEF m
      <3>2. m \in [K -> L] /\ \A y \in L : \E x \in K : m[x] = y
        BY <1>3, <3>1
      <3> QED BY <1>3, <3>2 DEF Bijection, Injection, Surjection, IsInjective
    <2> QED BY <1>5, <2>1, FS_Bijection DEF ExistsBijection
  <1> HIDE DEF R, A
  <1>9. Aggregate(fn, R) = Aggregate(fn, A)
    BY <1>4, <1>7, <1>8, AggregateIs DEF K, L
  <1> QED BY <1>9 DEF R, A

\* The answer that gives value for each of the keys, and what is told of an
\* answer to a question about the groups of K.
Output(s, keys, value) == ResultFilter(s, {[key |-> k, value |-> value[k]] : k \in keys})
Told(s, K, output) == {Known(s, o) : o \in {x \in output : x.key \in K}}

\* Answers that agree on the groups of K, but for counts that are Null, are
\* the same answer to a question about these groups.
LEMMA SameGroups ==
    ASSUME NEW s, NEW K, NEW keys, K \subseteq keys, NEW got, NEW value,
           \A k \in K : Fix(s.fn, got[k]) = value[k]
    PROVE  Told(s, K, Output(s, keys, got)) = Output(s, K, value)
  <1> DEFINE Row(k, v) == [key |-> k, value |-> v]
             asks(v) == s.above => v # Null /\ v > 1
             left == {k \in K : asks(got[k])}
             right == {k \in K : asks(value[k])}
  <1>1. {x \in Output(s, keys, got) : x.key \in K} = {Row(k, got[k]) : k \in left}
    BY DEF Output, ResultFilter
  <1>2. Output(s, K, value) = {Row(k, value[k]) : k \in right}
    BY DEF Output, ResultFilter
  <1>3. ASSUME NEW k \in K
        PROVE  Known(s, Row(k, got[k])) = Row(k, value[k]) /\ (k \in left <=> k \in right)
    <2>1. CASE s.fn = "COUNT" /\ got[k] = Null
      <3>1. value[k] = 0 /\ Null \notin Int
        BY <2>1, ConstantsOK DEF Fix
      <3> QED BY <2>1, <3>1 DEF Known
    <2>2. CASE ~(s.fn = "COUNT" /\ got[k] = Null)
      BY <2>2 DEF Fix, Known
    <2> QED BY <2>1, <2>2
  <1>4. left = right
    BY <1>3
  <1>5. \A k \in left : Known(s, Row(k, got[k])) = Row(k, value[k])
    BY <1>3
  <1> HIDE DEF left, right, Row
  <1>6. Told(s, K, Output(s, keys, got)) = {Known(s, o) : o \in {Row(k, got[k]) : k \in left}}
    BY <1>1 DEF Told
  <1>7. {Known(s, o) : o \in {Row(k, got[k]) : k \in left}} = {Known(s, Row(k, got[k])) : k \in left}
    OBVIOUS
  <1>8. {Known(s, Row(k, got[k])) : k \in left} = {Row(k, value[k]) : k \in left}
    BY <1>5
  <1> QED BY <1>2, <1>4, <1>6, <1>7, <1>8

\* The rows of a task are finitely many, and each carries a fact.
LEMMA JoinValued ==
    ASSUME asked \in Cases, NEW facts, facts \subseteq asked.facts, NEW dims, dims \subseteq asked.dims,
           NEW type
    PROVE  Valued(Join(facts, dims, type)) /\ \A r \in Join(facts, dims, type) : r[1] \in facts
  <1>1. IsFiniteSet(facts) /\ IsFiniteSet(dims) /\ \A f \in facts : f.v \in Int \cup {Null}
    BY ConstantsOK, FS_Subset DEF WellFormed, Fact
  <1>2. \A r \in Join(facts, dims, type) : r[1] \in facts
    BY DEF Join, Alone
  <1>3. Join(facts, dims, type) \subseteq facts \X (dims \cup {NoRow})
    BY DEF Join, Alone
  <1>4. IsFiniteSet(facts \X (dims \cup {NoRow}))
    <2>1. IsFiniteSet(dims \cup {NoRow})
      BY <1>1, FS_AddElement
    <2> QED BY <1>1, <2>1, FS_Product
  <1>5. IsFiniteSet(Join(facts, dims, type))
    BY <1>3, <1>4, FS_Subset
  <1> QED BY <1>1, <1>2, <1>5 DEF Valued

LEMMA RowsValued ==
    ASSUME asked \in Cases, NEW s
    PROVE  IsFiniteSet(RowsOf(s))
  <1>1. IsFiniteSet(Scan(s))
    <2>1. CASE NeedsDims(s)
      <3>1. IsFiniteSet(Join(asked.facts, asked.dims, JoinType(s)))
        BY JoinValued DEF Valued
      <3> QED BY <2>1, <3>1 DEF Scan
    <2>2. CASE ~NeedsDims(s)
      <3> DEFINE g == [f \in asked.facts |-> <<f, NoRow>>]
      <3>1. Alone(asked.facts) = {g[f] : f \in asked.facts}
        BY DEF Alone
      <3>2. IsFiniteSet(asked.facts)
        BY ConstantsOK DEF WellFormed
      <3> HIDE DEF g
      <3>3. IsFiniteSet(Alone(asked.facts))
        BY <3>1, <3>2, ImageFinite
      <3> QED BY <2>2, <3>3 DEF Scan
    <2> QED BY <2>1, <2>2
  <1> QED BY <1>1, FS_Subset DEF RowsOf, Filter

\* An answer taken from the rows of the task themselves, with more groups or
\* not.
Direct(s, keys) == Output(s, keys, [k \in keys |-> AggregateOf(s.fn, s.distinct, Group(RowsOf(s), s.by, k))])

LEMMA DirectAnswer ==
    ASSUME asked \in Cases, NEW s, NEW keys, Keys(RowsOf(s), s.by) \subseteq keys
    PROVE  /\ Told(s, Keys(RowsOf(s), s.by), Direct(s, keys)) = SingleQuery(s)
           /\ SingleQuery(s) = Direct(s, Keys(RowsOf(s), s.by))
  <1> DEFINE K == Keys(RowsOf(s), s.by)
             value(k) == AggregateOf(s.fn, s.distinct, Group(RowsOf(s), s.by, k))
             got == [k \in keys |-> value(k)]
             asked_of == [k \in K |-> value(k)]
  <1>1. ASSUME NEW k \in K
        PROVE  Fix(s.fn, got[k]) = asked_of[k]
    <2>1. IsFiniteSet(Group(RowsOf(s), s.by, k))
      BY RowsValued, FS_Subset DEF Group
    <2>2. s.fn = "COUNT" => value(k) \in Nat
      <3>1. OneOfEach(Group(RowsOf(s), s.by, k)) \subseteq Group(RowsOf(s), s.by, k)
        BY OneOfEachIn
      <3>2. IsFiniteSet(OneOfEach(Group(RowsOf(s), s.by, k)))
        BY <2>1, <3>1, FS_Subset
      <3> QED BY <2>1, <3>2, CountIsNat DEF AggregateOf
    <2>3. got[k] = value(k) /\ asked_of[k] = value(k)
      OBVIOUS
    <2> HIDE DEF value, got, asked_of
    <2> QED BY <2>2, <2>3, ConstantsOK DEF Fix
  <1>2. GroupBy(RowsOf(s), s.by, s.fn, s.distinct) = {[key |-> k, value |-> asked_of[k]] : k \in K}
    BY DEF GroupBy
  <1>3. SingleQuery(s) = Output(s, K, asked_of)
    BY <1>2 DEF SingleQuery, Output
  <1>4. Direct(s, keys) = Output(s, keys, got) /\ Direct(s, K) = Output(s, K, asked_of)
    BY DEF Direct
  <1> HIDE DEF got, asked_of, K
  <1>5. Told(s, K, Output(s, keys, got)) = Output(s, K, asked_of)
    BY <1>1, SameGroups DEF K
  <1> QED BY <1>3, <1>4, <1>5 DEF K

Partial(s, facts, k) ==
    [k |-> k, v |-> AggregateOf(s.fn, s.distinct, Alone({f \in facts : f.k = k}))]
StandsFor(s, facts, rows) == [r \in rows |-> <<Partial(s, facts, r[1].k), r[2]>>]

\* The rows that the partial aggregates are joined to stand for the rows of the
\* task: those of its facts, beside the same dimension row.
LEMMA PartialRows ==
    ASSUME NEW s, NEW facts, NEW dims, NEW type, NEW by, "c" \notin by,
           NEW R, R = Join(facts, dims, type),
           NEW Q, Q = Join(Partials(s, facts), dims, type),
           NEW m, m = StandsFor(s, facts, R)
    PROVE  /\ \A r \in R : m[r] \in Q /\ Key(m[r], by) = Key(r, by)
           /\ \A q \in Q : /\ q = <<Partial(s, facts, q[1].k), q[2]>>
                           /\ q[1].k \in {f.k : f \in facts}
                           /\ Fibre(m, R, q) = {<<f, q[2]>> : f \in {f \in facts : f.k = q[1].k}}
  <1> DEFINE P == Partials(s, facts)
             part(k) == Partial(s, facts, k)
  <1>1. P = {part(k) : k \in {f.k : f \in facts}} /\ \A k : part(k).k = k
    BY DEF Partials, Partial
  <1>0. R = Join(facts, dims, type) /\ Q = Join(P, dims, type)
    OBVIOUS
  <1> HIDE DEF part, P
  <1>2. \A f, d : Matches(f, d) <=> Matches(part(f.k), d)
    BY <1>1 DEF Matches
  <1>3. ASSUME NEW r \in R
        PROVE  r = <<r[1], r[2]>> /\ r[1] \in facts /\ <<part(r[1].k), r[2]>> \in Q
    <2>1. r = <<r[1], r[2]>> /\ r[1] \in facts
      BY <1>0 DEF Join, Alone
    <2>2. part(r[1].k) \in P
      BY <1>1, <2>1
    <2>3. CASE r[2] \in dims /\ Matches(r[1], r[2])
      <3>1. Matches(part(r[1].k), r[2])
        BY <1>2, <2>3
      <3>2. <<part(r[1].k), r[2]>> \in Q
        BY <1>0, <2>2, <2>3, <3>1 DEF Join
      <3> QED BY <2>1, <3>2
    <2>4. CASE type = "LEFT" /\ r[2] = NoRow /\ \A d \in dims : ~Matches(r[1], d)
      <3>1. \A d \in dims : ~Matches(part(r[1].k), d)
        BY <1>2, <2>4
      <3> QED BY <1>0, <2>2, <2>4, <3>1 DEF Join, Alone
    <2> QED BY <1>0, <2>1, <2>3, <2>4 DEF Join, Alone
  <1>4. ASSUME NEW q \in Q, NEW f \in facts, f.k = q[1].k
        PROVE  <<f, q[2]>> \in R
    <2>1. q[1] = part(f.k)
      <3>1. q[1] \in P
        BY <1>0 DEF Join, Alone
      <3>2. PICK k \in {x.k : x \in facts} : q[1] = part(k)
        BY <1>1, <3>1
      <3> QED BY <1>1, <1>4, <3>2
    <2>2. CASE q[2] \in dims /\ Matches(q[1], q[2])
      BY <1>0, <1>2, <2>1, <2>2 DEF Join
    <2>3. CASE type = "LEFT" /\ q[2] = NoRow /\ \A d \in dims : ~Matches(q[1], d)
      <3>1. \A d \in dims : ~Matches(f, d)
        BY <1>2, <2>1, <2>3
      <3> QED BY <1>0, <2>3, <3>1 DEF Join, Alone
    <2> QED BY <1>0, <2>2, <2>3 DEF Join, Alone
  <1>5. ASSUME NEW q \in Q
        PROVE  q = <<part(q[1].k), q[2]>> /\ q[1].k \in {f.k : f \in facts}
    <2>1. q = <<q[1], q[2]>> /\ q[1] \in P
      BY <1>0 DEF Join, Alone
    <2>2. PICK k \in {x.k : x \in facts} : q[1] = part(k)
      BY <1>1, <2>1
    <2> QED BY <1>1, <2>1, <2>2
  <1>6. \A r \in R : m[r] = <<part(r[1].k), r[2]>> /\ Key(m[r], by) = Key(r, by)
    <2> SUFFICES ASSUME NEW r \in R PROVE Key(<<part(r[1].k), r[2]>>, by) = Key(r, by)
      BY DEF StandsFor, part
    <2> QED BY DEF Key, G
  <1>7. ASSUME NEW q \in Q
        PROVE  Fibre(m, R, q) = {<<f, q[2]>> : f \in {f \in facts : f.k = q[1].k}}
    <2>1. ASSUME NEW r \in R, m[r] = q
          PROVE  r[1] \in facts /\ r[1].k = q[1].k /\ r = <<r[1], q[2]>>
      <3>1. q[1] = part(r[1].k) /\ q[2] = r[2]
        BY <1>6, <2>1
      <3> QED BY <1>1, <1>3, <3>1
    <2>2. ASSUME NEW f \in facts, f.k = q[1].k
          PROVE  <<f, q[2]>> \in R /\ m[<<f, q[2]>>] = q
      <3>1. <<f, q[2]>> \in R
        BY <1>4, <2>2
      <3>2. m[<<f, q[2]>>] = <<part(f.k), q[2]>>
        BY <1>6, <3>1
      <3> QED BY <1>5, <2>2, <3>1, <3>2
    <2> QED BY <2>1, <2>2 DEF Fibre
  <1>8. \A r \in R : m[r] \in Q /\ Key(m[r], by) = Key(r, by)
    BY <1>3, <1>6
  <1>9. \A q \in Q : q = <<Partial(s, facts, q[1].k), q[2]>> /\ q[1].k \in {f.k : f \in facts}
    BY <1>5 DEF part
  <1> QED BY <1>7, <1>8, <1>9

\* The answer to a task over the rows, and over rows with partial aggregates.
Asked(s, rows) == ResultFilter(s, GroupBy(rows, s.by, s.fn, s.distinct))
Regrouped(s, rows) == ResultFilter(s, GroupBy(rows, s.by, Final(s.fn), FALSE))

\* Its partials determine the aggregate of a task.
Additive(s) == ~s.distinct \/ s.fn \in {"MIN", "MAX"}

\* Pre-aggregation changes no answer that its partials determine.
LEMMA PartialAnswer ==
    ASSUME asked \in Cases, NEW s, NEW facts, facts \subseteq asked.facts,
           NEW dims, dims \subseteq asked.dims, NEW type, "c" \notin s.by,
           s.fn \in {"SUM", "COUNT", "MIN", "MAX"},
           Additive(s),
           NEW R, R = Join(facts, dims, type),
           NEW Q, Q = Join(Partials(s, facts), dims, type)
    PROVE  Told(s, Keys(R, s.by), Regrouped(s, Q)) = Asked(s, R)
  <1> DEFINE by == s.by
             m == StandsFor(s, facts, R)
             got == [k \in Keys(Q, by) |-> Aggregate(Final(s.fn), Group(Q, by, k))]
             value == [k \in Keys(R, by) |-> Aggregate(s.fn, Group(R, by, k))]
  <1>1. Valued(R) /\ IsFiniteSet(facts) /\ \A f \in facts : f.v \in Int \cup {Null}
    BY JoinValued, ConstantsOK, FS_Subset DEF WellFormed, Fact
  <1>2. /\ \A r \in R : m[r] \in Q /\ Key(m[r], by) = Key(r, by)
        /\ \A q \in Q : /\ q = <<Partial(s, facts, q[1].k), q[2]>>
                        /\ q[1].k \in {f.k : f \in facts}
                        /\ Fibre(m, R, q) = {<<f, q[2]>> : f \in {f \in facts : f.k = q[1].k}}
    BY PartialRows
  <1> HIDE DEF m
  <1>3. ASSUME NEW q \in Q
        PROVE  /\ \E r \in R : m[r] = q
               /\ q[1].v = Aggregate(s.fn, Fibre(m, R, q))
    <2> DEFINE Z == {f \in facts : f.k = q[1].k}
    <2>1. PICK f \in facts : f.k = q[1].k
      BY <1>2
    <2>2. <<f, q[2]>> \in Fibre(m, R, q)
      BY <1>2, <2>1
    <2>3. q[1].v = Aggregate(s.fn, Alone(Z))
      <3>1. \A k : Partial(s, facts, k).v = Aggregate(s.fn, Alone({x \in facts : x.k = k}))
        BY AsBag DEF Partial, Additive
      <3>2. q[1] = Partial(s, facts, q[1].k)
        BY <1>2
      <3> QED BY <3>1, <3>2
    <2>4. IsFiniteSet(Z) /\ \A x \in Z : x.v \in Int \cup {Null}
      BY <1>1, FS_Subset
    <2>5. Fibre(m, R, q) = {<<x, q[2]>> : x \in Z}
      BY <1>2
    <2> HIDE DEF Z
    <2>6. Aggregate(s.fn, {<<x, q[2]>> : x \in Z}) = Aggregate(s.fn, Alone(Z))
      BY <2>4, BesideOne
    <2> QED BY <2>2, <2>3, <2>5, <2>6 DEF Fibre
  <1>4. IsFiniteSet(Q)
    <2>1. Q = {m[r] : r \in R}
      BY <1>2, <1>3
    <2> QED BY <1>1, <2>1, ImageFinite DEF Valued
  <1>5. Keys(Q, by) = Keys(R, by)
    <2>1. {Key(q, by) : q \in Q} = {Key(r, by) : r \in R}
      BY <1>2, <1>3
    <2> QED BY <2>1 DEF Keys
  <1>6. ASSUME NEW k \in Keys(R, by)
        PROVE  Fix(s.fn, got[k]) = value[k]
    <2> DEFINE Rk == Group(R, by, k)
               Qk == Group(Q, by, k)
    <2>1. Valued(Rk) /\ IsFiniteSet(Qk)
      BY <1>1, <1>4, FS_Subset DEF Valued, Group
    <2>2. \A r \in Rk : m[r] \in Qk
      BY <1>2 DEF Group
    <2>3. ASSUME NEW q \in Qk
          PROVE  (\E r \in Rk : m[r] = q) /\ q[1].v = Aggregate(s.fn, Fibre(m, Rk, q))
      <3>1. q \in Q /\ Key(q, by) = k
        BY DEF Group
      <3>2. Fibre(m, R, q) = Fibre(m, Rk, q)
        BY <1>2, <3>1 DEF Fibre, Group
      <3>3. PICK r \in R : m[r] = q
        BY <1>3, <3>1
      <3>4. r \in Rk
        BY <1>2, <3>1, <3>3 DEF Group
      <3> QED BY <1>3, <3>1, <3>2, <3>3, <3>4
    <2>4. got[k] = Aggregate(Final(s.fn), Qk) /\ value[k] = Aggregate(s.fn, Rk)
      BY <1>5
    <2> HIDE DEF Rk, Qk, got, value
    <2>5. Fix(s.fn, Aggregate(Final(s.fn), Qk)) = Aggregate(s.fn, Rk)
      BY <2>1, <2>2, <2>3, Reaggregate
    <2> QED BY <2>4, <2>5
  <1>7. /\ GroupBy(Q, by, Final(s.fn), FALSE) = {[key |-> k, value |-> got[k]] : k \in Keys(Q, by)}
        /\ GroupBy(R, by, s.fn, s.distinct) = {[key |-> k, value |-> value[k]] : k \in Keys(R, by)}
    <2>1. \A k : AggregateOf(Final(s.fn), FALSE, Group(Q, by, k)) = Aggregate(Final(s.fn), Group(Q, by, k))
      BY AsBag
    <2>2. \A k : AggregateOf(s.fn, s.distinct, Group(R, by, k)) = Aggregate(s.fn, Group(R, by, k))
      BY AsBag DEF Additive
    <2> QED BY <2>1, <2>2 DEF GroupBy
  <1> HIDE DEF got, value
  <1>8. Told(s, Keys(R, by), Output(s, Keys(Q, by), got)) = Output(s, Keys(R, by), value)
    BY <1>5, <1>6, SameGroups
  <1> QED BY <1>7, <1>8 DEF Output, Asked, Regrouped

\* Whatever the plan and the tables, a task that is answered is told for its
\* groups what one query over one source would have returned, but for a sum or
\* a count of distinct values that is pre-aggregated.
THEOREM AnswersAgree == Spec => []SameAnswer
  <1>1. Decided => SameAnswer
    <2> SUFFICES ASSUME Decided, phase = "answered",
                        NEW t \in Tasks, Separable(TaskOf(t)), Decomposes(t), ~answer[t].failed
                 PROVE  Told(TaskOf(t), Keys(RowsOf(TaskOf(t)), TaskOf(t).by), answer[t].rows)
                          = SingleQuery(TaskOf(t))
      BY DEF SameAnswer, AsOneQuery, Told
    <2> DEFINE s == TaskOf(t)
               K == Keys(RowsOf(s), s.by)
    <2>1. /\ asked \in Cases /\ plan[t] = Decide(t) /\ fetched[t] = FetchOf(t)
          /\ plan[t].form = Form(t) /\ plan[t].pushed = Pushed(t, Form(t))
          /\ plan[t].partial = (Form(t) = "cross" /\ Preaggregated(s))
          /\ answer[t].rows = AnswerOf(t) /\ ~ColumnMissing(t)
          /\ Form(t) \in {"single", "fused", "lifted", "cross"}
      BY DEF Decided, Decide, Form
    <2>2. Told(s, K, SingleQuery(s)) = SingleQuery(s)
      <3> HIDE DEF s
      <3> QED BY <2>1, DirectAnswer
    <2>3. CASE Form(t) = "single"
      <3>1. AnswerOf(t) = SingleQuery(s)
        BY <2>1, <2>3 DEF AnswerOf, FetchOf
      <3> QED BY <2>1, <2>2, <3>1
    <2>4. CASE Form(t) = "lifted"
      <3>1. fetched[t] = RowsOf(s)
        BY <2>1, <2>4, LocalRows DEF FetchOf
      <3>2. AnswerOf(t) = SingleQuery(s)
        BY <2>1, <2>4, <3>1 DEF AnswerOf, SingleQuery
      <3> QED BY <2>1, <2>2, <3>2
    <2>5. CASE Form(t) = "fused"
      <3> DEFINE rows == Filter(plan[t].pushed, Scan(s))
                 keys == Keys(rows, s.by)
      <3>1. Filter(plan[t].branch, rows) = RowsOf(s)
        BY <2>1, <2>5, LocalRows
      <3>2. \A k : Filter(plan[t].branch, Group(rows, s.by, k)) = Group(RowsOf(s), s.by, k)
        BY <3>1, FilterGroup
      <3>3. AnswerOf(t) = Direct(s, keys)
        BY <2>1, <2>5, <3>2 DEF AnswerOf, FetchOf, FusedColumn, Direct, Output
      <3>4. K \subseteq keys
        BY <3>1 DEF Filter, Keys
      <3> HIDE DEF s, keys
      <3> QED BY <2>1, <3>3, <3>4, DirectAnswer DEF s
    <2>6. CASE Form(t) = "cross"
      <3> DEFINE F == OnFacts(Pushed(t, "cross"))
                 D == {d \in asked.dims : OnDims(Pushed(t, "cross"), d)}
                 type == JoinType(s)
      <3>1. RowsOf(s) = Join(F, D, type) /\ F \subseteq asked.facts /\ D \subseteq asked.dims
        BY <2>1, <2>6, CrossRows DEF OnFacts
      <3>2. /\ fetched[t].facts = IF plan[t].partial THEN Partials(s, F) ELSE F
            /\ fetched[t].dims = D
        BY <2>1, <2>6 DEF FetchOf, Tables
      <3>3. AnswerOf(t) = ResultFilter(s, GroupBy(Combined(t), s.by, FinalFunction(t), FinalDistinct(t)))
        BY <2>1, <2>6 DEF AnswerOf
      <3>4. CASE ~plan[t].partial
        <4>1. Combined(t) = RowsOf(s) /\ FinalFunction(t) = s.fn
          BY <3>1, <3>2, <3>4 DEF Combined, FinalFunction
        <4>2. GroupBy(RowsOf(s), s.by, s.fn, FinalDistinct(t)) = GroupBy(RowsOf(s), s.by, s.fn, s.distinct)
          <5>1. FinalDistinct(t) <=> s.distinct
            BY <3>4 DEF FinalDistinct
          <5>2. \A rows : AggregateOf(s.fn, FinalDistinct(t), rows) = AggregateOf(s.fn, s.distinct, rows)
            BY <5>1 DEF AggregateOf
          <5> HIDE DEF s
          <5> QED BY <5>2 DEF GroupBy
        <4>3. AnswerOf(t) = SingleQuery(s)
          BY <3>3, <4>1, <4>2 DEF SingleQuery
        <4> QED BY <2>1, <2>2, <4>3
      <3>5. CASE plan[t].partial
        <4>1. "c" \notin s.by /\ s.fn \in {"SUM", "COUNT", "MIN", "MAX"}
          BY <2>1, <2>6, <3>5 DEF ColumnMissing, Preaggregated
        <4>2. Combined(t) = Join(Partials(s, F), D, type) /\ FinalFunction(t) = Final(s.fn)
          BY <3>2, <3>5 DEF Combined, FinalFunction, Final
        <4>3. Additive(s)
          BY <3>5 DEF Decomposes, Additive
        <4>4. FinalDistinct(t) = FALSE
          BY <3>5 DEF FinalDistinct
        <4> HIDE DEF s, F, D, type
        <4>5. Told(s, Keys(RowsOf(s), s.by), Regrouped(s, Combined(t))) = Asked(s, RowsOf(s))
          BY <2>1, <3>1, <4>1, <4>2, <4>3, PartialAnswer
        <4>6. Told(s, K, AnswerOf(t)) = SingleQuery(s)
          BY <3>3, <4>2, <4>4, <4>5 DEF SingleQuery, Asked, Regrouped
        <4> QED BY <2>1, <4>6 DEF s
      <3> QED BY <3>4, <3>5
    <2> QED BY <2>1, <2>3, <2>4, <2>5, <2>6
  <1> QED BY <1>1, DecidedHolds, PTL
=============================================================================
