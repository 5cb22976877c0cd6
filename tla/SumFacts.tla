------------------------------ MODULE SumFacts ------------------------------
(***************************************************************************)
(* What the proofs need to know of SumFunction and SumFunctionOnSet, the   *)
(* sums of the community modules, over finite sets and natural numbers.    *)
(*                                                                         *)
(* A sum is a recursion over a set, and an induction theorem with a        *)
(* predicate as its parameter is out of the provers' reach.  So the        *)
(* induction is over a set of good subsets (SubsetInduction, from the      *)
(* minimal elements of a well-founded ordering), and the sum is first      *)
(* shown to be a number of elements: f sums to the number of its units,    *)
(* the pairs of an x and a number from 1 to f[x].                          *)
(***************************************************************************)
EXTENDS Functions, FiniteSetTheorems, TLAPS

\* A finite set is good if the empty set is, and if a set is good whenever it is
\* good without any one of its elements.
LEMMA SubsetInduction ==
    ASSUME NEW S, IsFiniteSet(S), NEW Good, {} \in Good,
           \A T \in SUBSET S : T # {} /\ (\A x \in T : T \ {x} \in Good) => T \in Good
    PROVE  S \in Good
<1> SUFFICES ASSUME S \notin Good PROVE FALSE
  OBVIOUS
<1> DEFINE Bad == {T \in SUBSET S : T \notin Good}
<1>1. IsWellFoundedOn(StrictSubsetOrdering(S), SUBSET S)
  <2>1. IsWellFoundedOn(StrictSubsetOrdering(S), FiniteSubsetsOf(S))
    BY FS_StrictSubsetOrderingWellFounded
  <2>2. FiniteSubsetsOf(S) = SUBSET S
    BY FS_FiniteSubsetsOfFinite
  <2> QED BY <2>1, <2>2
<1>2. Bad \subseteq SUBSET S /\ Bad # {}
  OBVIOUS
<1>3. PICK T \in Bad : \A U \in Bad : ~(<<U, T>> \in StrictSubsetOrdering(S))
  <2> HIDE DEF Bad
  <2> QED BY <1>1, <1>2, WFMin
<1>4. \A x \in T : <<T \ {x}, T>> \in StrictSubsetOrdering(S)
  BY DEF StrictSubsetOrdering
<1>5. \A x \in T : T \ {x} \in Good
  BY <1>3, <1>4
<1> QED BY <1>3, <1>5

\* The units f counts out over S.
Units(f, S) == {p \in S \X Nat : p[2] \in 1..f[p[1]]}

\* What these facts assume of a function and the set it is summed over.
Counted(f, S) == IsFiniteSet(S) /\ \A x \in S : f[x] \in Nat

LEMMA UnitsSplit ==
    ASSUME NEW f, NEW S, NEW x \in S, Counted(f, S), IsFiniteSet(Units(f, S \ {x}))
    PROVE  /\ IsFiniteSet(Units(f, S))
           /\ Cardinality(Units(f, S)) = f[x] + Cardinality(Units(f, S \ {x}))
<1> DEFINE rest == Units(f, S \ {x})
           own == {x} \X (1..f[x])
<1>1. f[x] \in Nat
  BY DEF Counted
<1>2. IsFiniteSet(own) /\ Cardinality(own) = f[x]
  <2>1. IsFiniteSet(1..f[x]) /\ Cardinality(1..f[x]) = f[x]
    <3> DEFINE n == f[x]
    <3>1. n \in Nat
      BY <1>1
    <3> HIDE DEF n
    <3>2. IsFiniteSet(1..n) /\ Cardinality(1..n) = IF 1 > n THEN 0 ELSE n - 1 + 1
      BY <3>1, FS_Interval
    <3>3. Cardinality(1..n) = n
      BY <3>1, <3>2
    <3> QED BY <3>2, <3>3 DEF n
  <2>2. IsFiniteSet({x}) /\ Cardinality({x}) = 1
    BY FS_Singleton
  <2> DEFINE one == {x}
             numbers == 1..f[x]
  <2> HIDE DEF one, numbers
  <2>3. IsFiniteSet(one) /\ IsFiniteSet(numbers)
    BY <2>1, <2>2 DEF one, numbers
  <2>4. /\ IsFiniteSet(one \X numbers)
        /\ Cardinality(one \X numbers) = Cardinality(one) * Cardinality(numbers)
    BY <2>3, FS_Product
  <2> QED BY <1>1, <2>1, <2>2, <2>4 DEF one, numbers
<1>3. Units(f, S) = rest \cup own
  BY <1>1 DEF Units
<1>4. rest \cap own = {}
  BY DEF Units
<1> HIDE DEF rest, own
<1>5. /\ IsFiniteSet(rest \cup own)
      /\ Cardinality(rest \cup own) = Cardinality(rest) + Cardinality(own) - Cardinality({})
  <2>1. IsFiniteSet(rest) /\ IsFiniteSet(own)
    BY <1>2 DEF rest
  <2>2. /\ IsFiniteSet(rest \cup own)
        /\ Cardinality(rest \cup own)
             = Cardinality(rest) + Cardinality(own) - Cardinality(rest \cap own)
    BY <2>1, FS_Union
  <2> QED BY <1>4, <2>2
<1>6. Cardinality({}) = 0 /\ Cardinality(rest) \in Nat
  BY FS_EmptySet, FS_CardinalityType DEF rest
<1> QED BY <1>1, <1>2, <1>3, <1>5, <1>6 DEF rest

LEMMA UnitsFinite ==
    ASSUME NEW f, NEW S, Counted(f, S)
    PROVE  IsFiniteSet(Units(f, S))
<1> DEFINE Good == {T \in SUBSET S : IsFiniteSet(Units(f, T))}
<1>1. {} \in Good
  <2>1. Units(f, {}) = {}
    BY DEF Units
  <2> QED BY <2>1, FS_EmptySet
<1>2. ASSUME NEW T \in SUBSET S, NEW x \in T, T \ {x} \in Good
      PROVE  T \in Good
  <2>1. Counted(f, T)
    BY FS_Subset DEF Counted
  <2> QED BY <1>2, <2>1, UnitsSplit
<1> HIDE DEF Good
<1>3. S \in Good
  BY <1>1, <1>2, SubsetInduction DEF Counted
<1> QED BY <1>3 DEF Good

\* The recursion behind the sum of the community modules
Iterates(iter, f, S) ==
    iter = [s \in SUBSET S |-> IF s = {} THEN 0
              ELSE f[CHOOSE x \in s : TRUE] + iter[s \ {CHOOSE x \in s : TRUE}]]

LEMMA SumIsIterated ==
    ASSUME NEW f, NEW S
    PROVE  SumFunctionOnSet(f, S) = (CHOOSE iter : Iterates(iter, f, S))[S]
BY DEF SumFunctionOnSet, FoldFunctionOnSet, MapThenFoldSet, Iterates

LEMMA SumIsUnits ==
    ASSUME NEW f, NEW S, Counted(f, S)
    PROVE  SumFunctionOnSet(f, S) = Cardinality(Units(f, S))
<1> DEFINE count == [T \in SUBSET S |-> Cardinality(Units(f, T))]
           iter == CHOOSE iter : Iterates(iter, f, S)
           Good == {T \in SUBSET S : iter[T] = Cardinality(Units(f, T))}
<1>1. \A T \in SUBSET S : Counted(f, T)
  BY FS_Subset DEF Counted
<1>2. \A T \in SUBSET S : \A x \in T :
         Cardinality(Units(f, T)) = f[x] + Cardinality(Units(f, T \ {x}))
  <2> SUFFICES ASSUME NEW T \in SUBSET S, NEW x \in T
               PROVE  Cardinality(Units(f, T)) = f[x] + Cardinality(Units(f, T \ {x}))
    OBVIOUS
  <2>1. Counted(f, T) /\ Counted(f, T \ {x})
    BY <1>1
  <2> QED BY <2>1, UnitsFinite, UnitsSplit
<1>3. Cardinality(Units(f, {})) = 0
  <2>1. Units(f, {}) = {}
    BY DEF Units
  <2> QED BY <2>1, FS_EmptySet
<1>4. Iterates(count, f, S)
  <2>1. \A T \in SUBSET S : count[T] = IF T = {} THEN 0
           ELSE f[CHOOSE x \in T : TRUE] + count[T \ {CHOOSE x \in T : TRUE}]
    <3> SUFFICES ASSUME NEW T \in SUBSET S
                 PROVE  count[T] = IF T = {} THEN 0
                   ELSE f[CHOOSE x \in T : TRUE] + count[T \ {CHOOSE x \in T : TRUE}]
      OBVIOUS
    <3>1. CASE T = {}
      BY <1>3, <3>1
    <3>2. CASE T # {}
      <4> DEFINE x == CHOOSE x \in T : TRUE
      <4>1. x \in T /\ T \ {x} \in SUBSET S
        BY <3>2
      <4> QED BY <1>2, <3>2, <4>1
    <3> QED BY <3>1, <3>2
  <2> QED BY <2>1 DEF Iterates
<1>5. Iterates(iter, f, S)
  BY <1>4
<1> HIDE DEF iter
<1>6. {} \in Good
  BY <1>3, <1>5 DEF Iterates
<1>7. ASSUME NEW T \in SUBSET S, T # {}, \A x \in T : T \ {x} \in Good
      PROVE  T \in Good
  <2> DEFINE x == CHOOSE x \in T : TRUE
  <2>1. x \in T /\ T \ {x} \in Good
    BY <1>7
  <2>2. iter[T] = f[x] + iter[T \ {x}]
    BY <1>5, <1>7 DEF Iterates
  <2>3. iter[T \ {x}] = Cardinality(Units(f, T \ {x}))
    BY <2>1
  <2> HIDE DEF x
  <2> QED BY <1>2, <2>1, <2>2, <2>3
<1> HIDE DEF Good
<1>8. S \in Good
  BY <1>6, <1>7, SubsetInduction DEF Counted
<1>9. iter[S] = Cardinality(Units(f, S))
  BY <1>8 DEF Good
<1> QED BY <1>9, SumIsIterated DEF iter

-----------------------------------------------------------------------------
(***************************************************************************)
(* The facts the other modules cite.                                       *)
(***************************************************************************)

LEMMA SumOnNat ==
    ASSUME NEW f, NEW S, Counted(f, S)
    PROVE  SumFunctionOnSet(f, S) \in Nat
BY SumIsUnits, UnitsFinite, FS_CardinalityType

LEMMA SumOnNone ==
    ASSUME NEW f
    PROVE  SumFunctionOnSet(f, {}) = 0
<1>1. Counted(f, {}) /\ Units(f, {}) = {}
  BY FS_EmptySet DEF Counted, Units
<1> QED BY <1>1, SumIsUnits, FS_EmptySet

\* One term taken out of a sum.
LEMMA SumOnSplit ==
    ASSUME NEW f, NEW S, Counted(f, S), NEW x \in S
    PROVE  /\ SumFunctionOnSet(f, S) = f[x] + SumFunctionOnSet(f, S \ {x})
           /\ SumFunctionOnSet(f, S \ {x}) \in Nat
           /\ f[x] \in Nat
<1>1. Counted(f, S \ {x})
  BY FS_Subset DEF Counted
<1>2. IsFiniteSet(Units(f, S \ {x}))
  BY <1>1, UnitsFinite
<1>3. Cardinality(Units(f, S)) = f[x] + Cardinality(Units(f, S \ {x}))
  BY <1>2, UnitsSplit
<1>4. f[x] \in Nat
  BY DEF Counted
<1> QED BY <1>1, <1>3, <1>4, SumIsUnits, SumOnNat

\* A sum looks at its terms only.
LEMMA SumOnSame ==
    ASSUME NEW f, NEW g, NEW S, Counted(f, S), \A x \in S : g[x] = f[x]
    PROVE  SumFunctionOnSet(g, S) = SumFunctionOnSet(f, S)
<1>1. Counted(g, S) /\ Units(g, S) = Units(f, S)
  BY DEF Counted, Units
<1> QED BY <1>1, SumIsUnits

\* Larger terms over more elements make a larger sum.
LEMMA SumOnGrows ==
    ASSUME NEW f, NEW g, NEW S, NEW T, Counted(f, S), Counted(g, T), S \subseteq T,
           \A x \in S : f[x] <= g[x]
    PROVE  SumFunctionOnSet(f, S) <= SumFunctionOnSet(g, T)
<1>1. Units(f, S) \subseteq Units(g, T)
  BY DEF Counted, Units
<1>2. Cardinality(Units(f, S)) <= Cardinality(Units(g, T))
  BY <1>1, UnitsFinite, FS_Subset
<1> QED BY <1>2, SumIsUnits

\* Elements that count for nothing may be dropped.
LEMMA SumWithoutZeros ==
    ASSUME NEW f, NEW g, NEW S, NEW T, Counted(f, T), S \subseteq T,
           \A x \in S : g[x] = f[x], \A x \in T \ S : f[x] = 0
    PROVE  SumFunctionOnSet(g, S) = SumFunctionOnSet(f, T)
<1>1. Units(f, S) = Units(f, T)
  <2>1. \A x \in T \ S : 1..f[x] = {}
    OBVIOUS
  <2> QED BY <2>1 DEF Units
<1>2. Counted(f, S)
  BY FS_Subset DEF Counted
<1>3. SumFunctionOnSet(g, S) = SumFunctionOnSet(f, S)
  BY <1>2, SumOnSame
<1> QED BY <1>1, <1>2, <1>3, SumIsUnits

\* One element joined or grew by at most a, the others are no larger: the sum
\* grew by at most a.
LEMMA SumOneJoins ==
    ASSUME NEW f, NEW g, NEW S, NEW T, NEW x, NEW a \in Nat,
           Counted(f, S), Counted(g, T), x \in T, T \ {x} \subseteq S,
           \A y \in T \ {x} : g[y] <= f[y],
           f[x] \in Nat, x \notin S => f[x] = 0, g[x] <= f[x] + a
    PROVE  SumFunctionOnSet(g, T) <= SumFunctionOnSet(f, S) + a
<1> DEFINE rest == S \ {x}
           others == SumFunctionOnSet(f, rest)
<1>1. Counted(f, rest) /\ Counted(g, T \ {x})
  BY FS_Subset DEF Counted
<1>2. SumFunctionOnSet(g, T \ {x}) <= others
  <2>1. T \ {x} \subseteq S \ {x}
    OBVIOUS
  <2> QED BY <1>1, <2>1, SumOnGrows
<1>3. /\ SumFunctionOnSet(g, T) = g[x] + SumFunctionOnSet(g, T \ {x})
      /\ SumFunctionOnSet(g, T \ {x}) \in Nat /\ g[x] \in Nat
  BY SumOnSplit
<1>4. others \in Nat
  BY <1>1, SumOnNat
<1>5. SumFunctionOnSet(f, S) = f[x] + others
  <2>1. CASE x \in S
    BY <2>1, SumOnSplit
  <2>2. CASE x \notin S
    <3>1. rest = S
      BY <2>2
    <3>2. others = SumFunctionOnSet(f, S)
      BY <3>1, Zenon
    <3> HIDE DEF others
    <3> QED BY <1>4, <2>2, <3>2
  <2> QED BY <2>1, <2>2
<1> QED BY <1>2, <1>3, <1>4, <1>5

LEMMA SumNat ==
    ASSUME NEW S, IsFiniteSet(S), NEW f \in [S -> Nat]
    PROVE  /\ SumFunction(f) = SumFunctionOnSet(f, S)
           /\ SumFunction(f) \in Nat
           /\ Counted(f, S)
BY SumOnNat DEF SumFunction, Counted

LEMMA SumOfZeros ==
    ASSUME NEW S, IsFiniteSet(S), NEW f, f = [x \in S |-> 0]
    PROVE  SumFunction(f) = 0
<1>1. f \in [S -> Nat] /\ Units(f, S) = {}
  BY DEF Units
<1> QED BY <1>1, SumNat, SumIsUnits, FS_EmptySet

\* No term is larger than the sum.
LEMMA TermWithinSum ==
    ASSUME NEW S, IsFiniteSet(S), NEW f \in [S -> Nat], NEW x \in S
    PROVE  f[x] <= SumFunction(f)
<1>1. Counted(f, S) /\ SumFunction(f) = SumFunctionOnSet(f, S)
  BY SumNat
<1>2. /\ SumFunctionOnSet(f, S) = f[x] + SumFunctionOnSet(f, S \ {x})
      /\ SumFunctionOnSet(f, S \ {x}) \in Nat /\ f[x] \in Nat
  BY <1>1, SumOnSplit
<1> QED BY <1>1, <1>2

\* A function changed at one place.
LEMMA SumChanges ==
    ASSUME NEW S, IsFiniteSet(S), NEW f \in [S -> Nat], NEW g \in [S -> Nat], NEW x \in S,
           \A y \in S \ {x} : g[y] = f[y]
    PROVE  SumFunction(g) = SumFunction(f) - f[x] + g[x]
<1>1. Counted(f, S \ {x}) /\ Counted(g, S \ {x}) /\ Counted(f, S) /\ Counted(g, S)
  BY FS_Subset DEF Counted
<1>2. SumFunctionOnSet(g, S \ {x}) = SumFunctionOnSet(f, S \ {x})
  BY <1>1, SumOnSame
<1> QED BY <1>1, <1>2, SumNat, SumOnSplit

LEMMA SumGrows ==
    ASSUME NEW S, IsFiniteSet(S), NEW f \in [S -> Nat], NEW g \in [S -> Nat],
           \A x \in S : f[x] <= g[x]
    PROVE  SumFunction(f) <= SumFunction(g)
BY SumNat, SumOnGrows

\* The sum of two functions, term by term.
LEMMA SumOfSums ==
    ASSUME NEW S, IsFiniteSet(S), NEW f \in [S -> Nat], NEW g \in [S -> Nat]
    PROVE  SumFunction([x \in S |-> f[x] + g[x]]) = SumFunction(f) + SumFunction(g)
<1> DEFINE h == [x \in S |-> f[x] + g[x]]
           Good == {T \in SUBSET S : SumFunctionOnSet(h, T)
                                       = SumFunctionOnSet(f, T) + SumFunctionOnSet(g, T)}
<1>1. h \in [S -> Nat] /\ \A x \in S : h[x] = f[x] + g[x]
  OBVIOUS
<1> HIDE DEF h
<1>2. {} \in Good
  BY SumOnNone
<1>3. ASSUME NEW T \in SUBSET S, T # {}, \A x \in T : T \ {x} \in Good
      PROVE  T \in Good
  <2>1. PICK x \in T : TRUE
    BY <1>3
  <2>2. Counted(f, T) /\ Counted(g, T) /\ Counted(h, T)
    BY <1>1, FS_Subset DEF Counted
  <2>3. SumFunctionOnSet(h, T \ {x}) = SumFunctionOnSet(f, T \ {x}) + SumFunctionOnSet(g, T \ {x})
    BY <1>3
  <2> QED BY <1>1, <2>2, <2>3, SumOnSplit
<1> HIDE DEF Good
<1>4. S \in Good
  BY <1>2, <1>3, SubsetInduction
<1> QED BY <1>1, <1>4, SumNat DEF Good, h

\* The sum of a multiple, term by term.
LEMMA SumOfMultiples ==
    ASSUME NEW S, IsFiniteSet(S), NEW f \in [S -> Nat], NEW k \in Nat
    PROVE  SumFunction([x \in S |-> f[x] * k]) = SumFunction(f) * k
<1> DEFINE h == [x \in S |-> f[x] * k]
           Good == {T \in SUBSET S : SumFunctionOnSet(h, T) = SumFunctionOnSet(f, T) * k}
<1>1. h \in [S -> Nat] /\ \A x \in S : h[x] = f[x] * k
  <2>1. \A n \in Nat : n * k \in Nat
    OBVIOUS
  <2> QED BY <2>1
<1> HIDE DEF h
<1>2. {} \in Good
  BY SumOnNone
<1>3. ASSUME NEW T \in SUBSET S, T # {}, \A x \in T : T \ {x} \in Good
      PROVE  T \in Good
  <2>1. PICK x \in T : TRUE
    BY <1>3
  <2>2. Counted(f, T) /\ Counted(h, T)
    BY <1>1, FS_Subset DEF Counted
  <2> DEFINE rest == SumFunctionOnSet(f, T \ {x})
  <2>3. SumFunctionOnSet(h, T \ {x}) = rest * k
    BY <1>3
  <2>4. SumFunctionOnSet(f, T) = f[x] + rest /\ rest \in Nat /\ f[x] \in Nat
    BY <2>2, SumOnSplit
  <2>5. SumFunctionOnSet(h, T) = f[x] * k + rest * k
    BY <1>1, <2>2, <2>3, SumOnSplit
  <2> HIDE DEF rest
  <2>6. (f[x] + rest) * k = f[x] * k + rest * k
    BY <2>4
  <2> QED BY <2>4, <2>5, <2>6
<1> HIDE DEF Good
<1>4. S \in Good
  BY <1>2, <1>3, SubsetInduction
<1> QED BY <1>1, <1>4, SumNat DEF Good, h

\* Counting a subset by marks.
LEMMA SumOfMarks ==
    ASSUME NEW S, IsFiniteSet(S), NEW T \in SUBSET S
    PROVE  SumFunction([x \in S |-> IF x \in T THEN 1 ELSE 0]) = Cardinality(T)
<1> DEFINE h == [x \in S |-> IF x \in T THEN 1 ELSE 0]
<1>1. h \in [S -> Nat]
  OBVIOUS
<1>2. Units(h, S) = T \X {1}
  BY DEF Units
<1> HIDE DEF h
<1>3. IsFiniteSet(T) /\ Cardinality(T) \in Nat
  BY FS_Subset, FS_CardinalityType
<1>4. IsFiniteSet({1}) /\ Cardinality({1}) = 1
  BY FS_Singleton
<1>5. Cardinality(T \X {1}) = Cardinality(T) * 1
  BY <1>3, <1>4, FS_Product
<1> QED BY <1>1, <1>2, <1>3, <1>5, SumNat, SumIsUnits DEF h

LEMMA SumOnUnion ==
    ASSUME NEW f, NEW S, NEW T, Counted(f, S), Counted(f, T), S \cap T = {}
    PROVE  /\ Counted(f, S \cup T)
           /\ SumFunctionOnSet(f, S \cup T) = SumFunctionOnSet(f, S) + SumFunctionOnSet(f, T)
<1> DEFINE left == Units(f, S)
           right == Units(f, T)
<1>1. Counted(f, S \cup T)
  BY FS_Union DEF Counted
<1>2. Units(f, S \cup T) = left \cup right /\ left \cap right = {}
  BY DEF Units
<1>3. /\ IsFiniteSet(left) /\ Cardinality(left) \in Nat
      /\ IsFiniteSet(right) /\ Cardinality(right) \in Nat
  BY UnitsFinite, FS_CardinalityType
<1> HIDE DEF left, right
<1>4. Cardinality(left \cup right) = Cardinality(left) + Cardinality(right) - Cardinality({})
  <2>1. Cardinality(left \cup right)
          = Cardinality(left) + Cardinality(right) - Cardinality(left \cap right)
    BY <1>3, FS_Union
  <2> QED BY <1>2, <2>1
<1>5. Cardinality({}) = 0
  BY FS_EmptySet
<1>6. Cardinality(left \cup right) = Cardinality(left) + Cardinality(right)
  BY <1>3, <1>4, <1>5
<1>7. Cardinality(Units(f, S \cup T)) = Cardinality(left) + Cardinality(right)
  BY <1>2, <1>6
<1> QED BY <1>1, <1>7, SumIsUnits DEF left, right

\* The sum of one row of a function of two arguments.
Row(f, a, L) == [b \in L |-> f[<<a, b>>]]

LEMMA SumOnRow ==
    ASSUME NEW f, NEW a, NEW L, IsFiniteSet(L), \A b \in L : f[<<a, b>>] \in Nat
    PROVE  /\ Counted(f, {a} \X L)
           /\ Row(f, a, L) \in [L -> Nat]
           /\ SumFunctionOnSet(f, {a} \X L) = SumFunction(Row(f, a, L))
<1> DEFINE row == Row(f, a, L)
           Good == {M \in SUBSET L : SumFunctionOnSet(f, {a} \X M) = SumFunctionOnSet(row, M)}
<1>1. row \in [L -> Nat] /\ \A b \in L : row[b] = f[<<a, b>>]
  BY DEF Row
<1>2. \A M \in SUBSET L : Counted(f, {a} \X M) /\ Counted(row, M)
  <2> SUFFICES ASSUME NEW M \in SUBSET L PROVE Counted(f, {a} \X M) /\ Counted(row, M)
    OBVIOUS
  <2>1. IsFiniteSet(M) /\ IsFiniteSet({a})
    BY FS_Subset, FS_Singleton
  <2>2. IsFiniteSet({a} \X M)
    BY <2>1, FS_Product
  <2> QED BY <1>1, <2>1, <2>2 DEF Counted
<1> HIDE DEF row
<1>3. {} \in Good
  <2>1. {a} \X {} = {}
    OBVIOUS
  <2> QED BY <2>1, SumOnNone
<1>4. ASSUME NEW M \in SUBSET L, M # {}, \A b \in M : M \ {b} \in Good
      PROVE  M \in Good
  <2>1. PICK b \in M : TRUE
    BY <1>4
  <2>2. ({a} \X M) \ {<<a, b>>} = {a} \X (M \ {b}) /\ <<a, b>> \in {a} \X M
    OBVIOUS
  <2>3. SumFunctionOnSet(f, {a} \X (M \ {b})) = SumFunctionOnSet(row, M \ {b})
    BY <1>4
  <2>4. SumFunctionOnSet(f, {a} \X M) = f[<<a, b>>] + SumFunctionOnSet(f, {a} \X (M \ {b}))
    BY <1>2, <2>2, SumOnSplit
  <2>5. SumFunctionOnSet(row, M) = row[b] + SumFunctionOnSet(row, M \ {b})
    <3>1. Counted(row, M)
      BY <1>2
    <3> QED BY <2>1, <3>1, SumOnSplit
  <2> QED BY <1>1, <2>3, <2>4, <2>5
<1> HIDE DEF Good
<1>5. L \in Good
  BY <1>3, <1>4, SubsetInduction
<1> QED BY <1>1, <1>2, <1>5, SumNat DEF Good, row

\* A sum over pairs is the sum of its rows.
LEMMA SumByRows ==
    ASSUME NEW E, IsFiniteSet(E), NEW L, IsFiniteSet(L), NEW f \in [E \X L -> Nat]
    PROVE  /\ [a \in E |-> SumFunction(Row(f, a, L))] \in [E -> Nat]
           /\ SumFunction(f) = SumFunction([a \in E |-> SumFunction(Row(f, a, L))])
<1> DEFINE g == [a \in E |-> SumFunction(Row(f, a, L))]
           Good == {D \in SUBSET E : /\ Counted(f, D \X L)
                                     /\ SumFunctionOnSet(f, D \X L) = SumFunctionOnSet(g, D)}
<1> HIDE DEF Good
<1>1. \A a \in E : /\ g[a] = SumFunction(Row(f, a, L)) /\ g[a] \in Nat
                   /\ Counted(f, {a} \X L)
                   /\ SumFunctionOnSet(f, {a} \X L) = g[a]
  <2> SUFFICES ASSUME NEW a \in E
               PROVE  /\ SumFunction(Row(f, a, L)) \in Nat
                      /\ Counted(f, {a} \X L)
                      /\ SumFunctionOnSet(f, {a} \X L) = SumFunction(Row(f, a, L))
    OBVIOUS
  <2>1. /\ Row(f, a, L) \in [L -> Nat]
        /\ Counted(f, {a} \X L)
        /\ SumFunctionOnSet(f, {a} \X L) = SumFunction(Row(f, a, L))
    <3>1. \A b \in L : f[<<a, b>>] \in Nat
      OBVIOUS
    <3> HIDE DEF g
    <3> QED BY <3>1, SumOnRow
  <2> QED BY <2>1, SumNat
<1>2. g \in [E -> Nat]
  BY <1>1
<1> HIDE DEF g
<1> USE DEF Good
<1>3. {} \in Good
  <2>1. {} \X L = {} /\ Counted(f, {})
    BY FS_EmptySet DEF Counted
  <2> QED BY <2>1, SumOnNone
<1>4. ASSUME NEW D \in SUBSET E, D # {}, \A a \in D : D \ {a} \in Good
      PROVE  D \in Good
  <2>1. PICK a \in D : TRUE
    BY <1>4
  <2> DEFINE rest == (D \ {a}) \X L
             own == {a} \X L
  <2>2. D \X L = rest \cup own /\ rest \cap own = {}
    OBVIOUS
  <2>3. Counted(f, rest) /\ SumFunctionOnSet(f, rest) = SumFunctionOnSet(g, D \ {a})
    BY <1>4
  <2>4. Counted(f, own) /\ SumFunctionOnSet(f, own) = g[a]
    BY <1>1
  <2> HIDE DEF rest, own
  <2>5. /\ Counted(f, D \X L)
        /\ SumFunctionOnSet(f, D \X L) = SumFunctionOnSet(f, rest) + SumFunctionOnSet(f, own)
    <3>1. /\ Counted(f, rest \cup own)
          /\ SumFunctionOnSet(f, rest \cup own)
               = SumFunctionOnSet(f, rest) + SumFunctionOnSet(f, own)
      BY <2>2, <2>3, <2>4, SumOnUnion
    <3> QED BY <2>2, <3>1
  <2>6. Counted(g, D)
    BY <1>2, FS_Subset DEF Counted
  <2>7. /\ SumFunctionOnSet(g, D) = g[a] + SumFunctionOnSet(g, D \ {a})
        /\ SumFunctionOnSet(g, D \ {a}) \in Nat /\ g[a] \in Nat
    BY <2>6, SumOnSplit
  <2> QED BY <2>3, <2>4, <2>5, <2>7
<1> HIDE DEF Good
<1>5. E \in Good
  BY <1>3, <1>4, SubsetInduction
<1>6. IsFiniteSet(E \X L)
  BY FS_Product
<1> QED BY <1>2, <1>5, <1>6, SumNat DEF Good, g

\* A function of two arguments changed in one row.
OneRowApart(f, g, E, L, c) ==
    /\ c \in E /\ f \in [E \X L -> Nat] /\ g \in [E \X L -> Nat]
    /\ \A a \in E \ {c}, b \in L : g[<<a, b>>] = f[<<a, b>>]

LEMMA SumRowChanges ==
    ASSUME NEW E, IsFiniteSet(E), NEW L, IsFiniteSet(L), NEW f, NEW g, NEW c,
           OneRowApart(f, g, E, L, c)
    PROVE  /\ SumFunction(g) = SumFunction(f) - SumFunction(Row(f, c, L))
                                 + SumFunction(Row(g, c, L))
           /\ Row(f, c, L) \in [L -> Nat] /\ Row(g, c, L) \in [L -> Nat]
<1> DEFINE sums(h) == [a \in E |-> SumFunction(Row(h, a, L))]
           fs == sums(f)
           gs == sums(g)
<1>0. /\ c \in E /\ f \in [E \X L -> Nat] /\ g \in [E \X L -> Nat]
      /\ \A a \in E \ {c}, b \in L : g[<<a, b>>] = f[<<a, b>>]
  BY DEF OneRowApart
<1>1. ASSUME NEW h \in [E \X L -> Nat]
      PROVE  sums(h) \in [E -> Nat] /\ SumFunction(h) = SumFunction(sums(h))
  BY <1>1, SumByRows
<1>2. /\ fs \in [E -> Nat] /\ SumFunction(f) = SumFunction(fs)
      /\ gs \in [E -> Nat] /\ SumFunction(g) = SumFunction(gs)
  <2> HIDE DEF sums
  <2> QED BY <1>0, <1>1
<1>3. \A a \in E \ {c} : gs[a] = fs[a]
  <2> SUFFICES ASSUME NEW a \in E \ {c} PROVE Row(g, a, L) = Row(f, a, L)
    OBVIOUS
  <2> QED BY <1>0 DEF Row
<1>4. fs[c] = SumFunction(Row(f, c, L)) /\ gs[c] = SumFunction(Row(g, c, L))
  BY <1>0
<1>5. Row(f, c, L) \in [L -> Nat] /\ Row(g, c, L) \in [L -> Nat]
  BY <1>0 DEF Row
<1> HIDE DEF fs, gs
<1>6. SumFunction(gs) = SumFunction(fs) - fs[c] + gs[c]
  BY <1>0, <1>2, <1>3, SumChanges
<1> QED BY <1>2, <1>4, <1>5, <1>6
=============================================================================
