--------------------------- MODULE NumberTheorems ---------------------------
(***************************************************************************)
(* What the proofs need of least and greatest elements of sets of naturals *)
(* and of sums over finite sets.  A sum is a fold; what a fold of +        *)
(* computes is proved by induction over the subsets of a finite set, with  *)
(* the sets that satisfy a fact as a set.                                  *)
(***************************************************************************)
EXTENDS Sums, FiniteSetTheorems, WellFoundedInduction, TLAPS

-----------------------------------------------------------------------------
(* Induction *)

\* < as a set of pairs, as the library's well-foundedness wants it.
LEMMA LessAsRelation ==
  ASSUME NEW x \in Nat, NEW y \in Nat
  PROVE  <<x, y>> \in OpToRel(<, Nat) <=> x < y
BY DEF OpToRel

\* A set of naturals that is not empty has a least element.
LEMMA LeastOf ==
  ASSUME NEW S, S \subseteq Nat, S # {}
  PROVE  \E x \in S : \A y \in S : x <= y
<1>1. \E x \in S : \A y \in S : ~(<<y, x>> \in OpToRel(<, Nat))
  BY NatLessThanWellFounded, WFMin
<1>2. \E x \in S : \A y \in S : ~(y < x)
  BY <1>1, LessAsRelation
<1> QED BY <1>2

\* Min gives the least element of a set of naturals.
LEMMA MinOf ==
  ASSUME NEW S, S \subseteq Nat, S # {}
  PROVE  Min(S) \in S /\ \A y \in S : Min(S) <= y
BY LeastOf DEF Min

\* A finite set of naturals that is not empty has a greatest element: a smallest
\* set without one would still have none after the removal of an element.
LEMMA MaxOf ==
  ASSUME NEW S, S \subseteq Nat, S # {}, IsFiniteSet(S)
  PROVE  Max(S) \in S /\ \A y \in S : Max(S) >= y
<1> DEFINE Bad(T) == /\ T \subseteq Nat /\ T # {} /\ IsFiniteSet(T)
                     /\ ~ \E x \in T : \A y \in T : x >= y
           Sizes == {n \in Nat : \E T \in SUBSET Nat : Bad(T) /\ Cardinality(T) = n}
<1>1. CASE Bad(S)
  <2>1. Cardinality(S) \in Sizes
    BY <1>1, FS_CardinalityType
  <2>2. PICK n \in Sizes : \A m \in Sizes : n <= m
    BY <2>1, LeastOf
  <2>3. PICK T \in SUBSET Nat : Bad(T) /\ Cardinality(T) = n
    OBVIOUS
  <2>4. PICK x \in T : x \in Nat
    BY <2>3
  <2>5. IsFiniteSet(T \ {x}) /\ Cardinality(T \ {x}) = n - 1
    BY <2>3, FS_RemoveElement
  <2>6. n \in Nat /\ ~(n <= n - 1)
    OBVIOUS
  <2>7. ~Bad(T \ {x})
    <3>1. SUFFICES ASSUME Bad(T \ {x}) PROVE FALSE
      OBVIOUS
    <3>2. n - 1 \in Nat
      BY <2>5, FS_CardinalityType
    <3>3. n - 1 \in Sizes
      BY <3>1, <3>2, <2>5
    <3> QED BY <3>3, <2>2, <2>6
  <2>8. CASE T \ {x} = {}
    <3>1. \A y \in T : x >= y
      BY <2>4, <2>8
    <3> QED BY <3>1, <2>3
  <2>9. CASE T \ {x} # {}
    <3>1. PICK z \in T \ {x} : \A y \in T \ {x} : z >= y
      BY <2>3, <2>5, <2>7, <2>9
    <3>2. z \in Nat /\ (z >= x \/ x >= z)
      BY <2>3, <2>4, <3>1
    <3>3. \E g \in T : \A y \in T : g >= y
      BY <3>1, <3>2, <2>3, <2>4
    <3> QED BY <3>3, <2>3
  <2> QED BY <2>8, <2>9
<1>2. CASE \E x \in S : \A y \in S : x >= y
  BY <1>2 DEF Max
<1> QED BY <1>1, <1>2

\* A set of subsets of S that has a set whenever it has the set without each of
\* its elements has S itself.
LEMMA SubsetInduction ==
  ASSUME NEW S, IsFiniteSet(S), NEW Good,
         \A T \in SUBSET S : (\A x \in T : T \ {x} \in Good) => T \in Good
  PROVE  S \in Good
<1> DEFINE Bad == {T \in SUBSET S : T \notin Good}
           Sizes == {Cardinality(T) : T \in Bad}
<1>1. SUFFICES ASSUME S \notin Good PROVE FALSE
  OBVIOUS
<1>2. \A T \in SUBSET S : IsFiniteSet(T) /\ Cardinality(T) \in Nat
  BY FS_Subset, FS_CardinalityType
<1>3. Sizes \subseteq Nat /\ Sizes # {}
  BY <1>1, <1>2
<1>4. PICK n \in Sizes : \A m \in Sizes : n <= m
  BY <1>3, LeastOf
<1>5. PICK T \in Bad : Cardinality(T) = n
  BY <1>4
<1>6. PICK x \in T : T \ {x} \notin Good
  BY <1>5
<1>7. Cardinality(T \ {x}) = n - 1
  BY <1>2, <1>5, <1>6, FS_RemoveElement
<1>8. Cardinality(T \ {x}) \in Sizes
  BY <1>5, <1>6
<1>9. n \in Nat
  BY <1>3, <1>4
<1>10. n - 1 \in Sizes
  <2> HIDE DEF Sizes
  <2> QED BY <1>7, <1>8
<1>11. n <= n - 1
  BY <1>4, <1>10
<1> QED BY <1>9, <1>11

-----------------------------------------------------------------------------
(* Sums *)

\* The function over the subsets of S that the fold of SumOver(f, S) computes.
IsSum(g, f, S) ==
  g = [s \in SUBSET S |->
         IF s = {} THEN 0
         ELSE f[CHOOSE x \in s : TRUE] + g[s \ {CHOOSE x \in s : TRUE}]]

\* There is one: a function over the subsets of a smaller set is continued.
LEMMA SumExists ==
  ASSUME NEW f, NEW S, IsFiniteSet(S)
  PROVE  \E g : IsSum(g, f, S)
<1> DEFINE Pick(s) == CHOOSE x \in s : TRUE
           Part0(T) == {s \in SUBSET S : Cardinality(s) <= Cardinality(T)}
           Step(g, T) == [s \in Part0(T) |-> IF s = {} THEN 0 ELSE f[Pick(s)] + g[s \ {Pick(s)}]]
           Good == {T \in SUBSET S : \E g : g = Step(g, T)}
<1>1. \A s \in SUBSET S : IsFiniteSet(s) /\ Cardinality(s) \in Nat
  BY FS_Subset, FS_CardinalityType
<1>2. \A s \in SUBSET S : s # {} => Pick(s) \in s
  OBVIOUS
<1>3. \A s \in SUBSET S : s # {} => Cardinality(s \ {Pick(s)}) = Cardinality(s) - 1
  BY <1>1, <1>2, FS_RemoveElement
<1>4. ASSUME NEW T \in SUBSET S, \A x \in T : T \ {x} \in Good
      PROVE  T \in Good
  <2>1. CASE T = {}
    <3>1. Part0(T) = {{}}
      <4>1. \A s \in SUBSET S : Cardinality(s) = 0 <=> s = {}
        BY <1>1, FS_EmptySet
      <4>2. Cardinality(T) = 0
        BY <2>1, FS_EmptySet
      <4> QED BY <4>1, <4>2, <1>1
    <3> DEFINE g == [s \in Part0(T) |-> 0]
    <3>2. g = Step(g, T)
      BY <3>1
    <3> QED BY <3>2
  <2>2. CASE T # {}
    <3>1. PICK x \in T : TRUE
      BY <2>2
    <3>2. PICK g : g = Step(g, T \ {x})
      BY <1>4, <3>1
    <3>3. Cardinality(T \ {x}) = Cardinality(T) - 1 /\ Cardinality(T) \in Nat
      BY <1>1, <3>1, FS_RemoveElement
    <3>4. \A s \in Part0(T) : s # {} => s \ {Pick(s)} \in Part0(T \ {x})
      BY <1>1, <1>3, <3>3
    <3>5. \A s \in Part0(T \ {x}) : s \in Part0(T)
      BY <1>1, <3>3
    <3>6. \A s \in Part0(T \ {x}) : g[s] = IF s = {} THEN 0 ELSE f[Pick(s)] + g[s \ {Pick(s)}]
      BY <3>2
    <3> DEFINE k == [s \in Part0(T) |-> IF s = {} THEN 0 ELSE f[Pick(s)] + g[s \ {Pick(s)}]]
    <3>7. \A s \in Part0(T \ {x}) : k[s] = g[s]
      BY <3>5, <3>6
    <3>8. \A s \in Part0(T) :
            k[s] = IF s = {} THEN 0 ELSE f[Pick(s)] + k[s \ {Pick(s)}]
      <4>1. \A s \in Part0(T) : k[s] = IF s = {} THEN 0 ELSE f[Pick(s)] + g[s \ {Pick(s)}]
        OBVIOUS
      <4>2. \A s \in Part0(T) : s # {} => k[s \ {Pick(s)}] = g[s \ {Pick(s)}]
        <5> HIDE DEF k, Part0
        <5> QED BY <3>4, <3>7
      <4> HIDE DEF k, Part0, Pick
      <4> QED BY <4>1, <4>2
    <3>9. k = [s \in Part0(T) |-> k[s]]
      OBVIOUS
    <3>10. k = Step(k, T)
      <4> HIDE DEF k
      <4> QED BY <3>8, <3>9
    <3> QED BY <3>10
  <2> QED BY <2>1, <2>2
<1>5. S \in Good
  <2> HIDE DEF Good
  <2> QED BY <1>4, SubsetInduction
<1>6. PICK g : g = Step(g, S)
  BY <1>5
<1>7. Part0(S) = SUBSET S
  BY FS_Subset
<1>8. IsSum(g, f, S)
  BY <1>6, <1>7 DEF IsSum
<1> QED BY <1>8

\* Two such functions agree where both are defined.
LEMMA SumUnique ==
  ASSUME NEW f, NEW S, NEW T, NEW g, NEW h, NEW U, IsFiniteSet(U),
         IsSum(g, f, S), IsSum(h, f, T), U \subseteq S, U \subseteq T
  PROVE  g[U] = h[U]
<1> DEFINE Good == {V \in SUBSET U : g[V] = h[V]}
<1>1. ASSUME NEW V \in SUBSET U, \A x \in V : V \ {x} \in Good
      PROVE  V \in Good
  <2>1. CASE V = {}
    <3>1. g[V] = 0 /\ h[V] = 0
      BY <2>1, Zenon DEF IsSum
    <3> QED BY <3>1
  <2>2. CASE V # {}
    <3>1. PICK x : x = CHOOSE y \in V : TRUE
      OBVIOUS
    <3>2. x \in V
      BY <2>2, <3>1
    <3>3. V \in SUBSET S /\ V \in SUBSET T
      OBVIOUS
    <3>4. g[V] = f[x] + g[V \ {x}]
      BY <2>2, <3>1, <3>3 DEF IsSum
    <3>5. h[V] = f[x] + h[V \ {x}]
      BY <2>2, <3>1, <3>3 DEF IsSum
    <3>6. g[V \ {x}] = h[V \ {x}]
      BY <1>1, <3>2
    <3>7. g[V] = h[V]
      BY <3>4, <3>5, <3>6
    <3> QED BY <3>7
  <2> QED BY <2>1, <2>2
<1>2. U \in Good
  <2> HIDE DEF Good
  <2> QED BY <1>1, SubsetInduction
<1> QED BY <1>2

\* What SumOver computes.
LEMMA SumIs ==
  ASSUME NEW f, NEW S, IsFiniteSet(S)
  PROVE  \E g : IsSum(g, f, S) /\ SumOver(f, S) = g[S]
<1>1. PICK k : IsSum(k, f, S)
  BY SumExists
<1> DEFINE g == CHOOSE it : it = [s \in SUBSET S |->
                   IF s = {} THEN 0
                   ELSE f[CHOOSE x \in s : TRUE] + it[s \ {CHOOSE x \in s : TRUE}]]
<1>2. IsSum(g, f, S)
  BY <1>1 DEF IsSum
<1>3. SumOver(f, S) = g[S]
  BY DEF SumOver, MapThenSumSet, MapThenFoldSet
<1> QED BY <1>2, <1>3

LEMMA SumEmpty ==
  ASSUME NEW f
  PROVE  SumOver(f, {}) = 0
<1>1. PICK g : IsSum(g, f, {}) /\ SumOver(f, {}) = g[{}]
  BY SumIs, FS_EmptySet
<1> QED BY <1>1 DEF IsSum

\* One element, the one that the fold chooses, and the rest.
LEMMA SumStep ==
  ASSUME NEW f, NEW S, IsFiniteSet(S), S # {}
  PROVE  \E x \in S : SumOver(f, S) = f[x] + SumOver(f, S \ {x})
<1>1. PICK g : IsSum(g, f, S) /\ SumOver(f, S) = g[S]
  BY SumIs
<1>2. PICK x : x = CHOOSE y \in S : TRUE
  OBVIOUS
<1>3. x \in S
  BY <1>2
<1>4. IsFiniteSet(S \ {x})
  BY <1>3, FS_RemoveElement
<1>5. PICK h : IsSum(h, f, S \ {x}) /\ SumOver(f, S \ {x}) = h[S \ {x}]
  BY <1>4, SumIs
<1>6. g[S] = f[x] + g[S \ {x}]
  <2>1. g[S] = f[CHOOSE y \in S : TRUE] + g[S \ {CHOOSE y \in S : TRUE}]
    <3>1. S \in SUBSET S
      OBVIOUS
    <3> QED BY <1>1, <3>1 DEF IsSum
  <2> QED BY <2>1, <1>2
<1>7. g[S \ {x}] = h[S \ {x}]
  <2>1. S \ {x} \subseteq S /\ S \ {x} \subseteq S \ {x}
    OBVIOUS
  <2> QED BY <1>1, <1>4, <1>5, <2>1, SumUnique
<1> QED BY <1>1, <1>3, <1>5, <1>6, <1>7

LEMMA SumType ==
  ASSUME NEW f, NEW S, IsFiniteSet(S), \A x \in S : f[x] \in Int
  PROVE  SumOver(f, S) \in Int
<1> DEFINE Good == {T \in SUBSET S : SumOver(f, T) \in Int}
<1>1. ASSUME NEW T \in SUBSET S, \A x \in T : T \ {x} \in Good
      PROVE  T \in Good
  <2>1. CASE T = {}
    BY <2>1, SumEmpty
  <2>2. CASE T # {}
    <3>1. IsFiniteSet(T)
      BY FS_Subset
    <3>2. PICK x \in T : SumOver(f, T) = f[x] + SumOver(f, T \ {x})
      BY <2>2, <3>1, SumStep
    <3>3. SumOver(f, T \ {x}) \in Int /\ f[x] \in Int
      BY <1>1, <3>2
    <3> QED BY <3>2, <3>3
  <2> QED BY <2>1, <2>2
<1>2. S \in Good
  <2> HIDE DEF Good
  <2> QED BY <1>1, SubsetInduction
<1> QED BY <1>2

\* Any element and the rest.
LEMMA SumRemove ==
  ASSUME NEW f, NEW S, IsFiniteSet(S), \A y \in S : f[y] \in Int, NEW x \in S
  PROVE  SumOver(f, S) = f[x] + SumOver(f, S \ {x})
<1> DEFINE Good == {T \in SUBSET S : \A y \in T : SumOver(f, T) = f[y] + SumOver(f, T \ {y})}
<1>1. ASSUME NEW T \in SUBSET S, \A y \in T : T \ {y} \in Good
      PROVE  T \in Good
  <2>1. SUFFICES ASSUME NEW y \in T
                 PROVE  SumOver(f, T) = f[y] + SumOver(f, T \ {y})
    OBVIOUS
  <2>2. IsFiniteSet(T)
    BY FS_Subset
  <2>3. PICK z \in T : SumOver(f, T) = f[z] + SumOver(f, T \ {z})
    BY <2>1, <2>2, SumStep
  <2>4. CASE z = y
    BY <2>3, <2>4
  <2>5. CASE z # y
    <3>1. SumOver(f, T \ {z}) = f[y] + SumOver(f, (T \ {z}) \ {y})
      BY <1>1, <2>5
    <3>2. SumOver(f, T \ {y}) = f[z] + SumOver(f, (T \ {y}) \ {z})
      BY <1>1, <2>5
    <3>3. (T \ {y}) \ {z} = (T \ {z}) \ {y}
      OBVIOUS
    <3>4. SumOver(f, (T \ {z}) \ {y}) \in Int
      <4>1. IsFiniteSet((T \ {z}) \ {y})
        BY FS_Subset
      <4> QED BY <4>1, SumType
    <3>5. f[y] \in Int /\ f[z] \in Int
      OBVIOUS
    <3>6. PICK r \in Int : r = SumOver(f, (T \ {z}) \ {y})
      BY <3>4
    <3>7. SumOver(f, T \ {z}) = f[y] + r /\ SumOver(f, T \ {y}) = f[z] + r
      BY <3>1, <3>2, <3>3, <3>6, Zenon
    <3>8. SumOver(f, T) = f[z] + (f[y] + r)
      BY <2>3, <3>7
    <3> QED BY ONLY <3>5, <3>7, <3>8, r \in Int
  <2> QED BY <2>4, <2>5
<1>2. S \in Good
  <2> HIDE DEF Good
  <2> QED BY <1>1, SubsetInduction
<1> QED BY <1>2

\* Functions that agree on S have one sum over it.
LEMMA SumSame ==
  ASSUME NEW f, NEW g, NEW S, IsFiniteSet(S), \A x \in S : f[x] = g[x]
  PROVE  SumOver(f, S) = SumOver(g, S)
<1>1. PICK k : IsSum(k, f, S) /\ SumOver(f, S) = k[S]
  BY SumIs
<1>2. IsSum(k, g, S)
  <2>1. \A s \in SUBSET S : s # {} => (CHOOSE x \in s : TRUE) \in S
    OBVIOUS
  <2> QED BY <1>1, <2>1 DEF IsSum
<1>3. PICK h : IsSum(h, g, S) /\ SumOver(g, S) = h[S]
  BY SumIs
<1>4. k[S] = h[S]
  BY <1>2, <1>3, SumUnique
<1> QED BY <1>1, <1>3, <1>4

\* A change at one element changes the sum by as much.
LEMMA SumChange ==
  ASSUME NEW f, NEW g, NEW S, IsFiniteSet(S), NEW x \in S,
         \A y \in S : f[y] \in Int, \A y \in S \ {x} : g[y] = f[y], g[x] \in Int
  PROVE  SumOver(g, S) = SumOver(f, S) - f[x] + g[x]
<1>1. \A y \in S : g[y] \in Int
  OBVIOUS
<1>2. SumOver(f, S) = f[x] + SumOver(f, S \ {x}) /\ SumOver(g, S) = g[x] + SumOver(g, S \ {x})
  BY <1>1, SumRemove
<1>3. IsFiniteSet(S \ {x})
  BY FS_RemoveElement
<1>4. SumOver(g, S \ {x}) = SumOver(f, S \ {x}) /\ SumOver(f, S \ {x}) \in Int
  BY <1>3, SumSame, SumType
<1>5. f[x] \in Int
  OBVIOUS
<1> QED BY <1>2, <1>4, <1>5

LEMMA SumZero ==
  ASSUME NEW f, NEW S, IsFiniteSet(S), \A x \in S : f[x] = 0
  PROVE  SumOver(f, S) = 0
<1> DEFINE Good == {T \in SUBSET S : SumOver(f, T) = 0}
<1>1. ASSUME NEW T \in SUBSET S, \A x \in T : T \ {x} \in Good
      PROVE  T \in Good
  <2>1. CASE T = {}
    BY <2>1, SumEmpty
  <2>2. CASE T # {}
    <3>1. IsFiniteSet(T)
      BY FS_Subset
    <3>2. PICK x \in T : SumOver(f, T) = f[x] + SumOver(f, T \ {x})
      BY <2>2, <3>1, SumStep
    <3>3. SumOver(f, T \ {x}) = 0 /\ f[x] = 0
      BY <1>1, <3>2
    <3> QED BY <3>2, <3>3
  <2> QED BY <2>1, <2>2
<1>2. S \in Good
  <2> HIDE DEF Good
  <2> QED BY <1>1, SubsetInduction
<1> QED BY <1>2

\* The sum of sums.
LEMMA SumAdd ==
  ASSUME NEW f, NEW g, NEW h, NEW S, IsFiniteSet(S),
         \A x \in S : f[x] \in Int /\ g[x] \in Int /\ h[x] = f[x] + g[x]
  PROVE  SumOver(h, S) = SumOver(f, S) + SumOver(g, S)
<1> DEFINE Good == {T \in SUBSET S : SumOver(h, T) = SumOver(f, T) + SumOver(g, T)}
<1>1. ASSUME NEW T \in SUBSET S, \A x \in T : T \ {x} \in Good
      PROVE  T \in Good
  <2>1. CASE T = {}
    BY <2>1, SumEmpty
  <2>2. CASE T # {}
    <3>1. IsFiniteSet(T)
      BY FS_Subset
    <3>2. PICK x \in T : SumOver(h, T) = h[x] + SumOver(h, T \ {x})
      BY <2>2, <3>1, SumStep
    <3>3. SumOver(f, T) = f[x] + SumOver(f, T \ {x}) /\ SumOver(g, T) = g[x] + SumOver(g, T \ {x})
      BY <3>1, SumRemove
    <3>4. IsFiniteSet(T \ {x})
      BY <3>1, FS_RemoveElement
    <3>5. SumOver(f, T \ {x}) \in Int /\ SumOver(g, T \ {x}) \in Int
      BY <3>4, SumType
    <3>6. SumOver(h, T \ {x}) = SumOver(f, T \ {x}) + SumOver(g, T \ {x})
      BY <1>1, <3>2
    <3>7. f[x] \in Int /\ g[x] \in Int /\ h[x] = f[x] + g[x]
      OBVIOUS
    <3>8. SumOver(h, T) = SumOver(f, T) + SumOver(g, T)
      BY ONLY <3>2, <3>3, <3>5, <3>6, <3>7
    <3> QED BY <3>8
  <2> QED BY <2>1, <2>2
<1>2. S \in Good
  <2> HIDE DEF Good
  <2> QED BY <1>1, SubsetInduction
<1> QED BY <1>2

\* row and col are the sums of the rows and of the columns of a table F, whose
\* transpose is G.
IsTable(F, G, row, col, S, K) ==
  /\ \A s \in S, k \in K : F[s][k] \in Int /\ G[k][s] = F[s][k]
  /\ \A s \in S : row[s] = SumOver(F[s], K)
  /\ \A k \in K : col[k] = SumOver(G[k], S)

\* The rows and the columns have one sum.
LEMMA SumSwap ==
  ASSUME NEW F, NEW G, NEW row, NEW col, NEW S, NEW K, IsFiniteSet(S), IsFiniteSet(K),
         IsTable(F, G, row, col, S, K)
  PROVE  SumOver(row, S) = SumOver(col, K)
<1> USE DEF IsTable
<1> DEFINE part(T) == [k \in K |-> SumOver(G[k], T)]
           Good == {T \in SUBSET S : SumOver(row, T) = SumOver(part(T), K)}
<1>1. ASSUME NEW T \in SUBSET S, \A x \in T : T \ {x} \in Good
      PROVE  T \in Good
  <2>1. CASE T = {}
    <3>1. \A k \in K : part(T)[k] = 0
      BY <2>1, SumEmpty
    <3>2. SumOver(part(T), K) = 0
      <4> HIDE DEF part
      <4> QED BY <3>1, SumZero
    <3> QED BY <2>1, <3>2, SumEmpty
  <2>2. CASE T # {}
    <3>1. IsFiniteSet(T)
      BY FS_Subset
    <3>2. PICK x \in T : SumOver(row, T) = row[x] + SumOver(row, T \ {x})
      BY <2>2, <3>1, SumStep
    <3>3. row[x] = SumOver(F[x], K)
      OBVIOUS
    <3>4. IsFiniteSet(T \ {x})
      BY <3>1, FS_RemoveElement
    <3>5. ASSUME NEW k \in K
          PROVE  /\ F[x][k] \in Int /\ part(T \ {x})[k] \in Int
                 /\ part(T)[k] = F[x][k] + part(T \ {x})[k]
      <4>1. PICK c : c = G[k]
        OBVIOUS
      <4>2. c[x] = F[x][k] /\ F[x][k] \in Int /\ \A s \in T : c[s] \in Int
        BY <4>1
      <4>3. SumOver(c, T) = c[x] + SumOver(c, T \ {x}) /\ SumOver(c, T \ {x}) \in Int
        BY ONLY <3>1, <3>4, <4>2, x \in T, SumRemove, SumType
      <4>4. part(T)[k] = SumOver(c, T) /\ part(T \ {x})[k] = SumOver(c, T \ {x})
        BY <4>1
      <4> QED BY <4>2, <4>3, <4>4
    <3>6. SumOver(part(T), K) = SumOver(F[x], K) + SumOver(part(T \ {x}), K)
      <4>1. PICK f, g, h : f = F[x] /\ g = part(T \ {x}) /\ h = part(T)
        OBVIOUS
      <4>2. \A k \in K : f[k] \in Int /\ g[k] \in Int /\ h[k] = f[k] + g[k]
        <5> HIDE DEF part
        <5> QED BY <3>5, <4>1
      <4>3. SumOver(h, K) = SumOver(f, K) + SumOver(g, K)
        BY <4>2, SumAdd
      <4> HIDE DEF part
      <4> QED BY <4>1, <4>3
    <3>7. SumOver(row, T \ {x}) = SumOver(part(T \ {x}), K)
      BY <1>1, <3>2
    <3>8. SumOver(row, T) = SumOver(part(T), K)
      <4> HIDE DEF part
      <4> QED BY <3>2, <3>3, <3>6, <3>7
    <3> QED BY <3>8
  <2> QED BY <2>1, <2>2
<1>2. S \in Good
  <2> HIDE DEF Good
  <2> QED BY <1>1, SubsetInduction
<1>3. SumOver(part(S), K) = SumOver(col, K)
  <2>1. \A k \in K : part(S)[k] = col[k]
    OBVIOUS
  <2> HIDE DEF part
  <2> QED BY <2>1, SumSame
<1> QED BY <1>2, <1>3

\* The sum of equal terms.
LEMMA SumConst ==
  ASSUME NEW f, NEW S, IsFiniteSet(S), NEW q \in Int, \A x \in S : f[x] = q
  PROVE  SumOver(f, S) = Cardinality(S) * q
<1> DEFINE Good == {T \in SUBSET S : SumOver(f, T) = Cardinality(T) * q}
<1>1. ASSUME NEW T \in SUBSET S, \A x \in T : T \ {x} \in Good
      PROVE  T \in Good
  <2>1. CASE T = {}
    <3>1. Cardinality(T) = 0 /\ SumOver(f, T) = 0
      BY <2>1, SumEmpty, FS_EmptySet
    <3> QED BY <3>1
  <2>2. CASE T # {}
    <3>1. IsFiniteSet(T)
      BY FS_Subset
    <3>2. PICK x \in T : SumOver(f, T) = f[x] + SumOver(f, T \ {x})
      BY <2>2, <3>1, SumStep
    <3>3. PICK n \in Int : n = Cardinality(T) /\ Cardinality(T \ {x}) = n - 1
      BY <3>1, FS_RemoveElement, FS_CardinalityType
    <3>4. SumOver(f, T \ {x}) = (n - 1) * q
      BY <1>1, <3>2, <3>3
    <3>5. q + (n - 1) * q = n * q
      OBVIOUS
    <3>6. SumOver(f, T) = Cardinality(T) * q
      BY <3>2, <3>3, <3>4, <3>5
    <3> QED BY <3>6
  <2> QED BY <2>1, <2>2
<1>2. S \in Good
  <2> HIDE DEF Good
  <2> QED BY <1>1, SubsetInduction
<1> QED BY <1>2

\* Elements without an amount do not count.
LEMMA SumWithin ==
  ASSUME NEW f, NEW S, IsFiniteSet(S), NEW A, A \subseteq S,
         \A x \in S : f[x] \in Int, \A x \in S \ A : f[x] = 0
  PROVE  SumOver(f, S) = SumOver(f, A)
<1> DEFINE Good == {T \in SUBSET S : SumOver(f, T) = SumOver(f, T \cap A)}
<1>1. ASSUME NEW T \in SUBSET S, \A x \in T : T \ {x} \in Good
      PROVE  T \in Good
  <2>1. CASE T \subseteq A
    <3>1. T \cap A = T
      BY <2>1
    <3> QED BY <3>1
  <2>2. CASE ~(T \subseteq A)
    <3>1. PICK x \in T : x \notin A
      BY <2>2
    <3>2. IsFiniteSet(T) /\ \A y \in T : f[y] \in Int
      BY FS_Subset
    <3>3. SumOver(f, T) = f[x] + SumOver(f, T \ {x})
      BY ONLY <3>2, x \in T, SumRemove
    <3>4. SumOver(f, T \ {x}) = SumOver(f, (T \ {x}) \cap A) /\ (T \ {x}) \cap A = T \cap A
      BY <1>1, <3>1
    <3>5. f[x] = 0 /\ SumOver(f, T \ {x}) \in Int
      <4>1. IsFiniteSet(T \ {x}) /\ \A y \in T \ {x} : f[y] \in Int
        BY <3>2, FS_Subset
      <4>2. SumOver(f, T \ {x}) \in Int
        BY ONLY <4>1, SumType
      <4> QED BY <3>1, <4>2
    <3>6. SumOver(f, T) = SumOver(f, T \cap A)
      <4>1. PICK n \in Int : n = SumOver(f, T \ {x}) /\ n = SumOver(f, T \cap A)
        BY <3>4, <3>5
      <4>2. SumOver(f, T) = 0 + n
        BY <3>3, <3>5, <4>1
      <4> QED BY <4>1, <4>2
    <3> QED BY <3>6
  <2> QED BY <2>1, <2>2
<1> HIDE DEF Good
<1>2. S \in Good
  BY <1>1, SubsetInduction
<1>3. S \cap A = A
  OBVIOUS
<1> QED BY <1>2, <1>3 DEF Good

=============================================================================
