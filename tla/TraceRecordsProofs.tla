-------------------------- MODULE TraceRecordsProofs --------------------------
(***************************************************************************)
(* Theorems about TraceReports, first part: for every pace of the run and  *)
(* every number of tools, what the trace tells of the tasks, and that the  *)
(* programs which rebuild the records of the tasks from it agree.          *)
(***************************************************************************)
EXTENDS TraceReports, FiniteSetTheorems, SequenceTheorems, WellFoundedInduction, TLAPS

-------------------------------------------------------------------------------
(* Sums.                                                                   *)

LEMMA SumsSame ==
  \A f : E!SumFunction(f) = SumFunction(f) /\ T!SumFunction(f) = SumFunction(f)
  BY DEF SumFunction, SumFunctionOnSet, FoldFunctionOnSet, MapThenFoldSet,
         E!SumFunction, E!SumFunctionOnSet, E!FoldFunctionOnSet, E!MapThenFoldSet,
         T!SumFunction, T!SumFunctionOnSet, T!FoldFunctionOnSet, T!MapThenFoldSet
LEMMA CountsSame ==
  \A S : E!Cardinality(S) = Cardinality(S) /\ T!Cardinality(S) = Cardinality(S)
  BY DEF E!Cardinality, T!Cardinality, Cardinality

LEMMA CountsAdd ==
  ASSUME NEW a, IsFiniteSet(a), NEW b, IsFiniteSet(b), a \cap b = {}
  PROVE  Cardinality(a \cup b) = Cardinality(a) + Cardinality(b)
  <1>1. Cardinality(a \cap b) = 0
    BY FS_EmptySet
  <1>2. Cardinality(a) \in Nat /\ Cardinality(b) \in Nat
    BY FS_CardinalityType
  <1>3. Cardinality(a \cup b) = Cardinality(a) + Cardinality(b) - Cardinality(a \cap b)
    BY FS_Union
  <1> QED BY <1>1, <1>2, <1>3

LEMMA LeastIndex ==
  ASSUME NEW S \in SUBSET Nat, S # {}
  PROVE  \E k \in S : \A j \in S : k <= j
  <1> DEFINE R == OpToRel(<, Nat)
  <1>1. PICK k \in S : \A j \in S : <<j, k>> \notin R
    BY NatLessThanWellFounded, WFMin
  <1>2. \A j \in S : ~(j < k)
    BY <1>1 DEF OpToRel
  <1> QED BY <1>2

\* f adds up g over the subsets of S, an element after the other.
Some(s) == CHOOSE x \in s : TRUE
Sums(f, g, S) == f = [s \in SUBSET S |-> IF s = {} THEN 0 ELSE g[Some(s)] + f[s \ {Some(s)}]]

\* There is such a function, since a subset is larger than what is left of it.
LEMMA SumsExist ==
  ASSUME NEW S, IsFiniteSet(S), NEW g \in [S -> Int]
  PROVE  \E f : Sums(f, g, S)
  <1> DEFINE Small(n) == {s \in SUBSET S : Cardinality(s) <= n}
             Part(f, n) == f = [s \in Small(n) |-> IF s = {} THEN 0 ELSE g[Some(s)] + f[s \ {Some(s)}]]
             bad == {n \in Nat : ~\E f : Part(f, n)}
  <1>1. \A s \in SUBSET S : /\ Cardinality(s) \in Nat /\ (Cardinality(s) = 0 <=> s = {})
                            /\ s # {} => Some(s) \in s /\ Cardinality(s \ {Some(s)}) = Cardinality(s) - 1
    <2> TAKE s \in SUBSET S
    <2>1. IsFiniteSet(s)
      BY FS_Subset
    <2>2. s # {} => Some(s) \in s
      BY DEF Some
    <2> QED BY <2>1, <2>2, FS_CardinalityType, FS_EmptySet, FS_RemoveElement
  <1>2. \E f : Part(f, 0)
    <2> DEFINE f == [s \in Small(0) |-> 0]
    <2>1. \A s \in Small(0) : s = {}
      <3> TAKE s \in Small(0)
      <3>1. s \in SUBSET S /\ Cardinality(s) <= 0
        OBVIOUS
      <3> HIDE DEF Small
      <3>4. Cardinality(s) \in Nat
        BY <1>1, <3>1
      <3>2. Cardinality(s) = 0
        BY <3>1, <3>4
      <3>3. Cardinality(s) = 0 <=> s = {}
        BY <1>1, <3>1
      <3> QED BY <3>2, <3>3
    <2>2. Part(f, 0)
      BY <2>1
    <2> QED BY <2>2
  <1>3. ASSUME NEW n \in Nat, NEW f, Part(f, n)
        PROVE  \E h : Part(h, n + 1)
    <2> DEFINE h == [s \in Small(n + 1) |-> IF s \in Small(n) THEN f[s] ELSE g[Some(s)] + f[s \ {Some(s)}]]
    <2>1. \A s \in Small(n + 1) : s # {} => s \ {Some(s)} \in Small(n) /\ h[s \ {Some(s)}] = f[s \ {Some(s)}]
      <3> TAKE s \in Small(n + 1)
      <3> HAVE s # {}
      <3> DEFINE r == s \ {Some(s)}
      <3>1. r \in SUBSET S /\ Cardinality(r) <= n
        BY <1>1
      <3>2. r \in Small(n) /\ r \in Small(n + 1)
        BY <1>1, <3>1
      <3> HIDE DEF r
      <3> QED BY <3>2 DEF r
    <2>2. \A s \in Small(n + 1) : s \notin Small(n) => s # {}
      BY <1>1
    <2>3. \A s \in Small(n) : f[s] = IF s = {} THEN 0 ELSE g[Some(s)] + f[s \ {Some(s)}]
      BY <1>3
    <2>4. \A s \in Small(n + 1) : h[s] = IF s = {} THEN 0 ELSE g[Some(s)] + h[s \ {Some(s)}]
      <3> TAKE s \in Small(n + 1)
      <3>1. h[s] = IF s \in Small(n) THEN f[s] ELSE g[Some(s)] + f[s \ {Some(s)}]
        OBVIOUS
      <3> HIDE DEF Small, h
      <3>2. CASE s \in Small(n) /\ s # {}
        <4>1. f[s] = g[Some(s)] + f[s \ {Some(s)}]
          BY <2>3, <3>2
        <4> QED BY <2>1, <3>1, <3>2, <4>1
      <3>3. CASE s \notin Small(n)
        BY <2>1, <2>2, <3>1, <3>3
      <3>4. CASE s = {} /\ s \in Small(n)
        BY <2>3, <3>1, <3>4
      <3> QED BY <3>2, <3>3, <3>4
    <2>5. Part(h, n + 1)
      <3> DEFINE k == [s \in Small(n + 1) |-> IF s = {} THEN 0 ELSE g[Some(s)] + h[s \ {Some(s)}]]
      <3>1. DOMAIN h = Small(n + 1) /\ DOMAIN k = Small(n + 1) /\ h = [s \in DOMAIN h |-> h[s]]
        OBVIOUS
      <3>2. \A s \in Small(n + 1) : h[s] = k[s]
        BY <2>4
      <3> HIDE DEF h, Small
      <3> QED BY <2>4, <3>1
    <2> QED BY <2>5
  <1>4. bad = {}
    <2> SUFFICES ASSUME bad # {} PROVE FALSE
      OBVIOUS
    <2> HIDE DEF Part
    <2>1. PICK n \in bad : \A j \in bad : n <= j
      BY LeastIndex
    <2>2. n # 0
      BY <1>2
    <2>3. n - 1 \in Nat /\ n - 1 \notin bad
      BY <2>1, <2>2
    <2>4. \E f : Part(f, n - 1)
      BY <2>3
    <2>5. \E f : Part(f, (n - 1) + 1)
      BY <1>3, <2>3, <2>4
    <2>6. (n - 1) + 1 = n
      BY <2>1
    <2> QED BY <2>1, <2>5, <2>6
  <1>5. \E f : Part(f, Cardinality(S))
    BY <1>1, <1>4
  <1>6. Small(Cardinality(S)) = SUBSET S
    <2>1. \A s \in SUBSET S : Cardinality(s) <= Cardinality(S)
      BY FS_Subset
    <2> QED BY <2>1
  <1> HIDE DEF Small
  <1> QED BY <1>5, <1>6 DEF Sums

\* The sum over s by that over s without one element.
SumAt(f, g, s) == IF s = {} THEN 0 ELSE g[Some(s)] + f[s \ {Some(s)}]

\* What it gives a set, by what it gives a smaller one.
LEMMA SumsNext ==
  ASSUME NEW S, NEW g, NEW f, Sums(f, g, S)
  PROVE  \A s \in SUBSET S : f[s] = SumAt(f, g, s)
  <1>1. f = [s \in SUBSET S |-> SumAt(f, g, s)]
    BY DEF Sums, SumAt
  <1> QED BY <1>1

\* What holds of every set whose proper subsets it holds of, holds of every
\* finite set: here bad is the collection of those it does not hold of.
LEMMA SmallestSubset ==
  ASSUME NEW S, IsFiniteSet(S), NEW bad \in SUBSET SUBSET S, bad # {}
  PROVE  \E s \in bad : \A r \in SUBSET s : r # s => r \notin bad
  <1> DEFINE N == {Cardinality(s) : s \in bad}
  <1>1. \A s \in SUBSET S : IsFiniteSet(s) /\ Cardinality(s) \in Nat
    BY FS_Subset, FS_CardinalityType
  <1>2. N \in SUBSET Nat /\ N # {}
    BY <1>1
  <1>3. PICK n \in N : \A j \in N : n <= j
    BY <1>2, LeastIndex
  <1>4. PICK s \in bad : Cardinality(s) = n
    BY <1>3
  <1>5. ASSUME NEW r \in SUBSET s, r # s, r \in bad
        PROVE  FALSE
    <2>1. Cardinality(r) < Cardinality(s)
      BY <1>1, <1>5, FS_Subset
    <2>2. n <= Cardinality(r)
      BY <1>3, <1>5
    <2> QED BY <1>1, <1>4, <1>5, <2>1, <2>2
  <1> QED BY <1>4, <1>5

\* Sums of integers are integers.
LEMMA SumsType ==
  ASSUME NEW S, IsFiniteSet(S), NEW g \in [S -> Int], NEW f, Sums(f, g, S)
  PROVE  \A s \in SUBSET S : f[s] \in Int
  <1> DEFINE bad == {s \in SUBSET S : f[s] \notin Int}
  <1>1. SUFFICES ASSUME bad # {} PROVE FALSE
    OBVIOUS
  <1>0. \A r \in SUBSET S : f[r] = SumAt(f, g, r)
    BY SumsNext
  <1>2. PICK s \in bad : \A r \in SUBSET s : r # s => r \notin bad
    <2>1. bad \in SUBSET SUBSET S
      OBVIOUS
    <2> HIDE DEF bad
    <2> QED BY <1>1, <2>1, SmallestSubset
  <1>3. f[s] = IF s = {} THEN 0 ELSE g[Some(s)] + f[s \ {Some(s)}]
    BY <1>0, <1>2 DEF SumAt
  <1>4. s # {} => Some(s) \in s /\ s \ {Some(s)} # s
    BY DEF Some
  <1>5. s # {} => f[s \ {Some(s)}] \in Int
    BY <1>2, <1>4
  <1> QED BY <1>2, <1>3, <1>4, <1>5

\* The order of the elements does not matter.
Joins(f, g, s, y) == f[s \cup {y}] = g[y] + f[s]

LEMMA SumsInsert ==
  ASSUME NEW S, IsFiniteSet(S), NEW g \in [S -> Int], NEW f, Sums(f, g, S)
  PROVE  \A s \in SUBSET S : \A y \in S \ s : Joins(f, g, s, y)
  <1> USE DEF Joins
  <1> DEFINE bad == {s \in SUBSET S : \E y \in S \ s : f[s \cup {y}] # g[y] + f[s]}
  <1>1. SUFFICES ASSUME bad # {} PROVE FALSE
    OBVIOUS
  <1>0. \A r \in SUBSET S : f[r] = SumAt(f, g, r)
    BY SumsNext
  <1>2. PICK s \in bad : \A r \in SUBSET s : r # s => r \notin bad
    <2>1. bad \in SUBSET SUBSET S
      OBVIOUS
    <2> HIDE DEF bad
    <2> QED BY <1>1, <2>1, SmallestSubset
  <1>3. PICK y \in S \ s : f[s \cup {y}] # g[y] + f[s]
    BY <1>2
  <1> DEFINE x == Some(s \cup {y})
  <1>4. x \in s \cup {y} /\ s \cup {y} \in SUBSET S
    BY <1>2 DEF Some
  <1>5. f[s \cup {y}] = g[x] + f[(s \cup {y}) \ {x}]
    BY <1>0, <1>4 DEF SumAt
  <1> HIDE DEF x
  <1>6. x # y
    <2>1. x = y => (s \cup {y}) \ {x} = s
      BY <1>3
    <2> QED BY <1>3, <1>5, <2>1
  <1> DEFINE r == s \ {x}
  <1>7. /\ x \in s /\ r \in SUBSET s /\ r # s /\ r \in SUBSET S
        /\ (s \cup {y}) \ {x} = r \cup {y} /\ r \cup {x} = s /\ y \in S \ r /\ x \in S \ r
    BY <1>2, <1>3, <1>4, <1>6
  <1> HIDE DEF r
  <1>8. r \notin bad
    BY <1>2, <1>7
  <1>9. f[r \cup {y}] = g[y] + f[r] /\ f[r \cup {x}] = g[x] + f[r]
    BY <1>7, <1>8
  <1>10. g[x] \in Int /\ g[y] \in Int /\ f[r] \in Int
    BY <1>7, SumsType
  <1>11. f[s \cup {y}] = g[x] + (g[y] + f[r]) /\ f[s] = g[x] + f[r]
    BY <1>5, <1>7, <1>9
  <1> QED BY <1>3, <1>10, <1>11

\* The sum over a set is the same within a larger one.
LEMMA SumsAgree ==
  ASSUME NEW S, IsFiniteSet(S), NEW g, NEW f, Sums(f, g, S),
         NEW U, NEW k, NEW h, Sums(h, k, U),
         S \subseteq U, \A x \in S : g[x] = k[x]
  PROVE  f[S] = h[S]
  <1> DEFINE bad == {s \in SUBSET S : f[s] # h[s]}
  <1>1. SUFFICES ASSUME bad # {} PROVE FALSE
    OBVIOUS
  <1>0. \A r \in SUBSET S : f[r] = SumAt(f, g, r)
    BY SumsNext
  <1>9. \A r \in SUBSET U : h[r] = SumAt(h, k, r)
    BY SumsNext
  <1>2. PICK s \in bad : \A r \in SUBSET s : r # s => r \notin bad
    <2>1. bad \in SUBSET SUBSET S
      OBVIOUS
    <2> HIDE DEF bad
    <2> QED BY <1>1, <2>1, SmallestSubset
  <1>3. /\ f[s] = IF s = {} THEN 0 ELSE g[Some(s)] + f[s \ {Some(s)}]
        /\ h[s] = IF s = {} THEN 0 ELSE k[Some(s)] + h[s \ {Some(s)}]
    BY <1>0, <1>2, <1>9 DEF SumAt
  <1>4. s # {} => Some(s) \in s /\ s \ {Some(s)} # s
    BY DEF Some
  <1>5. s # {} => f[s \ {Some(s)}] = h[s \ {Some(s)}]
    BY <1>2, <1>4
  <1> QED BY <1>2, <1>3, <1>4, <1>5

\* The sum of the values of g over s, a part of its domain.
Part(g, s) == SumFunction([x \in s |-> g[x]])

LEMMA PartIs ==
  ASSUME NEW S, IsFiniteSet(S), NEW g \in [S -> Int], NEW f, Sums(f, g, S)
  PROVE  \A s \in SUBSET S : Part(g, s) = f[s]
  <1> TAKE s \in SUBSET S
  <1> DEFINE h == [x \in s |-> g[x]]
             it == CHOOSE k : k = [t \in SUBSET s |-> IF t = {} THEN 0
                                        ELSE h[Some(t)] + k[t \ {Some(t)}]]
  <1>1. IsFiniteSet(s) /\ h \in [s -> Int] /\ DOMAIN h = s
    BY FS_Subset
  <1>2. SumFunction(h) = it[s]
    <2>1. DOMAIN h = s
      OBVIOUS
    <2> HIDE DEF h
    <2> QED BY <2>1 DEF SumFunction, SumFunctionOnSet, FoldFunctionOnSet, MapThenFoldSet, Some
  <1> HIDE DEF h
  <1>3. \E k : Sums(k, h, s)
    BY <1>1, SumsExist
  <1>4. Sums(it, h, s)
    BY <1>3 DEF Sums
  <1>5. \A x \in s : h[x] = g[x]
    BY DEF h
  <1> HIDE DEF it
  <1>6. it[s] = f[s]
    BY <1>1, <1>4, <1>5, SumsAgree
  <1> QED BY <1>2, <1>6 DEF Part, h

\* What Part gives the empty set and a set with one element more.
LEMMA PartEmpty ==
  \A g : Part(g, {}) = 0
  <1> TAKE g
  <1> DEFINE k == [x \in {1} |-> 0]
  <1>1. IsFiniteSet({1}) /\ k \in [{1} -> Int] /\ {} \in SUBSET {1}
    BY FS_Singleton
  <1>2. [x \in {} |-> g[x]] = [x \in {} |-> k[x]]
    OBVIOUS
  <1> HIDE DEF k
  <1>3. PICK f : Sums(f, k, {1})
    BY <1>1, SumsExist
  <1>4. Part(k, {}) = f[{}]
    BY <1>1, <1>3, PartIs
  <1>5. f[{}] = SumAt(f, k, {})
    BY <1>1, <1>3, SumsNext
  <1>6. Part(k, {}) = 0
    BY <1>4, <1>5 DEF SumAt
  <1> QED BY <1>2, <1>6 DEF Part

IntOn(g, s) == \A x \in s : g[x] \in Int
More(g, s, y) == Part(g, s \cup {y}) = Part(g, s) + g[y]

LEMMA PartInsert ==
  \A g, s, y : IsFiniteSet(s) /\ y \notin s /\ IntOn(g, s \cup {y}) =>
                  More(g, s, y) /\ Part(g, s) \in Int
  <1> SUFFICES ASSUME NEW g, NEW s, NEW y, IsFiniteSet(s), y \notin s, IntOn(g, s \cup {y})
               PROVE  More(g, s, y) /\ Part(g, s) \in Int
    OBVIOUS
  <1> DEFINE S == s \cup {y}
             h == [x \in S |-> g[x]]
  <1>1. IsFiniteSet(S) /\ h \in [S -> Int]
    BY FS_AddElement DEF IntOn
  <1>2. \A r \in SUBSET S : Part(h, r) = Part(g, r)
    <2> TAKE r \in SUBSET S
    <2>1. [x \in r |-> h[x]] = [x \in r |-> g[x]]
      OBVIOUS
    <2> QED BY <2>1 DEF Part
  <1>3. h[y] = g[y]
    OBVIOUS
  <1>7. s \in SUBSET S /\ S \in SUBSET S /\ y \in S \ s
    OBVIOUS
  <1> HIDE DEF h
  <1>4. PICK f : Sums(f, h, S)
    BY <1>1, SumsExist
  <1>5. \A r \in SUBSET S : Part(h, r) = f[r] /\ f[r] \in Int
    BY <1>1, <1>4, PartIs, SumsType
  <1>6. Joins(f, h, s, y)
    BY <1>1, <1>4, <1>7, SumsInsert
  <1>8. f[s \cup {y}] = h[y] + f[s]
    BY <1>6 DEF Joins
  <1>9. h[y] \in Int
    BY <1>1, <1>7
  <1>10. Part(g, s \cup {y}) = h[y] + f[s] /\ Part(g, s) = f[s] /\ f[s] \in Int
    BY <1>2, <1>5, <1>7, <1>8
  <1> HIDE DEF S
  <1>11. h[y] + f[s] = f[s] + h[y]
    BY <1>9, <1>10
  <1> QED BY <1>3, <1>10, <1>11 DEF More

LEMMA PartInt ==
  \A g, s : IsFiniteSet(s) /\ IntOn(g, s) => Part(g, s) \in Int
  <1> SUFFICES ASSUME NEW g, NEW s, IsFiniteSet(s), IntOn(g, s)
               PROVE  Part(g, s) \in Int
    OBVIOUS
  <1>1. CASE s = {}
    BY <1>1, PartEmpty
  <1>2. CASE s # {}
    <2>1. PICK y : y \in s
      BY <1>2
    <2>2. IsFiniteSet(s \ {y}) /\ y \notin s \ {y} /\ (s \ {y}) \cup {y} = s
      BY <2>1, FS_RemoveElement
    <2>3. IntOn(g, (s \ {y}) \cup {y})
      BY <2>2
    <2>4. More(g, s \ {y}, y) /\ Part(g, s \ {y}) \in Int
      BY <2>2, <2>3, PartInsert
    <2>5. Part(g, s) = Part(g, s \ {y}) + g[y]
      BY <2>2, <2>4 DEF More
    <2>6. g[y] \in Int
      BY <2>1 DEF IntOn
    <2> QED BY <2>4, <2>5, <2>6
  <1> QED BY <1>1, <1>2

\* Part looks at the values on the set only.
LEMMA PartSame ==
  \A g, h, s : (\A x \in s : g[x] = h[x]) => Part(g, s) = Part(h, s)
  <1> SUFFICES ASSUME NEW g, NEW h, NEW s, \A x \in s : g[x] = h[x]
               PROVE  Part(g, s) = Part(h, s)
    OBVIOUS
  <1>1. [x \in s |-> g[x]] = [x \in s |-> h[x]]
    OBVIOUS
  <1> QED BY <1>1 DEF Part

\* A collection of subsets that grows by every element has the whole set.
LEMMA Grown ==
  ASSUME NEW S, IsFiniteSet(S), NEW good \in SUBSET SUBSET S, {} \in good,
         \A s \in good : \A y \in S \ s : s \cup {y} \in good
  PROVE  S \in good
  <1> DEFINE bad == (SUBSET S) \ good
  <1>1. SUFFICES ASSUME S \notin good PROVE FALSE
    OBVIOUS
  <1>2. bad \in SUBSET SUBSET S /\ bad # {}
    BY <1>1
  <1> HIDE DEF bad
  <1>3. PICK s \in bad : \A r \in SUBSET s : r # s => r \notin bad
    BY <1>2, SmallestSubset
  <1>4. s \in SUBSET S /\ s # {}
    BY <1>3 DEF bad
  <1>5. PICK y \in s : TRUE
    BY <1>4
  <1>6. s \ {y} \in SUBSET s /\ s \ {y} # s /\ (s \ {y}) \cup {y} = s /\ y \in S \ (s \ {y})
    BY <1>4, <1>5
  <1>7. s \ {y} \notin bad
    BY <1>3, <1>6
  <1>8. s \ {y} \in good
    BY <1>4, <1>7 DEF bad
  <1>9. s \in good
    BY <1>6, <1>8
  <1> QED BY <1>3, <1>9 DEF bad

\* The sum over two sets that have no element in common.
Adds(g, a, b) == Part(g, a \cup b) = Part(g, a) + Part(g, b)

LEMMA PartUnion ==
  ASSUME NEW g, NEW a, IsFiniteSet(a), NEW b, IsFiniteSet(b), a \cap b = {}, IntOn(g, a \cup b)
  PROVE  Adds(g, a, b)
  <1> DEFINE good == {s \in SUBSET b : Adds(g, a, s)}
  <1>0. \A s \in SUBSET b : /\ IsFiniteSet(s) /\ IsFiniteSet(a \cup s)
                            /\ Part(g, s) \in Int /\ Part(g, a) \in Int
    <2> TAKE s \in SUBSET b
    <2>1. IsFiniteSet(s) /\ IsFiniteSet(a \cup s)
      BY FS_Subset, FS_Union
    <2>2. IntOn(g, s) /\ IntOn(g, a)
      BY DEF IntOn
    <2> QED BY <2>1, <2>2, PartInt
  <1>1. {} \in good
    <2>1. a \cup {} = a /\ {} \in SUBSET b
      OBVIOUS
    <2> QED BY <1>0, <2>1, PartEmpty DEF Adds
  <1>2. ASSUME NEW s \in good, NEW y \in b \ s
        PROVE  s \cup {y} \in good
    <2>1. s \in SUBSET b /\ Adds(g, a, s)
      OBVIOUS
    <2>2. y \notin a \cup s /\ (a \cup s) \cup {y} = a \cup (s \cup {y})
      OBVIOUS
    <2>3. IntOn(g, (a \cup s) \cup {y}) /\ IntOn(g, s \cup {y}) /\ g[y] \in Int
      BY <2>1 DEF IntOn
    <2>4. More(g, a \cup s, y) /\ More(g, s, y)
      BY <1>0, <2>1, <2>2, <2>3, PartInsert
    <2>5. /\ Part(g, a \cup (s \cup {y})) = Part(g, a \cup s) + g[y]
          /\ Part(g, s \cup {y}) = Part(g, s) + g[y]
          /\ Part(g, a \cup s) = Part(g, a) + Part(g, s)
      BY <2>1, <2>2, <2>4 DEF More, Adds
    <2>6. Part(g, s) \in Int /\ Part(g, a) \in Int
      BY <1>0, <2>1
    <2>7. Part(g, a \cup (s \cup {y})) = Part(g, a) + Part(g, s \cup {y})
      BY <2>3, <2>5, <2>6
    <2> QED BY <2>1, <2>7 DEF Adds
  <1>3. good \in SUBSET SUBSET b
    OBVIOUS
  <1> HIDE DEF good
  <1>4. b \in good
    BY <1>1, <1>2, <1>3, Grown
  <1> QED BY <1>4 DEF good

\* Numbers that are zero add up to zero, and natural ones to a natural one.
LEMMA PartZero ==
  ASSUME NEW g, NEW S, IsFiniteSet(S), \A x \in S : g[x] = 0
  PROVE  Part(g, S) = 0
  <1> DEFINE good == {s \in SUBSET S : Part(g, s) = 0}
  <1>1. {} \in good
    BY PartEmpty
  <1>2. ASSUME NEW s \in good, NEW y \in S \ s
        PROVE  s \cup {y} \in good
    <2>1. IsFiniteSet(s) /\ IntOn(g, s \cup {y}) /\ g[y] = 0
      BY FS_Subset DEF IntOn
    <2>2. More(g, s, y)
      BY <2>1, PartInsert
    <2> QED BY <2>1, <2>2 DEF More
  <1>3. good \in SUBSET SUBSET S
    OBVIOUS
  <1> HIDE DEF good
  <1>4. S \in good
    BY <1>1, <1>2, <1>3, Grown
  <1> QED BY <1>4 DEF good

LEMMA PartNat ==
  ASSUME NEW g, NEW S, IsFiniteSet(S), \A x \in S : g[x] \in Nat
  PROVE  Part(g, S) \in Nat
  <1> DEFINE good == {s \in SUBSET S : Part(g, s) \in Nat}
  <1>1. {} \in good
    BY PartEmpty
  <1>2. ASSUME NEW s \in good, NEW y \in S \ s
        PROVE  s \cup {y} \in good
    <2>1. IsFiniteSet(s) /\ IntOn(g, s \cup {y}) /\ g[y] \in Nat /\ Part(g, s) \in Nat
      BY FS_Subset DEF IntOn
    <2>2. More(g, s, y)
      BY <2>1, PartInsert
    <2> QED BY <2>1, <2>2 DEF More
  <1>3. good \in SUBSET SUBSET S
    OBVIOUS
  <1> HIDE DEF good
  <1>4. S \in good
    BY <1>1, <1>2, <1>3, Grown
  <1> QED BY <1>4 DEF good

\* What is zero outside of a part counts in the part only.
LEMMA PartWithin ==
  ASSUME NEW g, NEW S, IsFiniteSet(S), NEW s \in SUBSET S, \A x \in S \ s : g[x] = 0,
         IntOn(g, s)
  PROVE  Part(g, S) = Part(g, s)
  <1>1. IsFiniteSet(s) /\ IsFiniteSet(S \ s) /\ s \cup (S \ s) = S /\ s \cap (S \ s) = {}
    BY FS_Subset
  <1>2. IntOn(g, s \cup (S \ s))
    BY DEF IntOn
  <1>3. Adds(g, s, S \ s)
    BY <1>1, <1>2, PartUnion
  <1>4. Part(g, S \ s) = 0
    BY <1>1, PartZero
  <1>5. Part(g, s) \in Int
    BY <1>1, PartInt
  <1> QED BY <1>1, <1>3, <1>4, <1>5 DEF Adds

\* Values that exceed others by at most c each add up to at most c for each more.
Within(g, h, s, c) == Part(g, s) - Part(h, s) \in 0 .. (c * Cardinality(s))

LEMMA PartBetween ==
  ASSUME NEW S, IsFiniteSet(S), NEW g, NEW h, NEW c \in Nat, IntOn(g, S), IntOn(h, S),
         \A x \in S : g[x] - h[x] \in 0 .. c
  PROVE  Within(g, h, S, c)
  <1> DEFINE good == {s \in SUBSET S : Within(g, h, s, c)}
  <1>1. {} \in good
    <2>1. Part(g, {}) = 0 /\ Part(h, {}) = 0 /\ Cardinality({}) = 0
      BY PartEmpty, FS_EmptySet
    <2>2. 0 - 0 \in 0 .. (c * 0)
      OBVIOUS
    <2> QED BY <2>1, <2>2 DEF Within
  <1>2. ASSUME NEW s \in good, NEW y \in S \ s
        PROVE  s \cup {y} \in good
    <2>1. /\ IsFiniteSet(s) /\ IntOn(g, s \cup {y}) /\ IntOn(h, s \cup {y})
          /\ IntOn(g, s) /\ IntOn(h, s) /\ g[y] \in Int /\ h[y] \in Int
      BY FS_Subset DEF IntOn
    <2>2. More(g, s, y) /\ More(h, s, y)
      BY <2>1, PartInsert
    <2>3. Part(g, s) \in Int /\ Part(h, s) \in Int
      BY <2>1, PartInt
    <2> DEFINE n == Cardinality(s)
    <2>4. Cardinality(s \cup {y}) = n + 1 /\ n \in Nat
      BY <2>1, FS_AddElement, FS_CardinalityType
    <2>5. Part(g, s) - Part(h, s) \in 0 .. (c * n) /\ g[y] - h[y] \in 0 .. c
      BY DEF Within
    <2> HIDE DEF n
    <2>6. c * (n + 1) = c * n + c /\ c * n \in Nat
      BY <2>4
    <2> DEFINE d == c * n
    <2>7. d \in Nat /\ c * (n + 1) = d + c /\ Part(g, s) - Part(h, s) \in 0 .. d
      BY <2>5, <2>6
    <2> HIDE DEF d
    <2>8. (Part(g, s) + g[y]) - (Part(h, s) + h[y]) \in 0 .. (d + c)
      BY <2>1, <2>3, <2>5, <2>7
    <2>9. Part(g, s \cup {y}) = Part(g, s) + g[y] /\ Part(h, s \cup {y}) = Part(h, s) + h[y]
      BY <2>2 DEF More
    <2>10. Part(g, s \cup {y}) - Part(h, s \cup {y}) \in 0 .. (c * Cardinality(s \cup {y}))
      BY <2>4, <2>7, <2>8, <2>9
    <2> QED BY <2>10 DEF Within
  <1>3. good \in SUBSET SUBSET S
    OBVIOUS
  <1> HIDE DEF good
  <1>4. S \in good
    BY <1>1, <1>2, <1>3, Grown
  <1> QED BY <1>4 DEF good

\* The same values under other names add up to the same.
LEMMA PartMoved ==
  ASSUME NEW S, IsFiniteSet(S), NEW f, NEW g, NEW h,
         \A x \in S : \A y \in S : f[x] = f[y] => x = y,
         \A x \in S : h[x] = g[f[x]] /\ h[x] \in Int
  PROVE  Part(h, S) = Part(g, {f[x] : x \in S})
  <1> DEFINE Im(s) == {f[x] : x \in s}
             good == {s \in SUBSET S : IsFiniteSet(Im(s)) /\ Part(h, s) = Part(g, Im(s))}
  <1>1. {} \in good
    <2>1. Im({}) = {}
      OBVIOUS
    <2> QED BY <2>1, PartEmpty, FS_EmptySet
  <1>2. ASSUME NEW s \in good, NEW y \in S \ s
        PROVE  s \cup {y} \in good
    <2>1. s \in SUBSET S /\ IsFiniteSet(Im(s)) /\ Part(h, s) = Part(g, Im(s))
      OBVIOUS
    <2>2. IsFiniteSet(s) /\ IntOn(h, s \cup {y})
      BY <2>1, FS_Subset DEF IntOn
    <2>3. Im(s \cup {y}) = Im(s) \cup {f[y]} /\ f[y] \notin Im(s)
      BY <2>1
    <2>4. IntOn(g, Im(s) \cup {f[y]})
      BY <2>1 DEF IntOn
    <2> HIDE DEF Im, good
    <2>5. More(h, s, y) /\ More(g, Im(s), f[y])
      BY <2>1, <2>2, <2>3, <2>4, PartInsert
    <2>8. h[y] = g[f[y]]
      OBVIOUS
    <2>9. /\ Part(h, s \cup {y}) = Part(h, s) + h[y]
          /\ Part(g, Im(s) \cup {f[y]}) = Part(g, Im(s)) + g[f[y]]
      BY <2>5 DEF More
    <2>6. Part(h, s \cup {y}) = Part(g, Im(s \cup {y}))
      BY <2>1, <2>3, <2>8, <2>9
    <2>10. IsFiniteSet(Im(s) \cup {f[y]})
      BY <2>1, FS_AddElement
    <2>7. IsFiniteSet(Im(s \cup {y}))
      BY <2>3, <2>10
    <2> QED BY <2>1, <2>6, <2>7 DEF good
  <1>3. good \in SUBSET SUBSET S
    OBVIOUS
  <1> HIDE DEF good
  <1>4. S \in good
    BY <1>1, <1>2, <1>3, Grown
  <1> QED BY <1>4 DEF good

-------------------------------------------------------------------------------
(* The first and the last of some positions.                               *)

LEMMA GreatestIndex ==
  ASSUME NEW n \in Nat, NEW S \in SUBSET (1 .. n), S # {}
  PROVE  \E k \in S : \A j \in S : j <= k
  <1> DEFINE R == {n - j : j \in S}
  <1>1. R \in SUBSET Nat /\ R # {}
    <2>1. \A j \in S : n - j \in Nat /\ n - j \in R
      OBVIOUS
    <2> QED BY <2>1
  <1> HIDE DEF R
  <1>2. PICK r \in R : \A q \in R : r <= q
    BY <1>1, LeastIndex
  <1>3. PICK k \in S : r = n - k
    BY DEF R
  <1>4. \A j \in S : n - j \in R
    BY DEF R
  <1>5. \A j \in S : n - k <= n - j
    BY <1>2, <1>3, <1>4
  <1> QED BY <1>5

LEMMA PositionsFinite ==
  \A n \in Nat : \A S \in SUBSET (1 .. n) : IsFiniteSet(S)
  <1> TAKE n \in Nat
  <1>1. IsFiniteSet(1 .. n)
    BY FS_Interval
  <1> QED BY <1>1, FS_Subset

\* Max and Min of the three modules.
IsLast(m, S) == m \in S /\ \A j \in S : j <= m
IsFirst(m, S) == m \in S /\ \A j \in S : m <= j

LEMMA LastOf ==
  ASSUME NEW n \in Nat
  PROVE  \A S \in SUBSET (1 .. n) : S # {} =>
            IsLast(Max(S), S) /\ IsLast(E!Max(S), S) /\ IsLast(T!Max(S), S) /\ IsLast(T!Last(S), S)
  <1> TAKE S \in SUBSET (1 .. n)
  <1> HAVE S # {}
  <1>1. \E k \in S : \A j \in S : j <= k
    BY GreatestIndex
  <1>2. \E k \in S : \A j \in S : k >= j
    BY <1>1
  <1>3. /\ Max(S) \in S /\ \A j \in S : Max(S) >= j
        /\ E!Max(S) \in S /\ \A j \in S : E!Max(S) >= j
        /\ T!Max(S) \in S /\ \A j \in S : T!Max(S) >= j
    BY <1>2, Zenon DEF Max, E!Max, T!Max
  <1> QED BY <1>3 DEF IsLast, T!Last

LEMMA FirstOf ==
  ASSUME NEW n \in Nat
  PROVE  \A S \in SUBSET (1 .. n) : S # {} =>
            IsFirst(Min(S), S) /\ IsFirst(E!Min(S), S) /\ IsFirst(T!Min(S), S) /\ IsFirst(T!First(S), S)
  <1> TAKE S \in SUBSET (1 .. n)
  <1> HAVE S # {}
  <1>1. \E k \in S : \A j \in S : k <= j
    BY LeastIndex
  <1>3. /\ Min(S) \in S /\ \A j \in S : Min(S) =< j
        /\ E!Min(S) \in S /\ \A j \in S : E!Min(S) =< j
        /\ T!Min(S) \in S /\ \A j \in S : T!Min(S) =< j
    BY <1>1, Zenon DEF Min, E!Min, T!Min
  <1> QED BY <1>3 DEF IsFirst, T!First

\* The larger of a number and zero, and the smaller of two.
LEMMA MaxMinOfTwo ==
  \A a \in Int, b \in Int :
      /\ E!Max({a, b}) = IF a >= b THEN a ELSE b
      /\ E!Min({a, b}) = IF a <= b THEN a ELSE b
  <1> TAKE a \in Int, b \in Int
  <1>1. \E x \in {a, b} : \A y \in {a, b} : x >= y
    OBVIOUS
  <1>2. \E x \in {a, b} : \A y \in {a, b} : x =< y
    OBVIOUS
  <1>3. E!Max({a, b}) \in {a, b} /\ \A y \in {a, b} : E!Max({a, b}) >= y
    BY <1>1, Zenon DEF E!Max
  <1>4. E!Min({a, b}) \in {a, b} /\ \A y \in {a, b} : E!Min({a, b}) =< y
    BY <1>2, Zenon DEF E!Min
  <1> QED BY <1>3, <1>4

LEMMA Clipped ==
  \A a \in Int : E!NotNegative(a) = T!AtLeastZero(a) /\ T!AtLeastZero(a) \in Nat
  BY MaxMinOfTwo DEF E!NotNegative, T!AtLeastZero

-------------------------------------------------------------------------------
(* The events of a trace.                                                  *)

Resource == {"model_cache", "vllm_model", "mace_model"}
Gate == {"worker", "aggregator"}
Node == {"PlannerAgent", "WorkerAgent", "AggregatorAgent"}

TaskEvent ==
    [type : {"prefetch_started"}, at : Nat, task : Nat, rid : Resource]
    \cup [type : {"prefetch_completed"}, at : Nat, task : Nat, elapsed : Int]
    \cup [type : {"resource_consumed"}, at : Nat, rid : Resource, task : Nat,
          status : {"used", "no_prefetch"}]
    \cup [type : {"prefetch_cancelled"}, at : Nat, task : Nat, wasted : BOOLEAN]

GuardEvent ==
    [type : {"prediction_result"}, at : Nat, step : Nat, rid : Resource, est : Nat]
    \cup [type : {"checkpoint_created"}, at : Nat, step : Nat, ckpt : Nat]
    \cup [type : {"prefetch_decision"}, at : Nat, rid : Resource, action : {"skip", "start"},
          est : Nat \cup {None}]
    \cup [type : {"prediction_validated"}, at : Nat, hit : {TRUE}, ckpt : Nat]
    \cup [type : {"divergence_detected"}, at : Nat, ckpt : Nat]
    \cup [type : {"conservative_mode"}, at : Nat, steps : {Conservative}]

WaitEvent ==
    [type : {"worker_swap_wait", "aggregator_swap_wait"}, at : Nat, model : Gate, wait : Int,
     demand : BOOLEAN, prefetched : BOOLEAN]

TrackedEvent ==
    [type : {"chain_start", "chain_end", "tool_call", "plan_extracted",
             "aggregator_prefetch_start"}, at : Nat, what : Node \cup Tool \cup {None}]
    \cup [type : {"mace_load", "tool_end"}, at : Nat, what : {"prefetch_cache", "disk", None},
          took : Int]

Event == TaskEvent \cup GuardEvent \cup WaitEvent \cup TrackedEvent

\* What the handlers write are events.
LEMMA TaskEventsWritten ==
  ASSUME clock \in Nat
  PROVE  /\ \A k \in Nat, rid \in Resource : PrefetchStarted(k, rid) \in Event
         /\ \A k \in Nat, e \in Int : PrefetchCompleted(k, e) \in Event
         /\ \A k \in Nat, rid \in Resource, status \in {"used", "no_prefetch"} :
               ResourceConsumed(rid, k, status) \in Event
         /\ \A k \in Nat, wasted \in BOOLEAN : PrefetchCancelled(k, wasted) \in Event
  <1>1. \A k \in Nat, rid \in Resource : PrefetchStarted(k, rid) \in TaskEvent
    BY DEF PrefetchStarted, TaskEvent
  <1>2. \A k \in Nat, e \in Int : PrefetchCompleted(k, e) \in TaskEvent
    BY DEF PrefetchCompleted, TaskEvent
  <1>3. \A k \in Nat, rid \in Resource, status \in {"used", "no_prefetch"} :
           ResourceConsumed(rid, k, status) \in TaskEvent
    BY DEF ResourceConsumed, TaskEvent
  <1>4. \A k \in Nat, wasted \in BOOLEAN : PrefetchCancelled(k, wasted) \in TaskEvent
    BY DEF PrefetchCancelled, TaskEvent
  <1> QED BY <1>1, <1>2, <1>3, <1>4 DEF Event

LEMMA GuardEventsWritten ==
  ASSUME clock \in Nat
  PROVE  /\ \A s \in Nat, rid \in Resource : PredictionResult(s, rid) \in Event
         /\ \A s \in Nat : CheckpointCreated(s) \in Event
         /\ \A rid \in Resource, action \in {"skip", "start"} :
               /\ PrefetchDecision(rid, action, Estimate[rid]) \in Event
               /\ PrefetchDecision(rid, action, None) \in Event
         /\ \A c \in Nat : PredictionValidated(c) \in Event /\ DivergenceDetected(c) \in Event
         /\ ConservativeMode \in Event
  <1>0. \A rid \in Resource : Estimate[rid] \in Nat
    BY TraceConstants DEF Resource
  <1>1. \A s \in Nat, rid \in Resource : PredictionResult(s, rid) \in GuardEvent
    BY <1>0 DEF PredictionResult, GuardEvent
  <1>2. \A s \in Nat : CheckpointCreated(s) \in GuardEvent
    BY DEF CheckpointCreated, GuardEvent
  <1>3. \A rid \in Resource, action \in {"skip", "start"} :
               /\ PrefetchDecision(rid, action, Estimate[rid]) \in GuardEvent
               /\ PrefetchDecision(rid, action, None) \in GuardEvent
    BY <1>0 DEF PrefetchDecision, GuardEvent
  <1>4. \A c \in Nat : PredictionValidated(c) \in GuardEvent /\ DivergenceDetected(c) \in GuardEvent
    BY DEF PredictionValidated, DivergenceDetected, GuardEvent
  <1>5. ConservativeMode \in GuardEvent
    BY DEF ConservativeMode, GuardEvent
  <1> QED BY <1>1, <1>2, <1>3, <1>4, <1>5 DEF Event

LEMMA WaitsWritten ==
  ASSUME clock \in Nat, since \in Nat, onDemand \in BOOLEAN
  PROVE  \A gate \in Gate : SwapWait(gate) \in Event
  <1>1. ASSUME NEW gate \in Gate
        PROVE  SwapWait(gate) \in WaitEvent
    <2> DEFINE type == IF gate = "worker" THEN "worker_swap_wait" ELSE "aggregator_swap_wait"
               ready == IF gate = "worker" THEN mode = "real" ELSE ~onDemand
    <2>1. ready \in BOOLEAN /\ type \in {"worker_swap_wait", "aggregator_swap_wait"}
      OBVIOUS
    <2>2. SwapWait(gate) = [type |-> type, at |-> clock, model |-> gate, wait |-> clock - since,
                            demand |-> onDemand, prefetched |-> ready]
      BY DEF SwapWait
    <2> HIDE DEF type, ready
    <2> QED BY <2>1, <2>2 DEF WaitEvent
  <1> QED BY <1>1 DEF Event

LEMMA TrackedWritten ==
  ASSUME clock \in Nat
  PROVE  /\ \A type \in {"chain_start", "chain_end", "tool_call", "plan_extracted",
                         "aggregator_prefetch_start"}, what \in Node \cup Tool \cup {None} :
               Tracked(type, what) \in Event
         /\ \A type \in {"mace_load", "tool_end"}, what \in {"prefetch_cache", "disk", None},
               took \in Int : Timed(type, what, took) \in Event
  <1>1. \A type \in {"chain_start", "chain_end", "tool_call", "plan_extracted",
                     "aggregator_prefetch_start"}, what \in Node \cup Tool \cup {None} :
           Tracked(type, what) \in TrackedEvent
    BY DEF Tracked, TrackedEvent
  <1>2. \A type \in {"mace_load", "tool_end"}, what \in {"prefetch_cache", "disk", None},
           took \in Int : Timed(type, what, took) \in TrackedEvent
    BY DEF Timed, TrackedEvent
  <1> QED BY <1>1, <1>2 DEF Event

\* What an event is tells its fields.
LEMMA EventFields ==
  \A e \in Event :
      /\ e.at \in Nat
      /\ e.type \in {"worker_swap_wait", "aggregator_swap_wait"} =>
            e.wait \in Int /\ e.model \in Gate
      /\ e.type = "mace_load" => e.took \in Int
      /\ e.type = "prediction_result" => e.rid \in Resource /\ e.step \in Nat /\ e.est \in Nat
      /\ e.type = "resource_consumed" => e.rid \in Resource
  <1> TAKE e \in Event
  <1>1. CASE e \in TaskEvent
    BY <1>1 DEF TaskEvent
  <1>2. CASE e \in GuardEvent
    BY <1>2 DEF GuardEvent
  <1>3. CASE e \in WaitEvent
    BY <1>3 DEF WaitEvent
  <1>4. CASE e \in TrackedEvent
    BY <1>4 DEF TrackedEvent
  <1> QED BY <1>1, <1>2, <1>3, <1>4 DEF Event

-------------------------------------------------------------------------------
(* A trace grows at its end.                                               *)

EventType ==
    {"prefetch_started", "prefetch_completed", "resource_consumed", "prefetch_cancelled",
     "prediction_result", "checkpoint_created", "prefetch_decision", "prediction_validated",
     "divergence_detected", "conservative_mode", "worker_swap_wait", "aggregator_swap_wait",
     "chain_start", "chain_end", "tool_call", "plan_extracted", "aggregator_prefetch_start",
     "mace_load", "tool_end"}

\* ev2 tells of these types what ev tells.
Same(ev, ev2, types) ==
    \A type \in types : /\ E!Where(ev2, type) = E!Where(ev, type)
                        /\ \A i \in E!Where(ev, type) : ev2[i] = ev[i]

\* ev2 is ev and then e.
Added(ev, ev2, e) ==
    /\ ev2 \in Seq(Event) /\ Len(ev2) = Len(ev) + 1 /\ ev2[Len(ev) + 1] = e
    /\ \A type \in EventType :
          /\ E!Where(ev2, type) = IF type = e.type THEN E!Where(ev, type) \cup {Len(ev) + 1}
                                  ELSE E!Where(ev, type)
          /\ \A i \in E!Where(ev, type) : i <= Len(ev) /\ ev2[i] = ev[i]

LEMMA Longer ==
  ASSUME NEW ev \in Seq(Event), NEW new \in Seq(Event)
  PROVE  /\ ev \o new \in Seq(Event) /\ Len(ev \o new) = Len(ev) + Len(new)
         /\ \A i \in DOMAIN ev : i \in DOMAIN (ev \o new) /\ i <= Len(ev) /\ (ev \o new)[i] = ev[i]
         /\ \A i \in DOMAIN (ev \o new) :
               \/ i \in DOMAIN ev
               \/ i - Len(ev) \in DOMAIN new /\ (ev \o new)[i] = new[i - Len(ev)]
         /\ \A j \in DOMAIN new : /\ Len(ev) + j \in DOMAIN (ev \o new)
                                  /\ (ev \o new)[Len(ev) + j] = new[j]
  <1>1. /\ ev \o new \in Seq(Event) /\ Len(ev \o new) = Len(ev) + Len(new)
        /\ \A i \in 1 .. (Len(ev) + Len(new)) :
              (ev \o new)[i] = IF i <= Len(ev) THEN ev[i] ELSE new[i - Len(ev)]
    BY ConcatProperties
  <1>2. /\ DOMAIN ev = 1 .. Len(ev) /\ DOMAIN new = 1 .. Len(new)
        /\ DOMAIN (ev \o new) = 1 .. (Len(ev) + Len(new))
        /\ Len(ev) \in Nat /\ Len(new) \in Nat
    BY <1>1
  <1>3. \A i \in DOMAIN ev : i \in DOMAIN (ev \o new) /\ i <= Len(ev) /\ (ev \o new)[i] = ev[i]
    BY <1>1, <1>2
  <1>4. \A i \in DOMAIN (ev \o new) :
               \/ i \in DOMAIN ev
               \/ i - Len(ev) \in DOMAIN new /\ (ev \o new)[i] = new[i - Len(ev)]
    BY <1>1, <1>2
  <1>5. \A j \in DOMAIN new : /\ Len(ev) + j \in DOMAIN (ev \o new)
                              /\ (ev \o new)[Len(ev) + j] = new[j]
    <2> TAKE j \in DOMAIN new
    <2>1. Len(ev) + j \in 1 .. (Len(ev) + Len(new)) /\ ~(Len(ev) + j <= Len(ev))
          /\ (Len(ev) + j) - Len(ev) = j
      BY <1>2
    <2> QED BY <1>1, <1>2, <2>1
  <1> QED BY <1>1, <1>3, <1>4, <1>5

Quiet(new, types) == \A j \in DOMAIN new : new[j].type \notin types

LEMMA QuietSame ==
  ASSUME NEW ev \in Seq(Event), NEW new \in Seq(Event), NEW types, Quiet(new, types)
  PROVE  Same(ev, ev \o new, types)
  <1> DEFINE ev2 == ev \o new
  <1>1. /\ \A i \in DOMAIN ev : i \in DOMAIN ev2 /\ ev2[i] = ev[i]
        /\ \A i \in DOMAIN ev2 : \/ i \in DOMAIN ev
                                 \/ i - Len(ev) \in DOMAIN new /\ ev2[i] = new[i - Len(ev)]
    BY Longer
  <1> HIDE DEF ev2
  <1>2. Same(ev, ev2, types)
    BY <1>1 DEF Same, Quiet, E!Where
  <1> QED BY <1>2 DEF ev2

LEMMA OneAdded ==
  ASSUME NEW ev \in Seq(Event), NEW e \in Event
  PROVE  Added(ev, ev \o <<e>>, e)
  <1> DEFINE ev2 == ev \o <<e>>
             new == <<e>>
  <1>0. new \in Seq(Event) /\ Len(new) = 1 /\ DOMAIN new = {1} /\ new[1] = e
    OBVIOUS
  <1>1. /\ ev2 \in Seq(Event) /\ Len(ev2) = Len(ev) + Len(new)
        /\ \A i \in DOMAIN ev : i \in DOMAIN ev2 /\ i <= Len(ev) /\ ev2[i] = ev[i]
        /\ \A i \in DOMAIN ev2 : \/ i \in DOMAIN ev
                                 \/ i - Len(ev) \in DOMAIN new /\ ev2[i] = new[i - Len(ev)]
        /\ \A j \in DOMAIN new : Len(ev) + j \in DOMAIN ev2 /\ ev2[Len(ev) + j] = new[j]
    BY <1>0, Longer
  <1>2. /\ DOMAIN ev = 1 .. Len(ev) /\ DOMAIN ev2 = 1 .. Len(ev2)
        /\ Len(ev) \in Nat
    BY <1>1
  <1> HIDE DEF ev2, new
  <1>3. /\ Len(ev2) = Len(ev) + 1 /\ Len(ev) + 1 \in DOMAIN ev2 /\ ev2[Len(ev) + 1] = e
        /\ \A i \in DOMAIN ev2 : i \in DOMAIN ev \/ i = Len(ev) + 1
    BY <1>0, <1>1, <1>2
  <1>4. ASSUME NEW type \in EventType
        PROVE  /\ E!Where(ev2, type) = IF type = e.type THEN E!Where(ev, type) \cup {Len(ev) + 1}
                                       ELSE E!Where(ev, type)
               /\ \A i \in E!Where(ev, type) : i <= Len(ev) /\ ev2[i] = ev[i]
    BY <1>1, <1>2, <1>3 DEF E!Where
  <1>5. Added(ev, ev2, e)
    BY <1>1, <1>3, <1>4 DEF Added
  <1> QED BY <1>5 DEF ev2

LEMMA Regrouped ==
  \A a \in Seq(Event), b \in Seq(Event), c \in Seq(Event) : (a \o b) \o c = a \o (b \o c)
  BY ConcatAssociative

LEMMA PairAdded ==
  ASSUME NEW ev \in Seq(Event), NEW d \in Event, NEW e \in Event
  PROVE  ev \o <<d, e>> = (ev \o <<d>>) \o <<e>>
  <1> DEFINE one == <<d>>
             two == <<e>>
             both == <<d, e>>
  <1>1. /\ one \in Seq(Event) /\ two \in Seq(Event) /\ both \in Seq(Event)
        /\ Len(one) = 1 /\ Len(two) = 1 /\ Len(both) = 2
        /\ one[1] = d /\ two[1] = e /\ both[1] = d /\ both[2] = e
    OBVIOUS
  <1> HIDE DEF one, two, both
  <1>2. /\ one \o two \in Seq(Event) /\ Len(one \o two) = 2
        /\ \A i \in 1 .. 2 : (one \o two)[i] = IF i <= 1 THEN one[i] ELSE two[i - 1]
    <2>1. /\ one \o two \in Seq(Event) /\ Len(one \o two) = Len(one) + Len(two)
          /\ \A i \in 1 .. (Len(one) + Len(two)) :
                (one \o two)[i] = IF i <= Len(one) THEN one[i] ELSE two[i - Len(one)]
      BY <1>1, ConcatProperties
    <2> QED BY <1>1, <2>1
  <1>3. one \o two = both
    <2>1. \A i \in 1 .. 2 : (one \o two)[i] = both[i]
      <3>1. (one \o two)[1] = one[1] /\ (one \o two)[2] = two[1]
        BY <1>2
      <3>2. \A i \in 1 .. 2 : i = 1 \/ i = 2
        OBVIOUS
      <3> QED BY <1>1, <3>1, <3>2
    <2>2. \A i \in 1 .. Len(one \o two) : (one \o two)[i] = both[i]
      BY <1>2, <2>1
    <2> QED BY <1>1, <1>2, <2>2, SeqEqual
  <1>4. ev \o both = (ev \o one) \o two
    <2>1. (ev \o one) \o two = ev \o (one \o two)
      BY <1>1, ConcatAssociative
    <2> QED BY <1>3, <2>1
  <1> QED BY <1>4 DEF one, two, both

-------------------------------------------------------------------------------
(* What the trace tells of the tasks.                                      *)

TaskStatus == {"in_progress", "used", "cancelled", "wasted"}

Task == [rid : Resource, ckpt : Nat, started : Nat, lands : Nat, status : TaskStatus,
         consumed : Nat \cup {None}, reported : BOOLEAN]

TasksTyped(ts, now) ==
    /\ ts \in Seq(Task)
    /\ \A k \in DOMAIN ts : /\ ts[k].started <= now /\ ts[k].started < ts[k].lands
                            /\ ts[k].consumed <= now
                            /\ ts[k].status = "used" <=> ts[k].consumed # None

Starts(ev) == E!Where(ev, "prefetch_started")
Ends(ev) == E!Where(ev, "prefetch_completed")
Uses(ev) == E!Where(ev, "resource_consumed")
Revokes(ev) == E!Where(ev, "prefetch_cancelled")
Calls(ev) == E!Where(ev, "tool_call")

TaskTypes == {"prefetch_started", "prefetch_completed", "resource_consumed", "prefetch_cancelled"}

\* Every task has one start event.
StartsTold(ev, ts) ==
    /\ \A i \in Starts(ev) : /\ ev[i].task \in DOMAIN ts
                             /\ ev[i].rid = ts[ev[i].task].rid
                             /\ ev[i].at = ts[ev[i].task].started
    /\ \A i \in Starts(ev), j \in Starts(ev) : ev[i].task = ev[j].task => i = j
    /\ \A k \in DOMAIN ts : \E i \in Starts(ev) : ev[i].task = k

\* An end is told of the tasks the poll thread reported, as late as it lags.
EndsTold(ev, ts, lag) ==
    /\ \A i \in Ends(ev) :
          LET k == ev[i].task
          IN  /\ k \in DOMAIN ts /\ ts[k].reported
              /\ ev[i].elapsed = ts[k].lands - ts[k].started /\ ev[i].at = ts[k].lands + lag
              /\ \E s \in Starts(ev) : s < i /\ ev[s].task = k
    /\ \A k \in DOMAIN ts : ts[k].reported => \E i \in Ends(ev) : ev[i].task = k

\* A resource is consumed from a task or from none; the last time a task is
\* consumed is in its record.
UsesTold(ev, ts) ==
    /\ \A i \in Uses(ev) :
          \/ ev[i].task = 0 /\ ev[i].status = "no_prefetch"
          \/ /\ ev[i].task \in DOMAIN ts /\ ev[i].status = "used"
             /\ ev[i].rid = ts[ev[i].task].rid /\ ts[ev[i].task].status = "used"
    /\ \A k \in DOMAIN ts : ts[k].status = "used" =>
          \E i \in Uses(ev) : /\ ev[i].task = k /\ ev[i].at = ts[k].consumed
                              /\ \A j \in Uses(ev) : ev[j].task = k => j <= i

\* Once a task is consumed, only another task of the resource is in its way.
UsesLast(ev, ts) ==
    \A i \in Uses(ev), j \in Uses(ev) :
        i < j /\ ev[i].task # 0 /\ ev[j].rid = ev[i].rid /\ ev[j].task # ev[i].task
        => \E x \in DOMAIN ts : x # ev[i].task /\ ts[x].rid = ev[i].rid

RevokesTold(ev, ts) ==
    /\ \A i \in Revokes(ev) :
          /\ ev[i].task \in DOMAIN ts
          /\ ts[ev[i].task].status = IF ev[i].wasted THEN "wasted" ELSE "cancelled"
    /\ \A k \in DOMAIN ts : ts[k].status \in {"wasted", "cancelled"} =>
          \E i \in Revokes(ev) : ev[i].task = k

TaskLog(ev, ts, lag) ==
    /\ StartsTold(ev, ts) /\ EndsTold(ev, ts, lag) /\ UsesTold(ev, ts) /\ UsesLast(ev, ts)
    /\ RevokesTold(ev, ts)

LEMMA TaskLogSame ==
  ASSUME NEW ev, NEW ev2, NEW ts, NEW lag, TaskLog(ev, ts, lag), Same(ev, ev2, TaskTypes)
  PROVE  TaskLog(ev2, ts, lag)
  <1>1. /\ Starts(ev2) = Starts(ev) /\ \A i \in Starts(ev) : ev2[i] = ev[i]
        /\ Ends(ev2) = Ends(ev) /\ \A i \in Ends(ev) : ev2[i] = ev[i]
        /\ Uses(ev2) = Uses(ev) /\ \A i \in Uses(ev) : ev2[i] = ev[i]
        /\ Revokes(ev2) = Revokes(ev) /\ \A i \in Revokes(ev) : ev2[i] = ev[i]
    BY DEF Same, TaskTypes, Starts, Ends, Uses, Revokes
  <1>2. StartsTold(ev2, ts)
    BY <1>1 DEF TaskLog, StartsTold
  <1>3. EndsTold(ev2, ts, lag)
    BY <1>1 DEF TaskLog, EndsTold
  <1>4. UsesTold(ev2, ts)
    BY <1>1 DEF TaskLog, UsesTold
  <1>5. UsesLast(ev2, ts)
    BY <1>1 DEF TaskLog, UsesLast
  <1>6. RevokesTold(ev2, ts)
    BY <1>1 DEF TaskLog, RevokesTold
  <1> QED BY <1>2, <1>3, <1>4, <1>5, <1>6 DEF TaskLog

\* What Added says of the events of tasks.
AddedAt(n, ev, ev2, e) ==
    /\ n \in Nat /\ ev2[n] = e
    /\ Starts(ev2) = IF e.type = "prefetch_started" THEN Starts(ev) \cup {n} ELSE Starts(ev)
    /\ Ends(ev2) = IF e.type = "prefetch_completed" THEN Ends(ev) \cup {n} ELSE Ends(ev)
    /\ Uses(ev2) = IF e.type = "resource_consumed" THEN Uses(ev) \cup {n} ELSE Uses(ev)
    /\ Revokes(ev2) = IF e.type = "prefetch_cancelled" THEN Revokes(ev) \cup {n} ELSE Revokes(ev)
    /\ Calls(ev2) = IF e.type = "tool_call" THEN Calls(ev) \cup {n} ELSE Calls(ev)
    /\ \A i \in Starts(ev) \cup Ends(ev) \cup Uses(ev) \cup Revokes(ev) \cup Calls(ev) :
          i \in Nat /\ i < n /\ ev2[i] = ev[i]

LEMMA AddedTasks ==
  ASSUME NEW ev \in Seq(Event), NEW ev2, NEW e, Added(ev, ev2, e)
  PROVE  AddedAt(Len(ev) + 1, ev, ev2, e)
  <1>1. Len(ev) \in Nat
    OBVIOUS
  <1>2. \A type \in EventType : \A i \in E!Where(ev, type) : i \in Nat /\ i <= Len(ev) /\ ev2[i] = ev[i]
    BY DEF Added, E!Where
  <1>3. ev2[Len(ev) + 1] = e
    BY DEF Added
  <1>4. \A type \in EventType : \A i \in E!Where(ev, type) : i < Len(ev) + 1
    BY <1>1, <1>2
  <1>5. {"prefetch_started", "prefetch_completed", "resource_consumed", "prefetch_cancelled",
         "tool_call"} \subseteq EventType
    BY DEF EventType
  <1>6. \A type \in EventType :
           E!Where(ev2, type) = IF type = e.type THEN E!Where(ev, type) \cup {Len(ev) + 1}
                                ELSE E!Where(ev, type)
    BY DEF Added
  <1> QED BY <1>1, <1>2, <1>3, <1>4, <1>5, <1>6 DEF AddedAt, Starts, Ends, Uses, Revokes, Calls

LEMMA StartLogged ==
  ASSUME NEW ev, NEW ev2, NEW n, NEW e, AddedAt(n, ev, ev2, e), e.type = "prefetch_started",
         NEW ts \in Seq(Task), NEW t \in Task, NEW lag, TaskLog(ev, ts, lag),
         e.task = Len(ts) + 1, e.rid = t.rid, e.at = t.started,
         t.status = "in_progress", ~t.reported
  PROVE  TaskLog(ev2, Append(ts, t), lag)
  <1> DEFINE ts2 == Append(ts, t)
             m == Len(ts) + 1
  <1>1. /\ Starts(ev2) = Starts(ev) \cup {n} /\ Ends(ev2) = Ends(ev) /\ Uses(ev2) = Uses(ev)
        /\ Revokes(ev2) = Revokes(ev) /\ ev2[n] = e /\ n \in Nat
        /\ \A i \in Starts(ev) \cup Ends(ev) \cup Uses(ev) \cup Revokes(ev) :
              i \in Nat /\ i < n /\ ev2[i] = ev[i]
    BY DEF AddedAt
  <1>2. /\ DOMAIN ts2 = DOMAIN ts \cup {m} /\ m \notin DOMAIN ts /\ ts2[m] = t /\ m # 0
        /\ \A k \in DOMAIN ts : ts2[k] = ts[k]
    BY AppendProperties
  <1> HIDE DEF ts2, m
  <1>3. e.task = m
    BY DEF m
  <1>4. StartsTold(ev2, ts2)
    <2>1. StartsTold(ev, ts)
      BY DEF TaskLog
    <2>2. \A i \in Starts(ev2) : /\ ev2[i].task \in DOMAIN ts2
                                 /\ ev2[i].rid = ts2[ev2[i].task].rid
                                 /\ ev2[i].at = ts2[ev2[i].task].started
      BY <1>1, <1>2, <1>3, <2>1 DEF StartsTold
    <2>3. \A i \in Starts(ev2), j \in Starts(ev2) : ev2[i].task = ev2[j].task => i = j
      <3>1. \A i \in Starts(ev) : ev2[i].task \in DOMAIN ts
        BY <1>1, <2>1 DEF StartsTold
      <3>2. \A i, j \in Starts(ev) : ev2[i].task = ev2[j].task => i = j
        BY <1>1, <2>1 DEF StartsTold
      <3> QED BY <1>1, <1>2, <1>3, <3>1, <3>2
    <2>4. \A k \in DOMAIN ts2 : \E i \in Starts(ev2) : ev2[i].task = k
      BY <1>1, <1>2, <1>3, <2>1 DEF StartsTold
    <2> QED BY <2>2, <2>3, <2>4 DEF StartsTold
  <1>5. EndsTold(ev2, ts2, lag)
    <2>1. EndsTold(ev, ts, lag)
      BY DEF TaskLog
    <2>2. \A k \in DOMAIN ts2 : ts2[k].reported => \E i \in Ends(ev2) : ev2[i].task = k
      BY <1>1, <1>2, <2>1 DEF EndsTold
    <2>3. ASSUME NEW i \in Ends(ev2)
          PROVE  /\ ev2[i].task \in DOMAIN ts2 /\ ts2[ev2[i].task].reported
                 /\ ev2[i].elapsed = ts2[ev2[i].task].lands - ts2[ev2[i].task].started
                 /\ ev2[i].at = ts2[ev2[i].task].lands + lag
                 /\ \E s \in Starts(ev2) : s < i /\ ev2[s].task = ev2[i].task
      BY <1>1, <1>2, <2>1, <2>3 DEF EndsTold
    <2> QED BY <2>2, <2>3 DEF EndsTold
  <1>6. UsesTold(ev2, ts2)
    BY <1>1, <1>2 DEF TaskLog, UsesTold
  <1>7. UsesLast(ev2, ts2)
    BY <1>1, <1>2 DEF TaskLog, UsesLast
  <1>8. RevokesTold(ev2, ts2)
    BY <1>1, <1>2 DEF TaskLog, RevokesTold
  <1> QED BY <1>4, <1>5, <1>6, <1>7, <1>8 DEF TaskLog, ts2

\* Only task k has another status, consumption or report.
Touched(ts, ts2, k) ==
    /\ k \in DOMAIN ts /\ DOMAIN ts2 = DOMAIN ts
    /\ \A x \in DOMAIN ts : x # k => ts2[x] = ts[x]
    /\ ts2[k].rid = ts[k].rid /\ ts2[k].started = ts[k].started /\ ts2[k].lands = ts[k].lands

LEMMA EndLogged ==
  ASSUME NEW ev, NEW ev2, NEW n, NEW e, AddedAt(n, ev, ev2, e), e.type = "prefetch_completed",
         NEW ts, NEW ts2, NEW k, NEW lag, TaskLog(ev, ts, lag), Touched(ts, ts2, k),
         e.task = k, e.elapsed = ts[k].lands - ts[k].started, e.at = ts[k].lands + lag,
         ts2[k].reported, ts2[k].status = ts[k].status, ts2[k].consumed = ts[k].consumed
  PROVE  TaskLog(ev2, ts2, lag)
  <1>1. /\ Starts(ev2) = Starts(ev) /\ Ends(ev2) = Ends(ev) \cup {n} /\ Uses(ev2) = Uses(ev)
        /\ Revokes(ev2) = Revokes(ev) /\ ev2[n] = e /\ n \in Nat
        /\ \A i \in Starts(ev) \cup Ends(ev) \cup Uses(ev) \cup Revokes(ev) :
              i \in Nat /\ i < n /\ ev2[i] = ev[i]
    BY DEF AddedAt
  <1>2. /\ k \in DOMAIN ts /\ DOMAIN ts2 = DOMAIN ts
        /\ \A x \in DOMAIN ts : /\ ts2[x].rid = ts[x].rid /\ ts2[x].started = ts[x].started
                                /\ ts2[x].lands = ts[x].lands /\ ts2[x].status = ts[x].status
                                /\ ts2[x].consumed = ts[x].consumed
                                /\ x # k => ts2[x] = ts[x]
    BY DEF Touched
  <1>3. StartsTold(ev2, ts2)
    BY <1>1, <1>2 DEF TaskLog, StartsTold
  <1>4. EndsTold(ev2, ts2, lag)
    <2>1. EndsTold(ev, ts, lag) /\ StartsTold(ev, ts)
      BY DEF TaskLog
    <2>2. ASSUME NEW i \in Ends(ev2)
          PROVE  LET x == ev2[i].task
                 IN  /\ x \in DOMAIN ts2 /\ ts2[x].reported
                     /\ ev2[i].elapsed = ts2[x].lands - ts2[x].started
                     /\ ev2[i].at = ts2[x].lands + lag
                     /\ \E s \in Starts(ev2) : s < i /\ ev2[s].task = x
      <3>1. CASE i = n
        <4>1. \E s \in Starts(ev) : ev[s].task = k
          BY <1>2, <2>1 DEF StartsTold
        <4> QED BY <1>1, <1>2, <3>1, <4>1
      <3>2. CASE i \in Ends(ev)
        BY <1>1, <1>2, <2>1, <3>2 DEF EndsTold
      <3> QED BY <1>1, <3>1, <3>2
    <2>3. \A x \in DOMAIN ts2 : ts2[x].reported => \E i \in Ends(ev2) : ev2[i].task = x
      BY <1>1, <1>2, <2>1 DEF EndsTold
    <2> QED BY <2>2, <2>3 DEF EndsTold
  <1>5. UsesTold(ev2, ts2)
    BY <1>1, <1>2 DEF TaskLog, UsesTold
  <1>6. UsesLast(ev2, ts2)
    BY <1>1, <1>2 DEF TaskLog, UsesLast
  <1>7. RevokesTold(ev2, ts2)
    BY <1>1, <1>2 DEF TaskLog, RevokesTold
  <1> QED BY <1>3, <1>4, <1>5, <1>6, <1>7 DEF TaskLog

LEMMA UseLogged ==
  ASSUME NEW ev, NEW ev2, NEW n, NEW e, AddedAt(n, ev, ev2, e), e.type = "resource_consumed",
         NEW ts, NEW ts2, NEW k, NEW lag, TaskLog(ev, ts, lag), Touched(ts, ts2, k), k # 0,
         e.task = k, e.status = "used", e.rid = ts[k].rid, e.at = ts2[k].consumed,
         ts[k].status \in {"in_progress", "used"},
         ts2[k].status = "used", ts2[k].reported = ts[k].reported
  PROVE  TaskLog(ev2, ts2, lag)
  <1>1. /\ Starts(ev2) = Starts(ev) /\ Ends(ev2) = Ends(ev) /\ Uses(ev2) = Uses(ev) \cup {n}
        /\ Revokes(ev2) = Revokes(ev) /\ ev2[n] = e /\ n \in Nat
        /\ \A i \in Starts(ev) \cup Ends(ev) \cup Uses(ev) \cup Revokes(ev) :
              i \in Nat /\ i < n /\ ev2[i] = ev[i]
    BY DEF AddedAt
  <1>2. /\ k \in DOMAIN ts /\ DOMAIN ts2 = DOMAIN ts
        /\ \A x \in DOMAIN ts : /\ ts2[x].rid = ts[x].rid /\ ts2[x].started = ts[x].started
                                /\ ts2[x].lands = ts[x].lands
                                /\ ts2[x].reported = ts[x].reported
                                /\ x # k => ts2[x] = ts[x]
    BY DEF Touched
  <1>3. StartsTold(ev2, ts2)
    BY <1>1, <1>2 DEF TaskLog, StartsTold
  <1>4. EndsTold(ev2, ts2, lag)
    BY <1>1, <1>2 DEF TaskLog, EndsTold
  <1>5. UsesTold(ev2, ts2)
    <2>1. UsesTold(ev, ts)
      BY DEF TaskLog
    <2>2. \A i \in Uses(ev2) :
              \/ ev2[i].task = 0 /\ ev2[i].status = "no_prefetch"
              \/ /\ ev2[i].task \in DOMAIN ts2 /\ ev2[i].status = "used"
                 /\ ev2[i].rid = ts2[ev2[i].task].rid /\ ts2[ev2[i].task].status = "used"
      BY <1>1, <1>2, <2>1 DEF UsesTold
    <2>3. ASSUME NEW x \in DOMAIN ts2, ts2[x].status = "used"
          PROVE  \E i \in Uses(ev2) : /\ ev2[i].task = x /\ ev2[i].at = ts2[x].consumed
                                      /\ \A j \in Uses(ev2) : ev2[j].task = x => j <= i
      <3>1. CASE x = k
        <4>1. \A j \in Uses(ev2) : j <= n
          BY <1>1
        <4> QED BY <1>1, <3>1, <4>1
      <3>2. CASE x # k
        <4>1. PICK i \in Uses(ev) : /\ ev[i].task = x /\ ev[i].at = ts[x].consumed
                                    /\ \A j \in Uses(ev) : ev[j].task = x => j <= i
          BY <1>2, <2>1, <2>3, <3>2 DEF UsesTold
        <4>2. \A j \in Uses(ev2) : ev2[j].task = x => j <= i
          BY <1>1, <3>2, <4>1
        <4> QED BY <1>1, <1>2, <3>2, <4>1, <4>2
      <3> QED BY <3>1, <3>2
    <2> QED BY <2>2, <2>3 DEF UsesTold
  <1>6. UsesLast(ev2, ts2)
    <2>1. UsesLast(ev, ts)
      BY DEF TaskLog
    <2>2. ASSUME NEW i \in Uses(ev2), NEW j \in Uses(ev2), i < j, ev2[i].task # 0,
                 ev2[j].rid = ev2[i].rid, ev2[j].task # ev2[i].task
          PROVE  \E x \in DOMAIN ts2 : x # ev2[i].task /\ ts2[x].rid = ev2[i].rid
      <3>1. i \in Uses(ev)
        BY <1>1, <2>2
      <3>2. CASE j = n
        BY <1>1, <1>2, <2>2, <3>2
      <3>3. CASE j \in Uses(ev)
        <4>1. \E x \in DOMAIN ts : x # ev[i].task /\ ts[x].rid = ev[i].rid
          BY <1>1, <2>1, <2>2, <3>1, <3>3 DEF UsesLast
        <4> QED BY <1>1, <1>2, <3>1, <4>1
      <3> QED BY <1>1, <3>2, <3>3
    <2> QED BY <2>2 DEF UsesLast
  <1>7. RevokesTold(ev2, ts2)
    <2>1. RevokesTold(ev, ts)
      BY DEF TaskLog
    <2>2. \A i \in Revokes(ev) : ev[i].task # k
      BY <2>1 DEF RevokesTold
    <2> QED BY <1>1, <1>2, <2>1, <2>2 DEF RevokesTold
  <1> QED BY <1>3, <1>4, <1>5, <1>6, <1>7 DEF TaskLog

LEMMA BareUseLogged ==
  ASSUME NEW ev, NEW ev2, NEW n, NEW e, AddedAt(n, ev, ev2, e), e.type = "resource_consumed",
         NEW ts, 0 \notin DOMAIN ts, NEW lag, TaskLog(ev, ts, lag),
         e.task = 0, e.status = "no_prefetch",
         \A a \in DOMAIN ts : ts[a].rid = e.rid /\ ts[a].status = "used" =>
            \E x \in DOMAIN ts : x # a /\ ts[x].rid = e.rid
  PROVE  TaskLog(ev2, ts, lag)
  <1>1. /\ Starts(ev2) = Starts(ev) /\ Ends(ev2) = Ends(ev) /\ Uses(ev2) = Uses(ev) \cup {n}
        /\ Revokes(ev2) = Revokes(ev) /\ ev2[n] = e /\ n \in Nat
        /\ \A i \in Starts(ev) \cup Ends(ev) \cup Uses(ev) \cup Revokes(ev) :
              i \in Nat /\ i < n /\ ev2[i] = ev[i]
    BY DEF AddedAt
  <1>2. StartsTold(ev2, ts)
    BY <1>1 DEF TaskLog, StartsTold
  <1>3. EndsTold(ev2, ts, lag)
    BY <1>1 DEF TaskLog, EndsTold
  <1>4. UsesTold(ev2, ts)
    <2>1. UsesTold(ev, ts) /\ StartsTold(ev, ts)
      BY DEF TaskLog
    <2>2. \A i \in Uses(ev2) :
              \/ ev2[i].task = 0 /\ ev2[i].status = "no_prefetch"
              \/ /\ ev2[i].task \in DOMAIN ts /\ ev2[i].status = "used"
                 /\ ev2[i].rid = ts[ev2[i].task].rid /\ ts[ev2[i].task].status = "used"
      BY <1>1, <2>1 DEF UsesTold
    <2>3. ASSUME NEW x \in DOMAIN ts, ts[x].status = "used"
          PROVE  \E i \in Uses(ev2) : /\ ev2[i].task = x /\ ev2[i].at = ts[x].consumed
                                      /\ \A j \in Uses(ev2) : ev2[j].task = x => j <= i
      <3>1. PICK i \in Uses(ev) : /\ ev[i].task = x /\ ev[i].at = ts[x].consumed
                                  /\ \A j \in Uses(ev) : ev[j].task = x => j <= i
        BY <2>1, <2>3 DEF UsesTold
      <3>2. \A j \in Uses(ev2) : ev2[j].task = x => j <= i
        BY <1>1, <3>1
      <3> QED BY <1>1, <3>1, <3>2
    <2> QED BY <2>2, <2>3 DEF UsesTold
  <1>5. UsesLast(ev2, ts)
    <2>1. UsesLast(ev, ts) /\ UsesTold(ev, ts)
      BY DEF TaskLog
    <2>2. ASSUME NEW i \in Uses(ev2), NEW j \in Uses(ev2), i < j, ev2[i].task # 0,
                 ev2[j].rid = ev2[i].rid, ev2[j].task # ev2[i].task
          PROVE  \E x \in DOMAIN ts : x # ev2[i].task /\ ts[x].rid = ev2[i].rid
      <3>1. i \in Uses(ev)
        BY <1>1, <2>2
      <3>2. CASE j = n
        <4>1. /\ ev[i].task \in DOMAIN ts /\ ts[ev[i].task].status = "used"
              /\ ts[ev[i].task].rid = ev[i].rid /\ ev[i].rid = e.rid
          BY <1>1, <2>1, <2>2, <3>1, <3>2 DEF UsesTold
        <4> QED BY <1>1, <3>1, <4>1
      <3>3. CASE j \in Uses(ev)
        <4>1. \E x \in DOMAIN ts : x # ev[i].task /\ ts[x].rid = ev[i].rid
          BY <1>1, <2>1, <2>2, <3>1, <3>3 DEF UsesLast
        <4> QED BY <1>1, <3>1, <4>1
      <3> QED BY <1>1, <3>2, <3>3
    <2> QED BY <2>2 DEF UsesLast
  <1>6. RevokesTold(ev2, ts)
    BY <1>1 DEF TaskLog, RevokesTold
  <1> QED BY <1>2, <1>3, <1>4, <1>5, <1>6 DEF TaskLog

LEMMA RevokeLogged ==
  ASSUME NEW ev, NEW ev2, NEW n, NEW e, AddedAt(n, ev, ev2, e), e.type = "prefetch_cancelled",
         NEW ts, NEW ts2, NEW k, NEW lag, TaskLog(ev, ts, lag), Touched(ts, ts2, k), k # 0,
         e.task = k, ts[k].status = "in_progress",
         ts2[k].status = IF e.wasted THEN "wasted" ELSE "cancelled",
         ts2[k].reported = ts[k].reported
  PROVE  TaskLog(ev2, ts2, lag)
  <1>1. /\ Starts(ev2) = Starts(ev) /\ Ends(ev2) = Ends(ev) /\ Uses(ev2) = Uses(ev)
        /\ Revokes(ev2) = Revokes(ev) \cup {n} /\ ev2[n] = e /\ n \in Nat
        /\ \A i \in Starts(ev) \cup Ends(ev) \cup Uses(ev) \cup Revokes(ev) :
              i \in Nat /\ i < n /\ ev2[i] = ev[i]
    BY DEF AddedAt
  <1>2. /\ k \in DOMAIN ts /\ DOMAIN ts2 = DOMAIN ts
        /\ \A x \in DOMAIN ts : /\ ts2[x].rid = ts[x].rid /\ ts2[x].started = ts[x].started
                                /\ ts2[x].lands = ts[x].lands
                                /\ ts2[x].reported = ts[x].reported
                                /\ x # k => ts2[x] = ts[x]
    BY DEF Touched
  <1>3. StartsTold(ev2, ts2)
    BY <1>1, <1>2 DEF TaskLog, StartsTold
  <1>4. EndsTold(ev2, ts2, lag)
    BY <1>1, <1>2 DEF TaskLog, EndsTold
  <1>5. UsesTold(ev2, ts2)
    <2>1. UsesTold(ev, ts)
      BY DEF TaskLog
    <2>2. \A i \in Uses(ev2) :
              \/ ev2[i].task = 0 /\ ev2[i].status = "no_prefetch"
              \/ /\ ev2[i].task \in DOMAIN ts2 /\ ev2[i].status = "used"
                 /\ ev2[i].rid = ts2[ev2[i].task].rid /\ ts2[ev2[i].task].status = "used"
      <3>1. \A i \in Uses(ev) : ev[i].task # k
        BY <1>2, <2>1 DEF UsesTold
      <3> QED BY <1>1, <1>2, <2>1, <3>1 DEF UsesTold
    <2>3. \A x \in DOMAIN ts2 : ts2[x].status = "used" => x # k /\ ts[x].status = "used"
      BY <1>2
    <2>4. \A x \in DOMAIN ts2 : ts2[x].status = "used" =>
              \E i \in Uses(ev2) : /\ ev2[i].task = x /\ ev2[i].at = ts2[x].consumed
                                   /\ \A j \in Uses(ev2) : ev2[j].task = x => j <= i
      BY <1>1, <1>2, <2>1, <2>3 DEF UsesTold
    <2> QED BY <2>2, <2>4 DEF UsesTold
  <1>6. UsesLast(ev2, ts2)
    BY <1>1, <1>2 DEF TaskLog, UsesLast
  <1>7. RevokesTold(ev2, ts2)
    <2>1. RevokesTold(ev, ts)
      BY DEF TaskLog
    <2>2. \A i \in Revokes(ev) : ev[i].task # k
      BY <2>1 DEF RevokesTold
    <2>3. \A i \in Revokes(ev2) :
              /\ ev2[i].task \in DOMAIN ts2
              /\ ts2[ev2[i].task].status = IF ev2[i].wasted THEN "wasted" ELSE "cancelled"
      BY <1>1, <1>2, <2>1, <2>2 DEF RevokesTold
    <2>4. \A x \in DOMAIN ts2 : ts2[x].status \in {"wasted", "cancelled"} =>
              \E i \in Revokes(ev2) : ev2[i].task = x
      BY <1>1, <1>2, <2>1 DEF RevokesTold
    <2> QED BY <2>3, <2>4 DEF RevokesTold
  <1> QED BY <1>3, <1>4, <1>5, <1>6, <1>7 DEF TaskLog

-------------------------------------------------------------------------------
(* The calls of the scheduler, on any trace and any tasks.                 *)

\* The events are of this instant.
Now(new) == \A j \in DOMAIN new : new[j].at = clock

Kept(ev, ts) ==
    ev \in Seq(Event) /\ TasksTyped(ts, clock) /\ TaskLog(ev, ts, pace.lag)

IsLatest(k, ts, rid) ==
    \/ k = 0 /\ \A x \in DOMAIN ts : ts[x].rid # rid
    \/ k \in DOMAIN ts /\ k # 0 /\ ts[k].rid = rid /\ \A x \in DOMAIN ts : ts[x].rid = rid => x <= k

LEMMA Latest ==
  ASSUME NEW ts \in Seq(Task), NEW rid
  PROVE  IsLatest(LatestTask(ts, rid), ts, rid)
  <1> DEFINE ks == {k \in DOMAIN ts : ts[k].rid = rid}
  <1>1. DOMAIN ts = 1 .. Len(ts) /\ Len(ts) \in Nat
    BY LenProperties
  <1>2. CASE ks = {}
    BY <1>2 DEF LatestTask, IsLatest
  <1>3. CASE ks # {}
    <2>1. ks \in SUBSET (1 .. Len(ts))
      BY <1>1
    <2>2. \E k \in ks : \A x \in ks : x <= k
      BY <1>1, <1>3, <2>1, GreatestIndex
    <2>3. LatestTask(ts, rid) \in ks /\ \A x \in ks : x <= LatestTask(ts, rid)
      BY <1>3, <2>2 DEF LatestTask
    <2> QED BY <1>1, <2>3 DEF IsLatest
  <1> QED BY <1>2, <1>3

\* What a call of schedule() does to the tasks and tells.
Scheduled(ts, rid, ckpt, load, r) ==
    /\ r[2] \in Seq(Event) /\ Now(r[2])
    /\ Quiet(r[2], EventType \ {"prefetch_decision", "prefetch_started"})
    /\ mode # "real" => r[2] = <<>> /\ r[1] = ts
    /\ DOMAIN ts \subseteq DOMAIN r[1] /\ \A k \in DOMAIN ts : r[1][k] = ts[k]
    /\ \A k \in DOMAIN r[1] \ DOMAIN ts :
          /\ r[1][k].rid = rid /\ r[1][k].ckpt = ckpt /\ r[1][k].started = clock
          /\ r[1][k].lands = clock + load /\ r[1][k].status = "in_progress"
          /\ r[1][k].consumed = None /\ ~r[1][k].reported
          /\ \A x \in DOMAIN r[1] \ DOMAIN ts : x = k

LEMMA ScheduleTells ==
  ASSUME clock \in Nat, NEW ev, NEW ts, Kept(ev, ts), NEW rid \in Resource, NEW ckpt \in Nat,
         NEW admitted, NEW load \in Nat \ {0}
  PROVE  LET r == Schedule(ts, rid, ckpt, admitted, load)
         IN  Scheduled(ts, rid, ckpt, load, r) /\ Kept(ev \o r[2], r[1])
  <1> DEFINE r == Schedule(ts, rid, ckpt, admitted, load)
             k == Len(ts) + 1
             t == [rid |-> rid, ckpt |-> ckpt, started |-> clock, lands |-> clock + load,
                   status |-> "in_progress", consumed |-> None, reported |-> FALSE]
  <1> SUFFICES Scheduled(ts, rid, ckpt, load, r) /\ Kept(ev \o r[2], r[1])
    OBVIOUS
  <1>1. /\ ev \in Seq(Event) /\ ts \in Seq(Task) /\ TaskLog(ev, ts, pace.lag) /\ TasksTyped(ts, clock)
    BY DEF Kept, TasksTyped
  <1>2. CASE r = <<ts, <<>>>>
    <2>1. ev \o r[2] = ev /\ r[1] = ts /\ r[2] \in Seq(Event) /\ r[2] = <<>>
      BY <1>1, <1>2, ConcatEmptySeq
    <2>2. Quiet(r[2], EventType \ {"prefetch_decision", "prefetch_started"}) /\ Now(r[2])
      BY <1>2 DEF Quiet, Now
    <2> HIDE DEF r
    <2>3. Kept(ev \o r[2], r[1])
      BY <2>1
    <2> QED BY <2>1, <2>2, <2>3 DEF Scheduled
  <1>3. ASSUME mode = "real", NEW est \in {Estimate[rid], None}, r = <<ts, <<PrefetchDecision(rid, "skip", est)>>>>
        PROVE  Scheduled(ts, rid, ckpt, load, r) /\ Kept(ev \o r[2], r[1])
    <2> DEFINE d == PrefetchDecision(rid, "skip", est)
    <2>1. d \in Event /\ d.type = "prefetch_decision" /\ d.at = clock
      BY GuardEventsWritten DEF PrefetchDecision
    <2> HIDE DEF d, r
    <2>2. r[1] = ts /\ r[2] = <<d>>
      BY <1>3 DEF d
    <2>3. r[2] \in Seq(Event) /\ Quiet(r[2], EventType \ {"prefetch_decision", "prefetch_started"})
           /\ Quiet(r[2], TaskTypes) /\ Now(r[2])
      BY <2>1, <2>2 DEF Quiet, TaskTypes, Now
    <2>4. ev \o r[2] \in Seq(Event) /\ Same(ev, ev \o r[2], TaskTypes)
      BY <1>1, <2>3, QuietSame, Longer
    <2>5. TaskLog(ev \o r[2], ts, pace.lag)
      BY <1>1, <2>4, TaskLogSame
    <2> QED BY <1>1, <1>3, <2>2, <2>3, <2>4, <2>5 DEF Kept, Scheduled
  <1>4. ASSUME mode = "real",
               r = <<Append(ts, t), <<PrefetchDecision(rid, "start", Estimate[rid]), PrefetchStarted(k, rid)>>>>
        PROVE  Scheduled(ts, rid, ckpt, load, r) /\ Kept(ev \o r[2], r[1])
    <2> DEFINE d == PrefetchDecision(rid, "start", Estimate[rid])
               e == PrefetchStarted(k, rid)
               ev1 == ev \o <<d>>
    <2>1. d \in Event /\ d.type = "prefetch_decision" /\ d.at = clock
      <3>1. d \in Event
        BY GuardEventsWritten
      <3> QED BY <3>1 DEF PrefetchDecision
    <2>2. e \in Event /\ e.type = "prefetch_started" /\ e.task = k /\ e.rid = rid /\ e.at = clock
      <3>1. k \in Nat
        BY <1>1
      <3>2. e \in Event
        BY <3>1, TaskEventsWritten
      <3> QED BY <3>2 DEF PrefetchStarted
    <2>3. /\ t \in Task /\ t.rid = rid /\ t.ckpt = ckpt /\ t.started = clock /\ t.lands = clock + load
          /\ t.status = "in_progress" /\ t.consumed = None /\ ~t.reported
      BY DEF Task, TaskStatus, None
    <2> HIDE DEF d, e, r, t
    <2>4. r[1] = Append(ts, t) /\ r[2] = <<d, e>>
      BY <1>4 DEF d, e
    <2>5. /\ r[2] \in Seq(Event) /\ Now(r[2])
          /\ Quiet(r[2], EventType \ {"prefetch_decision", "prefetch_started"})
      BY <2>1, <2>2, <2>4 DEF Quiet, Now
    <2>6. Quiet(<<d>>, TaskTypes) /\ <<d>> \in Seq(Event)
      BY <2>1 DEF Quiet, TaskTypes
    <2>7. ev1 \in Seq(Event) /\ Same(ev, ev1, TaskTypes)
      BY <1>1, <2>6, QuietSame, Longer
    <2>8. TaskLog(ev1, ts, pace.lag)
      BY <1>1, <2>7, TaskLogSame
    <2>9. ev \o r[2] = ev1 \o <<e>>
      BY <1>1, <2>1, <2>2, <2>4, PairAdded
    <2> HIDE DEF ev1
    <2>10. Added(ev1, ev1 \o <<e>>, e)
      BY <2>2, <2>7, OneAdded
    <2>11. AddedAt(Len(ev1) + 1, ev1, ev1 \o <<e>>, e)
      BY <2>7, <2>10, AddedTasks
    <2>12. TaskLog(ev1 \o <<e>>, Append(ts, t), pace.lag)
      BY <1>1, <2>2, <2>3, <2>8, <2>11, StartLogged
    <2>13. /\ Append(ts, t) \in Seq(Task) /\ DOMAIN Append(ts, t) = DOMAIN ts \cup {k}
           /\ k \notin DOMAIN ts /\ Append(ts, t)[k] = t
           /\ \A x \in DOMAIN ts : Append(ts, t)[x] = ts[x]
      BY <1>1, <2>3, AppendProperties
    <2>14. TasksTyped(Append(ts, t), clock)
      <3>1. /\ t.started <= clock /\ t.started < t.lands /\ t.consumed <= clock
            /\ t.status = "used" <=> t.consumed # None
        BY <2>3 DEF None
      <3> HIDE DEF k
      <3> QED BY <1>1, <2>13, <3>1 DEF TasksTyped
    <2>15. ev \o r[2] \in Seq(Event)
      BY <2>9, <2>10 DEF Added
    <2> HIDE DEF k
    <2>16. Scheduled(ts, rid, ckpt, load, r)
      BY <1>4, <2>3, <2>4, <2>5, <2>13 DEF Scheduled
    <2> QED BY <2>4, <2>9, <2>12, <2>14, <2>15, <2>16 DEF Kept
  <1>5. \/ r = <<ts, <<>>>>
        \/ mode = "real" /\ r = <<ts, <<PrefetchDecision(rid, "skip", None)>>>>
        \/ mode = "real" /\ r = <<ts, <<PrefetchDecision(rid, "skip", Estimate[rid])>>>>
        \/ mode = "real" /\ r = <<Append(ts, t), <<PrefetchDecision(rid, "start", Estimate[rid]),
                                                   PrefetchStarted(k, rid)>>>>
    BY DEF Schedule
  <1> HIDE DEF r, t, k
  <1> QED BY <1>2, <1>3, <1>4, <1>5

\* Tasks change only in what a call may change.
SameTask(t, u) ==
    /\ u.rid = t.rid /\ u.ckpt = t.ckpt /\ u.started = t.started /\ u.lands = t.lands
    /\ u.reported = t.reported

\* What a call of on_resource_consumed() does to the tasks and tells.
Consumed(ts, rid, r) ==
    /\ r[2] \in Seq(Event) /\ Now(r[2]) /\ Quiet(r[2], EventType \ {"resource_consumed"})
    /\ \A j \in DOMAIN r[2] : r[2][j].rid = rid
    /\ DOMAIN r[1] = DOMAIN ts
    /\ \A k \in DOMAIN ts :
          /\ SameTask(ts[k], r[1][k])
          /\ \/ r[1][k] = ts[k]
             \/ /\ ts[k].rid = rid /\ ts[k].status \in {"in_progress", "used"}
                /\ r[1][k].status = "used" /\ r[1][k].consumed = clock
          /\ IsLatest(k, ts, rid) /\ ts[k].status \in {"in_progress", "used"} =>
                r[1][k].status = "used" /\ r[1][k].consumed = clock

LEMMA ConsumeTells ==
  ASSUME clock \in Nat, NEW ev, NEW ts, Kept(ev, ts), NEW rid \in Resource
  PROVE  LET r == Consume(ts, rid)
         IN  Consumed(ts, rid, r) /\ Kept(ev \o r[2], r[1])
  <1> DEFINE r == Consume(ts, rid)
             k == LatestTask(ts, rid)
             u == [ts[k] EXCEPT !.status = "used", !.consumed = clock]
             ts2 == [ts EXCEPT ![k].status = "used", ![k].consumed = clock]
             hit == k # 0 /\ ts[k].status \in {"in_progress", "used"}
  <1> SUFFICES Consumed(ts, rid, r) /\ Kept(ev \o r[2], r[1])
    OBVIOUS
  <1>1. /\ ev \in Seq(Event) /\ ts \in Seq(Task) /\ TaskLog(ev, ts, pace.lag) /\ TasksTyped(ts, clock)
        /\ DOMAIN ts = 1 .. Len(ts) /\ Len(ts) \in Nat
    BY DEF Kept, TasksTyped
  <1>2. IsLatest(k, ts, rid)
    BY <1>1, Latest
  <1>3. r = IF hit THEN <<ts2, <<ResourceConsumed(rid, k, "used")>>>>
            ELSE <<ts, <<ResourceConsumed(rid, 0, "no_prefetch")>>>>
    BY Zenon DEF Consume
  <1>4. ASSUME NEW x, IsLatest(x, ts, rid), NEW y, IsLatest(y, ts, rid)
        PROVE  x = y
    BY <1>1, <1>4 DEF IsLatest
  <1> HIDE DEF r, k
  <1>5. CASE hit
    <2> DEFINE e == ResourceConsumed(rid, k, "used")
    <2>1. k \in DOMAIN ts /\ k # 0 /\ k \in Nat /\ ts[k].rid = rid /\ ts[k] \in Task
      BY <1>1, <1>2, <1>5 DEF IsLatest
    <2>2. e \in Event
      BY <2>1, TaskEventsWritten
    <2>3. e.type = "resource_consumed" /\ e.task = k /\ e.rid = rid /\ e.at = clock /\ e.status = "used"
      BY DEF ResourceConsumed
    <2>4. u \in Task
      BY <2>1 DEF Task, TaskStatus
    <2>5. u.status = "used" /\ u.consumed = clock /\ SameTask(ts[k], u)
      BY <2>1 DEF Task, SameTask
    <2>15. ts2 = [ts EXCEPT ![k] = u]
      <3>1. \A x \in DOMAIN ts : ts2[x] = [ts EXCEPT ![k] = u][x]
        <4>1. /\ ts2[k] = u
              /\ \A x \in DOMAIN ts : x # k => ts2[x] = ts[x]
          BY <2>1
        <4> QED BY <2>1, <4>1
      <3> QED BY <3>1
    <2> HIDE DEF e, u, ts2
    <2>6. /\ ts2 \in Seq(Task) /\ DOMAIN ts2 = DOMAIN ts /\ ts2[k] = u
          /\ \A x \in DOMAIN ts : x # k => ts2[x] = ts[x]
      BY <1>1, <2>1, <2>4, <2>15, ExceptSeq
    <2>7. r[1] = ts2 /\ r[2] = <<e>>
      BY <1>3, <1>5 DEF e
    <2>8. Touched(ts, ts2, k)
      BY <2>1, <2>5, <2>6 DEF Touched, SameTask
    <2>16. Added(ev, ev \o <<e>>, e)
      BY <1>1, <2>2, OneAdded
    <2>9. AddedAt(Len(ev) + 1, ev, ev \o <<e>>, e) /\ ev \o <<e>> \in Seq(Event)
      <3>1. AddedAt(Len(ev) + 1, ev, ev \o <<e>>, e)
        BY <1>1, <2>16, AddedTasks
      <3> QED BY <2>16, <3>1 DEF Added
    <2>10. TaskLog(ev \o <<e>>, ts2, pace.lag)
      <3>1. /\ e.rid = ts[k].rid /\ e.at = ts2[k].consumed /\ ts2[k].status = "used"
            /\ ts2[k].reported = ts[k].reported /\ ts[k].status \in {"in_progress", "used"}
        BY <1>5, <2>1, <2>3, <2>5, <2>6 DEF SameTask
      <3> QED BY <1>1, <2>1, <2>3, <2>8, <2>9, <3>1, UseLogged
    <2>11. TasksTyped(ts2, clock)
      <3>1. clock # None
        BY DEF None
      <3>2. ts[k].started <= clock /\ ts[k].started < ts[k].lands
        BY <1>1, <2>1 DEF TasksTyped
      <3> QED BY <1>1, <2>5, <2>6, <3>1, <3>2 DEF TasksTyped, SameTask
    <2>12. Kept(ev \o r[2], r[1])
      BY <2>7, <2>9, <2>10, <2>11 DEF Kept
    <2>13. /\ r[2] \in Seq(Event) /\ Now(r[2]) /\ Quiet(r[2], EventType \ {"resource_consumed"})
           /\ \A j \in DOMAIN r[2] : r[2][j].rid = rid
      BY <2>2, <2>3, <2>7 DEF Quiet, Now
    <2>14. ASSUME NEW x \in DOMAIN ts
           PROVE  /\ SameTask(ts[x], ts2[x])
                  /\ \/ ts2[x] = ts[x]
                     \/ /\ ts[x].rid = rid /\ ts[x].status \in {"in_progress", "used"}
                        /\ ts2[x].status = "used" /\ ts2[x].consumed = clock
                  /\ IsLatest(x, ts, rid) /\ ts[x].status \in {"in_progress", "used"} =>
                        ts2[x].status = "used" /\ ts2[x].consumed = clock
      <3>1. CASE x = k
        BY <1>5, <2>1, <2>5, <2>6, <3>1
      <3>2. CASE x # k
        BY <1>2, <1>4, <2>6, <3>2 DEF SameTask
      <3> QED BY <3>1, <3>2
    <2> QED BY <2>6, <2>7, <2>12, <2>13, <2>14 DEF Consumed
  <1>6. CASE ~hit
    <2> DEFINE e == ResourceConsumed(rid, 0, "no_prefetch")
    <2>2. e \in Event
      BY TaskEventsWritten
    <2>3. e.type = "resource_consumed" /\ e.task = 0 /\ e.rid = rid /\ e.status = "no_prefetch"
          /\ e.at = clock
      BY DEF ResourceConsumed
    <2> HIDE DEF e
    <2>7. r[1] = ts /\ r[2] = <<e>>
      BY <1>3, <1>6 DEF e
    <2>16. Added(ev, ev \o <<e>>, e)
      BY <1>1, <2>2, OneAdded
    <2>9. AddedAt(Len(ev) + 1, ev, ev \o <<e>>, e) /\ ev \o <<e>> \in Seq(Event)
      <3>1. AddedAt(Len(ev) + 1, ev, ev \o <<e>>, e)
        BY <1>1, <2>16, AddedTasks
      <3> QED BY <2>16, <3>1 DEF Added
    <2>8. \A a \in DOMAIN ts : ts[a].rid = e.rid /\ ts[a].status = "used" =>
              \E x \in DOMAIN ts : x # a /\ ts[x].rid = e.rid
      BY <1>2, <1>6, <2>3 DEF IsLatest
    <2>10. TaskLog(ev \o <<e>>, ts, pace.lag)
      BY <1>1, <2>3, <2>8, <2>9, BareUseLogged
    <2>12. Kept(ev \o r[2], r[1])
      BY <1>1, <2>7, <2>9, <2>10 DEF Kept
    <2>13. /\ r[2] \in Seq(Event) /\ Now(r[2]) /\ Quiet(r[2], EventType \ {"resource_consumed"})
           /\ \A j \in DOMAIN r[2] : r[2][j].rid = rid
      BY <2>2, <2>3, <2>7 DEF Quiet, Now
    <2>14. \A x \in DOMAIN ts : /\ SameTask(ts[x], ts[x])
                                /\ ~(IsLatest(x, ts, rid) /\ ts[x].status \in {"in_progress", "used"})
      BY <1>1, <1>2, <1>4, <1>6 DEF SameTask
    <2> QED BY <2>7, <2>12, <2>13, <2>14 DEF Consumed
  <1> QED BY <1>5, <1>6

\* What a call of cancel_all_pending() does to the tasks and tells.
Cancelled(ts, ckpt, r) ==
    /\ r[2] \in Seq(Event) /\ Now(r[2]) /\ Quiet(r[2], EventType \ {"prefetch_cancelled"})
    /\ DOMAIN r[1] = DOMAIN ts
    /\ \A k \in DOMAIN ts :
          /\ SameTask(ts[k], r[1][k]) /\ r[1][k].consumed = ts[k].consumed
          /\ \/ r[1][k] = ts[k]
             \/ /\ ts[k].ckpt = ckpt /\ ts[k].status = "in_progress"
                /\ r[1][k].status \in {"wasted", "cancelled"}

LEMMA CancelTells ==
  ASSUME clock \in Nat, NEW ev, NEW ts, Kept(ev, ts), NEW ckpt \in Nat
  PROVE  LET r == CancelPending(ts, ckpt)
         IN  Cancelled(ts, ckpt, r) /\ Kept(ev \o r[2], r[1])
  <1> DEFINE r == CancelPending(ts, ckpt)
             ks == {x \in DOMAIN ts : ts[x].ckpt = ckpt /\ ts[x].status = "in_progress"}
             k == CHOOSE x \in ks : TRUE
             status == IF Landed(ts[k]) THEN "wasted" ELSE "cancelled"
             u == [ts[k] EXCEPT !.status = status]
             ts2 == [ts EXCEPT ![k].status = status]
  <1> SUFFICES Cancelled(ts, ckpt, r) /\ Kept(ev \o r[2], r[1])
    OBVIOUS
  <1>1. /\ ev \in Seq(Event) /\ ts \in Seq(Task) /\ TaskLog(ev, ts, pace.lag) /\ TasksTyped(ts, clock)
        /\ DOMAIN ts = 1 .. Len(ts) /\ Len(ts) \in Nat
    BY DEF Kept, TasksTyped
  <1>2. r = IF ks = {} THEN <<ts, <<>>>> ELSE <<ts2, <<PrefetchCancelled(k, Landed(ts[k]))>>>>
    BY Zenon DEF CancelPending
  <1>3. CASE ks = {}
    <2> HIDE DEF ks
    <2>1. r = <<ts, <<>>>>
      BY <1>2, <1>3
    <2>2. ev \o r[2] = ev /\ r[1] = ts /\ r[2] \in Seq(Event) /\ r[2] = <<>>
      BY <1>1, <2>1, ConcatEmptySeq
    <2>3. Quiet(r[2], EventType \ {"prefetch_cancelled"}) /\ Now(r[2])
      BY <2>1 DEF Quiet, Now
    <2> HIDE DEF r
    <2>4. \A x \in DOMAIN ts : SameTask(ts[x], ts[x])
      BY DEF SameTask
    <2> QED BY <2>2, <2>3, <2>4 DEF Cancelled
  <1>4. CASE ks # {}
    <2> DEFINE landed == Landed(ts[k])
               e == PrefetchCancelled(k, landed)
    <2>1. k \in ks
      BY <1>4
    <2>2. /\ k \in DOMAIN ts /\ k # 0 /\ k \in Nat /\ ts[k] \in Task
          /\ ts[k].ckpt = ckpt /\ ts[k].status = "in_progress"
      <3> HIDE DEF k
      <3> QED BY <1>1, <2>1
    <2> HIDE DEF k, r
    <2>3. landed \in BOOLEAN
      BY DEF Landed
    <2>4. r[1] = ts2 /\ r[2] = <<e>>
      <3> HIDE DEF ks
      <3> QED BY <1>2, <1>4
    <2>5. u \in Task /\ u.status = status /\ u.consumed = ts[k].consumed /\ SameTask(ts[k], u)
      <3>1. status \in TaskStatus
        BY DEF TaskStatus
      <3> HIDE DEF status
      <3> QED BY <2>2, <3>1 DEF Task, SameTask
    <2>6. ts2 = [ts EXCEPT ![k] = u]
      <3>1. \A x \in DOMAIN ts : ts2[x] = [ts EXCEPT ![k] = u][x]
        <4>1. /\ ts2[k] = u
              /\ \A x \in DOMAIN ts : x # k => ts2[x] = ts[x]
          BY <2>2
        <4> QED BY <2>2, <4>1
      <3> QED BY <3>1
    <2>7. status = IF landed THEN "wasted" ELSE "cancelled"
      OBVIOUS
    <2> HIDE DEF landed, u, ts2, status, ks
    <2>8. /\ ts2 \in Seq(Task) /\ DOMAIN ts2 = DOMAIN ts /\ ts2[k] = u
          /\ \A x \in DOMAIN ts : x # k => ts2[x] = ts[x]
      BY <1>1, <2>2, <2>5, <2>6, ExceptSeq
    <2>9. e \in Event
      BY <2>2, <2>3, TaskEventsWritten
    <2>10. e.type = "prefetch_cancelled" /\ e.task = k /\ e.wasted = landed /\ e.at = clock
      BY DEF PrefetchCancelled
    <2> HIDE DEF e
    <2>11. Added(ev, ev \o <<e>>, e)
      BY <1>1, <2>9, OneAdded
    <2>12. AddedAt(Len(ev) + 1, ev, ev \o <<e>>, e)
      BY <1>1, <2>11, AddedTasks
    <2>13. ev \o <<e>> \in Seq(Event)
      BY <2>11 DEF Added
    <2>14. Touched(ts, ts2, k)
      BY <2>2, <2>5, <2>8 DEF Touched, SameTask
    <2>15. TaskLog(ev \o <<e>>, ts2, pace.lag)
      <3>1. /\ ts2[k].status = IF e.wasted THEN "wasted" ELSE "cancelled"
            /\ ts2[k].reported = ts[k].reported
        BY <2>5, <2>7, <2>8, <2>10 DEF SameTask
      <3> QED BY <1>1, <2>2, <2>10, <2>12, <2>14, <3>1, RevokeLogged
    <2>16. TasksTyped(ts2, clock)
      <3>1. ts[k].started <= clock /\ ts[k].started < ts[k].lands
            /\ ts[k].consumed <= clock /\ ts[k].consumed = None
        BY <1>1, <2>2 DEF TasksTyped
      <3>2. status # "used"
        BY <2>7
      <3>3. \A x \in DOMAIN ts : x = k \/ ts2[x] = ts[x]
        BY <2>8
      <3> QED BY <1>1, <2>5, <2>8, <3>1, <3>2, <3>3 DEF TasksTyped, SameTask
    <2>17. Kept(ev \o r[2], r[1])
      BY <2>4, <2>13, <2>15, <2>16 DEF Kept
    <2>18. r[2] \in Seq(Event) /\ Now(r[2]) /\ Quiet(r[2], EventType \ {"prefetch_cancelled"})
      BY <2>4, <2>9, <2>10 DEF Quiet, Now
    <2>19. status \in {"wasted", "cancelled"}
      BY <2>7
    <2>20. ASSUME NEW x \in DOMAIN ts
           PROVE  /\ SameTask(ts[x], ts2[x]) /\ ts2[x].consumed = ts[x].consumed
                  /\ \/ ts2[x] = ts[x]
                     \/ /\ ts[x].ckpt = ckpt /\ ts[x].status = "in_progress"
                        /\ ts2[x].status \in {"wasted", "cancelled"}
      <3>1. CASE x = k
        BY <2>2, <2>5, <2>8, <2>19, <3>1
      <3>2. CASE x # k
        BY <2>8, <3>2 DEF SameTask
      <3> QED BY <3>1, <3>2
    <2> QED BY <2>4, <2>8, <2>17, <2>18, <2>20 DEF Cancelled
  <1> QED BY <1>3, <1>4

-------------------------------------------------------------------------------
(* What a step appends to the trace.                                       *)

\* Events of this instant, of these types.
Fresh(new, types) ==
    new \in Seq(Event) /\ \A j \in DOMAIN new : new[j].at = clock /\ new[j].type \in types

Grew(types) == \E new : Fresh(new, types) /\ events' = events \o new

LEMMA TypeOfEvent ==
  \A e \in Event : e.type \in EventType
  <1> TAKE e \in Event
  <1>1. CASE e \in TaskEvent
    BY <1>1 DEF TaskEvent, EventType
  <1>2. CASE e \in GuardEvent
    BY <1>2 DEF GuardEvent, EventType
  <1>3. CASE e \in WaitEvent
    BY <1>3 DEF WaitEvent, EventType
  <1>4. CASE e \in TrackedEvent
    BY <1>4 DEF TrackedEvent, EventType
  <1> QED BY <1>1, <1>2, <1>3, <1>4 DEF Event

LEMMA FreshNone ==
  \A types : Fresh(<<>>, types)
  BY DEF Fresh

LEMMA FreshOne ==
  ASSUME NEW e \in Event, NEW types, e.at = clock, e.type \in types
  PROVE  Fresh(<<e>>, types)
  BY DEF Fresh

LEMMA FreshTwo ==
  ASSUME NEW d \in Event, NEW e \in Event, NEW types, d.at = clock, d.type \in types,
         e.at = clock, e.type \in types
  PROVE  Fresh(<<d, e>>, types)
  BY DEF Fresh

LEMMA FreshCall ==
  ASSUME NEW new \in Seq(Event), NEW types, Now(new), Quiet(new, EventType \ types)
  PROVE  Fresh(new, types)
  <1>1. \A j \in DOMAIN new : new[j] \in Event
    BY ElementOfSeq, LenProperties
  <1> QED BY <1>1, TypeOfEvent DEF Fresh, Now, Quiet

LEMMA FreshJoin ==
  ASSUME NEW a, NEW b, NEW types, Fresh(a, types), Fresh(b, types)
  PROVE  Fresh(a \o b, types)
  <1>1. a \in Seq(Event) /\ b \in Seq(Event)
    BY DEF Fresh
  <1>2. /\ a \o b \in Seq(Event)
        /\ \A i \in DOMAIN a : (a \o b)[i] = a[i]
        /\ \A i \in DOMAIN (a \o b) :
              \/ i \in DOMAIN a
              \/ i - Len(a) \in DOMAIN b /\ (a \o b)[i] = b[i - Len(a)]
    BY <1>1, Longer
  <1> QED BY <1>1, <1>2 DEF Fresh

LEMMA FreshMore ==
  ASSUME NEW new, NEW some, NEW types, Fresh(new, some), some \subseteq types
  PROVE  Fresh(new, types)
  BY DEF Fresh

\* What is not of these types looks the same afterwards.
LEMMA FreshSame ==
  ASSUME NEW ev \in Seq(Event), NEW new, NEW types, Fresh(new, types),
         NEW others, types \cap others = {}
  PROVE  ev \o new \in Seq(Event) /\ Same(ev, ev \o new, others)
  <1>1. new \in Seq(Event) /\ Quiet(new, others)
    BY DEF Fresh, Quiet
  <1> QED BY <1>1, Longer, QuietSame

\* Where the new events are.
LEMMA FreshPlace ==
  ASSUME NEW ev \in Seq(Event), NEW new, NEW types, Fresh(new, types)
  PROVE  /\ ev \o new \in Seq(Event) /\ DOMAIN ev \subseteq DOMAIN (ev \o new)
         /\ \A i \in DOMAIN (ev \o new) :
               \/ i \in DOMAIN ev /\ (ev \o new)[i] = ev[i]
               \/ (ev \o new)[i].at = clock /\ (ev \o new)[i].type \in types
         /\ \A i \in DOMAIN ev : (ev \o new)[i] = ev[i]
         /\ \A i \in DOMAIN ev : \A j \in DOMAIN (ev \o new) \ DOMAIN ev : i < j
         /\ \A j \in DOMAIN (ev \o new) \ DOMAIN ev : \E x \in DOMAIN new : (ev \o new)[j] = new[x]
  <1>1. new \in Seq(Event)
    BY DEF Fresh
  <1>2. /\ ev \o new \in Seq(Event) /\ Len(ev \o new) = Len(ev) + Len(new)
        /\ \A i \in DOMAIN ev : i \in DOMAIN (ev \o new) /\ i <= Len(ev) /\ (ev \o new)[i] = ev[i]
        /\ \A i \in DOMAIN (ev \o new) :
              \/ i \in DOMAIN ev
              \/ i - Len(ev) \in DOMAIN new /\ (ev \o new)[i] = new[i - Len(ev)]
    BY <1>1, Longer
  <1>3. DOMAIN ev = 1 .. Len(ev) /\ DOMAIN (ev \o new) \in SUBSET Nat /\ Len(ev) \in Nat
        /\ \A j \in DOMAIN (ev \o new) : j >= 1
    <2>1. DOMAIN (ev \o new) = 1 .. Len(ev \o new) /\ Len(ev \o new) \in Nat
      BY <1>2, LenProperties
    <2> QED BY <2>1, LenProperties
  <1>4. \A i \in DOMAIN ev : \A j \in DOMAIN (ev \o new) \ DOMAIN ev : i < j
    BY <1>3
  <1> QED BY <1>2, <1>4 DEF Fresh

LEMMA KeptQuiet ==
  ASSUME NEW ev, NEW ts, Kept(ev, ts), NEW new, Fresh(new, EventType \ TaskTypes)
  PROVE  Kept(ev \o new, ts)
  <1>1. ev \in Seq(Event) /\ TasksTyped(ts, clock) /\ TaskLog(ev, ts, pace.lag)
    BY DEF Kept
  <1>2. ev \o new \in Seq(Event) /\ Same(ev, ev \o new, TaskTypes)
    BY <1>1, FreshSame
  <1> QED BY <1>1, <1>2, TaskLogSame DEF Kept

-------------------------------------------------------------------------------
(* The state of a run.                                                     *)

Activity ==
    {"begin", "planner", "planned", "worker_gate", "worker", "loading", "disk", "tool",
     "aggregator_gate", "aggregator", "ended"}

Need == [what : {"worker", "mace", "aggregator"}, at : Nat, blocked : Nat]

Typed ==
    /\ mode \in Mode /\ pace \in Paces /\ clock \in Nat /\ step \in 0 .. MaxTools
    /\ pc \in Activity
    /\ engines \in [Gate -> Nat \cup {None}]
    /\ busy \in Nat /\ since \in 0 .. clock /\ onDemand \in BOOLEAN
    /\ pending \in 0 .. step /\ until \in Nat
    /\ taken \subseteq DOMAIN tasks /\ thought \in 0 .. clock
    /\ needs \in Seq(Need)

\* The trace so far is of the past.
Stamped == events \in Seq(Event) /\ \A i \in DOMAIN events : events[i].at <= clock

\* The poll thread is never later than it lags.
LagsMet == \A k \in DOMAIN tasks : ~tasks[k].reported => clock <= tasks[k].lands + pace.lag

LEMMA PaceType ==
  \A p \in Paces : /\ {p.cache, p.worker, p.mace, p.aggregator, p.tool} \subseteq Nat \ {0}
                   /\ p.plan \in Nat /\ p.turn \in Nat /\ p.lag \in Nat
  BY TraceConstants

LEMMA StampedGrows ==
  ASSUME Typed, Stamped, NEW types, Grew(types), clock' = clock
  PROVE  Stamped'
  <1>1. PICK new : Fresh(new, types) /\ events' = events \o new
    BY DEF Grew
  <1>2. /\ events' \in Seq(Event)
        /\ \A i \in DOMAIN events' : \/ i \in DOMAIN events /\ events'[i] = events[i]
                                     \/ events'[i].at = clock
    BY <1>1, FreshPlace DEF Stamped
  <1> QED BY <1>2 DEF Stamped, Typed

-------------------------------------------------------------------------------
(* The handlers that do more than append.                                  *)

\* The task of a call is in the list it leaves.
SameTasks(ts, us) == DOMAIN us = DOMAIN ts /\ \A k \in DOMAIN ts : SameTask(ts[k], us[k])

\* What the first phase of on_tool_start() does to the tasks and tells.
Judged(tool, j) ==
    /\ SameTasks(tasks, j.tasks) /\ j.until \in Nat
    /\ Fresh(j.events, {"prediction_validated", "resource_consumed", "divergence_detected",
                        "prefetch_cancelled", "conservative_mode"})
    /\ \/ pending = 0 /\ j.events = <<>> /\ j.tasks = tasks /\ j.until = until
       \/ /\ pending # 0 /\ tool = "run_ase" /\ j.until = until
          /\ \E c : /\ Consumed(tasks, "mace_model", <<j.tasks, c>>)
                    /\ j.events = <<PredictionValidated(pending)>> \o c
       \/ /\ pending # 0 /\ tool # "run_ase" /\ j.until = step + 1 + Conservative
          /\ \E c : /\ Cancelled(tasks, pending, <<j.tasks, c>>)
                    /\ j.events = (<<DivergenceDetected(pending)>> \o c) \o <<ConservativeMode>>

LEMMA JudgeTells ==
  ASSUME Typed, NEW tool \in Tool, NEW ev, Kept(ev, tasks)
  PROVE  Judged(tool, Judge(tool)) /\ Kept(ev \o Judge(tool).events, Judge(tool).tasks)
  <1> DEFINE j == Judge(tool)
             types == {"prediction_validated", "resource_consumed", "divergence_detected",
                       "prefetch_cancelled", "conservative_mode"}
  <1>1. /\ clock \in Nat /\ pending \in Nat /\ step \in Nat /\ until \in Nat /\ Conservative \in Nat
        /\ ev \in Seq(Event)
    BY TraceConstants DEF Typed, Kept
  <1>2. CASE pending = 0
    <2>1. j = [tasks |-> tasks, events |-> <<>>, until |-> until]
      BY <1>2 DEF Judge
    <2>2. j.tasks = tasks /\ j.events = <<>> /\ j.until = until
      BY <2>1
    <2> HIDE DEF j
    <2>3. ev \o j.events = ev
      BY <1>1, <2>2, ConcatEmptySeq
    <2>4. SameTasks(tasks, j.tasks)
      BY <2>2 DEF SameTasks, SameTask
    <2> QED BY <1>1, <1>2, <2>2, <2>3, <2>4, FreshNone DEF Judged, j
  <1>3. CASE pending # 0 /\ tool = "run_ase"
    <2> DEFINE c == Consume(tasks, "mace_model")
               e == PredictionValidated(pending)
    <2>1. j = [tasks |-> c[1], until |-> until, events |-> <<e>> \o c[2]]
      BY <1>3 DEF Judge
    <2>2. e \in Event
      BY <1>1, GuardEventsWritten
    <2>3. e.type = "prediction_validated" /\ e.at = clock
      BY DEF PredictionValidated
    <2>4. j.tasks = c[1] /\ j.until = until /\ j.events = <<e>> \o c[2]
      BY <2>1
    <2> HIDE DEF j, e, c
    <2>6. Fresh(<<e>>, EventType \ TaskTypes) /\ Fresh(<<e>>, types)
      BY <2>2, <2>3, FreshOne DEF EventType, TaskTypes
    <2>7. Kept(ev \o <<e>>, tasks)
      BY <2>6, KeptQuiet
    <2>8. "mace_model" \in Resource
      BY DEF Resource
    <2>9. Consumed(tasks, "mace_model", c) /\ Kept((ev \o <<e>>) \o c[2], c[1])
      BY <1>1, <2>7, <2>8, ConsumeTells DEF c
    <2>10. c[2] \in Seq(Event) /\ Now(c[2]) /\ Quiet(c[2], EventType \ {"resource_consumed"})
      BY <2>9 DEF Consumed
    <2>11. Fresh(c[2], {"resource_consumed"})
      BY <2>10, FreshCall
    <2>12. Fresh(c[2], types)
      BY <2>11, FreshMore
    <2>13. Fresh(j.events, types)
      BY <2>4, <2>6, <2>12, FreshJoin
    <2>14. (ev \o <<e>>) \o c[2] = ev \o j.events
      <3>1. <<e>> \in Seq(Event)
        BY <2>2
      <3>2. (ev \o <<e>>) \o c[2] = ev \o (<<e>> \o c[2])
        BY <1>1, <2>10, <3>1, Regrouped
      <3> QED BY <2>4, <3>2
    <2>15. SameTasks(tasks, j.tasks)
      BY <2>4, <2>9 DEF Consumed, SameTasks
    <2>16. Consumed(tasks, "mace_model", <<j.tasks, c[2]>>)
      BY <2>4, <2>9 DEF Consumed
    <2>17. Judged(tool, j)
      BY <1>1, <1>3, <2>4, <2>13, <2>15, <2>16 DEF Judged, e
    <2> QED BY <2>4, <2>9, <2>14, <2>17 DEF j
  <1>4. CASE pending # 0 /\ tool # "run_ase"
    <2> DEFINE c == CancelPending(tasks, pending)
               e == DivergenceDetected(pending)
               f == ConservativeMode
    <2>1. j = [tasks |-> c[1], until |-> step + 1 + Conservative, events |-> <<e>> \o c[2] \o <<f>>]
      BY <1>4 DEF Judge
    <2>2. e \in Event /\ f \in Event
      BY <1>1, GuardEventsWritten
    <2>3. e.type = "divergence_detected" /\ e.at = clock
          /\ f.type = "conservative_mode" /\ f.at = clock
      BY DEF DivergenceDetected, ConservativeMode
    <2>4. /\ j.tasks = c[1] /\ j.until = step + 1 + Conservative
          /\ j.events = (<<e>> \o c[2]) \o <<f>>
      BY <2>1
    <2> HIDE DEF j, e, c, f
    <2>6. /\ Fresh(<<e>>, EventType \ TaskTypes) /\ Fresh(<<e>>, types)
          /\ Fresh(<<f>>, EventType \ TaskTypes) /\ Fresh(<<f>>, types)
      BY <2>2, <2>3, FreshOne DEF EventType, TaskTypes
    <2>7. Kept(ev \o <<e>>, tasks)
      BY <2>6, KeptQuiet
    <2>9. Cancelled(tasks, pending, c) /\ Kept((ev \o <<e>>) \o c[2], c[1])
      BY <1>1, <2>7, CancelTells DEF c
    <2>10. c[2] \in Seq(Event) /\ Now(c[2]) /\ Quiet(c[2], EventType \ {"prefetch_cancelled"})
      BY <2>9 DEF Cancelled
    <2>11. Fresh(c[2], {"prefetch_cancelled"})
      BY <2>10, FreshCall
    <2>12. Fresh(c[2], types)
      BY <2>11, FreshMore
    <2>8. Fresh(<<e>> \o c[2], types)
      BY <2>6, <2>12, FreshJoin
    <2>13. Fresh(j.events, types)
      <3>1. Fresh((<<e>> \o c[2]) \o <<f>>, types)
        BY <2>6, <2>8, FreshJoin
      <3> QED BY <2>4, <3>1
    <2>14. ((ev \o <<e>>) \o c[2]) \o <<f>> = ev \o j.events
      <3>1. <<e>> \in Seq(Event) /\ <<f>> \in Seq(Event) /\ <<e>> \o c[2] \in Seq(Event)
        BY <2>2, <2>8 DEF Fresh
      <3>2. (ev \o <<e>>) \o c[2] = ev \o (<<e>> \o c[2])
        BY <1>1, <2>10, <3>1, Regrouped
      <3>3. (ev \o (<<e>> \o c[2])) \o <<f>> = ev \o ((<<e>> \o c[2]) \o <<f>>)
        BY <1>1, <3>1, Regrouped
      <3> QED BY <2>4, <3>2, <3>3
    <2>18. Kept(((ev \o <<e>>) \o c[2]) \o <<f>>, c[1])
      BY <2>6, <2>9, KeptQuiet
    <2>15. SameTasks(tasks, j.tasks)
      BY <2>4, <2>9 DEF Cancelled, SameTasks
    <2>16. Cancelled(tasks, pending, <<j.tasks, c[2]>>)
      BY <2>4, <2>9 DEF Cancelled
    <2>17. Judged(tool, j)
      <3>1. j.until \in Nat
        BY <1>1, <2>4
      <3> QED BY <1>4, <2>4, <2>13, <2>15, <2>16, <3>1 DEF Judged, e, f
    <2> QED BY <2>4, <2>14, <2>17, <2>18 DEF j
  <1> HIDE DEF j
  <1> QED BY <1>2, <1>3, <1>4 DEF j

\* events \o (a \o b \o ...), one after the other.
LEMMA RegroupedTwo ==
  \A s \in Seq(Event), a \in Seq(Event), b \in Seq(Event) : s \o (a \o b) = (s \o a) \o b
  BY Regrouped

Groups(s, a, b, c) == s \o ((a \o b) \o c) = ((s \o a) \o b) \o c

LEMMA RegroupedThree ==
  \A s \in Seq(Event), a \in Seq(Event), b \in Seq(Event), c \in Seq(Event) : Groups(s, a, b, c)
  <1> TAKE s \in Seq(Event), a \in Seq(Event), b \in Seq(Event), c \in Seq(Event)
  <1>1. a \o b \in Seq(Event)
    BY ConcatProperties
  <1>2. s \o ((a \o b) \o c) = (s \o (a \o b)) \o c
    BY <1>1, RegroupedTwo
  <1>3. s \o (a \o b) = (s \o a) \o b
    BY RegroupedTwo
  <1> QED BY <1>2, <1>3 DEF Groups

\* Two more, after the first three.
LEMMA RegroupedMore ==
  \A s \in Seq(Event), a \in Seq(Event), b \in Seq(Event), c \in Seq(Event), d \in Seq(Event) :
     Groups(s, a \o b, c, d)
  <1> TAKE s \in Seq(Event), a \in Seq(Event), b \in Seq(Event), c \in Seq(Event), d \in Seq(Event)
  <1>1. a \o b \in Seq(Event)
    BY ConcatProperties
  <1> QED BY <1>1, RegroupedThree

-------------------------------------------------------------------------------
(* on_tool_start(), one part of its events after the other.                *)

Called(tool) == <<Tracked("chain_end", "WorkerAgent"), Tracked("tool_call", tool)>>
Boots(tool) == mode = "real" /\ tool = "run_mace_ensemble" /\ engines["aggregator"] = None
BootEvents(tool) == IF Boots(tool) THEN <<Tracked("aggregator_prefetch_start", None)>> ELSE <<>>
Makes(tool, predicts) == Active /\ predicts /\ ~InConservative(step + 1, Judge(tool).until)
MadeEvents(tool, predicts) ==
    IF Makes(tool, predicts)
    THEN <<PredictionResult(step + 1, "mace_model"), CheckpointCreated(step + 1)>> ELSE <<>>
Ahead(tool, predicts, admitted) ==
    IF Makes(tool, predicts)
    THEN Schedule(Judge(tool).tasks, "mace_model", step + 1, admitted, pace.mace)
    ELSE <<Judge(tool).tasks, <<>>>>

AtCall(tool) == (events \o Called(tool)) \o BootEvents(tool)
AtVerdict(tool) == AtCall(tool) \o Judge(tool).events
AtPrediction(tool, predicts) == AtVerdict(tool) \o MadeEvents(tool, predicts)

\* The tasks and the events after a prediction, if one was made.
AheadTells(tool, predicts, r) ==
    /\ Fresh(r[2], {"prefetch_decision", "prefetch_started"})
    /\ mode # "real" => r[1] = Judge(tool).tasks /\ r[2] = <<>>
    /\ DOMAIN Judge(tool).tasks \subseteq DOMAIN r[1]
    /\ \A k \in DOMAIN Judge(tool).tasks : r[1][k] = Judge(tool).tasks[k]
    /\ \A k \in DOMAIN r[1] \ DOMAIN Judge(tool).tasks :
          /\ Makes(tool, predicts)
          /\ r[1][k].rid = "mace_model" /\ r[1][k].ckpt = step + 1 /\ r[1][k].started = clock
          /\ r[1][k].lands = clock + pace.mace /\ r[1][k].status = "in_progress"
          /\ r[1][k].consumed = None /\ ~r[1][k].reported

ToolTells(tool, predicts, admitted) ==
    /\ AtCall(tool) \in Seq(Event)
    /\ AtVerdict(tool) \in Seq(Event) /\ AtPrediction(tool, predicts) \in Seq(Event)
    /\ events' = AtPrediction(tool, predicts) \o Ahead(tool, predicts, admitted)[2]
    /\ tasks' = Ahead(tool, predicts, admitted)[1]
    /\ Fresh(Called(tool), {"chain_end", "tool_call"})
    /\ Fresh(BootEvents(tool), {"aggregator_prefetch_start"})
    /\ Judged(tool, Judge(tool))
    /\ Fresh(MadeEvents(tool, predicts), {"prediction_result", "checkpoint_created"})
    /\ AheadTells(tool, predicts, Ahead(tool, predicts, admitted))
    /\ Kept(events', tasks')

LEMMA ToolStartsTells ==
  ASSUME Typed, Kept(events, tasks), NEW tool \in Tool, NEW predicts \in BOOLEAN,
         NEW admitted \in BOOLEAN, ToolStarts(tool, predicts, admitted)
  PROVE  ToolTells(tool, predicts, admitted)
  <1> DEFINE j == Judge(tool)
             r == Ahead(tool, predicts, admitted)
  <1>1. /\ clock \in Nat /\ step \in Nat /\ step + 1 \in Nat /\ pace \in Paces
        /\ pace.mace \in Nat \ {0} /\ events \in Seq(Event)
    BY PaceType DEF Typed, Kept
  <1>2. Fresh(Called(tool), {"chain_end", "tool_call"})
    <2> DEFINE d == Tracked("chain_end", "WorkerAgent")
               e == Tracked("tool_call", tool)
    <2>1. d \in Event /\ e \in Event
      BY <1>1, TrackedWritten DEF Node
    <2>2. d.type = "chain_end" /\ d.at = clock /\ e.type = "tool_call" /\ e.at = clock
      BY DEF Tracked
    <2>3. Called(tool) = <<d, e>>
      BY DEF Called
    <2> HIDE DEF d, e
    <2> QED BY <2>1, <2>2, <2>3, FreshTwo
  <1>3. Fresh(BootEvents(tool), {"aggregator_prefetch_start"})
    <2> DEFINE e == Tracked("aggregator_prefetch_start", None)
    <2>1. e \in Event
      BY <1>1, TrackedWritten
    <2>2. e.type = "aggregator_prefetch_start" /\ e.at = clock
      BY DEF Tracked
    <2>3. BootEvents(tool) = <<e>> \/ BootEvents(tool) = <<>>
      BY DEF BootEvents
    <2> HIDE DEF e
    <2>4. Fresh(<<e>>, {"aggregator_prefetch_start"})
      BY <2>1, <2>2, FreshOne
    <2> QED BY <2>3, <2>4, FreshNone
  <1>4. Fresh(MadeEvents(tool, predicts), {"prediction_result", "checkpoint_created"})
    <2> DEFINE d == PredictionResult(step + 1, "mace_model")
               e == CheckpointCreated(step + 1)
    <2>1. d \in Event /\ e \in Event
      BY <1>1, GuardEventsWritten DEF Resource
    <2>2. d.type = "prediction_result" /\ d.at = clock /\ e.type = "checkpoint_created" /\ e.at = clock
      BY DEF PredictionResult, CheckpointCreated
    <2>3. MadeEvents(tool, predicts) = <<d, e>> \/ MadeEvents(tool, predicts) = <<>>
      BY DEF MadeEvents
    <2> HIDE DEF d, e
    <2>4. Fresh(<<d, e>>, {"prediction_result", "checkpoint_created"})
      BY <2>1, <2>2, FreshTwo
    <2> QED BY <2>3, <2>4, FreshNone
  <1>5. /\ Fresh(Called(tool), EventType \ TaskTypes) /\ Fresh(BootEvents(tool), EventType \ TaskTypes)
        /\ Fresh(MadeEvents(tool, predicts), EventType \ TaskTypes)
    <2>1. /\ {"chain_end", "tool_call"} \subseteq EventType \ TaskTypes
          /\ {"aggregator_prefetch_start"} \subseteq EventType \ TaskTypes
          /\ {"prediction_result", "checkpoint_created"} \subseteq EventType \ TaskTypes
      BY DEF EventType, TaskTypes
    <2> QED BY <1>2, <1>3, <1>4, <2>1, FreshMore
  <1>6. Kept(events \o Called(tool), tasks)
    BY <1>5, KeptQuiet
  <1>7. Kept(AtCall(tool), tasks)
    BY <1>5, <1>6, KeptQuiet DEF AtCall
  <1>8. Judged(tool, j) /\ Kept(AtVerdict(tool), j.tasks)
    BY <1>7, JudgeTells DEF AtVerdict
  <1>9. Kept(AtPrediction(tool, predicts), j.tasks)
    BY <1>5, <1>8, KeptQuiet DEF AtPrediction
  <1> DEFINE pred == AtPrediction(tool, predicts)
             ts == j.tasks
  <1> HIDE DEF j, pred, ts
  <1>10. AheadTells(tool, predicts, r) /\ Kept(pred \o r[2], r[1])
    <2>1. CASE Makes(tool, predicts)
      <3>1. r = Schedule(ts, "mace_model", step + 1, admitted, pace.mace)
        BY <2>1 DEF Ahead, ts, j
      <3>2. Kept(pred, ts) /\ "mace_model" \in Resource
        BY <1>9 DEF pred, ts, Resource
      <3>3. Scheduled(ts, "mace_model", step + 1, pace.mace, r) /\ Kept(pred \o r[2], r[1])
        BY <1>1, <3>1, <3>2, ScheduleTells
      <3> HIDE DEF r
      <3>4. /\ r[2] \in Seq(Event) /\ Now(r[2])
            /\ Quiet(r[2], EventType \ {"prefetch_decision", "prefetch_started"})
        BY <3>3 DEF Scheduled
      <3>5. Fresh(r[2], {"prefetch_decision", "prefetch_started"})
        BY <3>4, FreshCall
      <3> QED BY <2>1, <3>3, <3>5 DEF Scheduled, AheadTells, ts, j
    <2>2. CASE ~Makes(tool, predicts)
      <3>1. r = <<ts, <<>>>>
        BY <2>2 DEF Ahead, ts, j
      <3>2. r[1] = ts /\ r[2] = <<>>
        BY <3>1
      <3> HIDE DEF r
      <3>3. pred \in Seq(Event)
        BY <1>9 DEF Kept, pred
      <3>4. pred \o r[2] = pred
        BY <3>2, <3>3, ConcatEmptySeq
      <3> QED BY <1>9, <3>2, <3>4, FreshNone DEF AheadTells, ts, pred, j
    <2> QED BY <2>1, <2>2
  <1>11. /\ Called(tool) \in Seq(Event) /\ BootEvents(tool) \in Seq(Event) /\ j.events \in Seq(Event)
         /\ MadeEvents(tool, predicts) \in Seq(Event) /\ r[2] \in Seq(Event)
    BY <1>2, <1>3, <1>4, <1>8, <1>10 DEF Fresh, Judged, AheadTells, j
  <1>12. events' = events \o ((((Called(tool) \o BootEvents(tool)) \o j.events)
                                  \o MadeEvents(tool, predicts)) \o r[2])
         /\ tasks' = r[1]
    BY DEF ToolStarts, Emit, Called, BootEvents, Boots, MadeEvents, Makes, Ahead, j
  <1> HIDE DEF r
  <1>13. events' = pred \o r[2]
    <2> DEFINE a == Called(tool)
               b == BootEvents(tool)
               c == j.events
               d == MadeEvents(tool, predicts)
               e == r[2]
    <2> HIDE DEF a, b, c, d, e
    <2>1. /\ a \in Seq(Event) /\ b \in Seq(Event) /\ c \in Seq(Event) /\ d \in Seq(Event)
          /\ e \in Seq(Event) /\ events' = events \o ((((a \o b) \o c) \o d) \o e)
      BY <1>11, <1>12 DEF a, b, c, d, e
    <2>2. Groups(events, a, b, c) /\ Groups(events, (a \o b) \o c, d, e)
      <3>1. a \o b \in Seq(Event)
        BY <2>1, ConcatProperties
      <3> QED BY <1>1, <2>1, <3>1, RegroupedThree, RegroupedMore
    <2>3. events' = ((((events \o a) \o b) \o c) \o d) \o e
      BY <2>1, <2>2 DEF Groups
    <2> QED BY <2>3 DEF a, b, c, d, e, pred, AtPrediction, AtVerdict, AtCall, j
  <1>14. AtCall(tool) \in Seq(Event) /\ AtVerdict(tool) \in Seq(Event)
         /\ AtPrediction(tool, predicts) \in Seq(Event)
    BY <1>7, <1>8, <1>9 DEF Kept
  <1>15. events' = AtPrediction(tool, predicts) \o r[2]
    BY <1>13 DEF pred
  <1>16. Kept(events', tasks')
    BY <1>10, <1>12, <1>13
  <1> QED BY <1>2, <1>3, <1>4, <1>8, <1>10, <1>12, <1>14, <1>15, <1>16 DEF ToolTells, r, j

-------------------------------------------------------------------------------
(* The planner and the worker's gate.                                      *)

\* A handler of the planner: an event e, a prediction, and what it schedules.
Staged(e, rid, load) ==
    \E b, r :
        /\ Fresh(<<e>>, {e.type}) /\ Fresh(b, {"plan_extracted", "prediction_result"})
        /\ mode = "baseline" => b = <<>>
        /\ \A j \in DOMAIN b : b[j].type = "prediction_result" => b[j].rid = rid /\ b[j].step = 0
        /\ \A i \in DOMAIN b, j \in DOMAIN b :
              b[i].type = "prediction_result" /\ b[j].type = "prediction_result" => i = j
        /\ Scheduled(tasks, rid, 0, load, r)
        /\ Fresh(r[2], {"prefetch_decision", "prefetch_started"})
        /\ events' = ((events \o <<e>>) \o b) \o r[2] /\ tasks' = r[1]
        /\ Kept(events', tasks')

LEMMA StagedBy ==
  ASSUME Typed, Kept(events, tasks), NEW e \in Event, e.at = clock, e.type \notin TaskTypes,
         NEW b, Fresh(b, {"plan_extracted", "prediction_result"}), mode = "baseline" => b = <<>>,
         NEW rid \in Resource, NEW load \in Nat \ {0},
         \A j \in DOMAIN b : b[j].type = "prediction_result" => b[j].rid = rid /\ b[j].step = 0,
         \A i \in DOMAIN b, j \in DOMAIN b :
            b[i].type = "prediction_result" /\ b[j].type = "prediction_result" => i = j,
         NEW r, r = Schedule(tasks, rid, 0, TRUE, load),
         events' = events \o ((<<e>> \o b) \o r[2]), tasks' = r[1]
  PROVE  Staged(e, rid, load)
  <1> DEFINE one == <<e>>
  <1>1. clock \in Nat /\ events \in Seq(Event)
    BY DEF Typed, Kept
  <1>2. Fresh(one, {e.type}) /\ Fresh(one, EventType \ TaskTypes)
    BY TypeOfEvent, FreshOne
  <1> HIDE DEF one
  <1>3. Kept(events \o one, tasks)
    BY <1>2, KeptQuiet
  <1>4. Fresh(b, EventType \ TaskTypes)
    <2>1. {"plan_extracted", "prediction_result"} \subseteq EventType \ TaskTypes
      BY DEF EventType, TaskTypes
    <2> QED BY <2>1, FreshMore
  <1>5. Kept((events \o one) \o b, tasks)
    BY <1>3, <1>4, KeptQuiet
  <1>6. Scheduled(tasks, rid, 0, load, r) /\ Kept(((events \o one) \o b) \o r[2], r[1])
    BY <1>1, <1>5, ScheduleTells
  <1>7. /\ r[2] \in Seq(Event) /\ Now(r[2])
        /\ Quiet(r[2], EventType \ {"prefetch_decision", "prefetch_started"})
    BY <1>6 DEF Scheduled
  <1>8. Fresh(r[2], {"prefetch_decision", "prefetch_started"})
    BY <1>7, FreshCall
  <1>9. events' = ((events \o one) \o b) \o r[2]
    <2> DEFINE d == r[2]
    <2> HIDE DEF d
    <2>1. one \in Seq(Event) /\ b \in Seq(Event) /\ d \in Seq(Event)
          /\ events' = events \o ((one \o b) \o d)
      BY <1>2, <1>7 DEF Fresh, d, one
    <2>2. Groups(events, one, b, d)
      BY <1>1, <2>1, RegroupedThree
    <2>3. events' = ((events \o one) \o b) \o d
      BY <2>1, <2>2 DEF Groups
    <2> QED BY <2>3 DEF d
  <1>10. Kept(events', tasks')
    BY <1>6, <1>9
  <1>11. events' = ((events \o <<e>>) \o b) \o r[2] /\ Fresh(<<e>>, {e.type})
    BY <1>2, <1>9 DEF one
  <1> QED BY <1>6, <1>8, <1>10, <1>11 DEF Staged

LEMMA PlannerStartsTells ==
  ASSUME Typed, Kept(events, tasks), PlannerStarts
  PROVE  Staged(Tracked("chain_start", "PlannerAgent"), "model_cache", pace.cache)
  <1> DEFINE e == Tracked("chain_start", "PlannerAgent")
             d == PredictionResult(0, "model_cache")
             b == IF mode = "baseline" THEN <<>> ELSE <<d>>
             r == Schedule(tasks, "model_cache", 0, TRUE, pace.cache)
  <1>1. clock \in Nat /\ pace.cache \in Nat \ {0} /\ "model_cache" \in Resource
    BY PaceType DEF Typed, Resource
  <1>2. e \in Event /\ d \in Event
    BY <1>1, TrackedWritten, GuardEventsWritten DEF Node
  <1>3. /\ e.type = "chain_start" /\ e.at = clock /\ e.type \notin TaskTypes
        /\ d.type = "prediction_result" /\ d.at = clock /\ d.rid = "model_cache" /\ d.step = 0
    BY DEF Tracked, PredictionResult, TaskTypes
  <1>4. events' = events \o ((<<e>> \o b) \o r[2]) /\ tasks' = r[1]
    BY DEF PlannerStarts, Emit
  <1> HIDE DEF e, d, r
  <1>5. Fresh(<<d>>, {"plan_extracted", "prediction_result"})
    BY <1>2, <1>3, FreshOne
  <1>6. Fresh(b, {"plan_extracted", "prediction_result"})
    BY <1>5, FreshNone
  <1>7. mode = "baseline" => b = <<>>
    OBVIOUS
  <1>8. \A j \in DOMAIN b : b[j].rid = "model_cache" /\ b[j].step = 0
    BY <1>3
  <1>10. \A i \in DOMAIN b, j \in DOMAIN b : i = j
    OBVIOUS
  <1> HIDE DEF b
  <1>9. Staged(e, "model_cache", pace.cache)
    BY <1>1, <1>2, <1>3, <1>4, <1>6, <1>7, <1>8, <1>10, StagedBy DEF r
  <1> QED BY <1>9 DEF e

LEMMA PlannerEndsTells ==
  ASSUME Typed, Kept(events, tasks), PlannerEnds
  PROVE  Staged(Tracked("chain_end", "PlannerAgent"), "vllm_model", pace.worker)
  <1> DEFINE e == Tracked("chain_end", "PlannerAgent")
             p == Tracked("plan_extracted", None)
             d == PredictionResult(0, "vllm_model")
             b == IF mode = "baseline" THEN <<>> ELSE <<p, d>>
             r == Schedule(tasks, "vllm_model", 0, TRUE, pace.worker)
  <1>1. clock \in Nat /\ pace.worker \in Nat \ {0} /\ "vllm_model" \in Resource
    BY PaceType DEF Typed, Resource
  <1>2. e \in Event /\ d \in Event /\ p \in Event
    BY <1>1, TrackedWritten, GuardEventsWritten DEF Node
  <1>3. /\ e.type = "chain_end" /\ e.at = clock /\ e.type \notin TaskTypes
        /\ d.type = "prediction_result" /\ d.at = clock /\ d.rid = "vllm_model" /\ d.step = 0
        /\ p.type = "plan_extracted" /\ p.at = clock
    BY DEF Tracked, PredictionResult, TaskTypes
  <1>4. events' = events \o ((<<e>> \o b) \o r[2]) /\ tasks' = r[1]
    BY DEF PlannerEnds, Emit
  <1> HIDE DEF e, d, p, r
  <1>5. Fresh(<<p, d>>, {"plan_extracted", "prediction_result"})
    BY <1>2, <1>3, FreshTwo
  <1>6. Fresh(b, {"plan_extracted", "prediction_result"})
    BY <1>5, FreshNone
  <1>7. mode = "baseline" => b = <<>>
    OBVIOUS
  <1>8. \A j \in DOMAIN b : b[j].type = "prediction_result" =>
                                b[j].rid = "vllm_model" /\ b[j].step = 0
    BY <1>3
  <1>10. \A i \in DOMAIN b, j \in DOMAIN b :
            b[i].type = "prediction_result" /\ b[j].type = "prediction_result" => i = j
    BY <1>3
  <1> HIDE DEF b
  <1>9. Staged(e, "vllm_model", pace.worker)
    BY <1>1, <1>2, <1>3, <1>4, <1>6, <1>7, <1>8, <1>10, StagedBy DEF r
  <1> QED BY <1>9 DEF e

\* A resource is consumed, if something is to be.
Takes(p, ts, rid, r) ==
    /\ Fresh(r[2], {"resource_consumed"}) /\ \A j \in DOMAIN r[2] : r[2][j].rid = rid
    /\ SameTasks(ts, r[1])
    /\ ~p => r[1] = ts /\ r[2] = <<>>
    /\ \A k \in DOMAIN ts :
          /\ \/ r[1][k] = ts[k]
             \/ /\ ts[k].rid = rid /\ ts[k].status \in {"in_progress", "used"}
                /\ r[1][k].status = "used" /\ r[1][k].consumed = clock
          /\ p /\ IsLatest(k, ts, rid) /\ ts[k].status \in {"in_progress", "used"} =>
                r[1][k].status = "used" /\ r[1][k].consumed = clock

LEMMA TakesTells ==
  ASSUME clock \in Nat, NEW ev, NEW ts, Kept(ev, ts), NEW rid \in Resource, NEW p \in BOOLEAN, NEW r,
         r = IF p THEN Consume(ts, rid) ELSE <<ts, <<>>>>
  PROVE  Takes(p, ts, rid, r) /\ Kept(ev \o r[2], r[1])
  <1>1. CASE p
    <2>1. Consumed(ts, rid, r) /\ Kept(ev \o r[2], r[1])
      BY <1>1, ConsumeTells
    <2>2. r[2] \in Seq(Event) /\ Now(r[2]) /\ Quiet(r[2], EventType \ {"resource_consumed"})
      BY <2>1 DEF Consumed
    <2>3. Fresh(r[2], {"resource_consumed"})
      BY <2>2, FreshCall
    <2> QED BY <1>1, <2>1, <2>3 DEF Consumed, Takes, SameTasks
  <1>2. CASE ~p
    <2>1. r[1] = ts /\ r[2] = <<>> /\ ev \in Seq(Event)
      BY <1>2 DEF Kept
    <2>2. ev \o r[2] = ev
      BY <2>1, ConcatEmptySeq
    <2>3. Fresh(r[2], {"resource_consumed"}) /\ SameTasks(ts, r[1])
      BY <2>1, FreshNone DEF SameTasks, SameTask
    <2> QED BY <1>2, <2>1, <2>2, <2>3 DEF Takes
  <1> QED BY <1>1, <1>2

LEMMA LatestStays ==
  ASSUME NEW ts, NEW us, SameTasks(ts, us), NEW k, NEW rid, IsLatest(k, ts, rid)
  PROVE  IsLatest(k, us, rid)
  BY DEF SameTasks, SameTask, IsLatest

\* What was prefetched for the worker is consumed, unless nobody knows of it.
GateTells ==
    /\ \E c : /\ Fresh(c, {"resource_consumed"})
              /\ \A j \in DOMAIN c : c[j].rid \in {"model_cache", "vllm_model"}
              /\ events' = (events \o <<Tracked("chain_start", "WorkerAgent")>>) \o c
    /\ Fresh(<<Tracked("chain_start", "WorkerAgent")>>, {"chain_start"})
    /\ Kept(events', tasks') /\ SameTasks(tasks, tasks')
    /\ \A k \in DOMAIN tasks :
          /\ \/ tasks'[k] = tasks[k]
             \/ /\ tasks[k].rid \in {"model_cache", "vllm_model"}
                /\ tasks'[k].status = "used" /\ tasks'[k].consumed = clock
          /\ tasks[k].status \in {"in_progress", "used"}
             /\ (\/ IsLatest(k, tasks, "vllm_model")
                 \/ IsLatest(k, tasks, "model_cache") /\ mode # "baseline") =>
                tasks'[k].status = "used" /\ tasks'[k].consumed = clock

LEMMA WorkerGateTells ==
  ASSUME Typed, Kept(events, tasks), WorkerGate
  PROVE  GateTells
  <1> DEFINE e == Tracked("chain_start", "WorkerAgent")
             one == <<e>>
             demand == engines["worker"] = None
             known == mode # "baseline"
             r1 == IF known /\ demand THEN Consume(tasks, "model_cache") ELSE <<tasks, <<>>>>
             r2 == IF TRUE THEN Consume(r1[1], "vllm_model") ELSE <<r1[1], <<>>>>
             r3 == IF known /\ ~demand THEN Consume(r2[1], "model_cache") ELSE <<r2[1], <<>>>>
             c1 == r1[2]
             c2 == r2[2]
             c3 == r3[2]
  <1>1. /\ clock \in Nat /\ events \in Seq(Event)
        /\ "vllm_model" \in Resource /\ "model_cache" \in Resource
    BY DEF Typed, Kept, Resource
  <1>2. e \in Event
    BY <1>1, TrackedWritten DEF Node
  <1>3. e.type = "chain_start" /\ e.at = clock
    BY DEF Tracked
  <1>4. events' = events \o (((one \o c1) \o c2) \o c3) /\ tasks' = r3[1]
    BY DEF WorkerGate, Emit
  <1>5. known \in BOOLEAN /\ demand \in BOOLEAN
    OBVIOUS
  <1> HIDE DEF e, demand, known
  <1>6. Fresh(one, {"chain_start"}) /\ Fresh(one, EventType \ TaskTypes)
    BY <1>2, <1>3, FreshOne DEF EventType, TaskTypes
  <1> HIDE DEF one
  <1>7. Kept(events \o one, tasks)
    BY <1>6, KeptQuiet
  <1>8. /\ r1 = IF (known /\ demand) THEN Consume(tasks, "model_cache") ELSE <<tasks, <<>>>>
        /\ r2 = IF TRUE THEN Consume(r1[1], "vllm_model") ELSE <<r1[1], <<>>>>
        /\ r3 = IF (known /\ ~demand) THEN Consume(r2[1], "model_cache") ELSE <<r2[1], <<>>>>
    OBVIOUS
  <1> HIDE DEF r1, r2, r3
  <1>9. Takes((known /\ demand), tasks, "model_cache", r1) /\ Kept((events \o one) \o c1, r1[1])
    BY <1>1, <1>5, <1>7, <1>8, TakesTells
  <1>10. Takes(TRUE, r1[1], "vllm_model", r2) /\ Kept(((events \o one) \o c1) \o c2, r2[1])
    BY <1>1, <1>8, <1>9, TakesTells
  <1>11. /\ Takes((known /\ ~demand), r2[1], "model_cache", r3)
         /\ Kept((((events \o one) \o c1) \o c2) \o c3, r3[1])
    BY <1>1, <1>5, <1>8, <1>10, TakesTells
  <1>12. /\ Fresh(c1, {"resource_consumed"}) /\ \A j \in DOMAIN c1 : c1[j].rid = "model_cache"
         /\ Fresh(c2, {"resource_consumed"}) /\ \A j \in DOMAIN c2 : c2[j].rid = "vllm_model"
         /\ Fresh(c3, {"resource_consumed"}) /\ \A j \in DOMAIN c3 : c3[j].rid = "model_cache"
    BY <1>9, <1>10, <1>11 DEF Takes
  <1>13. c1 \in Seq(Event) /\ c2 \in Seq(Event) /\ c3 \in Seq(Event) /\ one \in Seq(Event)
    BY <1>6, <1>12 DEF Fresh
  <1> DEFINE c == (c1 \o c2) \o c3
             rids(new) == \A j \in DOMAIN new : new[j].rid \in {"model_cache", "vllm_model"}
  <1> HIDE DEF c1, c2, c3
  <1>14. /\ events' = (((events \o one) \o c1) \o c2) \o c3
         /\ events' = (events \o one) \o c
    <2> DEFINE x == (one \o c1) \o c2
               s == events \o one
    <2>1. Groups(events, one, c1, c2)
      BY <1>1, <1>13, RegroupedThree
    <2>2. one \o c1 \in Seq(Event)
      BY <1>13, ConcatProperties
    <2>3. x \in Seq(Event) /\ s \in Seq(Event)
      BY <1>1, <1>13, <2>2, ConcatProperties
    <2>4. events \o x = ((events \o one) \o c1) \o c2
      BY <2>1 DEF Groups
    <2>5. events' = events \o (x \o c3)
      BY <1>4
    <2> HIDE DEF x
    <2>6. events \o (x \o c3) = (events \o x) \o c3
      BY <1>1, <1>13, <2>3, RegroupedTwo
    <2>7. events' = (((events \o one) \o c1) \o c2) \o c3
      BY <2>4, <2>5, <2>6
    <2> HIDE DEF s
    <2>8. Groups(s, c1, c2, c3)
      BY <1>13, <2>3, RegroupedThree
    <2> QED BY <2>7, <2>8 DEF Groups, s
  <1>15. Fresh(c, {"resource_consumed"}) /\ rids(c)
    <2>1. Fresh(c1 \o c2, {"resource_consumed"}) /\ rids(c1 \o c2)
      <3>1. Fresh(c1 \o c2, {"resource_consumed"})
        BY <1>12, FreshJoin DEF c1, c2, c3
      <3>2. \A i \in DOMAIN (c1 \o c2) :
              \/ i \in DOMAIN c1 /\ (c1 \o c2)[i] = c1[i]
              \/ i - Len(c1) \in DOMAIN c2 /\ (c1 \o c2)[i] = c2[i - Len(c1)]
        BY <1>13, Longer
      <3>3. rids(c1) /\ rids(c2)
        BY <1>12 DEF c1, c2, c3
      <3> QED BY <3>1, <3>2, <3>3
    <2> DEFINE d == c1 \o c2
    <2>2. Fresh(d, {"resource_consumed"}) /\ rids(d)
      BY <2>1
    <2> HIDE DEF d
    <2>3. Fresh(d \o c3, {"resource_consumed"})
      BY <1>12, <2>2, FreshJoin DEF c1, c2, c3
    <2>4. d \in Seq(Event)
      BY <2>2 DEF Fresh
    <2>5. \A i \in DOMAIN (d \o c3) :
              \/ i \in DOMAIN d /\ (d \o c3)[i] = d[i]
              \/ i - Len(d) \in DOMAIN c3 /\ (d \o c3)[i] = c3[i - Len(d)]
      BY <1>13, <2>4, Longer
    <2>6. rids(c3)
      BY <1>12 DEF c1, c2, c3
    <2>7. rids(d \o c3)
      BY <2>2, <2>5, <2>6
    <2> QED BY <2>3, <2>7 DEF d
  <1>16. Kept(events', tasks')
    BY <1>4, <1>11, <1>14 DEF c1, c2, c3
  <1>17. SameTasks(tasks, r1[1]) /\ SameTasks(r1[1], r2[1]) /\ SameTasks(r2[1], r3[1])
    BY <1>9, <1>10, <1>11 DEF Takes
  <1>18. SameTasks(tasks, tasks')
    BY <1>4, <1>17 DEF SameTasks, SameTask
  <1>19. ASSUME NEW k \in DOMAIN tasks
         PROVE  /\ \/ tasks'[k] = tasks[k]
                   \/ /\ tasks[k].rid \in {"model_cache", "vllm_model"}
                      /\ tasks'[k].status = "used" /\ tasks'[k].consumed = clock
                /\ tasks[k].status \in {"in_progress", "used"}
                   /\ (\/ IsLatest(k, tasks, "vllm_model")
                       \/ IsLatest(k, tasks, "model_cache") /\ mode # "baseline") =>
                      tasks'[k].status = "used" /\ tasks'[k].consumed = clock
    <2>1. k \in DOMAIN r1[1] /\ k \in DOMAIN r2[1] /\ r1[1][k].rid = tasks[k].rid
          /\ r2[1][k].rid = tasks[k].rid
      BY <1>17 DEF SameTasks, SameTask
    <2>2. /\ \/ r1[1][k] = tasks[k]
             \/ /\ tasks[k].rid = "model_cache" /\ r1[1][k].status = "used"
                /\ r1[1][k].consumed = clock
          /\ known /\ demand /\ IsLatest(k, tasks, "model_cache")
                /\ tasks[k].status \in {"in_progress", "used"} =>
                r1[1][k].status = "used" /\ r1[1][k].consumed = clock
      BY <1>9 DEF Takes
    <2>3. /\ \/ r2[1][k] = r1[1][k]
             \/ /\ tasks[k].rid = "vllm_model" /\ r2[1][k].status = "used"
                /\ r2[1][k].consumed = clock
          /\ IsLatest(k, r1[1], "vllm_model") /\ r1[1][k].status \in {"in_progress", "used"} =>
                r2[1][k].status = "used" /\ r2[1][k].consumed = clock
      BY <1>10, <2>1 DEF Takes
    <2>4. /\ \/ r3[1][k] = r2[1][k]
             \/ /\ tasks[k].rid = "model_cache" /\ r3[1][k].status = "used"
                /\ r3[1][k].consumed = clock
          /\ known /\ ~demand /\ IsLatest(k, r2[1], "model_cache")
                /\ r2[1][k].status \in {"in_progress", "used"} =>
                r3[1][k].status = "used" /\ r3[1][k].consumed = clock
      BY <1>11, <2>1 DEF Takes
    <2>5. \A rid : IsLatest(k, tasks, rid) => IsLatest(k, r1[1], rid) /\ IsLatest(k, r2[1], rid)
      BY <1>17, LatestStays
    <2>0. k # 0
      BY LenProperties DEF Kept, TasksTyped
    <2>6. IsLatest(k, tasks, "vllm_model") => tasks[k].rid = "vllm_model"
      BY <2>0 DEF IsLatest
    <2>7. IsLatest(k, tasks, "model_cache") => tasks[k].rid = "model_cache"
      BY <2>0 DEF IsLatest
    <2>8. \/ tasks'[k] = tasks[k]
          \/ /\ tasks[k].rid \in {"model_cache", "vllm_model"}
             /\ tasks'[k].status = "used" /\ tasks'[k].consumed = clock
      BY <1>4, <2>2, <2>3, <2>4
    <2>9. ASSUME tasks[k].status \in {"in_progress", "used"}, IsLatest(k, tasks, "vllm_model")
          PROVE  tasks'[k].status = "used" /\ tasks'[k].consumed = clock
      BY <1>4, <2>2, <2>3, <2>4, <2>5, <2>6, <2>9
    <2>10. ASSUME tasks[k].status \in {"in_progress", "used"}, IsLatest(k, tasks, "model_cache"),
                  mode # "baseline"
           PROVE  tasks'[k].status = "used" /\ tasks'[k].consumed = clock
      BY <1>4, <2>2, <2>3, <2>4, <2>5, <2>7, <2>10 DEF known, demand
    <2> QED BY <2>8, <2>9, <2>10
  <1>20. Fresh(<<Tracked("chain_start", "WorkerAgent")>>, {"chain_start"})
         /\ events' = (events \o <<Tracked("chain_start", "WorkerAgent")>>) \o c
    BY <1>6, <1>14 DEF one, e
  <1> HIDE DEF c
  <1> QED BY <1>15, <1>16, <1>18, <1>19, <1>20 DEF GateTells

-------------------------------------------------------------------------------
(* The other steps append an event or two.                                 *)

LEMMA SimpleTells ==
  ASSUME Typed, Stamped
  PROVE  /\ WorkerReady => Grew({"worker_swap_wait"})
         /\ AggregatorReady => Grew({"aggregator_swap_wait"})
         /\ \A k \in DOMAIN tasks : TakesCalculator(k) => Grew({"mace_load"})
         /\ LoadedItself => Grew({"mace_load"})
         /\ ToolEnds => Grew({"tool_end", "chain_start"})
         /\ AggregatorGate => Grew({"chain_end", "chain_start"})
         /\ RunEnds => Grew({"chain_end"})
         /\ (LoadsItself \/ Tick) => events' = events
  <1>1. clock \in Nat /\ since \in Nat /\ onDemand \in BOOLEAN /\ events \in Seq(Event)
        /\ clock - since \in Int
    BY DEF Typed, Stamped
  <1>2. ASSUME WorkerReady PROVE Grew({"worker_swap_wait"})
    <2> DEFINE e == SwapWait("worker")
    <2>1. e \in Event
      BY <1>1, WaitsWritten DEF Gate
    <2>2. e.type = "worker_swap_wait" /\ e.at = clock
      BY DEF SwapWait
    <2>3. events' = events \o <<e>> \/ events' = events \o <<>>
      BY <1>2 DEF WorkerReady, Emit
    <2> HIDE DEF e
    <2> QED BY <2>1, <2>2, <2>3, FreshOne, FreshNone DEF Grew
  <1>3. ASSUME AggregatorReady PROVE Grew({"aggregator_swap_wait"})
    <2> DEFINE e == SwapWait("aggregator")
    <2>1. e \in Event
      BY <1>1, WaitsWritten DEF Gate
    <2>2. e.type = "aggregator_swap_wait" /\ e.at = clock
      BY DEF SwapWait
    <2>3. events' = events \o <<e>>
      BY <1>3 DEF AggregatorReady, Emit
    <2> HIDE DEF e
    <2> QED BY <2>1, <2>2, <2>3, FreshOne DEF Grew
  <1>4. ASSUME NEW source \in {"prefetch_cache", "disk"}, HasCalculator(source)
        PROVE  Grew({"mace_load"})
    <2> DEFINE e == Timed("mace_load", source, clock - since)
    <2>1. e \in Event
      BY <1>1, TrackedWritten
    <2>2. e.type = "mace_load" /\ e.at = clock
      BY DEF Timed
    <2>3. events' = events \o <<e>>
      BY <1>4 DEF HasCalculator, Emit
    <2> HIDE DEF e
    <2> QED BY <2>1, <2>2, <2>3, FreshOne DEF Grew
  <1>5. /\ \A k \in DOMAIN tasks : TakesCalculator(k) => HasCalculator("prefetch_cache")
        /\ LoadedItself => HasCalculator("disk")
    BY DEF TakesCalculator, LoadedItself
  <1>6. ASSUME ToolEnds PROVE Grew({"tool_end", "chain_start"})
    <2> DEFINE d == Timed("tool_end", None, clock - since)
               e == Tracked("chain_start", "WorkerAgent")
    <2>1. d \in Event /\ e \in Event
      BY <1>1, TrackedWritten DEF Node
    <2>2. d.type = "tool_end" /\ d.at = clock /\ e.type = "chain_start" /\ e.at = clock
      BY DEF Timed, Tracked
    <2>3. events' = events \o <<d, e>>
      BY <1>6 DEF ToolEnds, Emit
    <2> HIDE DEF d, e
    <2>4. Fresh(<<d, e>>, {"tool_end", "chain_start"})
      BY <2>1, <2>2, FreshTwo
    <2> QED BY <2>3, <2>4 DEF Grew
  <1>7. ASSUME AggregatorGate PROVE Grew({"chain_end", "chain_start"})
    <2> DEFINE d == Tracked("chain_end", "WorkerAgent")
               e == Tracked("chain_start", "AggregatorAgent")
    <2>1. d \in Event /\ e \in Event
      BY <1>1, TrackedWritten DEF Node
    <2>2. d.type = "chain_end" /\ d.at = clock /\ e.type = "chain_start" /\ e.at = clock
      BY DEF Tracked
    <2>3. events' = events \o <<d, e>>
      BY <1>7 DEF AggregatorGate, Emit
    <2> HIDE DEF d, e
    <2>4. Fresh(<<d, e>>, {"chain_end", "chain_start"})
      BY <2>1, <2>2, FreshTwo
    <2> QED BY <2>3, <2>4 DEF Grew
  <1>8. ASSUME RunEnds PROVE Grew({"chain_end"})
    <2> DEFINE e == Tracked("chain_end", "AggregatorAgent")
    <2>1. e \in Event
      BY <1>1, TrackedWritten DEF Node
    <2>2. e.type = "chain_end" /\ e.at = clock
      BY DEF Tracked
    <2>3. events' = events \o <<e>>
      BY <1>8 DEF RunEnds, Emit
    <2> HIDE DEF e
    <2> QED BY <2>1, <2>2, <2>3, FreshOne DEF Grew
  <1>9. (LoadsItself \/ Tick) => events' = events
    BY DEF LoadsItself, Tick
  <1> QED BY <1>2, <1>3, <1>4, <1>5, <1>6, <1>7, <1>8, <1>9

\* Steps that leave the tasks alone.
Apart ==
    \/ WorkerReady \/ AggregatorReady \/ (\E k \in DOMAIN tasks : TakesCalculator(k))
    \/ LoadsItself \/ LoadedItself \/ ToolEnds \/ AggregatorGate \/ RunEnds

LEMMA ApartTells ==
  ASSUME Typed, Stamped, Apart
  PROVE  /\ Grew({"worker_swap_wait", "aggregator_swap_wait", "mace_load", "tool_end", "chain_start",
                  "chain_end"})
         /\ tasks' = tasks /\ UNCHANGED <<clock, mode, pace>>
  <1> DEFINE types == {"worker_swap_wait", "aggregator_swap_wait", "mace_load", "tool_end",
                       "chain_start", "chain_end"}
  <1>1. ASSUME NEW some, some \subseteq types, Grew(some)
        PROVE  Grew(types)
    <2>1. PICK new : Fresh(new, some) /\ events' = events \o new
      BY <1>1 DEF Grew
    <2> HIDE DEF types
    <2>2. Fresh(new, types)
      BY <1>1, <2>1, FreshMore
    <2> QED BY <2>1, <2>2 DEF Grew
  <1>2. ASSUME events' = events
        PROVE  Grew(types)
    <2>1. events' = events \o <<>>
      BY <1>2, ConcatEmptySeq DEF Stamped
    <2> QED BY <2>1, FreshNone DEF Grew
  <1>3. tasks' = tasks /\ UNCHANGED <<clock, mode, pace>>
    BY DEF Apart, WorkerReady, AggregatorReady, TakesCalculator, LoadsItself, LoadedItself, ToolEnds,
           AggregatorGate, RunEnds, HasCalculator, script
  <1>4. Grew(types)
    <2>1. \/ Grew({"worker_swap_wait"}) \/ Grew({"aggregator_swap_wait"}) \/ Grew({"mace_load"})
          \/ Grew({"tool_end", "chain_start"}) \/ Grew({"chain_end", "chain_start"})
          \/ Grew({"chain_end"}) \/ events' = events
      BY SimpleTells DEF Apart
    <2> QED BY <1>1, <1>2, <2>1
  <1> QED BY <1>3, <1>4

\* The poll thread reports a task.
ReportTells(k) ==
    /\ events' = events \o <<PrefetchCompleted(k, Elapsed(tasks[k]))>>
    /\ Fresh(<<PrefetchCompleted(k, Elapsed(tasks[k]))>>, {"prefetch_completed"})
    /\ \A x \in DOMAIN tasks : /\ tasks'[x].rid = tasks[x].rid /\ tasks'[x].ckpt = tasks[x].ckpt
                               /\ tasks'[x].started = tasks[x].started
                               /\ tasks'[x].lands = tasks[x].lands
                               /\ tasks'[x].status = tasks[x].status
                               /\ tasks'[x].consumed = tasks[x].consumed
                               /\ tasks'[x].reported = (x = k \/ tasks[x].reported)
    /\ DOMAIN tasks' = DOMAIN tasks /\ Kept(events', tasks')
    /\ UNCHANGED <<clock, mode, pace>>

LEMMA PollReportsTells ==
  ASSUME Typed, Kept(events, tasks), LagsMet, NEW k \in DOMAIN tasks, PollReports(k)
  PROVE  ReportTells(k)
  <1> DEFINE e == PrefetchCompleted(k, Elapsed(tasks[k]))
             u == [tasks[k] EXCEPT !.reported = TRUE]
  <1>1. /\ clock \in Nat /\ events \in Seq(Event) /\ tasks \in Seq(Task)
        /\ TaskLog(events, tasks, pace.lag) /\ TasksTyped(tasks, clock) /\ DOMAIN tasks = 1 .. Len(tasks)
    BY DEF Typed, Kept, TasksTyped
  <1>2. /\ tasks[k] \in Task /\ k \in Nat /\ k # 0
    BY <1>1, ElementOfSeq
  <1>3. /\ tasks[k].lands \in Nat /\ tasks[k].started \in Nat /\ pace.lag \in Nat
        /\ ~tasks[k].reported
    BY <1>2, PaceType DEF Task, Typed, PollReports, Due
  <1>4. clock = tasks[k].lands + pace.lag
    <2>1. tasks[k].lands + pace.lag <= clock /\ clock <= tasks[k].lands + pace.lag
      BY <1>3 DEF PollReports, Due, LagsMet
    <2> QED BY <1>1, <1>3, <2>1
  <1>5. e \in Event
    BY <1>1, <1>2, <1>3, TaskEventsWritten DEF Elapsed
  <1>6. /\ e.type = "prefetch_completed" /\ e.at = clock /\ e.task = k
        /\ e.elapsed = tasks[k].lands - tasks[k].started
    BY DEF PrefetchCompleted, Elapsed
  <1>7. /\ u \in Task /\ u.rid = tasks[k].rid /\ u.ckpt = tasks[k].ckpt /\ u.started = tasks[k].started
        /\ u.lands = tasks[k].lands /\ u.status = tasks[k].status
        /\ u.consumed = tasks[k].consumed /\ u.reported = TRUE
    BY <1>2 DEF Task
  <1>8. events' = events \o <<e>> /\ tasks' = [tasks EXCEPT ![k] = u]
        /\ UNCHANGED <<clock, mode, pace>>
    BY DEF PollReports, Emit, script
  <1> HIDE DEF e, u
  <1>10. /\ tasks' \in Seq(Task) /\ DOMAIN tasks' = DOMAIN tasks /\ tasks'[k] = u
         /\ \A x \in DOMAIN tasks : x # k => tasks'[x] = tasks[x]
    BY <1>1, <1>7, <1>8, ExceptSeq
  <1>11. Fresh(<<e>>, {"prefetch_completed"})
    BY <1>5, <1>6, FreshOne
  <1>12. Added(events, events \o <<e>>, e)
    BY <1>1, <1>5, OneAdded
  <1>13. AddedAt(Len(events) + 1, events, events \o <<e>>, e)
    BY <1>1, <1>12, AddedTasks
  <1>14. Touched(tasks, tasks', k)
    BY <1>7, <1>10 DEF Touched
  <1>15. TaskLog(events \o <<e>>, tasks', pace.lag)
    <2>1. /\ tasks'[k].reported /\ tasks'[k].status = tasks[k].status
          /\ tasks'[k].consumed = tasks[k].consumed /\ e.at = tasks[k].lands + pace.lag
      BY <1>4, <1>6, <1>7, <1>10
    <2> DEFINE us == tasks'
    <2> HIDE DEF us
    <2>2. TaskLog(events \o <<e>>, us, pace.lag)
      BY <1>1, <1>6, <1>13, <1>14, <2>1, EndLogged DEF us
    <2> QED BY <2>2 DEF us
  <1>16. \A x \in DOMAIN tasks : /\ tasks'[x].rid = tasks[x].rid /\ tasks'[x].ckpt = tasks[x].ckpt
                                 /\ tasks'[x].started = tasks[x].started
                                 /\ tasks'[x].lands = tasks[x].lands
                                 /\ tasks'[x].status = tasks[x].status
                                 /\ tasks'[x].consumed = tasks[x].consumed
                                 /\ tasks'[x].reported = (x = k \/ tasks[x].reported)
    <2> TAKE x \in DOMAIN tasks
    <2>1. CASE x = k
      BY <1>7, <1>10, <2>1
    <2>2. CASE x # k
      <3>1. tasks[x] \in Task
        BY <1>1, ElementOfSeq
      <3>2. tasks[x].reported \in BOOLEAN
        BY <3>1 DEF Task
      <3> QED BY <1>10, <2>2, <3>2
    <2> QED BY <2>1, <2>2
  <1>17. TasksTyped(tasks', clock)
    BY <1>1, <1>10, <1>16 DEF TasksTyped
  <1>18. events \o <<e>> \in Seq(Event)
    BY <1>12 DEF Added
  <1>19. Kept(events', tasks')
    BY <1>8, <1>15, <1>17, <1>18 DEF Kept
  <1> QED BY <1>8, <1>10, <1>11, <1>16, <1>19 DEF ReportTells, e

-------------------------------------------------------------------------------
(* Type correctness.                                                       *)

LEMMA PrimesOfKept ==
  ASSUME Kept(events', tasks'), clock' = clock, pace' = pace
  PROVE  Kept(events, tasks)'
  BY DEF Kept

LEMMA TypedPlanner ==
  ASSUME Typed, Kept(events, tasks), PlannerStarts \/ PlannerEnds
  PROVE  Typed'
  <1>1. \E e, rid, load : Staged(e, rid, load)
    BY PlannerStartsTells, PlannerEndsTells
  <1>2. DOMAIN tasks \subseteq DOMAIN tasks'
    BY <1>1 DEF Staged, Scheduled
  <1>3. clock \in Nat /\ pace.plan \in Nat /\ pace.worker \in Nat
    BY PaceType DEF Typed
  <1>4. CASE PlannerStarts
    <2>1. /\ pc' = "planner" /\ busy' = clock + pace.plan
          /\ UNCHANGED <<mode, pace, clock, step, engines, since, onDemand, pending, until, taken,
                         thought, needs>>
      BY <1>4 DEF PlannerStarts, Enter, script
    <2> QED BY <1>2, <1>3, <2>1 DEF Typed, Activity
  <1>5. CASE PlannerEnds
    <2>1. engines' \in [Gate -> Nat \cup {None}]
      <3>1. (IF mode = "real" THEN clock + pace.worker ELSE None) \in Nat \cup {None}
        BY <1>3
      <3> DEFINE at == IF mode = "real" THEN clock + pace.worker ELSE None
      <3>2. engines' = [engines EXCEPT !["worker"] = at]
        BY <1>5 DEF PlannerEnds
      <3> HIDE DEF at
      <3> QED BY <3>1, <3>2 DEF Typed, at
    <2>2. /\ pc' = "planned" /\ busy' = clock + 0
          /\ UNCHANGED <<mode, pace, clock, step, since, onDemand, pending, until, taken,
                         thought, needs>>
      BY <1>5 DEF PlannerEnds, Enter, script
    <2> QED BY <1>2, <1>3, <2>1, <2>2 DEF Typed, Activity
  <1> QED BY <1>4, <1>5

LEMMA TypedGates ==
  ASSUME Typed, Kept(events, tasks), WorkerGate \/ AggregatorGate
  PROVE  Typed'
  <1>1. clock \in Nat /\ pace.worker \in Nat /\ pace.aggregator \in Nat
    BY PaceType DEF Typed
  <1>2. CASE WorkerGate
    <2>1. DOMAIN tasks' = DOMAIN tasks
      BY <1>2, WorkerGateTells DEF GateTells, SameTasks
    <2>2. engines' \in [Gate -> Nat \cup {None}]
      <3>1. engines' = engines \/ engines' = [engines EXCEPT !["worker"] = clock + pace.worker]
        BY <1>2 DEF WorkerGate
      <3>2. clock + pace.worker \in Nat \cup {None}
        BY <1>1
      <3> QED BY <3>1, <3>2 DEF Typed
    <2>3. onDemand' \in BOOLEAN /\ since' = clock
      BY <1>2 DEF WorkerGate
    <2> QED BY <1>1, <1>2, <2>1, <2>2, <2>3 DEF WorkerGate, Leave, Enter, Typed, script, Activity
  <1>3. CASE AggregatorGate
    <2>2. engines' \in [Gate -> Nat \cup {None}]
      <3>1. engines' = engines
            \/ engines' = [engines EXCEPT !["aggregator"] = clock + pace.aggregator]
        BY <1>3 DEF AggregatorGate
      <3>2. clock + pace.aggregator \in Nat \cup {None}
        BY <1>1
      <3> QED BY <3>1, <3>2 DEF Typed
    <2>3. onDemand' \in BOOLEAN /\ since' = clock
      BY <1>3 DEF AggregatorGate
    <2> QED BY <1>1, <1>3, <2>2, <2>3 DEF AggregatorGate, Leave, Enter, Typed, script, Activity
  <1> QED BY <1>2, <1>3

LEMMA TypedReady ==
  ASSUME Typed, WorkerReady \/ AggregatorReady
  PROVE  Typed'
  <1>1. clock \in Nat /\ since \in Nat /\ clock - since \in Nat /\ pace.turn \in Nat
    BY PaceType DEF Typed
  <1>2. needs' \in Seq(Need)
    <2> DEFINE n(w) == [what |-> w, at |-> since, blocked |-> clock - since]
    <2>1. n("worker") \in Need /\ n("aggregator") \in Need
      BY <1>1 DEF Need
    <2>2. needs' = Append(needs, n("worker")) \/ needs' = Append(needs, n("aggregator"))
      BY DEF WorkerReady, AggregatorReady
    <2> HIDE DEF n
    <2> QED BY <2>1, <2>2, AppendProperties DEF Typed
  <1> QED BY <1>1, <1>2 DEF WorkerReady, AggregatorReady, Enter, Typed, script, Activity

LEMMA TypedLoads ==
  ASSUME Typed, (\E k \in DOMAIN tasks : TakesCalculator(k)) \/ LoadsItself \/ LoadedItself
  PROVE  Typed'
  <1>1. clock \in Nat /\ since \in Nat /\ clock - since \in Nat
        /\ pace.tool \in Nat /\ pace.mace \in Nat
    BY PaceType DEF Typed
  <1>2. CASE LoadsItself
    BY <1>1, <1>2 DEF LoadsItself, Enter, Typed, script, Activity
  <1>3. ASSUME HasCalculator("prefetch_cache") \/ HasCalculator("disk")
        PROVE  /\ needs' \in Seq(Need)
               /\ pc' \in Activity /\ busy' \in Nat
    <2> DEFINE n == [what |-> "mace", at |-> since, blocked |-> clock - since]
    <2>1. n \in Need
      BY <1>1 DEF Need
    <2>2. needs' = Append(needs, n)
      BY <1>3 DEF HasCalculator
    <2> HIDE DEF n
    <2>3. needs' \in Seq(Need)
      BY <2>1, <2>2, AppendProperties DEF Typed
    <2> QED BY <1>1, <1>3, <2>3 DEF HasCalculator, Enter, Activity
  <1>4. CASE LoadedItself
    BY <1>3, <1>4 DEF LoadedItself, Typed, script
  <1>5. CASE \E k \in DOMAIN tasks : TakesCalculator(k)
    <2>1. PICK k \in DOMAIN tasks : TakesCalculator(k)
      BY <1>5
    <2>2. taken' \subseteq DOMAIN tasks'
      BY <2>1 DEF TakesCalculator, Typed
    <2> QED BY <1>3, <2>1, <2>2 DEF TakesCalculator, Typed, script
  <1> QED BY <1>2, <1>4, <1>5

LEMMA TypedTool ==
  ASSUME Typed, Kept(events, tasks), NEW tool \in Tool, NEW predicts \in BOOLEAN,
         NEW admitted \in BOOLEAN, ToolStarts(tool, predicts, admitted)
  PROVE  Typed'
  <1>1. ToolTells(tool, predicts, admitted)
    BY ToolStartsTells
  <1>2. /\ clock \in Nat /\ step \in Nat /\ MaxTools \in Nat /\ pace.tool \in Nat
        /\ pace.aggregator \in Nat
    BY PaceType, TraceConstants DEF Typed
  <1>3. DOMAIN tasks \subseteq DOMAIN tasks'
    BY <1>1 DEF ToolTells, AheadTells, Judged, SameTasks
  <1>4. until' \in Nat
    BY <1>1 DEF ToolStarts, ToolTells, Judged
  <1>5. engines' \in [Gate -> Nat \cup {None}]
    <2>1. engines' = engines
          \/ engines' = [engines EXCEPT !["aggregator"] = clock + pace.aggregator]
      BY DEF ToolStarts
    <2>2. clock + pace.aggregator \in Nat \cup {None}
      BY <1>2
    <2> QED BY <2>1, <2>2 DEF Typed
  <1>6. step' = step + 1 /\ step' \in 0 .. MaxTools /\ pending' \in 0 .. step'
    BY <1>2 DEF ToolStarts, Typed
  <1>7. pc' \in Activity /\ busy' \in Nat /\ since' = clock
    BY <1>2 DEF ToolStarts, Enter, Activity
  <1>8. UNCHANGED <<mode, pace, clock, onDemand, taken, thought, needs>>
    BY DEF ToolStarts, script
  <1> QED BY <1>2, <1>3, <1>4, <1>5, <1>6, <1>7, <1>8 DEF Typed

LEMMA TypedNext ==
  ASSUME Typed, Kept(events, tasks), LagsMet, [TraceNext]_vars
  PROVE  Typed'
  <1>1. CASE UNCHANGED vars
    BY <1>1 DEF vars, script, Typed
  <1>2. ASSUME NEW k \in DOMAIN tasks, PollReports(k)
        PROVE  Typed'
    <2>1. DOMAIN tasks' = DOMAIN tasks
      BY <1>2, PollReportsTells DEF ReportTells
    <2> QED BY <1>2, <2>1 DEF PollReports, Typed, script
  <1>3. CASE Tick
    <2>1. thought' \in 0 .. clock' /\ clock' \in Nat /\ since \in 0 .. clock'
      BY <1>3 DEF Tick, Typed
    <2> QED BY <1>3, <2>1 DEF Tick, Typed, script
  <1>4. CASE ToolEnds \/ RunEnds
    <2>1. clock \in Nat /\ pace.turn \in Nat
      BY PaceType DEF Typed
    <2> QED BY <1>4, <2>1 DEF ToolEnds, RunEnds, Enter, Typed, script, Activity
  <1>5. CASE Workflow
    BY <1>4, <1>5, TypedPlanner, TypedGates, TypedReady, TypedLoads, TypedTool DEF Workflow
  <1> QED BY <1>1, <1>2, <1>3, <1>5 DEF TraceNext

-------------------------------------------------------------------------------
(* The trace tells of the tasks, in every state.                           *)

LEMMA GrewJoin ==
  ASSUME Stamped, NEW a, NEW b, NEW types, Fresh(a, types), Fresh(b, types),
         events' = (events \o a) \o b
  PROVE  Grew(types)
  <1>1. Fresh(a \o b, types) /\ a \in Seq(Event) /\ b \in Seq(Event) /\ events \in Seq(Event)
    BY FreshJoin DEF Fresh, Stamped
  <1>2. events \o (a \o b) = (events \o a) \o b
    BY <1>1, RegroupedTwo
  <1> QED BY <1>1, <1>2 DEF Grew

LEMMA GrewAny ==
  ASSUME Stamped, NEW types, Grew(types)
  PROVE  Grew(EventType)
  <1>1. PICK new : Fresh(new, types) /\ events' = events \o new
    BY DEF Grew
  <1>2. \A j \in DOMAIN new : new[j] \in Event
    BY <1>1, ElementOfSeq, LenProperties DEF Fresh
  <1>3. Fresh(new, EventType)
    BY <1>1, <1>2, TypeOfEvent DEF Fresh
  <1> QED BY <1>1, <1>3 DEF Grew

\* Several extensions are one.
LEMMA StampedOn ==
  ASSUME clock \in Nat, NEW ev \in Seq(Event), \A i \in DOMAIN ev : ev[i].at <= clock,
         NEW new, NEW types, Fresh(new, types)
  PROVE  /\ ev \o new \in Seq(Event)
         /\ \A i \in DOMAIN (ev \o new) : (ev \o new)[i].at <= clock
  <1>1. /\ ev \o new \in Seq(Event)
        /\ \A i \in DOMAIN (ev \o new) :
              \/ i \in DOMAIN ev /\ (ev \o new)[i] = ev[i]
              \/ (ev \o new)[i].at = clock
    BY FreshPlace
  <1> QED BY <1>1

LEMMA StampedNext ==
  ASSUME Typed, Stamped, Kept(events, tasks), LagsMet, [TraceNext]_vars
  PROVE  Stamped'
  <1>1. clock \in Nat /\ events \in Seq(Event) /\ \A i \in DOMAIN events : events[i].at <= clock
    BY DEF Typed, Stamped
  <1> DEFINE past(ev) == ev \in Seq(Event) /\ \A i \in DOMAIN ev : ev[i].at <= clock
  <1>2. \A ev, new, types : past(ev) /\ Fresh(new, types) => past(ev \o new)
    BY <1>1, StampedOn
  <1>3. ASSUME clock' = clock, past(events')
        PROVE  Stamped'
    BY <1>3 DEF Stamped
  <1>4. past(events)
    BY <1>1
  <1> HIDE DEF past
  <1>5. CASE UNCHANGED vars
    BY <1>3, <1>4, <1>5 DEF vars
  <1>6. CASE Tick
    <2>1. events' = events /\ clock' = clock + 1
      BY <1>6 DEF Tick
    <2>2. \A i \in DOMAIN events : events[i].at \in Nat
      BY <1>1, EventFields, ElementOfSeq, LenProperties
    <2> QED BY <1>1, <2>1, <2>2 DEF Stamped
  <1>7. ASSUME NEW k \in DOMAIN tasks, PollReports(k)
        PROVE  Stamped'
    <2>1. PICK a : Fresh(a, {"prefetch_completed"}) /\ events' = events \o a /\ clock' = clock
      BY <1>7, PollReportsTells DEF ReportTells
    <2>2. past(events \o a)
      BY <1>2, <1>4, <2>1
    <2> QED BY <1>3, <2>1, <2>2
  <1>8. CASE PlannerStarts \/ PlannerEnds
    <2>1. PICK e, rid, load : Staged(e, rid, load)
      BY <1>8, PlannerStartsTells, PlannerEndsTells
    <2>2. PICK a, b, c : /\ Fresh(a, {e.type}) /\ Fresh(b, {"plan_extracted", "prediction_result"})
                         /\ Fresh(c, {"prefetch_decision", "prefetch_started"})
                         /\ events' = ((events \o a) \o b) \o c
      BY <2>1 DEF Staged
    <2>3. past(events \o a)
      BY <1>2, <1>4, <2>2
    <2>4. past((events \o a) \o b)
      BY <1>2, <2>2, <2>3
    <2>5. past(((events \o a) \o b) \o c)
      BY <1>2, <2>2, <2>4
    <2>6. clock' = clock
      BY <1>8 DEF PlannerStarts, PlannerEnds
    <2> QED BY <1>3, <2>2, <2>5, <2>6
  <1>9. CASE WorkerGate
    <2>1. PICK a, c : /\ Fresh(a, {"chain_start"}) /\ Fresh(c, {"resource_consumed"})
                      /\ events' = (events \o a) \o c
      BY <1>9, WorkerGateTells DEF GateTells
    <2>2. past((events \o a) \o c)
      BY <1>2, <1>4, <2>1
    <2>3. clock' = clock
      BY <1>9 DEF WorkerGate
    <2> QED BY <1>3, <2>1, <2>2, <2>3
  <1>10. ASSUME NEW tool \in Tool, NEW predicts \in BOOLEAN, NEW admitted \in BOOLEAN,
                ToolStarts(tool, predicts, admitted)
         PROVE  Stamped'
    <2>1. ToolTells(tool, predicts, admitted)
      BY <1>10, ToolStartsTells
    <2>2. past(AtCall(tool))
      BY <1>2, <1>4, <2>1 DEF ToolTells, AtCall
    <2>3. past(AtVerdict(tool))
      BY <1>2, <2>1, <2>2 DEF ToolTells, AtVerdict, Judged
    <2>4. past(AtPrediction(tool, predicts))
      BY <1>2, <2>1, <2>3 DEF ToolTells, AtPrediction
    <2>5. past(events')
      BY <1>2, <2>1, <2>4 DEF ToolTells, AheadTells
    <2>6. clock' = clock
      BY <1>10 DEF ToolStarts
    <2> QED BY <1>3, <2>5, <2>6
  <1>11. CASE Apart
    BY <1>11, ApartTells, StampedGrows
  <1> QED BY <1>5, <1>6, <1>7, <1>8, <1>9, <1>10, <1>11 DEF TraceNext, Workflow, Apart

LEMMA KeptNext ==
  ASSUME Typed, Stamped, Kept(events, tasks), LagsMet, [TraceNext]_vars
  PROVE  Kept(events, tasks)'
  <1>1. CASE UNCHANGED vars
    <2>1. events' = events /\ tasks' = tasks /\ clock' = clock /\ pace' = pace
      BY <1>1 DEF vars, script
    <2> QED BY <2>1 DEF Kept
  <1>2. CASE Tick
    <2>1. events' = events /\ tasks' = tasks /\ clock' = clock + 1 /\ pace' = pace
      BY <1>2 DEF Tick, script
    <2>2. TasksTyped(tasks, clock) /\ clock \in Nat
      BY DEF Kept, Typed
    <2>3. TasksTyped(tasks, clock + 1)
      <3>1. tasks \in Seq(Task)
        BY <2>2 DEF TasksTyped
      <3>2. \A k \in DOMAIN tasks : tasks[k] \in Task
        BY <3>1, ElementOfSeq, LenProperties
      <3>3. \A k \in DOMAIN tasks : tasks[k].started \in Nat /\ tasks[k].consumed \in Int
        BY <3>2 DEF Task, None
      <3> QED BY <2>2, <3>3 DEF TasksTyped
    <2> QED BY <2>1, <2>3 DEF Kept
  <1>3. ASSUME NEW k \in DOMAIN tasks, PollReports(k)
        PROVE  Kept(events, tasks)'
    BY <1>3, PollReportsTells, PrimesOfKept DEF ReportTells
  <1>4. CASE PlannerStarts \/ PlannerEnds
    <2>1. Kept(events', tasks')
      BY <1>4, PlannerStartsTells, PlannerEndsTells DEF Staged
    <2>2. clock' = clock /\ pace' = pace
      BY <1>4 DEF PlannerStarts, PlannerEnds, script
    <2> QED BY <2>1, <2>2, PrimesOfKept
  <1>5. CASE WorkerGate
    <2>1. Kept(events', tasks')
      BY <1>5, WorkerGateTells DEF GateTells
    <2>2. clock' = clock /\ pace' = pace
      BY <1>5 DEF WorkerGate, script
    <2> QED BY <2>1, <2>2, PrimesOfKept
  <1>6. ASSUME NEW tool \in Tool, NEW predicts \in BOOLEAN, NEW admitted \in BOOLEAN,
               ToolStarts(tool, predicts, admitted)
        PROVE  Kept(events, tasks)'
    <2>1. Kept(events', tasks')
      BY <1>6, ToolStartsTells DEF ToolTells
    <2>2. clock' = clock /\ pace' = pace
      BY <1>6 DEF ToolStarts, script
    <2> QED BY <2>1, <2>2, PrimesOfKept
  <1>7. CASE Apart
    <2> DEFINE types == {"worker_swap_wait", "aggregator_swap_wait", "mace_load", "tool_end",
                         "chain_start", "chain_end"}
    <2>1. Grew(types) /\ tasks' = tasks /\ clock' = clock /\ pace' = pace
      BY <1>7, ApartTells
    <2>2. types \subseteq EventType \ TaskTypes
      BY DEF EventType, TaskTypes
    <2> HIDE DEF types
    <2>3. PICK new : Fresh(new, types) /\ events' = events \o new
      BY <2>1 DEF Grew
    <2>4. Fresh(new, EventType \ TaskTypes)
      BY <2>2, <2>3, FreshMore
    <2>5. Kept(events \o new, tasks)
      BY <2>4, KeptQuiet
    <2>6. Kept(events', tasks')
      BY <2>1, <2>3, <2>5
    <2> QED BY <2>1, <2>6, PrimesOfKept
  <1> QED BY <1>1, <1>2, <1>3, <1>4, <1>5, <1>6, <1>7 DEF TraceNext, Workflow, Apart

LEMMA LagsNext ==
  ASSUME Typed, Stamped, Kept(events, tasks), LagsMet, [TraceNext]_vars
  PROVE  LagsMet'
  <1>1. /\ clock \in Nat /\ pace.lag \in Nat /\ pace.cache \in Nat /\ pace.worker \in Nat
        /\ pace.mace \in Nat
    BY PaceType DEF Typed
  <1>2. \A k \in DOMAIN tasks : tasks[k].lands \in Nat
    <2>1. \A k \in DOMAIN tasks : tasks[k] \in Task
      BY ElementOfSeq, LenProperties DEF Kept, TasksTyped
    <2> QED BY <2>1 DEF Task
  <1>3. CASE UNCHANGED vars
    BY <1>3 DEF vars, script, LagsMet
  <1>4. CASE Tick /\ \A k \in DOMAIN tasks : ~Due(k)
    <2>1. tasks' = tasks /\ clock' = clock + 1 /\ pace' = pace
      BY <1>4 DEF Tick, script
    <2>2. \A k \in DOMAIN tasks : ~tasks[k].reported => ~(tasks[k].lands + pace.lag <= clock)
      BY <1>4 DEF Due
    <2>3. \A k \in DOMAIN tasks : ~tasks[k].reported => clock + 1 <= tasks[k].lands + pace.lag
      BY <1>1, <1>2, <2>2
    <2> QED BY <2>1, <2>3 DEF LagsMet
  <1>5. ASSUME NEW k \in DOMAIN tasks, PollReports(k)
        PROVE  LagsMet'
    <2>1. ReportTells(k)
      BY <1>5, PollReportsTells
    <2> QED BY <2>1 DEF ReportTells, LagsMet
  <1>6. ASSUME clock' = clock, pace' = pace, NEW load \in Nat,
               \A k \in DOMAIN tasks' :
                  \/ k \in DOMAIN tasks /\ SameTask(tasks[k], tasks'[k])
                  \/ tasks'[k].lands = clock + load
        PROVE  LagsMet'
    <2>1. ASSUME NEW k \in DOMAIN tasks', ~tasks'[k].reported
          PROVE  clock <= tasks'[k].lands + pace.lag
      BY <1>1, <1>6, <2>1 DEF LagsMet, SameTask
    <2> QED BY <1>6, <2>1 DEF LagsMet
  <1>7. CASE PlannerStarts \/ PlannerEnds
    <2>1. PICK e, rid, load : load \in {pace.cache, pace.worker} /\ Staged(e, rid, load)
      BY <1>7, PlannerStartsTells, PlannerEndsTells
    <2>2. \A k \in DOMAIN tasks' :
             \/ k \in DOMAIN tasks /\ SameTask(tasks[k], tasks'[k])
             \/ tasks'[k].lands = clock + load
      BY <2>1 DEF Staged, Scheduled, SameTask
    <2>3. clock' = clock /\ pace' = pace
      BY <1>7 DEF PlannerStarts, PlannerEnds, script
    <2>4. load \in Nat
      BY <1>1, <2>1
    <2> QED BY <1>6, <2>2, <2>3, <2>4
  <1>8. CASE WorkerGate
    <2>1. \A k \in DOMAIN tasks' : k \in DOMAIN tasks /\ SameTask(tasks[k], tasks'[k])
      BY <1>8, WorkerGateTells DEF GateTells, SameTasks
    <2>2. clock' = clock /\ pace' = pace
      BY <1>8 DEF WorkerGate, script
    <2> QED BY <1>1, <1>6, <2>1, <2>2
  <1>9. ASSUME NEW tool \in Tool, NEW predicts \in BOOLEAN, NEW admitted \in BOOLEAN,
               ToolStarts(tool, predicts, admitted)
        PROVE  LagsMet'
    <2>1. ToolTells(tool, predicts, admitted)
      BY <1>9, ToolStartsTells
    <2>2. \A k \in DOMAIN tasks' :
             \/ k \in DOMAIN tasks /\ SameTask(tasks[k], tasks'[k])
             \/ tasks'[k].lands = clock + pace.mace
      BY <2>1 DEF ToolTells, Judged, SameTasks, AheadTells
    <2>3. clock' = clock /\ pace' = pace
      BY <1>9 DEF ToolStarts, script
    <2> QED BY <1>1, <1>6, <2>2, <2>3
  <1>10. CASE Apart
    BY <1>10, ApartTells DEF LagsMet
  <1> QED BY <1>3, <1>4, <1>5, <1>7, <1>8, <1>9, <1>10 DEF TraceNext, Workflow, Apart

-------------------------------------------------------------------------------
(* A calculator is consumed by the call the trace shows last.              *)

LastCall(ev, tool) ==
    \E c \in Calls(ev) : ev[c].what = tool /\ \A d \in Calls(ev) : d <= c

CallsTold(ev) ==
    \A i \in Uses(ev) : ev[i].rid = "mace_model" =>
        \E c \in Calls(ev) : /\ c < i /\ ev[c].what = "run_ase"
                             /\ \A d \in Calls(ev) : d < i => d <= c

LEMMA CallsToldOn ==
  ASSUME NEW ev \in Seq(Event), CallsTold(ev), NEW new, NEW types, Fresh(new, types),
         \/ \A j \in DOMAIN new : new[j].type = "resource_consumed" => new[j].rid # "mace_model"
         \/ LastCall(ev, "run_ase") /\ "tool_call" \notin types
  PROVE  CallsTold(ev \o new)
  <1> DEFINE ev2 == ev \o new
  <1>1. /\ DOMAIN ev \subseteq DOMAIN ev2
        /\ \A i \in DOMAIN ev2 :
               \/ i \in DOMAIN ev /\ ev2[i] = ev[i]
               \/ ev2[i].at = clock /\ ev2[i].type \in types
        /\ \A i \in DOMAIN ev : ev2[i] = ev[i]
        /\ \A i \in DOMAIN ev : \A j \in DOMAIN ev2 \ DOMAIN ev : i < j
        /\ \A j \in DOMAIN ev2 \ DOMAIN ev : \E x \in DOMAIN new : ev2[j] = new[x]
        /\ ev2 \in Seq(Event)
    BY FreshPlace
  <1> HIDE DEF ev2
  <1>2. /\ Calls(ev) \subseteq Calls(ev2) /\ Calls(ev) \subseteq DOMAIN ev /\ Calls(ev2) \subseteq DOMAIN ev2
        /\ Uses(ev) \subseteq DOMAIN ev /\ Uses(ev2) \subseteq DOMAIN ev2
        /\ \A c \in Calls(ev2) : c \in DOMAIN ev => c \in Calls(ev)
        /\ \A i \in Uses(ev2) : i \in DOMAIN ev => i \in Uses(ev)
        /\ \A i \in Uses(ev2) : ev2[i].type = "resource_consumed"
        /\ \A c \in Calls(ev2) : ev2[c].type = "tool_call"
    BY <1>1 DEF Calls, Uses, E!Where
  <1>3. ASSUME NEW i \in Uses(ev2), ev2[i].rid = "mace_model"
        PROVE  \E c \in Calls(ev2) : /\ c < i /\ ev2[c].what = "run_ase"
                                     /\ \A d \in Calls(ev2) : d < i => d <= c
    <2>1. CASE i \in DOMAIN ev
      <3>1. PICK c \in Calls(ev) : /\ c < i /\ ev[c].what = "run_ase"
                                   /\ \A d \in Calls(ev) : d < i => d <= c
        BY <1>1, <1>2, <1>3, <2>1 DEF CallsTold
      <3>2. \A d \in Calls(ev2) : d < i => d \in Calls(ev)
        <4> TAKE d \in Calls(ev2)
        <4> HAVE d < i
        <4>1. CASE d \in DOMAIN ev
          BY <1>2, <4>1
        <4>2. CASE d \notin DOMAIN ev
          <5>1. i < d
            BY <1>1, <1>2, <2>1, <4>2
          <5>2. i \in Nat /\ d \in Nat
            BY <1>1, <1>2, LenProperties
          <5> QED BY <5>1, <5>2
        <4> QED BY <4>1, <4>2
      <3> QED BY <1>1, <1>2, <3>1, <3>2
    <2>2. CASE i \notin DOMAIN ev
      <3>1. PICK x \in DOMAIN new : ev2[i] = new[x]
        BY <1>1, <1>2, <2>2
      <3>2. LastCall(ev, "run_ase") /\ "tool_call" \notin types
        BY <1>2, <1>3, <3>1
      <3>3. PICK c \in Calls(ev) : ev[c].what = "run_ase" /\ \A d \in Calls(ev) : d <= c
        BY <3>2 DEF LastCall
      <3>4. \A d \in Calls(ev2) : d \in Calls(ev)
        BY <1>1, <1>2, <3>2
      <3>5. c < i
        BY <1>1, <1>2, <2>2
      <3> QED BY <1>1, <1>2, <3>3, <3>4, <3>5
    <2> QED BY <2>1, <2>2
  <1>4. CallsTold(ev2)
    BY <1>3 DEF CallsTold
  <1> QED BY <1>4 DEF ev2

\* The call of a tool is the last of them.
LEMMA CalledTells ==
  ASSUME Typed, Stamped, NEW tool \in Tool, Fresh(BootEvents(tool), {"aggregator_prefetch_start"})
  PROVE  \E n \in Nat : /\ Calls(AtCall(tool)) = Calls(events) \cup {n} /\ n \notin Calls(events)
                        /\ AtCall(tool)[n].what = tool
                        /\ \A c \in Calls(events) :
                              c < n /\ c \in Nat /\ AtCall(tool)[c] = events[c]
  <1> DEFINE d == Tracked("chain_end", "WorkerAgent")
             e == Tracked("tool_call", tool)
             ev1 == events \o <<d>>
             ev2 == events \o Called(tool)
             n == Len(ev1) + 1
  <1>1. clock \in Nat /\ events \in Seq(Event)
    BY DEF Typed, Stamped
  <1>2. d \in Event /\ e \in Event
    BY <1>1, TrackedWritten DEF Node
  <1>3. d.type = "chain_end" /\ d.at = clock /\ e.type = "tool_call" /\ e.at = clock /\ e.what = tool
    BY DEF Tracked
  <1>4. ev2 = events \o <<d, e>>
    BY DEF Called
  <1> HIDE DEF d, e, ev1, ev2
  <1>5. ev2 = ev1 \o <<e>>
    BY <1>1, <1>2, <1>4, PairAdded DEF ev1
  <1>6. Fresh(<<d>>, {"chain_end"})
    BY <1>2, <1>3, FreshOne
  <1>7. ev1 \in Seq(Event) /\ Same(events, ev1, {"tool_call"})
    <2>1. {"chain_end"} \cap {"tool_call"} = {}
      OBVIOUS
    <2> QED BY <1>1, <1>6, <2>1, FreshSame DEF ev1
  <1>8. Calls(ev1) = Calls(events) /\ \A c \in Calls(events) : ev1[c] = events[c]
    BY <1>7 DEF Same, Calls
  <1>9. Added(ev1, ev1 \o <<e>>, e)
    BY <1>2, <1>7, OneAdded
  <1>10. AddedAt(n, ev1, ev1 \o <<e>>, e)
    BY <1>7, <1>9, AddedTasks
  <1> HIDE DEF n
  <1>11. /\ n \in Nat /\ ev2[n] = e /\ Calls(ev2) = Calls(ev1) \cup {n}
         /\ \A c \in Calls(ev1) : c \in Nat /\ c < n /\ ev2[c] = ev1[c]
    BY <1>3, <1>5, <1>10 DEF AddedAt
  <1>12. ev2 \in Seq(Event)
    BY <1>5, <1>9 DEF Added
  <1>13. Same(ev2, ev2 \o BootEvents(tool), {"tool_call"})
    BY <1>12, FreshSame
  <1>14. AtCall(tool) = ev2 \o BootEvents(tool)
    BY DEF AtCall, ev2
  <1>15. Calls(AtCall(tool)) = Calls(ev2) /\ \A c \in Calls(ev2) : AtCall(tool)[c] = ev2[c]
    BY <1>13, <1>14 DEF Same, Calls
  <1>16. n \notin Calls(events)
    BY <1>8, <1>11
  <1> QED BY <1>3, <1>8, <1>11, <1>15, <1>16

LEMMA CallsNext ==
  ASSUME Typed, Stamped, Kept(events, tasks), LagsMet, CallsTold(events), [TraceNext]_vars
  PROVE  CallsTold(events')
  <1>0. events \in Seq(Event)
    BY DEF Stamped
  <1> DEFINE other(new) == \A j \in DOMAIN new : new[j].type = "resource_consumed" =>
                                                    new[j].rid # "mace_model"
             told(ev) == ev \in Seq(Event) /\ CallsTold(ev)
  <1>1. \A ev, new, types : told(ev) /\ Fresh(new, types) /\ other(new) => told(ev \o new)
    BY CallsToldOn, FreshPlace
  <1>2. \A new, types : Fresh(new, types) /\ "resource_consumed" \notin types => other(new)
    BY DEF Fresh
  <1>3. told(events) /\ \A ev : told(ev) => CallsTold(ev)
    BY <1>0
  <1>4. \A ev, new, types : told(ev) /\ Fresh(new, types) /\ "resource_consumed" \notin types
                            => told(ev \o new)
    <2> HIDE DEF told, other
    <2> QED BY <1>1, <1>2
  <1>14. \A ev, new, types : told(ev) /\ Fresh(new, types) /\ LastCall(ev, "run_ase")
                               /\ "tool_call" \notin types
                            => told(ev \o new)
    BY CallsToldOn, FreshPlace
  <1> HIDE DEF told
  <1>5. CASE UNCHANGED vars
    BY <1>3, <1>5 DEF vars
  <1>6. CASE Tick
    BY <1>3, <1>6 DEF Tick
  <1>7. ASSUME NEW k \in DOMAIN tasks, PollReports(k)
        PROVE  CallsTold(events')
    <2>1. PICK a : Fresh(a, {"prefetch_completed"}) /\ events' = events \o a
      BY <1>7, PollReportsTells DEF ReportTells
    <2> QED BY <1>3, <1>4, <2>1
  <1>8. CASE PlannerStarts \/ PlannerEnds
    <2>1. PICK e, rid, load : /\ e.type \in {"chain_start", "chain_end"} /\ Staged(e, rid, load)
      <3>1. /\ Tracked("chain_start", "PlannerAgent").type = "chain_start"
            /\ Tracked("chain_end", "PlannerAgent").type = "chain_end"
        BY DEF Tracked
      <3> QED BY <1>8, <3>1, PlannerStartsTells, PlannerEndsTells
    <2>2. PICK a, b, c : /\ Fresh(a, {e.type}) /\ Fresh(b, {"plan_extracted", "prediction_result"})
                         /\ Fresh(c, {"prefetch_decision", "prefetch_started"})
                         /\ events' = ((events \o a) \o b) \o c
      BY <2>1 DEF Staged
    <2>3. told(events \o a)
      BY <1>3, <1>4, <2>1, <2>2
    <2>4. told((events \o a) \o b)
      BY <1>4, <2>2, <2>3
    <2>5. told(((events \o a) \o b) \o c)
      BY <1>4, <2>2, <2>4
    <2> QED BY <1>3, <2>2, <2>5
  <1>9. CASE WorkerGate
    <2>1. PICK a, c : /\ Fresh(a, {"chain_start"}) /\ Fresh(c, {"resource_consumed"})
                      /\ \A j \in DOMAIN c : c[j].rid \in {"model_cache", "vllm_model"}
                      /\ events' = (events \o a) \o c
      BY <1>9, WorkerGateTells DEF GateTells
    <2>2. told(events \o a) /\ other(c)
      BY <1>3, <1>4, <2>1
    <2>3. told((events \o a) \o c)
      BY <1>1, <2>1, <2>2
    <2> QED BY <1>3, <2>1, <2>3
  <1>10. ASSUME NEW tool \in Tool, NEW predicts \in BOOLEAN, NEW admitted \in BOOLEAN,
                ToolStarts(tool, predicts, admitted)
         PROVE  CallsTold(events')
    <2>1. ToolTells(tool, predicts, admitted)
      BY <1>10, ToolStartsTells
    <2>2. told(events \o Called(tool))
      BY <1>3, <1>4, <2>1 DEF ToolTells
    <2>3. told(AtCall(tool))
      BY <1>4, <2>1, <2>2 DEF ToolTells, AtCall
    <2>4. told(AtVerdict(tool))
      <3> DEFINE c == Judge(tool).events
                 types == {"prediction_validated", "resource_consumed", "divergence_detected",
                           "prefetch_cancelled", "conservative_mode"}
      <3>1. Judged(tool, Judge(tool)) /\ Fresh(c, types)
        BY <2>1 DEF ToolTells, Judged
      <3>2. CASE tool = "run_ase"
        <4>1. PICK n \in Nat : /\ Calls(AtCall(tool)) = Calls(events) \cup {n}
                               /\ AtCall(tool)[n].what = tool
                               /\ \A d \in Calls(events) : d < n /\ d \in Nat
          BY <2>1, CalledTells DEF ToolTells
        <4>2. LastCall(AtCall(tool), "run_ase")
          BY <3>2, <4>1 DEF LastCall
        <4> QED BY <1>14, <2>3, <3>1, <4>2 DEF AtVerdict
      <3>3. CASE tool # "run_ase"
        <4>1. other(c)
          <5>1. CASE c = <<>>
            BY <5>1
          <5>2. CASE c # <<>>
            <6>1. PICK x : /\ Cancelled(tasks, pending, <<Judge(tool).tasks, x>>)
                           /\ c = (<<DivergenceDetected(pending)>> \o x) \o <<ConservativeMode>>
              BY <3>1, <3>3, <5>2 DEF Judged
            <6> DEFINE a == <<DivergenceDetected(pending)>>
                       b == <<ConservativeMode>>
            <6>2. Fresh(a, {"divergence_detected"}) /\ Fresh(b, {"conservative_mode"})
              <7>1. /\ DivergenceDetected(pending) \in Event /\ ConservativeMode \in Event
                BY GuardEventsWritten DEF Typed
              <7>2. /\ DivergenceDetected(pending).type = "divergence_detected"
                    /\ DivergenceDetected(pending).at = clock
                    /\ ConservativeMode.type = "conservative_mode" /\ ConservativeMode.at = clock
                BY DEF DivergenceDetected, ConservativeMode
              <7> QED BY <7>1, <7>2, FreshOne
            <6>3. Fresh(x, {"prefetch_cancelled"})
              <7>1. x \in Seq(Event) /\ Now(x) /\ Quiet(x, EventType \ {"prefetch_cancelled"})
                BY <6>1 DEF Cancelled
              <7> QED BY <7>1, FreshCall
            <6> DEFINE guard == {"divergence_detected", "conservative_mode", "prefetch_cancelled"}
            <6> HIDE DEF a, b
            <6>4. Fresh(a, guard) /\ Fresh(b, guard) /\ Fresh(x, guard)
              BY <6>2, <6>3, FreshMore
            <6>5. Fresh(a \o x, guard)
              BY <6>4, FreshJoin
            <6>6. Fresh((a \o x) \o b, guard)
              BY <6>4, <6>5, FreshJoin
            <6>7. c = (a \o x) \o b
              BY <6>1 DEF a, b
            <6> HIDE DEF c
            <6> QED BY <1>2, <6>6, <6>7
          <5> QED BY <5>1, <5>2
        <4> HIDE DEF other
        <4> QED BY <1>1, <2>3, <3>1, <4>1 DEF AtVerdict
      <3> QED BY <3>2, <3>3
    <2>5. told(AtPrediction(tool, predicts))
      BY <1>4, <2>1, <2>4 DEF ToolTells, AtPrediction
    <2>6. told(events')
      BY <1>4, <2>1, <2>5 DEF ToolTells, AheadTells
    <2> QED BY <1>3, <2>6
  <1>11. CASE Apart
    <2>1. PICK new, types : Fresh(new, types) /\ events' = events \o new
                            /\ "resource_consumed" \notin types
      BY <1>11, ApartTells DEF Grew
    <2> QED BY <1>3, <1>4, <2>1
  <1> QED BY <1>5, <1>6, <1>7, <1>8, <1>9, <1>10, <1>11 DEF TraceNext, Workflow, Apart

-------------------------------------------------------------------------------
(* The records of the reports are the tasks.                               *)

\* When the poll thread has told the end of a load.
EndTold(t) == IF t.reported THEN t.lands ELSE None
Revoked(t) == t.status \in {"wasted", "cancelled"}

LEMMA Positions ==
  ASSUME NEW ev \in Seq(Event)
  PROVE  \A type : E!Where(ev, type) \in SUBSET (1 .. Len(ev)) /\ T!Where(ev, type) = E!Where(ev, type)
  BY LenProperties DEF E!Where, T!Where

LEMMA OfTaskSame ==
  \A ev, type, k : T!OfTask(ev, type, k) = E!OfTask(ev, type, k)
  BY DEF T!OfTask, E!OfTask, T!Where, E!Where

LEMMA LastIn ==
  ASSUME NEW ev \in Seq(Event), NEW type, NEW S \in SUBSET E!Where(ev, type), S # {}
  PROVE  /\ IsLast(E!Max(S), S) /\ IsLast(T!Last(S), S) /\ IsLast(T!Max(S), S)
         /\ IsFirst(E!Min(S), S) /\ IsFirst(T!First(S), S)
  <1>1. Len(ev) \in Nat /\ S \in SUBSET (1 .. Len(ev))
    BY Positions, LenProperties
  <1> QED BY <1>1, LastOf, FirstOf

LEMMA OneLast ==
  ASSUME NEW S, NEW i, IsLast(i, S), NEW j, IsLast(j, S), S \subseteq Nat
  PROVE  i = j
  BY DEF IsLast

LEMMA StartRecord ==
  ASSUME NEW ev, NEW ts, Kept(ev, ts), NEW k \in DOMAIN ts
  PROVE  /\ E!StartEvent(ev, k).at = ts[k].started /\ E!StartEvent(ev, k).rid = ts[k].rid
         /\ T!StartOf(ev, k) = ts[k].started
  <1> DEFINE S == E!OfTask(ev, "prefetch_started", k)
  <1>1. ev \in Seq(Event) /\ StartsTold(ev, ts)
    BY DEF Kept, TaskLog
  <1>2. S = {i \in Starts(ev) : ev[i].task = k}
    BY DEF Starts, E!OfTask
  <1>3. S \in SUBSET E!Where(ev, "prefetch_started")
    BY <1>2 DEF Starts
  <1>4. S # {}
    BY <1>1, <1>2 DEF StartsTold
  <1> HIDE DEF S
  <1>5. E!Min(S) \in S /\ T!First(S) \in S
    BY <1>1, <1>3, <1>4, LastIn DEF IsFirst
  <1>6. \A i \in S : ev[i].at = ts[k].started /\ ev[i].rid = ts[k].rid
    BY <1>1, <1>2 DEF StartsTold
  <1>7. /\ E!StartEvent(ev, k) = ev[E!Min(S)] /\ T!StartOf(ev, k) = ev[T!First(S)].at
    BY OfTaskSame DEF E!StartEvent, T!StartOf, S
  <1> QED BY <1>5, <1>6, <1>7

LEMMA EndRecord ==
  ASSUME Typed, NEW ev, NEW ts, Kept(ev, ts), NEW k \in DOMAIN ts
  PROVE  E!CompletedAt(ev, k) = EndTold(ts[k]) /\ T!EndOf(ev, k) = EndTold(ts[k])
  <1> DEFINE D == E!OfTask(ev, "prefetch_completed", k)
  <1>1. /\ ev \in Seq(Event) /\ EndsTold(ev, ts, pace.lag) /\ ts \in Seq(Task)
        /\ ts[k].started < ts[k].lands
    BY DEF Kept, TaskLog, TasksTyped
  <1>2. ts[k].started \in Nat /\ ts[k].lands \in Nat
    <2>1. ts[k] \in Task
      BY <1>1, ElementOfSeq, LenProperties
    <2> QED BY <2>1 DEF Task
  <1>3. D = {i \in Ends(ev) : ev[i].task = k} /\ T!OfTask(ev, "prefetch_completed", k) = D
    BY OfTaskSame DEF Ends, E!OfTask
  <1>4. D \in SUBSET E!Where(ev, "prefetch_completed")
    BY <1>3 DEF Ends
  <1>5. /\ ts[k].reported <=> D # {}
        /\ \A i \in D : ev[i].elapsed = ts[k].lands - ts[k].started
    BY <1>1, <1>3 DEF EndsTold
  <1>6. E!StartEvent(ev, k).at = ts[k].started /\ T!StartOf(ev, k) = ts[k].started
    BY StartRecord
  <1> HIDE DEF D
  <1>7. CASE D = {}
    <2>1. E!CompletedAt(ev, k) = E!Missing
      BY <1>7 DEF E!CompletedAt, D
    <2>2. T!EndOf(ev, k) = T!Absent
      BY <1>3, <1>7 DEF T!EndOf
    <2> QED BY <1>5, <1>7, <2>1, <2>2 DEF EndTold, None, E!Missing, T!Absent
  <1>8. CASE D # {}
    <2>1. E!Max(D) \in D /\ T!Last(D) \in D
      BY <1>1, <1>4, <1>8, LastIn DEF IsLast
    <2>2. /\ ev[E!Max(D)].elapsed = ts[k].lands - ts[k].started
          /\ ev[T!Last(D)].elapsed = ts[k].lands - ts[k].started
          /\ ts[k].lands - ts[k].started > 0
      BY <1>1, <1>2, <1>5, <2>1
    <2>3. E!CompletedAt(ev, k) = E!StartEvent(ev, k).at + ev[E!Max(D)].elapsed
      BY <1>8, <2>2 DEF E!CompletedAt, D
    <2>4. T!EndOf(ev, k) = T!StartOf(ev, k) + ev[T!Last(D)].elapsed
      BY <1>3, <1>8, <2>2 DEF T!EndOf
    <2>5. ts[k].started + (ts[k].lands - ts[k].started) = ts[k].lands
      BY <1>2
    <2> QED BY <1>5, <1>6, <1>8, <2>2, <2>3, <2>4, <2>5 DEF EndTold
  <1> QED BY <1>7, <1>8

\* Every consumption is by a consumer of the resource.
LEMMA AllByConsumer ==
  ASSUME NEW ev \in Seq(Event), CallsTold(ev), NEW i \in Uses(ev)
  PROVE  E!ByConsumer(ev, i)
  <1> DEFINE calls == {c \in E!Where(ev, "tool_call") : c < i}
  <1>1. CASE ev[i].rid # "mace_model"
    BY <1>1 DEF E!ByConsumer, ConsumerOf
  <1>2. CASE ev[i].rid = "mace_model"
    <2>1. PICK c \in Calls(ev) : /\ c < i /\ ev[c].what = "run_ase"
                                 /\ \A d \in Calls(ev) : d < i => d <= c
      BY <1>2 DEF CallsTold
    <2>2. calls \in SUBSET E!Where(ev, "tool_call") /\ c \in calls /\ \A d \in calls : d <= c
          /\ calls \subseteq Nat
      BY <2>1, Positions DEF Calls
    <2> HIDE DEF calls
    <2>3. IsLast(E!Max(calls), calls) /\ IsLast(c, calls)
      BY <2>2, LastIn DEF IsLast
    <2>4. E!Max(calls) = c
      BY <2>2, <2>3, OneLast
    <2> QED BY <1>2, <2>1, <2>4 DEF E!ByConsumer, ConsumerOf, calls
  <1> QED BY <1>1, <1>2

LEMMA UseRecord ==
  ASSUME NEW ev, NEW ts, Kept(ev, ts), CallsTold(ev), NEW k \in DOMAIN ts
  PROVE  LET all == E!OfTask(ev, "resource_consumed", k)
             consumed == {i \in all : E!ByConsumer(ev, i)}
         IN  /\ E!LastTime(ev, consumed) = ts[k].consumed
             /\ T!TimeOfLast(ev, T!OfTask(ev, "resource_consumed", k)) = ts[k].consumed
             /\ (consumed # {} /\ ev[E!Max(consumed)].status = "used") <=> ts[k].status = "used"
             /\ (\E i \in T!OfTask(ev, "resource_consumed", k) : ev[i].status = "used") <=>
                    ts[k].status = "used"
  <1> DEFINE all == E!OfTask(ev, "resource_consumed", k)
             consumed == {i \in all : E!ByConsumer(ev, i)}
  <1>1. /\ ev \in Seq(Event) /\ UsesTold(ev, ts) /\ ts \in Seq(Task)
        /\ ts[k].status = "used" <=> ts[k].consumed # None
    BY DEF Kept, TaskLog, TasksTyped
  <1>2. k # 0
    BY <1>1, LenProperties
  <1>3. all = {i \in Uses(ev) : ev[i].task = k} /\ T!OfTask(ev, "resource_consumed", k) = all
    BY OfTaskSame DEF Uses, E!OfTask
  <1>4. all \in SUBSET E!Where(ev, "resource_consumed") /\ all \subseteq Nat
    BY <1>1, <1>3, Positions DEF Uses
  <1>5. consumed = all
    BY <1>1, <1>3, AllByConsumer
  <1>6. \A i \in all : ev[i].status = "used" /\ ts[k].status = "used"
    BY <1>1, <1>2, <1>3 DEF UsesTold
  <1> SUFFICES /\ E!LastTime(ev, all) = ts[k].consumed
               /\ T!TimeOfLast(ev, all) = ts[k].consumed
               /\ (all # {} /\ ev[E!Max(all)].status = "used") <=> ts[k].status = "used"
               /\ (\E i \in all : ev[i].status = "used") <=> ts[k].status = "used"
    BY <1>3, <1>5, Zenon
  <1> HIDE DEF all, consumed
  <1>7. CASE ts[k].status = "used"
    <2>1. PICK i \in all : ev[i].at = ts[k].consumed /\ \A j \in all : j <= i
      BY <1>1, <1>3, <1>7 DEF UsesTold
    <2>2. IsLast(E!Max(all), all) /\ IsLast(T!Last(all), all) /\ IsLast(i, all)
      BY <1>1, <1>4, <2>1, LastIn DEF IsLast
    <2>3. E!Max(all) = i /\ T!Last(all) = i
      BY <1>4, <2>2, OneLast
    <2> QED BY <1>6, <1>7, <2>1, <2>3 DEF E!LastTime, T!TimeOfLast
  <1>8. CASE ts[k].status # "used"
    <2>1. all = {} /\ ts[k].consumed = None
      BY <1>1, <1>6, <1>8
    <2> QED BY <1>8, <2>1 DEF E!LastTime, T!TimeOfLast, None, E!Missing, T!Absent
  <1> QED BY <1>7, <1>8

LEMMA RevokeRecord ==
  ASSUME NEW ev, NEW ts, Kept(ev, ts), NEW k \in DOMAIN ts
  PROVE  LET cancels == E!OfTask(ev, "prefetch_cancelled", k)
         IN  /\ cancels # {} <=> Revoked(ts[k])
             /\ (cancels # {} /\ ev[E!Max(cancels)].wasted) <=> ts[k].status = "wasted"
             /\ (cancels # {} /\ ev[T!Last(cancels)].wasted) <=> ts[k].status = "wasted"
  <1> DEFINE cancels == E!OfTask(ev, "prefetch_cancelled", k)
  <1>1. ev \in Seq(Event) /\ RevokesTold(ev, ts)
    BY DEF Kept, TaskLog
  <1>2. cancels = {i \in Revokes(ev) : ev[i].task = k}
    BY DEF Revokes, E!OfTask
  <1>3. cancels \in SUBSET E!Where(ev, "prefetch_cancelled")
    BY <1>2 DEF Revokes
  <1>4. \A i \in cancels : ts[k].status = IF ev[i].wasted THEN "wasted" ELSE "cancelled"
    BY <1>1, <1>2 DEF RevokesTold
  <1>5. Revoked(ts[k]) => cancels # {}
    BY <1>1, <1>2 DEF RevokesTold, Revoked
  <1> SUFFICES /\ cancels # {} <=> Revoked(ts[k])
               /\ (cancels # {} /\ ev[E!Max(cancels)].wasted) <=> ts[k].status = "wasted"
               /\ (cancels # {} /\ ev[T!Last(cancels)].wasted) <=> ts[k].status = "wasted"
    OBVIOUS
  <1> HIDE DEF cancels
  <1>6. CASE cancels = {}
    BY <1>5, <1>6 DEF Revoked
  <1>7. CASE cancels # {}
    <2>1. E!Max(cancels) \in cancels /\ T!Last(cancels) \in cancels
      BY <1>1, <1>3, <1>7, LastIn DEF IsLast
    <2> QED BY <1>4, <1>7, <2>1 DEF Revoked
  <1> QED BY <1>6, <1>7

\* What overlap_report.py and parse_eval_traces.py have of a task.
ReportRecord(t) ==
    [start |-> t.started, end |-> EndTold(t), needed |-> t.consumed, cancelled |-> Revoked(t),
     wasted |-> t.status = "wasted", used |-> t.status = "used"]
EvalRecord(t) ==
    [rid |-> t.rid, started |-> t.started, completed |-> EndTold(t), consumed |-> t.consumed,
     used |-> t.status = "used", cancelled |-> Revoked(t), wasted |-> t.status = "wasted"]

LEMMA TasksListed ==
  ASSUME NEW ev, NEW ts, Kept(ev, ts)
  PROVE  T!TasksOf(ev) = DOMAIN ts /\ E!TasksOf(ev) = DOMAIN ts
  <1>1. StartsTold(ev, ts)
    BY DEF Kept, TaskLog
  <1>2. E!TasksOf(ev) = {ev[i].task : i \in Starts(ev)} /\ T!TasksOf(ev) = E!TasksOf(ev)
    BY DEF T!TasksOf, E!TasksOf, T!Where, E!Where, Starts
  <1> QED BY <1>1, <1>2 DEF StartsTold

LEMMA RecordOf ==
  ASSUME Typed, NEW ev, NEW ts, Kept(ev, ts), CallsTold(ev), NEW k \in DOMAIN ts
  PROVE  /\ T!TaskRecord(ev, k) = ReportRecord(ts[k])
         /\ E!TaskRecord(ev, k) = EvalRecord(ts[k])
  <1> DEFINE cancels == E!OfTask(ev, "prefetch_cancelled", k)
             all == E!OfTask(ev, "resource_consumed", k)
             consumed == {i \in all : E!ByConsumer(ev, i)}
  <1>1. /\ E!LastTime(ev, consumed) = ts[k].consumed
        /\ T!TimeOfLast(ev, all) = ts[k].consumed
        /\ (consumed # {} /\ ev[E!Max(consumed)].status = "used") = (ts[k].status = "used")
        /\ (\E i \in all : ev[i].status = "used") = (ts[k].status = "used")
    <2>1. T!OfTask(ev, "resource_consumed", k) = all
      BY OfTaskSame
    <2>2. /\ E!LastTime(ev, consumed) = ts[k].consumed
          /\ T!TimeOfLast(ev, T!OfTask(ev, "resource_consumed", k)) = ts[k].consumed
          /\ (consumed # {} /\ ev[E!Max(consumed)].status = "used") <=> ts[k].status = "used"
          /\ (\E i \in T!OfTask(ev, "resource_consumed", k) : ev[i].status = "used") <=>
                 ts[k].status = "used"
      BY UseRecord, Zenon
    <2> HIDE DEF all, consumed
    <2> QED BY <2>1, <2>2
  <1>2. /\ (cancels # {}) = Revoked(ts[k])
        /\ (cancels # {} /\ ev[E!Max(cancels)].wasted) = (ts[k].status = "wasted")
        /\ (cancels # {} /\ ev[T!Last(cancels)].wasted) = (ts[k].status = "wasted")
    BY RevokeRecord DEF Revoked
  <1>3. /\ E!StartEvent(ev, k).at = ts[k].started /\ E!StartEvent(ev, k).rid = ts[k].rid
        /\ T!StartOf(ev, k) = ts[k].started
    BY StartRecord
  <1>4. E!CompletedAt(ev, k) = EndTold(ts[k]) /\ T!EndOf(ev, k) = EndTold(ts[k])
    BY EndRecord
  <1>5. E!TaskRecord(ev, k) =
          [rid |-> E!StartEvent(ev, k).rid, started |-> E!StartEvent(ev, k).at,
           completed |-> E!CompletedAt(ev, k), consumed |-> E!LastTime(ev, consumed),
           used |-> consumed # {} /\ ev[E!Max(consumed)].status = "used",
           cancelled |-> cancels # {},
           wasted |-> cancels # {} /\ ev[E!Max(cancels)].wasted]
    BY DEF E!TaskRecord
  <1>6. T!OfTask(ev, "prefetch_cancelled", k) = cancels /\ T!OfTask(ev, "resource_consumed", k) = all
    BY OfTaskSame
  <1>7. T!TaskRecord(ev, k) =
          [start |-> T!StartOf(ev, k), end |-> T!EndOf(ev, k),
           needed |-> T!TimeOfLast(ev, all),
           cancelled |-> cancels # {},
           wasted |-> cancels # {} /\ ev[T!Last(cancels)].wasted,
           used |-> \E i \in all : ev[i].status = "used"]
    BY <1>6, Zenon DEF T!TaskRecord
  <1> HIDE DEF cancels, consumed, all
  <1>8. E!TaskRecord(ev, k) = EvalRecord(ts[k])
    BY <1>1, <1>2, <1>3, <1>4, <1>5, Zenon DEF EvalRecord
  <1>9. T!TaskRecord(ev, k) = ReportRecord(ts[k])
    BY <1>1, <1>2, <1>3, <1>4, <1>7, Zenon DEF ReportRecord
  <1> QED BY <1>8, <1>9

-------------------------------------------------------------------------------
(* overlap_report.py and parse_eval_traces.py agree.                       *)

\* How much of a load was hidden, and how much was waited for.
Hidden(t) == T!AtLeastZero(T!Earlier(t.lands, t.consumed) - t.started)
Waited(t) == T!AtLeastZero(t.lands - t.consumed)

\* Tasks with the relation of status and consumption that TasksTyped states.
Consistent(t) == t \in Task /\ (t.status = "used" <=> t.consumed # None)

LEMMA TaskOf ==
  ASSUME NEW ts, NEW now, TasksTyped(ts, now), NEW k \in DOMAIN ts
  PROVE  Consistent(ts[k])
  <1>1. ts[k] \in Task
    BY ElementOfSeq, LenProperties DEF TasksTyped
  <1> QED BY <1>1 DEF Consistent, TasksTyped

LEMMA SecondsOfUsed ==
  ASSUME NEW t, Consistent(t), t.status = "used", t.reported
  PROVE  /\ T!OverlapSeconds(ReportRecord(t)) = Hidden(t) /\ E!OverlapOf(EvalRecord(t)) = Hidden(t)
         /\ T!WasteSeconds(ReportRecord(t)) = Waited(t) /\ E!StallOf(EvalRecord(t)) = Waited(t)
         /\ Hidden(t) \in Nat /\ Waited(t) \in Nat
  <1>1. /\ t.lands \in Nat /\ t.consumed \in Nat /\ t.started \in Nat
    BY DEF Consistent, Task
  <1>2. E!Min({t.lands, t.consumed}) = T!Earlier(t.lands, t.consumed)
    <2>0. t.lands \in Int /\ t.consumed \in Int
      BY <1>1
    <2>1. E!Min({t.lands, t.consumed}) = IF t.lands <= t.consumed THEN t.lands ELSE t.consumed
      BY <2>0, MaxMinOfTwo, Zenon
    <2> QED BY <1>1, <2>1 DEF T!Earlier
  <1>3. /\ T!Earlier(t.lands, t.consumed) - t.started \in Int /\ t.lands - t.consumed \in Int
    BY <1>1 DEF T!Earlier
  <1>4. /\ E!NotNegative(T!Earlier(t.lands, t.consumed) - t.started) = Hidden(t)
        /\ E!NotNegative(t.lands - t.consumed) = Waited(t)
        /\ Hidden(t) \in Nat /\ Waited(t) \in Nat
    BY <1>3, Clipped DEF Hidden, Waited
  <1>5. /\ ReportRecord(t).end = t.lands /\ ReportRecord(t).needed = t.consumed
        /\ ReportRecord(t).start = t.started /\ ~ReportRecord(t).cancelled
    BY DEF ReportRecord, EndTold, Revoked
  <1>6. /\ EvalRecord(t).completed = t.lands /\ EvalRecord(t).consumed = t.consumed
        /\ EvalRecord(t).started = t.started
    BY DEF EvalRecord, EndTold
  <1>7. T!OverlapSeconds(ReportRecord(t)) = Hidden(t) /\ T!WasteSeconds(ReportRecord(t)) = Waited(t)
    BY <1>1, <1>5 DEF T!OverlapSeconds, T!WasteSeconds, T!Timed, T!Absent, Hidden, Waited
  <1>8. E!OverlapOf(EvalRecord(t)) = E!NotNegative(E!Min({t.lands, t.consumed}) - t.started)
    BY <1>1, <1>6 DEF E!OverlapOf, E!Missing
  <1>9. E!StallOf(EvalRecord(t)) = E!NotNegative(t.lands - t.consumed)
    BY <1>1, <1>6 DEF E!StallOf, E!Missing
  <1> QED BY <1>2, <1>4, <1>7, <1>8, <1>9

LEMMA SecondsOfOthers ==
  ASSUME NEW t, Consistent(t), ~(t.status = "used" /\ t.reported)
  PROVE  T!WasteSeconds(ReportRecord(t)) = 0 /\ E!StallOf(EvalRecord(t)) = 0
  <1>1. EndTold(t) = None \/ t.consumed = None
    BY DEF Consistent, EndTold
  <1> QED BY <1>1 DEF T!WasteSeconds, T!Timed, T!Absent, ReportRecord, E!StallOf, E!Missing,
                       EvalRecord, None

LEMMA ClassOfTask ==
  ASSUME NEW t, Consistent(t), NEW resources
  PROVE  LET class == E!ClassOf(EvalRecord(t), resources)
         IN  /\ t.status = "used" =>
                   class = IF t.reported /\ t.lands > t.consumed THEN "late" ELSE "useful"
             /\ t.status = "wasted" => class = "wasted"
             /\ t.status = "cancelled" => class = "cancelled"
             /\ t.status = "in_progress" => class \in {"duplicate", "wasted", "pending"}
  <1>1. /\ t.lands \in Nat /\ t.consumed \in Nat \cup {None} /\ t.reported \in BOOLEAN
        /\ t.status \in TaskStatus
    BY DEF Consistent, Task
  <1>2. EndTold(t) # E!Missing <=> t.reported
    BY <1>1 DEF EndTold, E!Missing, None
  <1>3. t.status = "used" => t.consumed \in Nat
    BY <1>1 DEF Consistent
  <1> QED BY <1>1, <1>2, <1>3 DEF E!ClassOf, EvalRecord, Revoked, EndTold, TaskStatus

LEMMA StatusOfTask ==
  ASSUME NEW t, Consistent(t)
  PROVE  /\ T!TaskStatus(ReportRecord(t)) = "used" <=> t.status = "used"
         /\ T!TaskStatus(ReportRecord(t)) = "cancelled" <=> t.status = "cancelled"
  <1>1. t.status \in TaskStatus
    BY DEF Consistent, Task
  <1> QED BY <1>1 DEF T!TaskStatus, ReportRecord, Revoked, TaskStatus

\* What holds in every state of a run.
RunInv == Typed /\ Stamped /\ Kept(events, tasks) /\ LagsMet /\ CallsTold(events)

LEMMA EachRecord ==
  ASSUME RunInv
  PROVE  /\ T!TasksOf(events) = DOMAIN tasks /\ E!TasksOf(events) = DOMAIN tasks
         /\ \A k \in DOMAIN tasks : /\ T!TaskRecord(events, k) = ReportRecord(tasks[k])
                                    /\ E!TaskRecord(events, k) = EvalRecord(tasks[k])
                                    /\ Consistent(tasks[k])
         /\ IsFiniteSet(DOMAIN tasks) /\ DOMAIN tasks \subseteq Nat \ {0}
         /\ Told \subseteq Used /\ Used \subseteq DOMAIN tasks
         /\ IsFiniteSet(Used) /\ IsFiniteSet(Told)
  <1>1. Typed /\ Kept(events, tasks) /\ CallsTold(events) /\ TasksTyped(tasks, clock)
    BY DEF RunInv, Kept
  <1>2. DOMAIN tasks = 1 .. Len(tasks) /\ Len(tasks) \in Nat
    BY <1>1, LenProperties DEF TasksTyped
  <1>3. IsFiniteSet(DOMAIN tasks)
    BY <1>2, FS_Interval
  <1>4. Told \subseteq Used /\ Used \subseteq DOMAIN tasks
    BY DEF Told, Used
  <1>5. IsFiniteSet(Used) /\ IsFiniteSet(Told)
    BY <1>3, <1>4, FS_Subset
  <1>6. \A k \in DOMAIN tasks : /\ T!TaskRecord(events, k) = ReportRecord(tasks[k])
                                /\ E!TaskRecord(events, k) = EvalRecord(tasks[k])
                                /\ Consistent(tasks[k])
    BY <1>1, RecordOf, TaskOf
  <1> QED BY <1>1, <1>2, <1>3, <1>4, <1>5, <1>6, TasksListed

\* The class of a task.
LEMMA EachClass ==
  ASSUME RunInv, NEW k \in DOMAIN tasks
  PROVE  /\ tasks[k].status = "used" => E!Classify(events, k) \in {"useful", "late"}
         /\ tasks[k].status = "used" =>
               (E!Classify(events, k) = "late" <=> /\ tasks[k].reported
                                                   /\ tasks[k].lands > tasks[k].consumed)
         /\ tasks[k].status = "wasted" => E!Classify(events, k) = "wasted"
         /\ tasks[k].status = "cancelled" => E!Classify(events, k) = "cancelled"
         /\ tasks[k].status = "in_progress" =>
               E!Classify(events, k) \in {"duplicate", "wasted", "pending"}
  <1>1. E!Classify(events, k) = E!ClassOf(EvalRecord(tasks[k]), E!UsedResources(events))
    BY EachRecord DEF E!Classify
  <1>2. Consistent(tasks[k])
    BY EachRecord
  <1> QED BY <1>1, <1>2, ClassOfTask

LEMMA WasteAgrees ==
  ASSUME RunInv
  PROVE  T!OverlapSummary(events).waste =
            SumFunction([k \in Told |-> E!StallOf(E!TaskRecord(events, k))])
  <1> DEFINE S == DOMAIN tasks
             g == [k \in S |-> T!WasteSeconds(ReportRecord(tasks[k]))]
  <1>1. T!OverlapSummary(events).waste =
            T!SumFunction([k \in T!TasksOf(events) |-> T!WasteSeconds(T!TaskRecord(events, k))])
    BY DEF T!OverlapSummary
  <1>2. [k \in T!TasksOf(events) |-> T!WasteSeconds(T!TaskRecord(events, k))] = [x \in S |-> g[x]]
    BY EachRecord
  <1>3. T!OverlapSummary(events).waste = Part(g, S)
    BY <1>1, <1>2, SumsSame DEF Part
  <1>4. \A k \in Told : /\ g[k] = E!StallOf(E!TaskRecord(events, k))
                        /\ g[k] \in Int
    <2> TAKE k \in Told
    <2>1. k \in S /\ Consistent(tasks[k]) /\ tasks[k].status = "used" /\ tasks[k].reported
      BY EachRecord DEF Told, Used
    <2>2. /\ T!WasteSeconds(ReportRecord(tasks[k])) = Waited(tasks[k])
          /\ E!StallOf(EvalRecord(tasks[k])) = Waited(tasks[k]) /\ Waited(tasks[k]) \in Nat
      BY <2>1, SecondsOfUsed
    <2> QED BY <2>1, <2>2, EachRecord
  <1>5. \A k \in S \ Told : g[k] = 0
    <2> TAKE k \in S \ Told
    <2>1. Consistent(tasks[k]) /\ ~(tasks[k].status = "used" /\ tasks[k].reported)
      BY EachRecord DEF Told, Used
    <2> QED BY <2>1, SecondsOfOthers
  <1>6. IsFiniteSet(S) /\ Told \in SUBSET S
    BY EachRecord
  <1> HIDE DEF g, S
  <1>7. Part(g, S) = Part(g, Told)
    BY <1>4, <1>5, <1>6, PartWithin DEF IntOn
  <1>8. [x \in Told |-> g[x]] = [k \in Told |-> E!StallOf(E!TaskRecord(events, k))]
    BY <1>4
  <1> QED BY <1>3, <1>7, <1>8 DEF Part

LEMMA CountsAgree ==
  ASSUME RunInv
  PROVE  /\ T!StatusCount(events, "used") = E!CountOf(events, "useful") + E!CountOf(events, "late")
         /\ T!StatusCount(events, "cancelled") = E!CountOf(events, "cancelled")
  <1> DEFINE S == DOMAIN tasks
             of(class) == {k \in S : E!Classify(events, k) = class}
             with(status) == {k \in S : T!TaskStatus(ReportRecord(tasks[k])) = status}
  <1>1. \A class : E!CountOf(events, class) = Cardinality(of(class))
    BY EachRecord, CountsSame DEF E!CountOf
  <1>2. \A status : T!StatusCount(events, status) = Cardinality(with(status))
    <2> TAKE status
    <2>1. with(status) = {k \in T!TasksOf(events) : T!TaskStatus(T!TaskRecord(events, k)) = status}
      BY EachRecord
    <2> QED BY <2>1, CountsSame DEF T!StatusCount
  <1>3. \A k \in S : tasks[k].status \in TaskStatus
    BY EachRecord DEF Consistent, Task
  <1>4. with("used") = of("useful") \cup of("late") /\ of("useful") \cap of("late") = {}
    BY <1>3, EachRecord, EachClass, StatusOfTask DEF TaskStatus
  <1>5. with("cancelled") = of("cancelled")
    BY <1>3, EachRecord, EachClass, StatusOfTask DEF TaskStatus
  <1>6. IsFiniteSet(of("useful")) /\ IsFiniteSet(of("late"))
    BY EachRecord, FS_Subset
  <1> HIDE DEF of, with
  <1>7. Cardinality(of("useful") \cup of("late")) =
            Cardinality(of("useful")) + Cardinality(of("late"))
    BY <1>4, <1>6, CountsAdd
  <1> QED BY <1>1, <1>2, <1>4, <1>5, <1>7

LEMMA ReportsMeet ==
  ASSUME RunInv
  PROVE  ReportsAgree /\ ClassesTrue
  <1>1. ASSUME NEW k \in Told
        PROVE  /\ T!OverlapSeconds(T!TaskRecord(events, k)) = E!OverlapOf(E!TaskRecord(events, k))
               /\ T!WasteSeconds(T!TaskRecord(events, k)) = E!StallOf(E!TaskRecord(events, k))
    <2>1. /\ k \in DOMAIN tasks /\ Consistent(tasks[k])
          /\ tasks[k].status = "used" /\ tasks[k].reported
      BY EachRecord DEF Told, Used
    <2> QED BY <2>1, SecondsOfUsed, EachRecord
  <1>2. ReportsAgree
    BY <1>1, WasteAgrees, CountsAgree DEF ReportsAgree
  <1>3. ASSUME NEW k \in DOMAIN tasks, tasks[k].reported
        PROVE  /\ k \in Used => (E!Classify(events, k) = "late") =
                                    (tasks[k].lands > tasks[k].consumed)
               /\ k \in Used => E!Classify(events, k) \in {"late", "useful"}
               /\ tasks[k].status \in {"wasted", "cancelled"} =>
                     E!Classify(events, k) = tasks[k].status
    <2>1. k \in Used => tasks[k].status = "used"
      BY DEF Used
    <2> QED BY <1>3, <2>1, EachClass
  <1>4. ClassesTrue
    BY <1>3 DEF ClassesTrue
  <1> QED BY <1>2, <1>4

-------------------------------------------------------------------------------
(* trace_analyzer.py, where a resource has one task.                       *)

OneTaskEach == \A k, x \in DOMAIN tasks : k # x => tasks[k].rid # tasks[x].rid

LEMMA TotalOverlap ==
  \A ev : T!AnalyzerTotals(ev).overlap =
             T!SumFunction([rid \in T!ResourcesOf(ev) |-> T!ResourceOverlap(T!ResourceRecord(ev, rid))])
  BY DEF T!AnalyzerTotals

\* What its record has of the resource of a used task.
LEMMA UsedResource ==
  ASSUME RunInv, OneTaskEach, NEW k \in Used
  PROVE  LET r == T!ResourceRecord(events, tasks[k].rid)
         IN  /\ r.started = tasks[k].started /\ r.consumed = tasks[k].consumed
             /\ r.status = "used"
             /\ tasks[k].reported => r.completed = tasks[k].lands + pace.lag
  <1> DEFINE rid == tasks[k].rid
             starts == T!OfResource(events, "prefetch_started", rid)
             uses == T!OfResource(events, "resource_consumed", rid)
             ends == T!Completions(events, rid)
             ofTask == {i \in Ends(events) : events[i].task = k}
  <1>0. /\ k \in DOMAIN tasks /\ tasks[k].status = "used" /\ k # 0
        /\ \A x \in DOMAIN tasks : tasks[x].rid = rid => x = k
    BY EachRecord DEF Used, OneTaskEach
  <1>1. /\ events \in Seq(Event) /\ StartsTold(events, tasks) /\ EndsTold(events, tasks, pace.lag)
        /\ UsesTold(events, tasks) /\ UsesLast(events, tasks)
    BY DEF RunInv, Kept, TaskLog
  <1>2. /\ \A type : T!Where(events, type) = E!Where(events, type)
        /\ \A type : E!Where(events, type) \subseteq Nat
    BY <1>1, Positions
  <1>3. starts = {i \in Starts(events) : events[i].rid = rid}
        /\ uses = {i \in Uses(events) : events[i].rid = rid}
    BY <1>2 DEF T!OfResource, Starts, Uses
  <1>4. PICK s \in Starts(events) : events[s].task = k
    BY <1>0, <1>1 DEF StartsTold
  <1>5. starts = {s} /\ events[s].at = tasks[k].started /\ s \in Nat
    <2>1. \A i \in starts : i = s
      BY <1>0, <1>1, <1>3, <1>4 DEF StartsTold
    <2>2. s \in starts /\ events[s].at = tasks[k].started
      BY <1>1, <1>3, <1>4 DEF StartsTold
    <2> QED BY <1>2, <2>1, <2>2 DEF Starts
  <1>6. ends = ofTask
    <2>1. \A i \in Ends(events) : events[i].task = k => s < i
      BY <1>1, <1>4 DEF StartsTold, EndsTold
    <2> DEFINE before(i) == {x \in starts : x < i}
    <2>2. ends = {i \in Ends(events) :
                     before(i) # {} /\ events[i].task = events[T!Last(before(i))].task}
      BY <1>2 DEF T!Completions, Ends
    <2>3. \A i \in Ends(events) : s < i => before(i) = {s}
      BY <1>5
    <2>4. \A i \in Ends(events) : before(i) # {} => s < i /\ before(i) = {s}
      BY <1>5
    <2>5. T!Last({s}) = s
      <3>1. {s} \in SUBSET E!Where(events, "prefetch_started")
        BY <1>4 DEF Starts
      <3>2. IsLast(T!Last({s}), {s})
        BY <1>1, <3>1, LastIn
      <3> QED BY <3>2 DEF IsLast
    <2> HIDE DEF before, starts, ends
    <2>6. \A i \in Ends(events) :
             (before(i) # {} /\ events[i].task = events[T!Last(before(i))].task)
             <=> events[i].task = k
      BY <1>4, <2>1, <2>3, <2>4, <2>5
    <2> QED BY <2>2, <2>6
  <1>7. PICK i \in uses : /\ events[i].at = tasks[k].consumed /\ events[i].task = k
                          /\ events[i].status = "used" /\ \A j \in uses : j <= i
    <2>1. PICK i \in Uses(events) : /\ events[i].task = k /\ events[i].at = tasks[k].consumed
                                    /\ \A j \in Uses(events) : events[j].task = k => j <= i
      BY <1>0, <1>1 DEF UsesTold
    <2>2. events[i].rid = rid /\ events[i].status = "used"
      BY <1>0, <1>1, <2>1 DEF UsesTold
    <2>3. \A j \in uses : j <= i
      <3> SUFFICES ASSUME NEW j \in uses, ~(j <= i) PROVE FALSE
        OBVIOUS
      <3>1. i < j /\ j \in Uses(events) /\ events[j].rid = events[i].rid
        BY <1>2, <1>3, <2>1, <2>2 DEF Uses
      <3>2. events[j].task # events[i].task
        BY <2>1, <3>1
      <3>3. \E x \in DOMAIN tasks : x # k /\ tasks[x].rid = rid
        BY <1>0, <1>1, <2>1, <2>2, <3>1, <3>2 DEF UsesLast
      <3> QED BY <1>0, <3>3
    <2> QED BY <1>3, <2>1, <2>2, <2>3
  <1>8. T!Last(starts) = s /\ T!Last(uses) = i
    <2>1. /\ starts \in SUBSET E!Where(events, "prefetch_started")
          /\ uses \in SUBSET E!Where(events, "resource_consumed")
      BY <1>3 DEF Starts, Uses
    <2>2. IsLast(T!Last(starts), starts) /\ IsLast(T!Last(uses), uses)
      BY <1>1, <1>5, <1>7, <2>1, LastIn
    <2>3. IsLast(i, uses) /\ uses \subseteq Nat
      BY <1>2, <1>7, <2>1 DEF IsLast
    <2>4. T!Last(uses) = i
      BY <2>2, <2>3, OneLast
    <2> QED BY <1>5, <2>2, <2>4 DEF IsLast
  <1>9. tasks[k].reported => ofTask # {} /\ T!Last(ofTask) \in ofTask
    <2>1. ofTask \in SUBSET E!Where(events, "prefetch_completed")
      BY DEF Ends
    <2>2. tasks[k].reported => ofTask # {}
      BY <1>0, <1>1 DEF EndsTold
    <2> HIDE DEF ofTask
    <2> QED BY <1>1, <2>1, <2>2, LastIn DEF IsLast
  <1>10. \A j \in ofTask : events[j].at = tasks[k].lands + pace.lag
    BY <1>1 DEF EndsTold
  <1>11. T!TimeOfLast(events, starts) = tasks[k].started
    BY <1>5, <1>8 DEF T!TimeOfLast
  <1>12. T!TimeOfLast(events, uses) = tasks[k].consumed /\ uses # {}
    BY <1>7, <1>8 DEF T!TimeOfLast
  <1>13. tasks[k].reported => T!TimeOfLast(events, ends) = tasks[k].lands + pace.lag
    <2> HIDE DEF ofTask
    <2> QED BY <1>6, <1>9, <1>10 DEF T!TimeOfLast
  <1> DEFINE r == T!ResourceRecord(events, rid)
  <1>14. /\ r.started = T!TimeOfLast(events, starts) /\ r.completed = T!TimeOfLast(events, ends)
         /\ r.consumed = T!TimeOfLast(events, uses)
         /\ r.status = IF uses = {} THEN "" ELSE events[T!Last(uses)].status
    BY DEF T!ResourceRecord
  <1> QED BY <1>7, <1>8, <1>11, <1>12, <1>13, <1>14

\* The analyzer takes a completion when it was logged: as much too late as the
\* poll thread lags.
LEMMA AnalyzerLate ==
  ASSUME RunInv, OneTaskEach, NEW k \in Told
  PROVE  LET r == T!ResourceRecord(events, tasks[k].rid)
             eval == E!TaskRecord(events, k)
         IN  /\ T!ResourceStall(r) - E!StallOf(eval) \in 0 .. pace.lag
             /\ T!ResourceOverlap(r) - E!OverlapOf(eval) \in 0 .. pace.lag
             /\ T!ResourceOverlap(r) \in Int /\ E!OverlapOf(eval) \in Int
  <1> DEFINE r == T!ResourceRecord(events, tasks[k].rid)
             eval == E!TaskRecord(events, k)
             t == tasks[k]
  <1>1. /\ k \in Used /\ k \in DOMAIN tasks /\ Consistent(t) /\ t.status = "used" /\ t.reported
    BY EachRecord DEF Told, Used
  <1>2. /\ r.started = t.started /\ r.consumed = t.consumed /\ r.status = "used"
        /\ r.completed = t.lands + pace.lag
    BY <1>1, UsedResource
  <1>3. /\ E!StallOf(eval) = Waited(t) /\ E!OverlapOf(eval) = Hidden(t)
    BY <1>1, EachRecord, SecondsOfUsed
  <1>4. /\ t.started \in Nat /\ t.consumed \in Nat /\ t.lands \in Nat
    BY <1>1 DEF Consistent, Task
  <1>5. pace.lag \in Nat
    BY PaceType DEF RunInv, Typed
  <1>6. T!ResourceStall(r) = T!AtLeastZero((t.lands + pace.lag) - t.consumed)
    <2> HIDE DEF r, t
    <2> QED BY <1>2, <1>4, <1>5 DEF T!ResourceStall, T!Absent
  <1>7. T!ResourceOverlap(r) =
            T!AtLeastZero(T!Earlier(t.lands + pace.lag, t.consumed) - t.started)
    <2> HIDE DEF r, t
    <2> QED BY <1>2, <1>4, <1>5 DEF T!ResourceOverlap, T!Absent
  <1> HIDE DEF r, eval, t
  <1>8. T!ResourceStall(r) - E!StallOf(eval) \in 0 .. pace.lag
    BY <1>3, <1>4, <1>5, <1>6 DEF Waited, T!AtLeastZero
  <1>9. /\ T!ResourceOverlap(r) - E!OverlapOf(eval) \in 0 .. pace.lag
        /\ T!ResourceOverlap(r) \in Int /\ E!OverlapOf(eval) \in Int
    BY <1>3, <1>4, <1>5, <1>7 DEF Hidden, T!AtLeastZero, T!Earlier
  <1> QED BY <1>8, <1>9 DEF r, eval, t

\* A resource without a used task was consumed without a prefetch, or not at all.
LEMMA UnusedResource ==
  ASSUME RunInv, NEW rid \in T!ResourcesOf(events), \A k \in Used : tasks[k].rid # rid
  PROVE  T!ResourceOverlap(T!ResourceRecord(events, rid)) = 0
  <1> DEFINE uses == T!OfResource(events, "resource_consumed", rid)
             r == T!ResourceRecord(events, rid)
  <1>1. events \in Seq(Event) /\ UsesTold(events, tasks)
    BY DEF RunInv, Kept, TaskLog
  <1>2. uses = {i \in Uses(events) : events[i].rid = rid}
    BY <1>1, Positions DEF T!OfResource, Uses
  <1>3. \A i \in uses : events[i].status = "no_prefetch"
    BY <1>1, <1>2 DEF UsesTold, Used
  <1>4. uses \in SUBSET E!Where(events, "resource_consumed")
    BY <1>2 DEF Uses
  <1>5. /\ r.consumed = T!TimeOfLast(events, uses)
        /\ r.status = IF uses = {} THEN "" ELSE events[T!Last(uses)].status
    BY DEF T!ResourceRecord
  <1>6. uses # {} => T!Last(uses) \in uses
    <2> HIDE DEF uses
    <2> QED BY <1>1, <1>4, LastIn DEF IsLast
  <1> HIDE DEF uses, r
  <1>7. r.consumed = T!Absent \/ r.status = "no_prefetch"
    BY <1>3, <1>5, <1>6 DEF T!TimeOfLast
  <1>8. T!ResourceOverlap(r) = 0
    BY <1>7 DEF T!ResourceOverlap
  <1> QED BY <1>8 DEF r

LEMMA ServedUsed ==
  ASSUME RunInv
  PROVE  E!Served(events) = Used
  <1>1. \A k \in DOMAIN tasks : tasks[k].status \in TaskStatus
    BY EachRecord DEF Consistent, Task
  <1>2. \A k \in DOMAIN tasks : E!Classify(events, k) \in {"useful", "late"} <=>
                                   tasks[k].status = "used"
    BY <1>1, EachClass DEF TaskStatus
  <1>3. E!TasksOf(events) = DOMAIN tasks
    BY EachRecord
  <1> QED BY <1>2, <1>3 DEF E!Served, Used

LEMMA TotalsLate ==
  ASSUME RunInv, OneTaskEach, Used = Told
  PROVE  T!AnalyzerTotals(events).overlap - E!OverlapSeconds(events)
            \in 0 .. (pace.lag * Cardinality(Used))
  <1> DEFINE R == T!ResourcesOf(events)
             f == [k \in Used |-> tasks[k].rid]
             g == [rid \in R |-> T!ResourceOverlap(T!ResourceRecord(events, rid))]
             h == [k \in Used |-> g[f[k]]]
             o == [k \in Used |-> E!OverlapOf(E!TaskRecord(events, k))]
             moved == {f[k] : k \in Used}
  <1>1. T!AnalyzerTotals(events).overlap = Part(g, R)
    <2>1. T!AnalyzerTotals(events).overlap = SumFunction(g)
      BY TotalOverlap, SumsSame
    <2>2. g = [x \in R |-> g[x]]
      OBVIOUS
    <2> QED BY <2>1, <2>2 DEF Part
  <1>2. E!OverlapSeconds(events) = Part(o, Used)
    <2>1. E!OverlapSeconds(events) = SumFunction(o)
      BY ServedUsed, SumsSame DEF E!OverlapSeconds
    <2>2. o = [x \in Used |-> o[x]]
      OBVIOUS
    <2> QED BY <2>1, <2>2 DEF Part
  <1>3. IsFiniteSet(Used) /\ events \in Seq(Event) /\ StartsTold(events, tasks)
    BY EachRecord DEF RunInv, Kept, TaskLog
  <1>4. \A k \in Used : f[k] \in R
    <2> TAKE k \in Used
    <2>1. k \in DOMAIN tasks
      BY EachRecord
    <2>2. PICK i \in Starts(events) : events[i].task = k
      BY <1>3, <2>1 DEF StartsTold
    <2>3. events[i].rid = tasks[k].rid
      BY <1>3, <2>2 DEF StartsTold
    <2>4. i \in T!Where(events, "prefetch_started")
      BY <1>3, Positions DEF Starts
    <2> QED BY <2>3, <2>4 DEF T!ResourcesOf
  <1>5. moved \in SUBSET R
    BY <1>4
  <1>6. IsFiniteSet(R)
    <2>1. R \subseteq Resource
      <3> SUFFICES ASSUME NEW i \in Starts(events) \cup Uses(events)
                   PROVE  events[i].rid \in Resource
        BY <1>3, Positions DEF T!ResourcesOf, Starts, Uses
      <3>1. CASE i \in Starts(events)
        BY <1>3, <3>1, EachRecord DEF StartsTold, Consistent, Task
      <3>2. CASE i \in Uses(events)
        <4>1. i \in DOMAIN events /\ events[i].type = "resource_consumed"
          BY <3>2 DEF Uses, E!Where
        <4>2. events[i] \in Event
          BY <1>3, <4>1, ElementOfSeq, LenProperties
        <4> QED BY <4>1, <4>2, EventFields
      <3> QED BY <3>1, <3>2
    <2>2. IsFiniteSet({} \cup {"model_cache"})
      BY FS_EmptySet, FS_AddElement
    <2>3. IsFiniteSet(({} \cup {"model_cache"}) \cup {"vllm_model"})
      BY <2>2, FS_AddElement
    <2>4. IsFiniteSet((({} \cup {"model_cache"}) \cup {"vllm_model"}) \cup {"mace_model"})
      BY <2>3, FS_AddElement
    <2>5. Resource = (({} \cup {"model_cache"}) \cup {"vllm_model"}) \cup {"mace_model"}
      BY DEF Resource
    <2> HIDE DEF R
    <2> QED BY <2>1, <2>4, <2>5, FS_Subset
  <1>7. \A k \in Used : \A x \in Used : f[k] = f[x] => k = x
    BY EachRecord DEF OneTaskEach
  <1>8. \A k \in Used : /\ h[k] = g[f[k]] /\ h[k] - o[k] \in 0 .. pace.lag
                        /\ h[k] \in Int /\ o[k] \in Int
    <2> TAKE k \in Used
    <2>1. h[k] = T!ResourceOverlap(T!ResourceRecord(events, tasks[k].rid))
      BY <1>4
    <2> QED BY <2>1, AnalyzerLate
  <1>9. \A rid \in R \ moved : g[rid] = 0
    <2> TAKE rid \in R \ moved
    <2>1. \A k \in Used : tasks[k].rid # rid
      OBVIOUS
    <2> QED BY <2>1, UnusedResource
  <1>10. \A x \in moved : g[x] \in Int
    BY <1>8
  <1>11. pace.lag \in Nat
    BY PaceType DEF RunInv, Typed
  <1> HIDE DEF R, f, g, h, o
  <1>12. Part(h, Used) = Part(g, moved)
    <2>1. \A k \in Used : h[k] = g[f[k]] /\ h[k] \in Int
      BY <1>8
    <2>2. Part(h, Used) = Part(g, {f[k] : k \in Used})
      BY <1>3, <1>7, <2>1, PartMoved
    <2> QED BY <2>2
  <1> HIDE DEF moved
  <1>13. Part(g, R) = Part(g, moved)
    BY <1>5, <1>6, <1>9, <1>10, PartWithin DEF IntOn
  <1>14. Within(h, o, Used, pace.lag)
    BY <1>3, <1>8, <1>11, PartBetween DEF IntOn
  <1> QED BY <1>1, <1>2, <1>12, <1>13, <1>14 DEF Within

LEMMA AnalyzerMeets ==
  ASSUME RunInv
  PROVE  AnalyzerLag
  <1> SUFFICES ASSUME OneTaskEach
               PROVE  /\ \A k \in Told :
                            T!ResourceStall(T!ResourceRecord(events, tasks[k].rid))
                                - E!StallOf(E!TaskRecord(events, k)) \in 0 .. pace.lag
                      /\ Used = Told =>
                            T!AnalyzerTotals(events).overlap - E!OverlapSeconds(events)
                                \in 0 .. (pace.lag * Cardinality(Used))
    BY DEF AnalyzerLag, OneTaskEach
  <1> QED BY AnalyzerLate, TotalsLate

-------------------------------------------------------------------------------
(* Every state of every run.                                               *)

LEMMA RunInvInit ==
  ASSUME TraceInit
  PROVE  RunInv
  <1>1. pace.lag \in Nat /\ clock = 0 /\ events = <<>> /\ tasks = <<>> /\ needs = <<>>
    BY PaceType DEF TraceInit
  <1>2. engines \in [Gate -> Nat \cup {None}]
    BY DEF TraceInit, Gate, None
  <1>3. Typed
    <2>1. needs \in Seq(Need) /\ taken \subseteq DOMAIN tasks
      BY <1>1 DEF TraceInit
    <2>2. /\ mode \in Mode /\ pace \in Paces /\ clock \in Nat /\ step \in 0 .. MaxTools
          /\ pc \in Activity /\ busy \in Nat /\ since \in 0 .. clock /\ onDemand \in BOOLEAN
      <3>1. MaxTools \in Nat
        BY TraceConstants
      <3>2. step \in 0 .. MaxTools /\ clock \in Nat /\ since \in 0 .. clock /\ busy \in Nat
        BY <3>1 DEF TraceInit
      <3>3. pc \in Activity /\ onDemand \in BOOLEAN
        BY DEF TraceInit, Activity
      <3> QED BY <3>2, <3>3 DEF TraceInit
    <2>3. pending \in 0 .. step /\ until \in Nat /\ thought \in 0 .. clock
      BY DEF TraceInit
    <2> QED BY <1>2, <2>1, <2>2, <2>3 DEF Typed
  <1>4. Stamped /\ LagsMet
    BY <1>1 DEF Stamped, LagsMet
  <1>5. \A type : E!Where(events, type) = {}
    BY <1>1 DEF E!Where
  <1>6. Kept(events, tasks) /\ CallsTold(events)
    <2>1. TaskLog(events, tasks, pace.lag)
      BY <1>1, <1>5 DEF TaskLog, StartsTold, EndsTold, UsesTold, UsesLast, RevokesTold, Starts,
                        Ends, Uses, Revokes
    <2>2. TasksTyped(tasks, clock)
      BY <1>1 DEF TasksTyped
    <2> QED BY <1>1, <1>5, <2>1, <2>2 DEF Kept, CallsTold, Uses
  <1> QED BY <1>3, <1>4, <1>6 DEF RunInv

LEMMA RunInvNext ==
  ASSUME RunInv, [TraceNext]_vars
  PROVE  RunInv'
  <1>1. Typed /\ Stamped /\ Kept(events, tasks) /\ LagsMet /\ CallsTold(events)
    BY DEF RunInv
  <1> QED BY <1>1, TypedNext, StampedNext, KeptNext, LagsNext, CallsNext DEF RunInv

\* The trace tells of every task when it started, when it ended, when it was
\* consumed and how it was revoked, in every state of a run.
THEOREM RunInvariant ==
  TraceSpec => []RunInv
  <1>1. TraceInit => RunInv
    BY RunInvInit
  <1>2. RunInv /\ [TraceNext]_vars => RunInv'
    BY RunInvNext
  <1> QED BY <1>1, <1>2, PTL DEF TraceSpec

\* The three programs that rebuild the records of the tasks from one trace
\* (overlap_report.py, parse_eval_traces.py, trace_analyzer.py) agree, up to
\* the lag of the poll thread, however long the loads and the nodes take.
THEOREM RecordsAlwaysAgree ==
  TraceSpec => []RecordsAgree
  <1>1. RunInv => RecordsAgree
    BY ReportsMeet, AnalyzerMeets DEF RecordsAgree
  <1> QED BY <1>1, RunInvariant, PTL

\* A task whose end is in the trace gets the class it deserves, however late
\* the poll thread logged it (classify_task() of parse_eval_traces.py).
THEOREM ClassesAlwaysTrue ==
  TraceSpec => []ClassesTrue
  <1>1. RunInv => ClassesTrue
    BY ReportsMeet
  <1> QED BY <1>1, RunInvariant, PTL

\* The fields of the state of a run, the times in the trace and in the tasks
\* stay what they are declared to be.
THEOREM TypesHold ==
  TraceSpec => []TypeOK
  <1>1. ASSUME RunInv
        PROVE  TypeOK
    <2>1. Typed /\ Stamped /\ TasksTyped(tasks, clock)
      BY <1>1 DEF RunInv, Kept
    <2>2. \A i \in DOMAIN events : events[i].at \in 0 .. clock
      <3> TAKE i \in DOMAIN events
      <3>1. events[i] \in Event
        BY <2>1, ElementOfSeq, LenProperties DEF Stamped
      <3>2. events[i].at \in Nat
        BY <3>1, EventFields
      <3> QED BY <2>1, <3>2 DEF Stamped, Typed
    <2>3. \A k \in DOMAIN tasks :
             /\ tasks[k].status \in {"in_progress", "used", "cancelled", "wasted"}
             /\ tasks[k].started \in 0 .. clock
             /\ tasks[k].consumed \in {None} \cup 0 .. clock
      <3> TAKE k \in DOMAIN tasks
      <3>1. tasks[k] \in Task
        BY <2>1, ElementOfSeq, LenProperties DEF TasksTyped
      <3> QED BY <2>1, <3>1 DEF TasksTyped, Typed, Task, TaskStatus
    <2> QED BY <2>1, <2>2, <2>3 DEF TypeOK, Typed, Activity
  <1> QED BY <1>1, RunInvariant, PTL
===============================================================================
