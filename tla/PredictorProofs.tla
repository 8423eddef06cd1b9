---------------------------- MODULE PredictorProofs ----------------------------
(***************************************************************************)
(* Theorems about PredictorReplay: for any traces, run, tables and bounds, *)
(* the transition table counts what the traces hold, and no predictor is   *)
(* wrong about a run it knows.                                             *)
(***************************************************************************)
EXTENDS PredictorReplay, FiniteSetTheorems, SequenceTheorems, WellFoundedInduction, TLAPS

-------------------------------------------------------------------------------
(* Sums.                                                                   *)

LEMMA CountsAdd ==
  ASSUME NEW a, IsFiniteSet(a), NEW b, IsFiniteSet(b), a \cap b = {}
  PROVE  Cardinality(a \cup b) = Cardinality(a) + Cardinality(b)
  <1>1. Cardinality(a \cap b) = 0
    BY FS_EmptySet
  <1>2. Cardinality(a) \in Nat /\ Cardinality(b) \in Nat
    BY FS_CardinalityType
  <1>3. Cardinality(a \cup b) = Cardinality(a) + Cardinality(b) - Cardinality(a \cap b)
    BY FS_Union
  <1> QED BY <1>1, <1>2, <1>3

LEMMA LeastIndex ==
  ASSUME NEW S \in SUBSET Nat, S # {}
  PROVE  \E k \in S : \A z \in S : k <= z
  <1> DEFINE R == OpToRel(<, Nat)
  <1>1. PICK k \in S : \A z \in S : <<z, k>> \notin R
    BY NatLessThanWellFounded, WFMin
  <1>2. \A z \in S : ~(z < k)
    BY <1>1 DEF OpToRel
  <1> QED BY <1>2

\* f adds up g over the subsets of S, an element after the other.
Some(s) == CHOOSE x \in s : TRUE
Sums(f, g, S) == f = [s \in SUBSET S |-> IF s = {} THEN 0 ELSE g[Some(s)] + f[s \ {Some(s)}]]

\* There is such a function, since a subset is larger than what is left of it.
LEMMA SumsExist ==
  ASSUME NEW S, IsFiniteSet(S), NEW g \in [S -> Int]
  PROVE  \E f : Sums(f, g, S)
  <1> DEFINE Small(num) == {s \in SUBSET S : Cardinality(s) <= num}
             Part(f, num) == f = [s \in Small(num) |-> IF s = {} THEN 0 ELSE g[Some(s)] + f[s \ {Some(s)}]]
             bad == {num \in Nat : ~\E f : Part(f, num)}
  <1>1. \A s \in SUBSET S : /\ Cardinality(s) \in Nat /\ (Cardinality(s) = 0 <=> s = {})
                            /\ s # {} => Some(s) \in s /\ Cardinality(s \ {Some(s)}) = Cardinality(s) - 1
    <2> TAKE s \in SUBSET S
    <2>1. IsFiniteSet(s)
      BY FS_Subset
    <2>2. s # {} => Some(s) \in s
      BY DEF Some
    <2> QED BY <2>1, <2>2, FS_CardinalityType, FS_EmptySet, FS_RemoveElement
  <1>2. \E f : Part(f, 0)
    <2> DEFINE f == [s \in Small(0) |-> 0]
    <2>1. \A s \in Small(0) : s = {}
      <3> TAKE s \in Small(0)
      <3>1. s \in SUBSET S /\ Cardinality(s) <= 0
        OBVIOUS
      <3> HIDE DEF Small
      <3>4. Cardinality(s) \in Nat
        BY <1>1, <3>1
      <3>2. Cardinality(s) = 0
        BY <3>1, <3>4
      <3>3. Cardinality(s) = 0 <=> s = {}
        BY <1>1, <3>1
      <3> QED BY <3>2, <3>3
    <2>2. Part(f, 0)
      BY <2>1
    <2> QED BY <2>2
  <1>3. ASSUME NEW num \in Nat, NEW f, Part(f, num)
        PROVE  \E h : Part(h, num + 1)
    <2> DEFINE h == [s \in Small(num + 1) |-> IF s \in Small(num) THEN f[s] ELSE g[Some(s)] + f[s \ {Some(s)}]]
    <2>1. \A s \in Small(num + 1) : s # {} => s \ {Some(s)} \in Small(num) /\ h[s \ {Some(s)}] = f[s \ {Some(s)}]
      <3> TAKE s \in Small(num + 1)
      <3> HAVE s # {}
      <3> DEFINE r == s \ {Some(s)}
      <3>1. r \in SUBSET S /\ Cardinality(r) <= num
        BY <1>1
      <3>2. r \in Small(num) /\ r \in Small(num + 1)
        BY <1>1, <3>1
      <3> HIDE DEF r
      <3> QED BY <3>2 DEF r
    <2>2. \A s \in Small(num + 1) : s \notin Small(num) => s # {}
      <3>1. Cardinality({}) <= num
        BY FS_EmptySet
      <3> QED BY <3>1
    <2>3. \A s \in Small(num) : f[s] = IF s = {} THEN 0 ELSE g[Some(s)] + f[s \ {Some(s)}]
      BY <1>3
    <2>4. \A s \in Small(num + 1) : h[s] = IF s = {} THEN 0 ELSE g[Some(s)] + h[s \ {Some(s)}]
      <3> TAKE s \in Small(num + 1)
      <3>1. h[s] = IF s \in Small(num) THEN f[s] ELSE g[Some(s)] + f[s \ {Some(s)}]
        OBVIOUS
      <3> HIDE DEF Small, h
      <3>2. CASE s \in Small(num) /\ s # {}
        <4>1. f[s] = g[Some(s)] + f[s \ {Some(s)}]
          BY <2>3, <3>2
        <4> QED BY <2>1, <3>1, <3>2, <4>1
      <3>3. CASE s \notin Small(num)
        BY <2>1, <2>2, <3>1, <3>3
      <3>4. CASE s = {} /\ s \in Small(num)
        BY <2>3, <3>1, <3>4
      <3> QED BY <3>2, <3>3, <3>4
    <2>5. Part(h, num + 1)
      <3> DEFINE k == [s \in Small(num + 1) |-> IF s = {} THEN 0 ELSE g[Some(s)] + h[s \ {Some(s)}]]
      <3>1. DOMAIN h = Small(num + 1) /\ DOMAIN k = Small(num + 1) /\ h = [s \in DOMAIN h |-> h[s]]
        OBVIOUS
      <3>2. \A s \in Small(num + 1) : h[s] = k[s]
        BY <2>4
      <3> HIDE DEF h, Small
      <3> QED BY <2>4, <3>1
    <2> QED BY <2>5
  <1>4. bad = {}
    <2> SUFFICES ASSUME bad # {} PROVE FALSE
      OBVIOUS
    <2> HIDE DEF Part
    <2>1. PICK num \in bad : \A z \in bad : num <= z
      BY LeastIndex
    <2>2. num # 0
      BY <1>2
    <2>3. num - 1 \in Nat /\ num - 1 \notin bad
      BY <2>1, <2>2
    <2>4. \E f : Part(f, num - 1)
      BY <2>3
    <2>5. \E f : Part(f, (num - 1) + 1)
      BY <1>3, <2>3, <2>4
    <2>6. (num - 1) + 1 = num
      BY <2>1
    <2> QED BY <2>1, <2>5, <2>6
  <1>5. \E f : Part(f, Cardinality(S))
    BY <1>1, <1>4
  <1>6. Small(Cardinality(S)) = SUBSET S
    <2>1. \A s \in SUBSET S : Cardinality(s) <= Cardinality(S)
      BY FS_Subset
    <2> QED BY <2>1
  <1> HIDE DEF Small
  <1> QED BY <1>5, <1>6 DEF Sums

\* The sum over s by that over s without one element.
SumAt(f, g, s) == IF s = {} THEN 0 ELSE g[Some(s)] + f[s \ {Some(s)}]

\* What it gives a set, by what it gives a smaller one.
LEMMA SumsNext ==
  ASSUME NEW S, NEW g, NEW f, Sums(f, g, S)
  PROVE  \A s \in SUBSET S : f[s] = SumAt(f, g, s)
  <1>1. f = [s \in SUBSET S |-> SumAt(f, g, s)]
    BY DEF Sums, SumAt
  <1> QED BY <1>1

\* What holds of every set whose proper subsets it holds of, holds of every
\* finite set: here bad is the collection of those it does not hold of.
LEMMA SmallestSubset ==
  ASSUME NEW S, IsFiniteSet(S), NEW bad \in SUBSET SUBSET S, bad # {}
  PROVE  \E s \in bad : \A r \in SUBSET s : r # s => r \notin bad
  <1> DEFINE N == {Cardinality(s) : s \in bad}
  <1>1. \A s \in SUBSET S : IsFiniteSet(s) /\ Cardinality(s) \in Nat
    BY FS_Subset, FS_CardinalityType
  <1>2. N \in SUBSET Nat /\ N # {}
    BY <1>1
  <1>3. PICK num \in N : \A z \in N : num <= z
    BY <1>2, LeastIndex
  <1>4. PICK s \in bad : Cardinality(s) = num
    BY <1>3
  <1>5. ASSUME NEW r \in SUBSET s, r # s, r \in bad
        PROVE  FALSE
    <2>1. Cardinality(r) < Cardinality(s)
      BY <1>1, <1>5, FS_Subset
    <2>2. num <= Cardinality(r)
      BY <1>3, <1>5
    <2> QED BY <1>1, <1>4, <1>5, <2>1, <2>2
  <1> QED BY <1>4, <1>5

\* Sums of integers are integers.
LEMMA SumsType ==
  ASSUME NEW S, IsFiniteSet(S), NEW g \in [S -> Int], NEW f, Sums(f, g, S)
  PROVE  \A s \in SUBSET S : f[s] \in Int
  <1> DEFINE bad == {s \in SUBSET S : f[s] \notin Int}
  <1>1. SUFFICES ASSUME bad # {} PROVE FALSE
    OBVIOUS
  <1>0. \A r \in SUBSET S : f[r] = SumAt(f, g, r)
    BY SumsNext
  <1>2. PICK s \in bad : \A r \in SUBSET s : r # s => r \notin bad
    <2>1. bad \in SUBSET SUBSET S
      OBVIOUS
    <2> HIDE DEF bad
    <2> QED BY <1>1, <2>1, SmallestSubset
  <1>3. f[s] = IF s = {} THEN 0 ELSE g[Some(s)] + f[s \ {Some(s)}]
    BY <1>0, <1>2 DEF SumAt
  <1>4. s # {} => Some(s) \in s /\ s \ {Some(s)} # s
    BY DEF Some
  <1>5. s # {} => f[s \ {Some(s)}] \in Int
    BY <1>2, <1>4
  <1> QED BY <1>2, <1>3, <1>4, <1>5

\* The order of the elements does not matter.
Joins(f, g, s, y) == f[s \cup {y}] = g[y] + f[s]

LEMMA SumsInsert ==
  ASSUME NEW S, IsFiniteSet(S), NEW g \in [S -> Int], NEW f, Sums(f, g, S)
  PROVE  \A s \in SUBSET S : \A y \in S \ s : Joins(f, g, s, y)
  <1> USE DEF Joins
  <1> DEFINE bad == {s \in SUBSET S : \E y \in S \ s : f[s \cup {y}] # g[y] + f[s]}
  <1>1. SUFFICES ASSUME bad # {} PROVE FALSE
    OBVIOUS
  <1>0. \A r \in SUBSET S : f[r] = SumAt(f, g, r)
    BY SumsNext
  <1>2. PICK s \in bad : \A r \in SUBSET s : r # s => r \notin bad
    <2>1. bad \in SUBSET SUBSET S
      OBVIOUS
    <2> HIDE DEF bad
    <2> QED BY <1>1, <2>1, SmallestSubset
  <1>3. PICK y \in S \ s : f[s \cup {y}] # g[y] + f[s]
    BY <1>2
  <1> DEFINE x == Some(s \cup {y})
  <1>4. x \in s \cup {y} /\ s \cup {y} \in SUBSET S
    BY <1>2 DEF Some
  <1>5. f[s \cup {y}] = g[x] + f[(s \cup {y}) \ {x}]
    BY <1>0, <1>4 DEF SumAt
  <1> HIDE DEF x
  <1>6. x # y
    <2>1. x = y => (s \cup {y}) \ {x} = s
      BY <1>3
    <2> QED BY <1>3, <1>5, <2>1
  <1> DEFINE r == s \ {x}
  <1>7. /\ x \in s /\ r \in SUBSET s /\ r # s /\ r \in SUBSET S
        /\ (s \cup {y}) \ {x} = r \cup {y} /\ r \cup {x} = s /\ y \in S \ r /\ x \in S \ r
    BY <1>2, <1>3, <1>4, <1>6
  <1> HIDE DEF r
  <1>8. r \notin bad
    BY <1>2, <1>7
  <1>9. f[r \cup {y}] = g[y] + f[r] /\ f[r \cup {x}] = g[x] + f[r]
    BY <1>7, <1>8
  <1>10. g[x] \in Int /\ g[y] \in Int /\ f[r] \in Int
    BY <1>7, SumsType
  <1>11. f[s \cup {y}] = g[x] + (g[y] + f[r]) /\ f[s] = g[x] + f[r]
    BY <1>5, <1>7, <1>9
  <1> QED BY <1>3, <1>10, <1>11

\* The sum over a set is the same within a larger one.
LEMMA SumsAgree ==
  ASSUME NEW S, IsFiniteSet(S), NEW g, NEW f, Sums(f, g, S),
         NEW U, NEW k, NEW h, Sums(h, k, U),
         S \subseteq U, \A x \in S : g[x] = k[x]
  PROVE  f[S] = h[S]
  <1> DEFINE bad == {s \in SUBSET S : f[s] # h[s]}
  <1>1. SUFFICES ASSUME bad # {} PROVE FALSE
    OBVIOUS
  <1>0. \A r \in SUBSET S : f[r] = SumAt(f, g, r)
    BY SumsNext
  <1>9. \A r \in SUBSET U : h[r] = SumAt(h, k, r)
    BY SumsNext
  <1>2. PICK s \in bad : \A r \in SUBSET s : r # s => r \notin bad
    <2>1. bad \in SUBSET SUBSET S
      OBVIOUS
    <2> HIDE DEF bad
    <2> QED BY <1>1, <2>1, SmallestSubset
  <1>3. /\ f[s] = IF s = {} THEN 0 ELSE g[Some(s)] + f[s \ {Some(s)}]
        /\ h[s] = IF s = {} THEN 0 ELSE k[Some(s)] + h[s \ {Some(s)}]
    BY <1>0, <1>2, <1>9 DEF SumAt
  <1>4. s # {} => Some(s) \in s /\ s \ {Some(s)} # s
    BY DEF Some
  <1>5. s # {} => f[s \ {Some(s)}] = h[s \ {Some(s)}]
    BY <1>2, <1>4
  <1> QED BY <1>2, <1>3, <1>4, <1>5

\* The sum of the values of g over s, a part of its domain.
Part(g, s) == SumFunction([x \in s |-> g[x]])

LEMMA PartIs ==
  ASSUME NEW S, IsFiniteSet(S), NEW g \in [S -> Int], NEW f, Sums(f, g, S)
  PROVE  \A s \in SUBSET S : Part(g, s) = f[s]
  <1> TAKE s \in SUBSET S
  <1> DEFINE h == [x \in s |-> g[x]]
             it == CHOOSE k : k = [t \in SUBSET s |-> IF t = {} THEN 0
                                        ELSE h[Some(t)] + k[t \ {Some(t)}]]
  <1>1. IsFiniteSet(s) /\ h \in [s -> Int] /\ DOMAIN h = s
    BY FS_Subset
  <1>2. SumFunction(h) = it[s]
    <2>1. DOMAIN h = s
      OBVIOUS
    <2> HIDE DEF h
    <2> QED BY <2>1 DEF SumFunction, SumFunctionOnSet, FoldFunctionOnSet, MapThenFoldSet, Some
  <1> HIDE DEF h
  <1>3. \E k : Sums(k, h, s)
    BY <1>1, SumsExist
  <1>4. Sums(it, h, s)
    BY <1>3 DEF Sums
  <1>5. \A x \in s : h[x] = g[x]
    BY DEF h
  <1> HIDE DEF it
  <1>6. it[s] = f[s]
    BY <1>1, <1>4, <1>5, SumsAgree
  <1> QED BY <1>2, <1>6 DEF Part, h

\* What Part gives the empty set and a set with one element more.
LEMMA PartEmpty ==
  \A g : Part(g, {}) = 0
  <1> TAKE g
  <1> DEFINE k == [x \in {1} |-> 0]
  <1>1. IsFiniteSet({1}) /\ k \in [{1} -> Int] /\ {} \in SUBSET {1}
    BY FS_Singleton
  <1>2. [x \in {} |-> g[x]] = [x \in {} |-> k[x]]
    OBVIOUS
  <1> HIDE DEF k
  <1>3. PICK f : Sums(f, k, {1})
    BY <1>1, SumsExist
  <1>4. Part(k, {}) = f[{}]
    BY <1>1, <1>3, PartIs
  <1>5. f[{}] = SumAt(f, k, {})
    BY <1>1, <1>3, SumsNext
  <1>6. Part(k, {}) = 0
    BY <1>4, <1>5 DEF SumAt
  <1> QED BY <1>2, <1>6 DEF Part

IntOn(g, s) == \A x \in s : g[x] \in Int
More(g, s, y) == Part(g, s \cup {y}) = Part(g, s) + g[y]

LEMMA PartInsert ==
  \A g, s, y : IsFiniteSet(s) /\ y \notin s /\ IntOn(g, s \cup {y}) =>
                  More(g, s, y) /\ Part(g, s) \in Int
  <1> SUFFICES ASSUME NEW g, NEW s, NEW y, IsFiniteSet(s), y \notin s, IntOn(g, s \cup {y})
               PROVE  More(g, s, y) /\ Part(g, s) \in Int
    OBVIOUS
  <1> DEFINE S == s \cup {y}
             h == [x \in S |-> g[x]]
  <1>1. IsFiniteSet(S) /\ h \in [S -> Int]
    BY FS_AddElement DEF IntOn
  <1>2. \A r \in SUBSET S : Part(h, r) = Part(g, r)
    <2> TAKE r \in SUBSET S
    <2>1. [x \in r |-> h[x]] = [x \in r |-> g[x]]
      OBVIOUS
    <2> QED BY <2>1 DEF Part
  <1>3. h[y] = g[y]
    OBVIOUS
  <1>7. s \in SUBSET S /\ S \in SUBSET S /\ y \in S \ s
    OBVIOUS
  <1> HIDE DEF h
  <1>4. PICK f : Sums(f, h, S)
    BY <1>1, SumsExist
  <1>5. \A r \in SUBSET S : Part(h, r) = f[r] /\ f[r] \in Int
    BY <1>1, <1>4, PartIs, SumsType
  <1>6. Joins(f, h, s, y)
    BY <1>1, <1>4, <1>7, SumsInsert
  <1>8. f[s \cup {y}] = h[y] + f[s]
    BY <1>6 DEF Joins
  <1>9. h[y] \in Int
    BY <1>1, <1>7
  <1>10. Part(g, s \cup {y}) = h[y] + f[s] /\ Part(g, s) = f[s] /\ f[s] \in Int
    BY <1>2, <1>5, <1>7, <1>8
  <1> HIDE DEF S
  <1>11. h[y] + f[s] = f[s] + h[y]
    BY <1>9, <1>10
  <1> QED BY <1>3, <1>10, <1>11 DEF More

LEMMA PartInt ==
  \A g, s : IsFiniteSet(s) /\ IntOn(g, s) => Part(g, s) \in Int
  <1> SUFFICES ASSUME NEW g, NEW s, IsFiniteSet(s), IntOn(g, s)
               PROVE  Part(g, s) \in Int
    OBVIOUS
  <1>1. CASE s = {}
    BY <1>1, PartEmpty
  <1>2. CASE s # {}
    <2>1. PICK y : y \in s
      BY <1>2
    <2>2. IsFiniteSet(s \ {y}) /\ y \notin s \ {y} /\ (s \ {y}) \cup {y} = s
      BY <2>1, FS_RemoveElement
    <2>3. IntOn(g, (s \ {y}) \cup {y})
      BY <2>2
    <2>4. More(g, s \ {y}, y) /\ Part(g, s \ {y}) \in Int
      BY <2>2, <2>3, PartInsert
    <2>5. Part(g, s) = Part(g, s \ {y}) + g[y]
      BY <2>2, <2>4 DEF More
    <2>6. g[y] \in Int
      BY <2>1 DEF IntOn
    <2> QED BY <2>4, <2>5, <2>6
  <1> QED BY <1>1, <1>2

\* Part looks at the values on the set only.
LEMMA PartSame ==
  \A g, h, s : (\A x \in s : g[x] = h[x]) => Part(g, s) = Part(h, s)
  <1> SUFFICES ASSUME NEW g, NEW h, NEW s, \A x \in s : g[x] = h[x]
               PROVE  Part(g, s) = Part(h, s)
    OBVIOUS
  <1>1. [x \in s |-> g[x]] = [x \in s |-> h[x]]
    OBVIOUS
  <1> QED BY <1>1 DEF Part

\* A collection of subsets that grows by every element has the whole set.
LEMMA Grown ==
  ASSUME NEW S, IsFiniteSet(S), NEW good \in SUBSET SUBSET S, {} \in good,
         \A s \in good : \A y \in S \ s : s \cup {y} \in good
  PROVE  S \in good
  <1> DEFINE bad == (SUBSET S) \ good
  <1>1. SUFFICES ASSUME S \notin good PROVE FALSE
    OBVIOUS
  <1>2. bad \in SUBSET SUBSET S /\ bad # {}
    BY <1>1
  <1> HIDE DEF bad
  <1>3. PICK s \in bad : \A r \in SUBSET s : r # s => r \notin bad
    BY <1>2, SmallestSubset
  <1>4. s \in SUBSET S /\ s # {}
    BY <1>3 DEF bad
  <1>5. PICK y \in s : TRUE
    BY <1>4
  <1>6. s \ {y} \in SUBSET s /\ s \ {y} # s /\ (s \ {y}) \cup {y} = s /\ y \in S \ (s \ {y})
    BY <1>4, <1>5
  <1>7. s \ {y} \notin bad
    BY <1>3, <1>6
  <1>8. s \ {y} \in good
    BY <1>4, <1>7 DEF bad
  <1>9. s \in good
    BY <1>6, <1>8
  <1> QED BY <1>3, <1>9 DEF bad

\* The sum over two sets that have no element in common.
Adds(g, a, b) == Part(g, a \cup b) = Part(g, a) + Part(g, b)

LEMMA PartUnion ==
  ASSUME NEW g, NEW a, IsFiniteSet(a), NEW b, IsFiniteSet(b), a \cap b = {}, IntOn(g, a \cup b)
  PROVE  Adds(g, a, b)
  <1> DEFINE good == {s \in SUBSET b : Adds(g, a, s)}
  <1>0. \A s \in SUBSET b : /\ IsFiniteSet(s) /\ IsFiniteSet(a \cup s)
                            /\ Part(g, s) \in Int /\ Part(g, a) \in Int
    <2> TAKE s \in SUBSET b
    <2>1. IsFiniteSet(s) /\ IsFiniteSet(a \cup s)
      BY FS_Subset, FS_Union
    <2>2. IntOn(g, s) /\ IntOn(g, a)
      BY DEF IntOn
    <2> QED BY <2>1, <2>2, PartInt
  <1>1. {} \in good
    <2>1. a \cup {} = a /\ {} \in SUBSET b
      OBVIOUS
    <2> QED BY <1>0, <2>1, PartEmpty DEF Adds
  <1>2. ASSUME NEW s \in good, NEW y \in b \ s
        PROVE  s \cup {y} \in good
    <2>1. s \in SUBSET b /\ Adds(g, a, s)
      OBVIOUS
    <2>2. y \notin a \cup s /\ (a \cup s) \cup {y} = a \cup (s \cup {y})
      OBVIOUS
    <2>3. IntOn(g, (a \cup s) \cup {y}) /\ IntOn(g, s \cup {y}) /\ g[y] \in Int
      BY <2>1 DEF IntOn
    <2>4. More(g, a \cup s, y) /\ More(g, s, y)
      BY <1>0, <2>1, <2>2, <2>3, PartInsert
    <2>5. /\ Part(g, a \cup (s \cup {y})) = Part(g, a \cup s) + g[y]
          /\ Part(g, s \cup {y}) = Part(g, s) + g[y]
          /\ Part(g, a \cup s) = Part(g, a) + Part(g, s)
      BY <2>1, <2>2, <2>4 DEF More, Adds
    <2>6. Part(g, s) \in Int /\ Part(g, a) \in Int
      BY <1>0, <2>1
    <2>7. Part(g, a \cup (s \cup {y})) = Part(g, a) + Part(g, s \cup {y})
      BY <2>3, <2>5, <2>6
    <2> QED BY <2>1, <2>7 DEF Adds
  <1>3. good \in SUBSET SUBSET b
    OBVIOUS
  <1> HIDE DEF good
  <1>4. b \in good
    BY <1>1, <1>2, <1>3, Grown
  <1> QED BY <1>4 DEF good

-------------------------------------------------------------------------------
(* Order.                                                                  *)

\* Elements that are ordered have each place once: Before[x] are those before x.
Ordered(Before, S) ==
    /\ Before \in [S -> SUBSET S]
    /\ \A x \in S : x \notin Before[x]
    /\ \A x, y \in S : x # y => x \in Before[y] \/ y \in Before[x]
    /\ \A x, y \in S : x \in Before[y] => Before[x] \subseteq Before[y]

LEMMA PlacesGrow ==
  ASSUME NEW S, IsFiniteSet(S), NEW Before, Ordered(Before, S)
  PROVE  /\ \A x \in S : Cardinality(Before[x]) \in 0..(Cardinality(S) - 1)
         /\ \A x, y \in S : x \in Before[y] => Cardinality(Before[x]) < Cardinality(Before[y])
  <1>1. \A a \in SUBSET S : \A b \in SUBSET S : \A x \in b \ a : 
           a \subseteq b => /\ Cardinality(a) \in Nat /\ Cardinality(b) \in Nat
                            /\ Cardinality(a) < Cardinality(b)
    <2> TAKE a \in SUBSET S
    <2> TAKE b \in SUBSET S
    <2> TAKE x \in b \ a
    <2> HAVE a \subseteq b
    <2>1. IsFiniteSet(a) /\ IsFiniteSet(b)
      BY FS_Subset
    <2>2. Cardinality(a) \in Nat /\ Cardinality(b) \in Nat
      BY <2>1, FS_CardinalityType
    <2>3. Cardinality(a) <= Cardinality(b) /\ (Cardinality(b) = Cardinality(a) => b = a)
      BY <2>1, FS_Subset
    <2> QED BY <2>2, <2>3
  <1>2. \A x \in S : Cardinality(Before[x]) \in 0..(Cardinality(S) - 1)
    <2> TAKE x \in S
    <2>1. Before[x] \in SUBSET S /\ S \in SUBSET S /\ x \in S \ Before[x]
      BY DEF Ordered
    <2>2. /\ Cardinality(Before[x]) \in Nat /\ Cardinality(S) \in Nat
          /\ Cardinality(Before[x]) < Cardinality(S)
      BY <1>1, <2>1
    <2> QED BY <2>2
  <1>3. \A x, y \in S : x \in Before[y] => Cardinality(Before[x]) < Cardinality(Before[y])
    <2> TAKE x, y \in S
    <2> HAVE x \in Before[y]
    <2>1. /\ Before[x] \in SUBSET S /\ Before[y] \in SUBSET S /\ x \in Before[y] \ Before[x]
          /\ Before[x] \subseteq Before[y]
      BY DEF Ordered
    <2> QED BY <1>1, <2>1
  <1> QED BY <1>2, <1>3

LEMMA PlacesTaken ==
  ASSUME NEW S, IsFiniteSet(S), NEW Before, Ordered(Before, S)
  PROVE  \A r \in 1..Cardinality(S) : \E x \in S : Cardinality(Before[x]) = r - 1
  <1> DEFINE f == [x \in S |-> Cardinality(Before[x]) + 1]
             all == 1..Cardinality(S)
  <1>1. Cardinality(S) \in Nat
    BY FS_CardinalityType
  <1>2. IsFiniteSet(all) /\ Cardinality(all) = Cardinality(S)
    <2>1. Cardinality(1..Cardinality(S)) = IF 1 > Cardinality(S) THEN 0 ELSE Cardinality(S) - 1 + 1
      BY <1>1, FS_Interval
    <2>2. IsFiniteSet(1..Cardinality(S))
      BY <1>1, FS_Interval
    <2> QED BY <1>1, <2>1, <2>2
  <1>3. \A x \in S : Cardinality(Before[x]) \in 0..(Cardinality(S) - 1)
    BY PlacesGrow
  <1>4. f \in [S -> all]
    BY <1>1, <1>3
  <1>5. \A x, y \in S : f[x] = f[y] => x = y
    <2> SUFFICES ASSUME NEW x \in S, NEW y \in S, f[x] = f[y], x # y PROVE FALSE
      OBVIOUS
    <2>1. Cardinality(Before[x]) = Cardinality(Before[y])
      BY <1>1, <1>3
    <2>2. x \in Before[y] \/ y \in Before[x]
      BY DEF Ordered
    <2>3. Cardinality(Before[x]) < Cardinality(Before[y]) \/ Cardinality(Before[y]) < Cardinality(Before[x])
      BY <2>2, PlacesGrow
    <2> QED BY <1>1, <1>3, <2>1, <2>3
  <1> HIDE DEF f, all
  <1>6. f \in Injection(S, all)
    BY <1>4, <1>5 DEF Injection, IsInjective
  <1>7. f \in Surjection(S, all)
    BY <1>2, <1>6, FS_Injection
  <1>8. \A r \in all : \E x \in S : f[x] = r
    BY <1>7 DEF Surjection
  <1>9. \A x \in S : f[x] = Cardinality(Before[x]) + 1
    BY DEF f
  <1> QED
    <2> TAKE r \in 1..Cardinality(S)
    <2>1. PICK x \in S : f[x] = r
      BY <1>8 DEF all
    <2>2. r = Cardinality(Before[x]) + 1 /\ Cardinality(Before[x]) \in 0..(Cardinality(S) - 1)
      BY <1>3, <1>9, <2>1
    <2>3. Cardinality(Before[x]) = r - 1
      BY <1>1, <2>2
    <2> QED BY <2>3

\* Picked takes every element from one of the places, the first from the least.
Picks(c, seq, places) ==
    /\ Cardinality(places) \in Nat /\ c \in [1..Cardinality(places) -> ToSet(c)]
    /\ \A r \in 1..Cardinality(places) : \E x \in places : c[r] = seq[x]
    /\ places # {} => \E x \in places : c[1] = seq[x] /\ \A y \in places : x <= y

LEMMA PickedFrom ==
  ASSUME NEW seq, NEW places, places \in SUBSET Nat, IsFiniteSet(places)
  PROVE  Picks(Picked(seq, places), seq, places)
  <1> DEFINE Before == [x \in places |-> {y \in places : y < x}]
             at(r) == CHOOSE x \in places : Cardinality({y \in places : y < x}) = r - 1
  <1>1. Cardinality(places) \in Nat
    BY FS_CardinalityType
  <1>3. \A x \in places : Before[x] = {y \in places : y < x}
    OBVIOUS
  <1>8. Before \in [places -> SUBSET places]
    OBVIOUS
  <1>2. Ordered(Before, places)
    <2> HIDE DEF Before
    <2>1. \A x, y \in places : x \in Before[y] <=> x < y
      BY <1>3
    <2>2. \A x, y \in places : x \in Before[y] => Before[x] \subseteq Before[y]
      <3> TAKE x, y \in places
      <3> HAVE x \in Before[y]
      <3>1. \A v \in Before[x] : v \in places /\ v < x
        BY <1>3
      <3>2. x < y
        BY <2>1
      <3>3. \A v \in Before[x] : v < y
        <4> TAKE v \in Before[x]
        <4>1. v \in Nat /\ x \in Nat /\ y \in Nat /\ v < x
          BY <3>1
        <4> QED BY <3>2, <4>1
      <3> QED BY <2>1, <3>1, <3>3
    <2> QED BY <1>8, <2>1, <2>2 DEF Ordered
  <1>4. \A r \in 1..Cardinality(places) : at(r) \in places /\ Cardinality(Before[at(r)]) = r - 1
    <2> TAKE r \in 1..Cardinality(places)
    <2> HIDE DEF Before
    <2>1. \E x \in places : Cardinality(Before[x]) = r - 1
      BY <1>2, PlacesTaken
    <2>2. \E x \in places : Cardinality({y \in places : y < x}) = r - 1
      BY <1>3, <2>1
    <2>3. at(r) \in places /\ Cardinality({y \in places : y < at(r)}) = r - 1
      BY <2>2
    <2> QED BY <1>3, <2>3
  <1>5. Picked(seq, places) = [r \in 1..Cardinality(places) |-> seq[at(r)]]
    BY DEF Picked
  <1> HIDE DEF at
  <1>6. Picked(seq, places) \in [1..Cardinality(places) -> ToSet(Picked(seq, places))]
    BY <1>5 DEF ToSet
  <1>7. places # {} => \E x \in places : /\ Picked(seq, places)[1] = seq[x]
                                         /\ \A y \in places : x <= y
    <2> HAVE places # {}
    <2>1. 1 \in 1..Cardinality(places)
      BY <1>1, FS_EmptySet
    <2>2. at(1) \in places /\ Cardinality(Before[at(1)]) = 1 - 1
      BY <1>4, <2>1
    <2>3. IsFiniteSet(Before[at(1)])
      BY <2>2, FS_Subset
    <2>4. Before[at(1)] = {}
      BY <2>2, <2>3, FS_EmptySet
    <2>5. \A y \in places : at(1) <= y
      <3> DEFINE least == at(1)
      <3>1. least \in places /\ {y \in places : y < least} = {}
        BY <1>3, <2>2, <2>4
      <3> HIDE DEF least
      <3>2. \A y \in places : least <= y
        BY <3>1
      <3> QED BY <3>2 DEF least
    <2> QED BY <1>5, <2>1, <2>2, <2>5
  <1>9. \A r \in 1..Cardinality(places) : \E x \in places : Picked(seq, places)[r] = seq[x]
    BY <1>4, <1>5
  <1> QED BY <1>1, <1>6, <1>7, <1>9 DEF Picks

LEMMA Division ==
  ASSUME NEW c \in Nat, NEW d \in Nat \ {0}
  PROVE  /\ c \div d \in Nat
         /\ (c \div d) * d <= c
         /\ \A b \in Nat : b <= c => b \div d <= c \div d
  <1>1. c \div d \in Nat /\ (c \div d) * d <= c
    OBVIOUS
  <1>2. ASSUME NEW b \in Nat, b <= c
        PROVE  b \div d <= c \div d
    BY <1>2
  <1> QED BY <1>1, <1>2

-------------------------------------------------------------------------------
(* The loops of the learner.                                               *)

LoopType ==
    /\ learning \in BOOLEAN
    /\ IsSeq(traces) /\ \A x \in DOMAIN traces : IsSeq(traces[x])
    /\ n \in 1..(Len(traces) + 1) /\ i \in Nat \ {0} /\ j \in Nat /\ j > i
    /\ ~learning => n = Len(traces) + 1

\* The loops are past the pair of call f and the o-th call after it.
Passed(f, o) == f[1] < n \/ (f[1] = n /\ (f[2] < i \/ (f[2] = i /\ f[2] + o < j)))

SoFar(S, o) == {f \in S : Passed(f, o)}

CountsType ==
    /\ IsSeq(counts)
    /\ \A x \in DOMAIN counts : counts[x].offset \in 1..MaxOffset /\ counts[x].count \in Nat \ {0}

SameKey(c, d) == IsKey(c, d.kind, d.src, d.offset, d.tgt)

KeysOnce == \A x, y \in DOMAIN counts : SameKey(counts[x], counts[y]) => x = y

\* An entry counts the pairs of its key that the loops are past.
Counted(c) == SoFar(FollowedBy(c.kind, c.src, c.offset, c.tgt), c.offset)
CountsTrue == \A x \in DOMAIN counts : counts[x].count = Cardinality(Counted(counts[x]))

\* A pair that the loops are past has an entry.
Pair(x, p, o) ==
    LET seq == Calls(traces[x])
    IN  p + o <= Len(seq) /\ seq[p].kind = seq[p + o].kind
HasEntry(x, p, o) ==
    LET seq == Calls(traces[x])
    IN  \E c \in DOMAIN counts : IsKey(counts[c], seq[p].kind, seq[p].name, o, seq[p + o].name)
CountsAll ==
    \A x \in DOMAIN traces : \A p \in DOMAIN Calls(traces[x]) : \A o \in 1..MaxOffset :
        Pair(x, p, o) /\ Passed(<<x, p>>, o) => HasEntry(x, p, o)

LearnInv == LoopType /\ CountsType /\ KeysOnce /\ CountsTrue /\ CountsAll

LEMMA CallsAre ==
  ASSUME NEW trace, IsSeq(trace)
  PROVE  /\ Len(Calls(trace)) \in Nat /\ DOMAIN Calls(trace) = 1..Len(Calls(trace))
         /\ \A p \in DOMAIN Calls(trace) : \E x \in DOMAIN trace : Calls(trace)[p] = trace[x]
  <1> DEFINE places == {x \in DOMAIN trace : trace[x].kind \in {"tool", "model"}}
  <1>1. Calls(trace) = Picked(trace, places)
    BY DEF Calls
  <1>2. Len(trace) \in Nat /\ DOMAIN trace = 1..Len(trace)
    BY DEF IsSeq
  <1>3. places \in SUBSET Nat /\ places \in SUBSET (1..Len(trace)) /\ places \in SUBSET DOMAIN trace
    BY <1>2
  <1> HIDE DEF places
  <1>4. IsFiniteSet(1..Len(trace))
    BY <1>2, FS_Interval
  <1>5. IsFiniteSet(places)
    BY <1>3, <1>4, FS_Subset
  <1> DEFINE c == Picked(trace, places)
             m == Cardinality(places)
  <1>6. /\ m \in Nat /\ c \in [1..m -> ToSet(c)]
        /\ \A r \in 1..m : \E x \in places : c[r] = trace[x]
    <2>1. Picks(c, trace, places)
      BY <1>3, <1>5, PickedFrom
    <2> HIDE DEF c
    <2> QED BY <2>1 DEF Picks
  <1> HIDE DEF c, m
  <1>7. c \in Seq(ToSet(c)) /\ Len(c) = m /\ DOMAIN c = 1..m
    BY <1>6
  <1>8. Calls(trace) = c
    BY <1>1 DEF c
  <1> QED BY <1>3, <1>6, <1>7, <1>8

\* The traces are such that a trace has calls as a sequence has elements.
LEMMA CallsOf ==
  ASSUME LoopType, NEW x \in DOMAIN traces
  PROVE  /\ Len(Calls(traces[x])) \in Nat /\ DOMAIN Calls(traces[x]) = 1..Len(Calls(traces[x]))
         /\ x \in 1..Len(traces) /\ Len(traces) \in Nat
  <1>1. IsSeq(traces[x])
    BY DEF LoopType
  <1>2. x \in 1..Len(traces) /\ Len(traces) \in Nat
    BY DEF LoopType, IsSeq
  <1> QED BY <1>1, <1>2, CallsAre

\* What it means for a call to be followed.
LEMMA FollowedIs ==
  ASSUME NEW k, NEW s, NEW o
  PROVE  /\ \A f \in Followed(k, s, o) :
              /\ f[1] \in DOMAIN traces /\ f[2] \in DOMAIN Calls(traces[f[1]])
              /\ f = <<f[1], f[2]>>
              /\ f[2] + o <= Len(Calls(traces[f[1]]))
              /\ Calls(traces[f[1]])[f[2]].kind = k
              /\ Calls(traces[f[1]])[f[2]].name = s
              /\ Calls(traces[f[1]])[f[2] + o].kind = k
         /\ \A x \in DOMAIN traces : \A p \in DOMAIN Calls(traces[x]) :
              /\ p + o <= Len(Calls(traces[x]))
              /\ Calls(traces[x])[p].kind = k
              /\ Calls(traces[x])[p].name = s
              /\ Calls(traces[x])[p + o].kind = k
              => <<x, p>> \in Followed(k, s, o)
  BY DEF Followed

LEMMA FollowedFinite ==
  ASSUME LoopType, NEW k, NEW s, NEW o
  PROVE  IsFiniteSet(Followed(k, s, o))
  <1> DEFINE all == DOMAIN traces
             those == Followed(k, s, o)
             upTo == [a \in SUBSET all |-> {f \in those : f[1] \in a}]
             good == {a \in SUBSET all : IsFiniteSet(upTo[a])}
  <1>1. IsFiniteSet(all)
    <2>1. Len(traces) \in Nat /\ all = 1..Len(traces)
      BY DEF LoopType, IsSeq
    <2> QED BY <2>1, FS_Interval
  <1>8. \A f \in those : f[1] \in all /\ f[2] \in DOMAIN Calls(traces[f[1]]) /\ f = <<f[1], f[2]>>
    BY FollowedIs
  <1> HIDE DEF those
  <1>9. upTo[{}] = {} /\ upTo[all] = those
    BY <1>8
  <1>10. \A a \in SUBSET all : \A f : f \in upTo[a] <=> f \in those /\ f[1] \in a
    OBVIOUS
  <1> HIDE DEF upTo
  <1>2. {} \in good
    BY <1>9, FS_EmptySet
  <1>3. ASSUME NEW a \in good, NEW y \in all \ a
        PROVE  a \cup {y} \in good
    <2> DEFINE calls == 1..Len(Calls(traces[y]))
               more == {y} \X calls
    <2>1. IsFiniteSet(calls)
      BY CallsOf, FS_Interval
    <2>2. IsFiniteSet({y})
      BY FS_Singleton
    <2>3. IsFiniteSet(more)
      BY <2>1, <2>2, FS_Product
    <2>4. a \in SUBSET all /\ a \cup {y} \in SUBSET all /\ IsFiniteSet(upTo[a])
      OBVIOUS
    <2>5. IsFiniteSet(upTo[a] \cup more)
      BY <2>3, <2>4, FS_Union
    <2>6. \A f \in upTo[a \cup {y}] : f \in upTo[a] \cup more
      <3> TAKE f \in upTo[a \cup {y}]
      <3>1. f \in those /\ f[1] \in a \cup {y}
        BY <1>10, <2>4
      <3>2. CASE f[1] \in a
        BY <1>10, <2>4, <3>1, <3>2
      <3>3. CASE f[1] = y
        <4>1. f[2] \in calls /\ f = <<y, f[2]>>
          BY <1>8, <3>1, <3>3, CallsOf
        <4>2. f \in more
          BY <4>1
        <4> QED BY <4>2
      <3> QED BY <3>1, <3>2, <3>3
    <2>7. IsFiniteSet(upTo[a \cup {y}])
      BY <2>5, <2>6, FS_Subset
    <2> QED BY <2>4, <2>7
  <1>4. good \in SUBSET SUBSET all
    OBVIOUS
  <1>6. all \in good => IsFiniteSet(upTo[all])
    OBVIOUS
  <1> HIDE DEF good
  <1>7. all \in good
    BY <1>1, <1>2, <1>3, <1>4, Grown
  <1> QED BY <1>6, <1>7, <1>9 DEF those

\* counts[key] += 1 makes the entry of the key one larger, or a new one of 1.
Raised(cs, new, k, s, o, t) ==
    /\ IsSeq(new) /\ Len(cs) \in Nat /\ Len(new) \in Nat
    /\ DOMAIN cs = 1..Len(cs) /\ DOMAIN new = 1..Len(new) /\ Len(cs) <= Len(new)
    /\ \A x \in DOMAIN cs :
        /\ SameKey(new[x], cs[x])
        /\ new[x].count = IF IsKey(cs[x], k, s, o, t) THEN cs[x].count + 1 ELSE cs[x].count
    /\ \A x \in DOMAIN new \ DOMAIN cs :
        /\ x = Len(cs) + 1 /\ IsKey(new[x], k, s, o, t) /\ new[x].count = 1
        /\ \A y \in DOMAIN cs : ~IsKey(cs[y], k, s, o, t)
    /\ \E x \in DOMAIN new : IsKey(new[x], k, s, o, t)

LEMMA Bumped ==
  ASSUME NEW cs, IsSeq(cs), NEW k, NEW s, NEW o, NEW t
  PROVE  Raised(cs, Bump(cs, k, s, o, t), k, s, o, t)
  <1> DEFINE new == Bump(cs, k, s, o, t)
  <1>1. Len(cs) \in Nat /\ DOMAIN cs = 1..Len(cs) /\ cs \in Seq(ToSet(cs))
    BY DEF IsSeq
  <1>2. \A c : /\ IsKey(Entry(k, s, o, t, c), k, s, o, t)
               /\ Entry(k, s, o, t, c).count = c
    BY DEF IsKey, Entry
  <1>3. CASE \E x \in DOMAIN cs : IsKey(cs[x], k, s, o, t)
    <2>1. new = [x \in 1..Len(cs) |-> IF IsKey(cs[x], k, s, o, t)
                                      THEN Entry(k, s, o, t, cs[x].count + 1) ELSE cs[x]]
      BY <1>1, <1>3 DEF Bump
    <2> HIDE DEF new
    <2>2. new \in [1..Len(cs) -> ToSet(new)]
      BY <2>1 DEF ToSet
    <2>3. IsSeq(new) /\ Len(new) = Len(cs) /\ DOMAIN new = 1..Len(new)
      BY <1>1, <2>2 DEF IsSeq
    <2>4. \A x \in DOMAIN cs :
              /\ SameKey(new[x], cs[x])
              /\ new[x].count = IF IsKey(cs[x], k, s, o, t) THEN cs[x].count + 1 ELSE cs[x].count
              /\ IsKey(cs[x], k, s, o, t) => IsKey(new[x], k, s, o, t)
      <3> TAKE x \in DOMAIN cs
      <3>1. CASE IsKey(cs[x], k, s, o, t)
        <4>1. new[x] = Entry(k, s, o, t, cs[x].count + 1)
          BY <1>1, <2>1, <3>1
        <4>2. IsKey(new[x], k, s, o, t) /\ new[x].count = cs[x].count + 1
          BY <1>2, <4>1
        <4>3. SameKey(new[x], cs[x])
          BY <3>1, <4>2 DEF SameKey, IsKey
        <4> QED BY <3>1, <4>2, <4>3
      <3>2. CASE ~IsKey(cs[x], k, s, o, t)
        <4>1. new[x] = cs[x]
          BY <1>1, <2>1, <3>2
        <4> QED BY <3>2, <4>1 DEF SameKey, IsKey
      <3> QED BY <3>1, <3>2
    <2>5. \E x \in DOMAIN new : IsKey(new[x], k, s, o, t)
      BY <1>1, <1>3, <2>3, <2>4
    <2> QED BY <1>1, <2>3, <2>4, <2>5 DEF Raised, new
  <1>4. CASE ~\E x \in DOMAIN cs : IsKey(cs[x], k, s, o, t)
    <2> DEFINE e == Entry(k, s, o, t, 1)
               S == ToSet(cs) \cup {e}
    <2>1. new = Append(cs, e)
      BY <1>4 DEF Bump
    <2> HIDE DEF new, e
    <2>2. cs \in Seq(S) /\ e \in S
      BY <1>1
    <2> HIDE DEF S
    <2>3. /\ new \in Seq(S) /\ Len(new) = Len(cs) + 1 /\ new[Len(cs) + 1] = e
          /\ \A x \in 1..Len(cs) : new[x] = cs[x]
      BY <2>1, <2>2, AppendProperties
    <2>4. DOMAIN new = 1..Len(new) /\ new \in [1..Len(new) -> ToSet(new)]
      BY <2>3 DEF ToSet
    <2>5. IsSeq(new)
      BY <1>1, <2>3, <2>4 DEF IsSeq
    <2>6. IsKey(e, k, s, o, t) /\ e.count = 1
      BY <1>2 DEF e
    <2>7. \A x \in DOMAIN cs : SameKey(new[x], cs[x]) /\ new[x] = cs[x]
      BY <1>1, <2>3 DEF SameKey, IsKey
    <2>8. \A x \in DOMAIN new \ DOMAIN cs : x = Len(cs) + 1
      BY <1>1, <2>3, <2>4
    <2>9. Len(cs) + 1 \in DOMAIN new
      BY <1>1, <2>3, <2>4
    <2> QED BY <1>1, <1>4, <2>3, <2>4, <2>5, <2>6, <2>7, <2>8, <2>9 DEF Raised, new
  <1> QED BY <1>3, <1>4

\* The pair that CountPair looks at.
Now(k, s, o, t) ==
    LET seq == Calls(traces[n])
    IN  /\ o = j - i /\ seq[i].kind = k /\ seq[j].kind = k /\ seq[i].name = s /\ seq[j].name = t

\* What the loops are past, for the key of an entry.
Past(k, s, o, t) == SoFar(FollowedBy(k, s, o, t), o)

LEMMA PastFinite ==
  ASSUME LoopType, NEW k, NEW s, NEW o, NEW t
  PROVE  IsFiniteSet(FollowedBy(k, s, o, t)) /\ IsFiniteSet(Past(k, s, o, t))
  <1>1. IsFiniteSet(Followed(k, s, o))
    BY FollowedFinite
  <1>2. FollowedBy(k, s, o, t) \in SUBSET Followed(k, s, o) /\ Past(k, s, o, t) \in SUBSET Followed(k, s, o)
    BY DEF FollowedBy, Past, SoFar
  <1> QED BY <1>1, <1>2, FS_Subset

LEMMA PairBounds ==
  ASSUME LoopType, CountPair
  PROVE  /\ n \in DOMAIN traces /\ Len(traces) \in Nat
         /\ Len(Calls(traces[n])) \in Nat /\ DOMAIN Calls(traces[n]) = 1..Len(Calls(traces[n]))
         /\ i \in 1..Len(Calls(traces[n])) /\ j \in 1..Len(Calls(traces[n]))
         /\ j - i \in 1..MaxOffset /\ MaxOffset \in Nat /\ i + (j - i) = j
         /\ traces' = traces /\ learning' = learning /\ learning /\ n' = n /\ i' = i /\ j' = j + 1
  <1> DEFINE m == Len(Calls(traces[n]))
  <1>1. n \in DOMAIN traces /\ Len(traces) \in Nat
    <2>1. n \in 1..(Len(traces) + 1) /\ Len(traces) \in Nat /\ DOMAIN traces = 1..Len(traces)
      BY DEF LoopType, IsSeq
    <2>2. n <= Len(traces)
      BY DEF CountPair
    <2> QED BY <2>1, <2>2
  <1>2. m \in Nat /\ DOMAIN Calls(traces[n]) = 1..m
    BY <1>1, CallsOf
  <1>3. /\ i <= m /\ j <= LastTarget(Calls(traces[n]))
        /\ traces' = traces /\ learning' = learning /\ learning /\ n' = n /\ i' = i /\ j' = j + 1
    BY DEF CountPair
  <1>4. LastTarget(Calls(traces[n])) = Min({i + MaxOffset, m})
    BY DEF LastTarget
  <1>5. i \in Nat \ {0} /\ j \in Nat /\ j > i /\ MaxOffset \in Nat
    BY LearnerConstants DEF LoopType
  <1> HIDE DEF m
  <1>6. Min({i + MaxOffset, m}) <= i + MaxOffset /\ Min({i + MaxOffset, m}) <= m
    <2> DEFINE a == i + MaxOffset
    <2>1. a \in Nat
      BY <1>5
    <2> HIDE DEF a
    <2>2. \E x \in {a, m} : \A y \in {a, m} : x <= y
      BY <1>2, <2>1
    <2>3. Min({a, m}) \in {a, m} /\ \A y \in {a, m} : Min({a, m}) <= y
      BY <2>2 DEF Min
    <2> QED BY <2>3 DEF a
  <1>7. Min({i + MaxOffset, m}) \in {i + MaxOffset, m}
    <2>2. \E x \in {i + MaxOffset, m} : \A y \in {i + MaxOffset, m} : x <= y
      BY <1>2, <1>5
    <2> QED BY <2>2 DEF Min
  <1>8. j <= i + MaxOffset /\ j <= m
    BY <1>2, <1>3, <1>4, <1>5, <1>6, <1>7
  <1>9. i \in 1..m /\ j \in 1..m /\ j - i \in 1..MaxOffset /\ i + (j - i) = j
    BY <1>2, <1>3, <1>5, <1>8
  <1> QED BY <1>1, <1>2, <1>3, <1>5, <1>9 DEF m

IsFollowed(f, k, s, o, t) ==
    /\ f[1] \in DOMAIN traces /\ f[2] \in DOMAIN Calls(traces[f[1]])
    /\ f = <<f[1], f[2]>> /\ f[1] \in Nat /\ f[2] \in Nat \ {0}
    /\ f[2] + o <= Len(Calls(traces[f[1]]))
    /\ Calls(traces[f[1]])[f[2]].kind = k
    /\ Calls(traces[f[1]])[f[2]].name = s
    /\ Calls(traces[f[1]])[f[2] + o].kind = k
    /\ Calls(traces[f[1]])[f[2] + o].name = t

LEMMA FollowedByIs ==
  ASSUME LoopType
  PROVE  \A k, s, o, t : \A f \in FollowedBy(k, s, o, t) : IsFollowed(f, k, s, o, t)
  <1> SUFFICES ASSUME NEW k, NEW s, NEW o, NEW t, NEW f \in FollowedBy(k, s, o, t)
               PROVE  IsFollowed(f, k, s, o, t)
    OBVIOUS
  <1>1. f \in Followed(k, s, o) /\ Calls(traces[f[1]])[f[2] + o].name = t
    BY DEF FollowedBy
  <1>2. /\ f[1] \in DOMAIN traces /\ f[2] \in DOMAIN Calls(traces[f[1]])
        /\ f = <<f[1], f[2]>>
        /\ f[2] + o <= Len(Calls(traces[f[1]]))
        /\ Calls(traces[f[1]])[f[2]].kind = k
        /\ Calls(traces[f[1]])[f[2]].name = s
        /\ Calls(traces[f[1]])[f[2] + o].kind = k
    BY <1>1, FollowedIs
  <1>3. f[1] \in Nat /\ f[2] \in Nat \ {0}
    BY <1>2, CallsOf
  <1> QED BY <1>1, <1>2, <1>3 DEF IsFollowed

LEMMA FollowedByHas ==
  ASSUME NEW k, NEW s, NEW o, NEW t, NEW x \in DOMAIN traces, NEW p \in DOMAIN Calls(traces[x]),
         p + o <= Len(Calls(traces[x])),
         Calls(traces[x])[p].kind = k, Calls(traces[x])[p].name = s,
         Calls(traces[x])[p + o].kind = k, Calls(traces[x])[p + o].name = t
  PROVE  <<x, p>> \in FollowedBy(k, s, o, t)
  <1>1. <<x, p>> \in Followed(k, s, o)
    BY FollowedIs
  <1>2. <<x, p>>[1] = x /\ <<x, p>>[2] = p
    OBVIOUS
  <1> QED BY <1>1, <1>2 DEF FollowedBy

LEMMA CountsOneMore ==
  ASSUME NEW a, IsFiniteSet(a), NEW x, x \notin a, NEW b, b = a \cup {x}
  PROVE  Cardinality(b) = Cardinality(a) + 1
  BY FS_AddElement

LEMMA OnePair ==
  ASSUME LoopType, CountPair, NEW k, NEW s, NEW o \in 1..MaxOffset, NEW t
  PROVE  /\ Now(k, s, o, t) => /\ Past(k, s, o, t)' = Past(k, s, o, t) \cup {<<n, i>>}
                               /\ <<n, i>> \notin Past(k, s, o, t)
         /\ ~Now(k, s, o, t) => Past(k, s, o, t)' = Past(k, s, o, t)
  <1> DEFINE F == FollowedBy(k, s, o, t)
  <1>0. /\ n \in DOMAIN traces /\ i \in Nat /\ j \in Nat /\ n \in Nat /\ o \in Nat
        /\ traces' = traces /\ n' = n /\ i' = i /\ j' = j + 1
    BY PairBounds, LearnerConstants DEF LoopType
  <1>1. F' = F
    BY <1>0 DEF FollowedBy, Followed, Calls, Picked
  <1>2. \A f \in F : f[1] \in Nat /\ f[2] \in Nat /\ f = <<f[1], f[2]>>
    BY <1>0, FollowedByIs DEF IsFollowed
  <1>3. \A f \in F : /\ Passed(f, o)' <=> Passed(f, o) \/ (f = <<n, i>> /\ o = j - i)
                     /\ f = <<n, i>> /\ o = j - i => ~Passed(f, o)
    <2> TAKE f \in F
    <2>1. f[1] \in Nat /\ f[2] \in Nat /\ f = <<f[1], f[2]>>
      BY <1>2
    <2>2. f = <<n, i>> <=> f[1] = n /\ f[2] = i
      BY <2>1
    <2> HIDE DEF F
    <2> QED BY <1>0, <2>1, <2>2 DEF Passed
  <1>4. <<n, i>> \in F /\ o = j - i => Now(k, s, o, t)
    <2> HAVE <<n, i>> \in F /\ o = j - i
    <2>3. PICK f \in F : f = <<n, i>>
      OBVIOUS
    <2>1. f[1] = n /\ f[2] = i /\ i + o = j
      BY <1>0, <2>3
    <2>4. IsFollowed(f, k, s, o, t)
      BY FollowedByIs
    <2>2. /\ Calls(traces[n])[i].kind = k /\ Calls(traces[n])[i].name = s
          /\ Calls(traces[n])[i + o].kind = k /\ Calls(traces[n])[i + o].name = t
      BY <2>1, <2>4 DEF IsFollowed
    <2> QED BY <2>1, <2>2 DEF Now
  <1>5. Now(k, s, o, t) => <<n, i>> \in F /\ o = j - i
    <2> HAVE Now(k, s, o, t)
    <2>1. o = j - i /\ i + o = j
      BY <1>0 DEF Now
    <2>2. /\ i \in DOMAIN Calls(traces[n]) /\ i + o <= Len(Calls(traces[n]))
          /\ Calls(traces[n])[i].kind = k /\ Calls(traces[n])[i].name = s
          /\ Calls(traces[n])[i + o].kind = k /\ Calls(traces[n])[i + o].name = t
      BY <2>1, PairBounds DEF Now
    <2> QED BY <1>0, <2>1, <2>2, FollowedByHas
  <1>6. Past(k, s, o, t) = {f \in F : Passed(f, o)}
    BY DEF Past, SoFar
  <1>7. Past(k, s, o, t)' = {f \in F : Passed(f, o)'}
    BY <1>1 DEF Past, SoFar
  <1> HIDE DEF F
  <1> QED BY <1>3, <1>4, <1>5, <1>6, <1>7

\* Without a pair of one kind the entries stay true of what the loops are past.
LEMMA CountsKept ==
  ASSUME LoopType, CountsType, CountsTrue, CountsAll,
         traces' = traces, counts' = counts,
         \A k, s, t : \A o \in 1..MaxOffset : Past(k, s, o, t)' = Past(k, s, o, t),
         \A x \in DOMAIN traces : \A p \in DOMAIN Calls(traces[x]) : \A o \in 1..MaxOffset :
             Pair(x, p, o) /\ Passed(<<x, p>>, o)' => Passed(<<x, p>>, o)
  PROVE  CountsTrue' /\ CountsAll'
  <1>1. CountsTrue'
    <2> SUFFICES ASSUME NEW x \in DOMAIN counts
                 PROVE  counts[x].count = Cardinality(Counted(counts[x])')
      BY DEF CountsTrue, Counted
    <2> DEFINE c == counts[x]
    <2>1. c.offset \in 1..MaxOffset
      BY DEF CountsType
    <2>2. Counted(c) = Past(c.kind, c.src, c.offset, c.tgt)
      BY DEF Counted, Past
    <2>3. Counted(c)' = Past(c.kind, c.src, c.offset, c.tgt)'
      BY DEF Counted, Past
    <2>4. c' = c
      OBVIOUS
    <2>5. c.count = Cardinality(Counted(c))
      BY DEF CountsTrue
    <2> QED BY <2>1, <2>2, <2>3, <2>4, <2>5
  <1>2. CountsAll'
    <2>1. \A x, p, o : /\ Pair(x, p, o)' <=> Pair(x, p, o)
                       /\ HasEntry(x, p, o)' <=> HasEntry(x, p, o)
      BY DEF Pair, HasEntry, Calls, Picked, IsKey
    <2>2. \A x : Calls(traces[x])' = Calls(traces[x])
      BY DEF Calls, Picked
    <2> QED BY <2>1, <2>2 DEF CountsAll
  <1> QED BY <1>1, <1>2

\* A source or a trace is left when all its pairs have been looked at.
LEMMA SourceDone ==
  ASSUME LoopType, NextSource \/ NextTrace,
         NEW x \in DOMAIN traces, NEW p \in DOMAIN Calls(traces[x]), NEW o \in 1..MaxOffset,
         p + o <= Len(Calls(traces[x]))
  PROVE  Passed(<<x, p>>, o)' <=> Passed(<<x, p>>, o)
  <1> DEFINE m == Len(Calls(traces[x]))
  <1>1. /\ x \in 1..Len(traces) /\ Len(traces) \in Nat /\ m \in Nat /\ p \in 1..m
        /\ i \in Nat \ {0} /\ j \in Nat /\ j > i /\ n \in 1..(Len(traces) + 1)
        /\ MaxOffset \in Nat /\ o \in Nat /\ o >= 1 /\ p + o <= m
    BY CallsOf, LearnerConstants DEF LoopType
  <1>2. Passed(<<x, p>>, o) <=> x < n \/ (x = n /\ (p < i \/ (p = i /\ p + o < j)))
    BY DEF Passed
  <1>3. Passed(<<x, p>>, o)' <=> x < n' \/ (x = n' /\ (p < i' \/ (p = i' /\ p + o < j')))
    BY DEF Passed
  <1>4. CASE NextSource
    <2>1. n' = n /\ i' = i + 1 /\ j' = i + 2 /\ j > LastTarget(Calls(traces[n]))
      BY <1>4 DEF NextSource
    <2>2. x = n => j > Min({i + MaxOffset, m})
      BY <2>1 DEF LastTarget
    <2> HIDE DEF m
    <2>3. Min({i + MaxOffset, m}) \in {i + MaxOffset, m}
      <3>1. \E a \in {i + MaxOffset, m} : \A b \in {i + MaxOffset, m} : a <= b
        BY <1>1
      <3> QED BY <3>1 DEF Min
    <2>4. x = n /\ p = i => p + o < j
      <3> HAVE x = n /\ p = i
      <3>1. o <= MaxOffset
        BY <1>1
      <3>2. CASE Min({i + MaxOffset, m}) = i + MaxOffset
        BY <1>1, <2>2, <3>1, <3>2
      <3>3. CASE Min({i + MaxOffset, m}) = m
        BY <1>1, <2>2, <3>3
      <3> QED BY <2>3, <3>2, <3>3
    <2> QED BY <1>1, <1>2, <1>3, <2>1, <2>4
  <1>5. CASE NextTrace
    <2>1. n' = n + 1 /\ i' = 1 /\ j' = 2 /\ i > Len(Calls(traces[n]))
      BY <1>5 DEF NextTrace
    <2>2. x = n => i > m
      BY <2>1
    <2> HIDE DEF m
    <2> QED BY <1>1, <1>2, <1>3, <2>1, <2>2
  <1> QED BY <1>4, <1>5

LEMMA LoopTypeKept ==
  ASSUME LoopType, LearnStep
  PROVE  LoopType'
  <1>1. CASE CountPair
    <2>1. /\ traces' = traces /\ learning' = learning /\ learning /\ n' = n /\ i' = i /\ j' = j + 1
      BY <1>1, PairBounds
    <2>2. j' \in Nat /\ j' > i'
      BY <2>1 DEF LoopType
    <2> QED BY <2>1, <2>2 DEF LoopType
  <1>2. CASE NextSource
    <2>1. /\ traces' = traces /\ learning' = learning /\ n' = n /\ i' = i + 1 /\ j' = i + 2
      BY <1>2 DEF NextSource
    <2>2. j' \in Nat /\ j' > i' /\ i' \in Nat \ {0}
      BY <2>1 DEF LoopType
    <2> QED BY <2>1, <2>2 DEF LoopType
  <1>3. CASE NextTrace
    <2>1. /\ traces' = traces /\ learning' = learning /\ n' = n + 1 /\ i' = 1 /\ j' = 2
          /\ n <= Len(traces) /\ learning
      BY <1>3 DEF NextTrace
    <2>2. Len(traces) \in Nat
      BY DEF LoopType, IsSeq
    <2>3. n' \in 1..(Len(traces) + 1)
      BY <2>1, <2>2 DEF LoopType
    <2> QED BY <2>1, <2>3 DEF LoopType
  <1>4. CASE Learned
    <2>1. /\ traces' = traces /\ learning' = FALSE /\ n' = n /\ i' = i /\ j' = j /\ n > Len(traces)
      BY <1>4 DEF Learned
    <2>2. Len(traces) \in Nat
      BY DEF LoopType, IsSeq
    <2>3. n = Len(traces) + 1
      BY <2>1, <2>2 DEF LoopType
    <2> QED BY <2>1, <2>3 DEF LoopType
  <1> QED BY <1>1, <1>2, <1>3, <1>4 DEF LearnStep

LEMMA PairCounted ==
  ASSUME LearnInv, CountPair
  PROVE  CountsType' /\ KeysOnce' /\ CountsTrue' /\ CountsAll'
  <1> DEFINE seq == Calls(traces[n])
             k0 == seq[i].kind
             s0 == seq[i].name
             o0 == j - i
             t0 == seq[j].name
  <1>0. LoopType /\ CountsType /\ KeysOnce /\ CountsTrue /\ CountsAll
    BY DEF LearnInv
  <1>1. /\ n \in DOMAIN traces /\ i \in DOMAIN seq /\ o0 \in 1..MaxOffset /\ MaxOffset \in Nat
        /\ i + o0 = j /\ j <= Len(seq)
        /\ traces' = traces /\ n' = n /\ i' = i /\ j' = j + 1
    BY <1>0, PairBounds
  <1>2. counts' = IF seq[i].kind = seq[j].kind THEN Bump(counts, k0, s0, o0, t0) ELSE counts
    BY DEF CountPair
  <1>3. CASE seq[i].kind # seq[j].kind
    <2>1. \A k, s, t : \A o \in 1..MaxOffset : Past(k, s, o, t)' = Past(k, s, o, t)
      <3> TAKE k, s, t
      <3> TAKE o \in 1..MaxOffset
      <3>1. ~Now(k, s, o, t)
        BY <1>3 DEF Now
      <3> QED BY <1>0, <3>1, OnePair
    <2>2. ASSUME NEW x \in DOMAIN traces, NEW p \in DOMAIN Calls(traces[x]), NEW o \in 1..MaxOffset,
                 Pair(x, p, o), Passed(<<x, p>>, o)'
          PROVE  Passed(<<x, p>>, o)
      <3>1. p \in Nat /\ x \in Nat /\ i \in Nat /\ j \in Nat /\ o \in Nat /\ n \in Nat
        BY <1>0, CallsOf DEF LoopType
      <3>2. ~(x = n /\ p = i /\ o = j - i)
        <4> SUFFICES ASSUME x = n, p = i, o = j - i PROVE FALSE
          OBVIOUS
        <4>1. i + o = j /\ Calls(traces[n])[i].kind = Calls(traces[n])[i + o].kind
          BY <1>1, <2>2 DEF Pair
        <4> QED BY <1>3, <4>1
      <3>3. \/ x < n \/ (x = n /\ (p < i \/ (p = i /\ p + o < j + 1)))
        BY <1>1, <2>2 DEF Passed
      <3>4. x < n \/ (x = n /\ (p < i \/ (p = i /\ p + o < j)))
        BY <3>1, <3>2, <3>3
      <3> QED BY <3>4 DEF Passed
    <2>3. counts' = counts
      BY <1>2, <1>3
    <2>4. CountsTrue' /\ CountsAll'
      BY <1>0, <1>1, <2>1, <2>2, <2>3, CountsKept
    <2>5. CountsType' /\ KeysOnce'
      BY <1>0, <2>3 DEF CountsType, KeysOnce
    <2> QED BY <2>4, <2>5
  <1>4. CASE seq[i].kind = seq[j].kind
    <2> DEFINE new == counts'
    <2>1. Raised(counts, new, k0, s0, o0, t0)
      <3>1. new = Bump(counts, k0, s0, o0, t0)
        BY <1>2, <1>4
      <3>2. IsSeq(counts)
        BY <1>0 DEF CountsType
      <3> QED BY <3>1, <3>2, Bumped
    <2>2. \A k, s, t : \A o \in 1..MaxOffset : Now(k, s, o, t) <=> k = k0 /\ s = s0 /\ o = o0 /\ t = t0
      BY <1>4 DEF Now
    <2> HIDE DEF seq, k0, s0, o0, t0
    <2>3. CountsType'
      <3>1. IsSeq(new)
        BY <2>1 DEF Raised
      <3>2. ASSUME NEW x \in DOMAIN new
            PROVE  new[x].offset \in 1..MaxOffset /\ new[x].count \in Nat \ {0}
        <4>1. CASE x \in DOMAIN counts
          <5>1. counts[x].offset \in 1..MaxOffset /\ counts[x].count \in Nat \ {0}
            BY <1>0, <4>1 DEF CountsType
          <5>2. /\ new[x].offset = counts[x].offset
                /\ new[x].count = counts[x].count + 1 \/ new[x].count = counts[x].count
            BY <2>1, <4>1 DEF Raised, SameKey, IsKey
          <5> QED BY <5>1, <5>2
        <4>2. CASE x \notin DOMAIN counts
          <5>1. new[x].offset = o0 /\ new[x].count = 1
            BY <2>1, <3>2, <4>2 DEF Raised, IsKey
          <5> QED BY <1>1, <5>1
        <4> QED BY <4>1, <4>2
      <3> QED BY <3>1, <3>2 DEF CountsType
    <2>4. KeysOnce'
      <3> SUFFICES ASSUME NEW x \in DOMAIN new, NEW y \in DOMAIN new, SameKey(new[x], new[y])
                   PROVE  x = y
        BY DEF KeysOnce, SameKey, IsKey
      <3>1. CASE x \in DOMAIN counts /\ y \in DOMAIN counts
        <4>1. SameKey(counts[x], counts[y])
          BY <2>1, <3>1 DEF Raised, SameKey, IsKey
        <4> QED BY <1>0, <3>1, <4>1 DEF KeysOnce
      <3>2. CASE x \in DOMAIN counts /\ y \notin DOMAIN counts
        <4>1. IsKey(counts[x], k0, s0, o0, t0)
          BY <2>1, <3>2 DEF Raised, SameKey, IsKey
        <4> QED BY <2>1, <3>2, <4>1 DEF Raised
      <3>3. CASE x \notin DOMAIN counts /\ y \in DOMAIN counts
        <4>1. IsKey(counts[y], k0, s0, o0, t0)
          BY <2>1, <3>3 DEF Raised, SameKey, IsKey
        <4> QED BY <2>1, <3>3, <4>1 DEF Raised
      <3>4. CASE x \notin DOMAIN counts /\ y \notin DOMAIN counts
        BY <2>1, <3>4 DEF Raised
      <3> QED BY <3>1, <3>2, <3>3, <3>4
    <2>5. CountsTrue'
      <3> SUFFICES ASSUME NEW x \in DOMAIN new, NEW k, NEW s, NEW o, NEW t,
                          k = new[x].kind, s = new[x].src, o = new[x].offset, t = new[x].tgt
                   PROVE  new[x].count = Cardinality(Past(k, s, o, t)')
        BY DEF CountsTrue, Counted, Past
      <3>1. o \in 1..MaxOffset
        BY <2>3 DEF CountsType
      <3>2. IsFiniteSet(Past(k, s, o, t))
        BY <1>0, PastFinite
      <3>3. Cardinality(Past(k, s, o, t)) \in Nat
        BY <3>2, FS_CardinalityType
      <3>4. Now(k, s, o, t) => Cardinality(Past(k, s, o, t)') = Cardinality(Past(k, s, o, t)) + 1
        <4> HAVE Now(k, s, o, t)
        <4>1. /\ Past(k, s, o, t)' = Past(k, s, o, t) \cup {<<n, i>>}
              /\ <<n, i>> \notin Past(k, s, o, t)
          BY <1>0, <3>1, OnePair
        <4> QED BY <3>2, <4>1, CountsOneMore
      <3>5. ~Now(k, s, o, t) => Past(k, s, o, t)' = Past(k, s, o, t)
        BY <1>0, <3>1, OnePair
      <3>6. CASE x \in DOMAIN counts
        <4>1. counts[x].count = Cardinality(Past(k, s, o, t))
          <5>1. counts[x].kind = k /\ counts[x].src = s /\ counts[x].offset = o /\ counts[x].tgt = t
            BY <2>1, <3>6 DEF Raised, SameKey, IsKey
          <5> QED BY <1>0, <3>6, <5>1 DEF CountsTrue, Counted, Past
        <4>2. IsKey(counts[x], k0, s0, o0, t0) <=> Now(k, s, o, t)
          <5>1. counts[x].kind = k /\ counts[x].src = s /\ counts[x].offset = o /\ counts[x].tgt = t
            BY <2>1, <3>6 DEF Raised, SameKey, IsKey
          <5> QED BY <2>2, <3>1, <5>1 DEF IsKey
        <4>3. new[x].count = IF Now(k, s, o, t) THEN counts[x].count + 1 ELSE counts[x].count
          BY <2>1, <3>6, <4>2 DEF Raised
        <4>4. new[x].count = Cardinality(Past(k, s, o, t)')
          BY <3>4, <3>5, <4>1, <4>3
        <4> QED BY <4>4
      <3>7. CASE x \notin DOMAIN counts
        <4>1. k = k0 /\ s = s0 /\ o = o0 /\ t = t0 /\ new[x].count = 1
          BY <2>1, <3>7 DEF Raised, IsKey
        <4>2. \A y \in DOMAIN counts : ~IsKey(counts[y], k0, s0, o0, t0)
          BY <2>1, <3>7 DEF Raised
        <4>3. Past(k, s, o, t) = {}
          <5> SUFFICES ASSUME NEW f \in Past(k, s, o, t) PROVE FALSE
            OBVIOUS
          <5>1. f \in FollowedBy(k, s, o, t) /\ Passed(f, o)
            BY DEF Past, SoFar
          <5>2. IsFollowed(f, k, s, o, t)
            BY <1>0, <5>1, FollowedByIs
          <5>3. Pair(f[1], f[2], o) /\ Passed(<<f[1], f[2]>>, o)
            BY <5>1, <5>2 DEF Pair, IsFollowed
          <5>4. HasEntry(f[1], f[2], o)
            BY <1>0, <3>1, <5>2, <5>3 DEF CountsAll, IsFollowed
          <5>5. \E y \in DOMAIN counts : IsKey(counts[y], k, s, o, t)
            BY <5>2, <5>4 DEF HasEntry, IsFollowed
          <5> QED BY <4>1, <4>2, <5>5
        <4>4. Now(k, s, o, t)
          BY <2>2, <3>1, <4>1
        <4>5. new[x].count = Cardinality(Past(k, s, o, t)')
          BY <3>4, <4>1, <4>3, <4>4, FS_EmptySet
        <4> QED BY <4>5
      <3> QED BY <3>6, <3>7
    <2>6. CountsAll'
      <3> SUFFICES ASSUME NEW x \in DOMAIN traces, NEW p \in DOMAIN Calls(traces[x]),
                          NEW o \in 1..MaxOffset, Pair(x, p, o), Passed(<<x, p>>, o)'
                   PROVE  HasEntry(x, p, o)'
        <4>1. \A x, p, o : Pair(x, p, o)' <=> Pair(x, p, o)
          BY <1>1 DEF Pair, Calls, Picked
        <4>2. \A x : Calls(traces[x])' = Calls(traces[x])
          BY <1>1 DEF Calls, Picked
        <4> QED BY <1>1, <4>1, <4>2 DEF CountsAll
      <3> DEFINE sq == Calls(traces[x])
      <3>6. (\E c \in DOMAIN new : IsKey(new[c], sq[p].kind, sq[p].name, o, sq[p + o].name))
              => HasEntry(x, p, o)'
        <4>1. Calls(traces[x])' = sq
          BY <1>1 DEF Calls, Picked
        <4> QED BY <4>1 DEF HasEntry, IsKey
      <3> HIDE DEF sq
      <3>1. p \in Nat /\ x \in Nat /\ i \in Nat /\ j \in Nat /\ o \in Nat /\ n \in Nat
        BY <1>0, CallsOf DEF LoopType
      <3>2. x < n \/ (x = n /\ (p < i \/ (p = i /\ p + o < j + 1)))
        BY <1>1 DEF Passed
      <3>3. \/ x < n \/ (x = n /\ (p < i \/ (p = i /\ p + o < j)))
            \/ x = n /\ p = i /\ p + o = j
        BY <3>1, <3>2
      <3>4. CASE x = n /\ p = i /\ p + o = j
        <4>1. o = o0
          BY <3>1, <3>4 DEF o0
        <4>2. PICK c \in DOMAIN new : IsKey(new[c], k0, s0, o0, t0)
          BY <2>1 DEF Raised
        <4>3. sq[p].kind = k0 /\ sq[p].name = s0 /\ sq[p + o].name = t0
          BY <3>4 DEF seq, k0, s0, t0, sq
        <4> QED BY <3>6, <4>1, <4>2, <4>3
      <3>5. CASE x < n \/ (x = n /\ (p < i \/ (p = i /\ p + o < j)))
        <4>1. Passed(<<x, p>>, o)
          BY <3>5 DEF Passed
        <4>2. HasEntry(x, p, o)
          BY <1>0, <4>1 DEF CountsAll
        <4>3. PICK c \in DOMAIN counts : IsKey(counts[c], sq[p].kind, sq[p].name, o, sq[p + o].name)
          BY <4>2 DEF HasEntry, sq
        <4>4. c \in DOMAIN new /\ IsKey(new[c], sq[p].kind, sq[p].name, o, sq[p + o].name)
          BY <2>1, <4>3 DEF Raised, SameKey, IsKey
        <4> QED BY <3>6, <4>4
      <3> QED BY <3>3, <3>4, <3>5
    <2> QED BY <2>3, <2>4, <2>5, <2>6
  <1> QED BY <1>3, <1>4

LEMMA LearnInvKept ==
  ASSUME LearnInv, LearnStep
  PROVE  LearnInv'
  <1>0. LoopType /\ CountsType /\ KeysOnce /\ CountsTrue /\ CountsAll
    BY DEF LearnInv
  <1>1. LoopType'
    BY <1>0, LoopTypeKept
  <1>2. CASE CountPair
    BY <1>1, <1>2, PairCounted DEF LearnInv
  <1>3. CASE NextSource \/ NextTrace
    <2>1. traces' = traces /\ counts' = counts
      BY <1>3 DEF NextSource, NextTrace
    <2>2. \A k, s, t : \A o \in 1..MaxOffset : Past(k, s, o, t)' = Past(k, s, o, t)
      <3> TAKE k, s, t
      <3> TAKE o \in 1..MaxOffset
      <3> DEFINE F == FollowedBy(k, s, o, t)
      <3>1. F' = F
        BY <2>1 DEF FollowedBy, Followed, Calls, Picked
      <3>2. \A f \in F : Passed(f, o)' <=> Passed(f, o)
        <4> TAKE f \in F
        <4>1. o \in Nat /\ f \in FollowedBy(k, s, o, t)
          BY LearnerConstants
        <4> HIDE DEF F
        <4>2. /\ f[1] \in DOMAIN traces /\ f[2] \in DOMAIN Calls(traces[f[1]])
              /\ f = <<f[1], f[2]>> /\ f[2] + o <= Len(Calls(traces[f[1]]))
          BY <1>0, <4>1, FollowedByIs DEF IsFollowed
        <4>3. Passed(<<f[1], f[2]>>, o)' <=> Passed(<<f[1], f[2]>>, o)
          BY <1>0, <1>3, <4>2, SourceDone
        <4> QED BY <4>2, <4>3 DEF Passed
      <3> QED BY <3>1, <3>2 DEF Past, SoFar
    <2>3. ASSUME NEW x \in DOMAIN traces, NEW p \in DOMAIN Calls(traces[x]), NEW o \in 1..MaxOffset,
                 Pair(x, p, o), Passed(<<x, p>>, o)'
          PROVE  Passed(<<x, p>>, o)
      <3>1. p + o <= Len(Calls(traces[x]))
        BY <2>3 DEF Pair
      <3> QED BY <1>0, <1>3, <2>3, <3>1, SourceDone
    <2>4. CountsTrue' /\ CountsAll'
      BY <1>0, <2>1, <2>2, <2>3, CountsKept
    <2>5. CountsType' /\ KeysOnce'
      BY <1>0, <2>1 DEF CountsType, KeysOnce
    <2> QED BY <1>1, <2>4, <2>5 DEF LearnInv
  <1>4. CASE Learned
    <2>1. traces' = traces /\ counts' = counts /\ n' = n /\ i' = i /\ j' = j
      BY <1>4 DEF Learned
    <2>2. \A k, s, o, t : Past(k, s, o, t)' = Past(k, s, o, t)
      BY <2>1 DEF Past, SoFar, FollowedBy, Followed, Calls, Picked, Passed
    <2>3. \A f, o : Passed(f, o)' <=> Passed(f, o)
      BY <2>1 DEF Passed
    <2>4. CountsTrue' /\ CountsAll'
      BY <1>0, <2>1, <2>2, <2>3, CountsKept
    <2>5. CountsType' /\ KeysOnce'
      BY <1>0, <2>1 DEF CountsType, KeysOnce
    <2> QED BY <1>1, <2>4, <2>5 DEF LearnInv
  <1> QED BY <1>2, <1>3, <1>4 DEF LearnStep

LEMMA LearnInvInit ==
  Init => LearnInv
  <1> SUFFICES ASSUME Init PROVE LearnInv
    OBVIOUS
  <1>1. learning = TRUE /\ n = 1 /\ i = 1 /\ j = 2 /\ counts = <<>>
    BY DEF Init, LearnInit
  <1>2. IsSeq(traces) /\ \A x \in DOMAIN traces : IsSeq(traces[x])
    BY ReplayConstants DEF Init
  <1>3. Len(traces) \in Nat /\ DOMAIN traces = 1..Len(traces)
    BY <1>2 DEF IsSeq
  <1>4. LoopType
    BY <1>1, <1>2, <1>3 DEF LoopType
  <1>5. DOMAIN counts = {} /\ IsSeq(counts)
    BY <1>1 DEF IsSeq
  <1>6. CountsType /\ KeysOnce /\ CountsTrue
    BY <1>5 DEF CountsType, KeysOnce, CountsTrue
  <1>7. CountsAll
    <2> SUFFICES ASSUME NEW x \in DOMAIN traces, NEW p \in DOMAIN Calls(traces[x]),
                        NEW o \in 1..MaxOffset, Passed(<<x, p>>, o)
                 PROVE  FALSE
      BY DEF CountsAll
    <2>1. x \in 1..Len(traces) /\ p \in 1..Len(Calls(traces[x])) /\ Len(Calls(traces[x])) \in Nat
      BY <1>4, CallsOf
    <2>2. x < 1 \/ (x = 1 /\ (p < 1 \/ (p = 1 /\ p + o < 2)))
      BY <1>1 DEF Passed
    <2>3. o \in Nat /\ o >= 1
      BY LearnerConstants
    <2> QED BY <1>3, <2>1, <2>2, <2>3
  <1> QED BY <1>4, <1>6, <1>7 DEF LearnInv

LEMMA LearnInvSame ==
  ASSUME LearnInv, UNCHANGED learner
  PROVE  LearnInv'
  <1>0. LoopType /\ CountsType /\ KeysOnce /\ CountsTrue /\ CountsAll
    BY DEF LearnInv
  <1>1. /\ traces' = traces /\ learning' = learning /\ n' = n /\ i' = i /\ j' = j /\ counts' = counts
    BY DEF learner
  <1>2. \A k, s, o, t : Past(k, s, o, t)' = Past(k, s, o, t)
    BY <1>1 DEF Past, SoFar, FollowedBy, Followed, Calls, Picked, Passed
  <1>3. \A f, o : Passed(f, o)' <=> Passed(f, o)
    BY <1>1 DEF Passed
  <1>4. CountsTrue' /\ CountsAll'
    BY <1>0, <1>1, <1>2, <1>3, CountsKept
  <1>5. CountsType' /\ KeysOnce' /\ LoopType'
    BY <1>0, <1>1 DEF CountsType, KeysOnce, LoopType
  <1> QED BY <1>4, <1>5 DEF LearnInv

LEMMA LearnInvNext ==
  ASSUME LearnInv, [Next]_vars
  PROVE  LearnInv'
  <1>1. CASE LearnStep
    BY <1>1, LearnInvKept
  <1>2. CASE ToolStarts
    BY <1>2, LearnInvSame DEF ToolStarts
  <1>3. CASE UNCHANGED vars
    BY <1>3, LearnInvSame DEF vars
  <1> QED BY <1>1, <1>2, <1>3 DEF Next

\* The loops of the learner: at every step each key has one entry, which counts
\* the pairs of that key that the loops are past.
THEOREM LearnerInvariant == Spec => []LearnInv
  <1>1. Init => LearnInv
    BY LearnInvInit
  <1>2. LearnInv /\ [Next]_vars => LearnInv'
    BY LearnInvNext
  <1> QED BY <1>1, <1>2, PTL DEF Spec

-------------------------------------------------------------------------------
(* The table.                                                              *)

\* When the loops have ended they are past every pair.
LEMMA AllPast ==
  ASSUME LearnInv, ~learning
  PROVE  /\ \A k, s, o, t : Past(k, s, o, t) = FollowedBy(k, s, o, t)
         /\ \A x \in DOMAIN traces : \A p, o : Passed(<<x, p>>, o)
  <1>1. \A f, o : f[1] \in DOMAIN traces => Passed(f, o)
    <2>1. n = Len(traces) + 1 /\ Len(traces) \in Nat /\ DOMAIN traces = 1..Len(traces)
      BY DEF LearnInv, LoopType, IsSeq
    <2> QED BY <2>1 DEF Passed
  <1>2. \A k, s, o, t : Past(k, s, o, t) = FollowedBy(k, s, o, t)
    <2> TAKE k, s, o, t
    <2>1. \A f \in FollowedBy(k, s, o, t) : f[1] \in DOMAIN traces
      BY FollowedByIs DEF LearnInv, IsFollowed
    <2> QED BY <1>1, <2>1 DEF Past, SoFar
  <1>3. \A x \in DOMAIN traces : \A p, o : Passed(<<x, p>>, o)
    <2> TAKE x \in DOMAIN traces
    <2> TAKE p, o
    <2>1. <<x, p>>[1] = x
      OBVIOUS
    <2> QED BY <1>1, <2>1
  <1> QED BY <1>2, <1>3

LEMMA EntriesTrue ==
  ASSUME LearnInv, ~learning, NEW x \in DOMAIN counts
  PROVE  LET c == counts[x]
         IN  /\ c.offset \in 1..MaxOffset /\ c.count \in Nat \ {0}
             /\ c.count = Cardinality(FollowedBy(c.kind, c.src, c.offset, c.tgt))
  <1>1. Counted(counts[x]) = Past(counts[x].kind, counts[x].src, counts[x].offset, counts[x].tgt)
    BY DEF Counted, Past
  <1>2. counts[x].count = Cardinality(Counted(counts[x]))
    BY DEF LearnInv, CountsTrue
  <1> QED BY <1>1, <1>2, AllPast DEF LearnInv, CountsType

\* Every pair has an entry.
LEMMA EntriesAll ==
  ASSUME LearnInv, ~learning, NEW k, NEW s, NEW o \in 1..MaxOffset, NEW t,
         NEW f \in FollowedBy(k, s, o, t)
  PROVE  \E c \in DOMAIN counts : IsKey(counts[c], k, s, o, t)
  <1>1. IsFollowed(f, k, s, o, t)
    BY FollowedByIs DEF LearnInv
  <1>2. Pair(f[1], f[2], o) /\ Passed(<<f[1], f[2]>>, o)
    BY <1>1, AllPast DEF Pair, IsFollowed
  <1>3. HasEntry(f[1], f[2], o)
    BY <1>1, <1>2 DEF LearnInv, CountsAll, IsFollowed
  <1> QED BY <1>1, <1>3 DEF HasEntry, IsFollowed

LEMMA CountsExactHolds ==
  ASSUME LearnInv
  PROVE  CountsExact
  <1> SUFFICES ASSUME ~learning, NEW k, NEW o \in 1..(MaxOffset + 1), NEW s, NEW t
               PROVE  LET found == {x \in DOMAIN counts : IsKey(counts[x], k, s, o, t)}
                          seen == IF o > MaxOffset THEN 0 ELSE Occurrences(k, s, o, t)
                      IN  IF seen = 0 THEN found = {}
                          ELSE \E x \in found : found = {x} /\ counts[x].count = seen
    BY DEF CountsExact
  <1> DEFINE found == {x \in DOMAIN counts : IsKey(counts[x], k, s, o, t)}
             F == FollowedBy(k, s, o, t)
  <1>1. MaxOffset \in Nat
    BY LearnerConstants
  <1>2. \A x \in found : /\ x \in DOMAIN counts /\ IsKey(counts[x], k, s, o, t)
                         /\ o \in 1..MaxOffset /\ counts[x].count = Cardinality(F)
                         /\ counts[x].count \in Nat \ {0}
    BY EntriesTrue DEF IsKey
  <1>3. \A x, y \in found : x = y
    BY <1>2 DEF LearnInv, KeysOnce, SameKey, IsKey
  <1>4. CASE o > MaxOffset
    <2>1. found = {}
      BY <1>1, <1>2, <1>4
    <2> QED BY <1>4, <2>1
  <1>5. CASE ~(o > MaxOffset)
    <2>1. o \in 1..MaxOffset
      BY <1>1, <1>5
    <2>2. IsFiniteSet(F)
      BY PastFinite DEF LearnInv
    <2>3. Cardinality(F) \in Nat /\ (Cardinality(F) = 0 <=> F = {})
      BY <2>2, FS_CardinalityType, FS_EmptySet
    <2>4. F # {} => found # {}
      BY <2>1, EntriesAll
    <2> HIDE DEF found, F
    <2>5. IF Cardinality(F) = 0 THEN found = {}
          ELSE \E x \in found : found = {x} /\ counts[x].count = Cardinality(F)
      <3>1. CASE Cardinality(F) = 0
        BY <1>2, <3>1
      <3>2. CASE Cardinality(F) # 0
        <4>1. PICK x \in found : TRUE
          BY <2>3, <2>4, <3>2
        <4>2. found = {x}
          BY <1>3, <4>1
        <4> QED BY <1>2, <3>2, <4>1, <4>2
      <3> QED BY <3>1, <3>2
    <2> QED BY <1>5, <2>5 DEF Occurrences, F, found
  <1> QED BY <1>4, <1>5

\* The loops count exactly: when they have ended, each pair of calls at each
\* distance has one entry with the number of its occurrences in the traces, and
\* what does not occur has none (learn_from_traces).
THEOREM CountsAlwaysExact == Spec => []CountsExact
  <1>1. LearnInv => CountsExact
    BY CountsExactHolds
  <1> QED BY <1>1, LearnerInvariant, PTL

LEMMA BucketFinite ==
  ASSUME LearnInv, NEW k, NEW s, NEW o
  PROVE  /\ IsFiniteSet(Bucket(k, s, o)) /\ IsFiniteSet(Kept(Bucket(k, s, o)))
         /\ Kept(Bucket(k, s, o)) \subseteq Bucket(k, s, o) /\ Bucket(k, s, o) \subseteq DOMAIN counts
         /\ DOMAIN counts \subseteq Nat
  <1>1. Len(counts) \in Nat /\ DOMAIN counts = 1..Len(counts)
    BY DEF LearnInv, CountsType, IsSeq
  <1>2. IsFiniteSet(DOMAIN counts)
    BY <1>1, FS_Interval
  <1>3. /\ Bucket(k, s, o) \in SUBSET DOMAIN counts
        /\ Kept(Bucket(k, s, o)) \in SUBSET DOMAIN counts
        /\ Kept(Bucket(k, s, o)) \subseteq Bucket(k, s, o)
    BY DEF Bucket, Kept
  <1> QED BY <1>1, <1>2, <1>3, FS_Subset

\* The counts of a bucket add up to the calls that are followed by any.
LEMMA DenominatorIs ==
  ASSUME LearnInv, ~learning, NEW k, NEW s, NEW o \in 1..MaxOffset
  PROVE  Denominator(Bucket(k, s, o)) = Cardinality(Followed(k, s, o))
  <1> DEFINE b == Bucket(k, s, o)
             F == Followed(k, s, o)
             g == [x \in DOMAIN counts |-> counts[x].count]
             to(f) == Calls(traces[f[1]])[f[2] + o].name
             Of == [a \in SUBSET b |-> {f \in F : \E x \in a : to(f) = counts[x].tgt}]
             good == {a \in SUBSET b : Part(g, a) = Cardinality(Of[a])}
  <1>1. IsFiniteSet(b) /\ b \subseteq DOMAIN counts
    BY BucketFinite
  <1>2. IsFiniteSet(F)
    BY FollowedFinite DEF LearnInv
  <1>3. \A x \in b : /\ g[x] = Cardinality(FollowedBy(k, s, o, counts[x].tgt)) /\ g[x] \in Nat
                     /\ x \in DOMAIN counts /\ IsKey(counts[x], k, s, o, counts[x].tgt)
    BY EntriesTrue DEF Bucket, IsKey
  <1>4. \A x \in b : FollowedBy(k, s, o, counts[x].tgt) = {f \in F : to(f) = counts[x].tgt}
    BY DEF FollowedBy
  <1>5. \A x, y \in b : counts[x].tgt = counts[y].tgt => x = y
    BY <1>3 DEF LearnInv, KeysOnce, SameKey, IsKey
  <1>6. \A f \in F : \E x \in b : to(f) = counts[x].tgt
    <2> TAKE f \in F
    <2>1. f \in FollowedBy(k, s, o, to(f))
      BY DEF FollowedBy
    <2>2. PICK c \in DOMAIN counts : IsKey(counts[c], k, s, o, to(f))
      BY <2>1, EntriesAll
    <2> QED BY <2>2 DEF Bucket, IsKey
  <1> HIDE DEF b, F, g, to
  <1>7. Of[{}] = {} /\ Of[b] = F
    BY <1>6
  <1>8. \A a \in SUBSET b : \A y \in b \ a :
           /\ Of[a \cup {y}] = Of[a] \cup {f \in F : to(f) = counts[y].tgt}
           /\ Of[a] \cap {f \in F : to(f) = counts[y].tgt} = {}
           /\ Of[a] \subseteq F
    BY <1>5
  <1> HIDE DEF Of
  <1>9. {} \in good
    BY <1>7, PartEmpty, FS_EmptySet
  <1>10. ASSUME NEW a \in good, NEW y \in b \ a
         PROVE  a \cup {y} \in good
    <2> DEFINE Y == {f \in F : to(f) = counts[y].tgt}
    <2>1. a \in SUBSET b /\ a \cup {y} \in SUBSET b /\ Part(g, a) = Cardinality(Of[a])
      OBVIOUS
    <2>2. IsFiniteSet(a)
      BY <1>1, <2>1, FS_Subset
    <2>3. IntOn(g, a \cup {y})
      BY <1>3, <2>1 DEF IntOn
    <2>4. Part(g, a \cup {y}) = Part(g, a) + g[y]
      BY <2>2, <2>3, PartInsert DEF More
    <2>5. Of[a \cup {y}] = Of[a] \cup Y /\ Of[a] \cap Y = {} /\ Of[a] \in SUBSET F /\ Y \in SUBSET F
      BY <1>8, <2>1
    <2>6. g[y] = Cardinality(Y)
      BY <1>3, <1>4
    <2> HIDE DEF Y
    <2>7. IsFiniteSet(Of[a]) /\ IsFiniteSet(Y)
      BY <1>2, <2>5, FS_Subset
    <2>8. Cardinality(Of[a] \cup Y) = Cardinality(Of[a]) + Cardinality(Y)
      BY <2>5, <2>7, CountsAdd
    <2> QED BY <2>1, <2>4, <2>5, <2>6, <2>8
  <1>11. good \in SUBSET SUBSET b
    OBVIOUS
  <1>13. b \in good => Part(g, b) = Cardinality(Of[b])
    OBVIOUS
  <1> HIDE DEF good
  <1>12. b \in good
    BY <1>1, <1>9, <1>10, <1>11, Grown
  <1>14. Denominator(b) = Part(g, b)
    <2>1. [x \in b |-> g[x]] = [x \in b |-> counts[x].count]
      BY <1>1 DEF g
    <2> QED BY <2>1 DEF Denominator, Part
  <1> QED BY <1>7, <1>12, <1>13, <1>14 DEF b, F

\* The order of the entries of a bucket.
LEMMA EntriesOrdered ==
  ASSUME LearnInv, NEW S \in SUBSET DOMAIN counts
  PROVE  Ordered([x \in S |-> {y \in S : Above(y, x)}], S)
  <1> DEFINE Before == [x \in S |-> {y \in S : Above(y, x)}]
  <1>1. \A x \in S : x \in Nat /\ counts[x].count \in Nat
    BY DEF LearnInv, CountsType, IsSeq
  <1>2. \A x, y \in S : Above(x, y) <=> counts[x].count > counts[y].count
                                        \/ (counts[x].count = counts[y].count /\ x < y)
    BY DEF Above
  <1>3. \A x, y \in S : x \in Before[y] <=> Above(x, y)
    OBVIOUS
  <1>4. Before \in [S -> SUBSET S]
    OBVIOUS
  <1> HIDE DEF Before
  <1>5. \A x \in S : x \notin Before[x]
    BY <1>1, <1>2, <1>3
  <1>6. \A x, y \in S : x # y => x \in Before[y] \/ y \in Before[x]
    BY <1>1, <1>2, <1>3
  <1>7. \A x, y \in S : x \in Before[y] => Before[x] \subseteq Before[y]
    <2> TAKE x, y \in S
    <2> HAVE x \in Before[y]
    <2>1. ASSUME NEW v \in Before[x]
          PROVE  v \in Before[y]
      <3>1. v \in S /\ Above(v, x) /\ Above(x, y)
        BY <1>3, <1>4
      <3>2. Above(v, y)
        BY <1>1, <1>2, <3>1
      <3> QED BY <1>3, <3>1, <3>2
    <2> QED BY <2>1
  <1> QED BY <1>4, <1>5, <1>6, <1>7 DEF Before, Ordered

LEMMA RanksTaken ==
  ASSUME LearnInv, NEW S \in SUBSET DOMAIN counts
  PROVE  /\ Cardinality(S) \in Nat
         /\ \A r \in 1..Cardinality(S) : Ranked(S, r) \in S
         /\ \A r \in 2..Cardinality(S) : counts[Ranked(S, r)].count <= counts[Ranked(S, r - 1)].count
  <1> DEFINE Before == [x \in S |-> {y \in S : Above(y, x)}]
  <1>1. IsFiniteSet(S) /\ Cardinality(S) \in Nat
    <2>1. Len(counts) \in Nat /\ DOMAIN counts = 1..Len(counts)
      BY DEF LearnInv, CountsType, IsSeq
    <2>3. IsFiniteSet(DOMAIN counts)
      BY <2>1, FS_Interval
    <2>2. IsFiniteSet(S)
      BY <2>3, FS_Subset
    <2> QED BY <2>2, FS_CardinalityType
  <1>2. Ordered(Before, S)
    BY EntriesOrdered
  <1>3. \A x \in S : Before[x] = {y \in S : Above(y, x)}
    OBVIOUS
  <1> HIDE DEF Before
  <1>4. \A r \in 1..Cardinality(S) : \E x \in S : Cardinality(Before[x]) = r - 1
    BY <1>1, <1>2, PlacesTaken
  <1>5. \A r \in 1..Cardinality(S) : Ranked(S, r) \in S /\ Cardinality(Before[Ranked(S, r)]) = r - 1
    <2> TAKE r \in 1..Cardinality(S)
    <2>1. \E x \in S : Cardinality({y \in S : Above(y, x)}) = r - 1
      BY <1>3, <1>4
    <2>2. Ranked(S, r) \in S /\ Cardinality({y \in S : Above(y, Ranked(S, r))}) = r - 1
      BY <2>1 DEF Ranked
    <2> QED BY <1>3, <2>2
  <1>6. ASSUME NEW r \in 2..Cardinality(S)
        PROVE  counts[Ranked(S, r)].count <= counts[Ranked(S, r - 1)].count
    <2> DEFINE x == Ranked(S, r)
               y == Ranked(S, r - 1)
    <2>1. r \in 1..Cardinality(S) /\ r - 1 \in 1..Cardinality(S)
      BY <1>1
    <2>2. /\ x \in S /\ y \in S
          /\ Cardinality(Before[x]) = r - 1 /\ Cardinality(Before[y]) = (r - 1) - 1
      BY <1>5, <2>1
    <2> HIDE DEF x, y
    <2>3. counts[x].count \in Nat /\ counts[y].count \in Nat
      BY <2>2 DEF LearnInv, CountsType
    <2>4. counts[x].count > counts[y].count => x \in Before[y]
      BY <1>3, <2>2 DEF Above
    <2>5. x \in Before[y] => Cardinality(Before[x]) < Cardinality(Before[y])
      BY <1>1, <1>2, <2>2, PlacesGrow
    <2>6. x \notin Before[y]
      BY <2>1, <2>2, <2>5
    <2>7. counts[x].count <= counts[y].count
      BY <2>3, <2>4, <2>6
    <2> QED BY <2>7 DEF x, y
  <1> QED BY <1>1, <1>5, <1>6


\* What an entry of the table tells.
LEMMA TopIs ==
  ASSUME LearnInv, ~learning, NEW k, NEW s, NEW o, NEW m \in Nat,
         NEW r \in DOMAIN Top(k, s, o, m)
  PROVE  LET top == Top(k, s, o, m)
             kept == Kept(Bucket(k, s, o))
             x == Ranked(kept, r)
         IN  /\ r \in 1..Cardinality(kept) /\ DOMAIN top \subseteq Nat /\ Cardinality(kept) \in Nat
             /\ x \in kept /\ x \in DOMAIN counts
             /\ top[r] = [target |-> counts[x].tgt, percent |-> Percent(x, Bucket(k, s, o))]
             /\ IsKey(counts[x], k, s, o, counts[x].tgt)
             /\ counts[x].count = Occurrences(k, s, o, counts[x].tgt)
             /\ counts[x].count \in Nat \ {0}
             /\ FollowedBy(k, s, o, counts[x].tgt) # {}
             /\ r > 1 => /\ r - 1 \in DOMAIN top
                         /\ counts[x].count <= counts[Ranked(kept, r - 1)].count
  <1> DEFINE b == Bucket(k, s, o)
             kept == Kept(b)
             c == Cardinality(kept)
             x == Ranked(kept, r)
             top == Top(k, s, o, m)
  <1>1. kept \in SUBSET DOMAIN counts
    BY BucketFinite
  <1>2. /\ c \in Nat /\ \A q \in 1..c : Ranked(kept, q) \in kept
        /\ \A q \in 2..c : counts[Ranked(kept, q)].count <= counts[Ranked(kept, q - 1)].count
    <2> HIDE DEF kept
    <2> QED BY <1>1, RanksTaken
  <1>3. top = [q \in 1..Min({m, c}) |->
                  [target |-> counts[Ranked(kept, q)].tgt, percent |-> Percent(Ranked(kept, q), b)]]
    BY DEF Top
  <1> HIDE DEF kept, c, b
  <1>4. Min({m, c}) \in {m, c} /\ Min({m, c}) <= c
    <2>1. \E a \in {m, c} : \A d \in {m, c} : a <= d
      BY <1>2
    <2> QED BY <1>2, <2>1 DEF Min
  <1>5. r \in 1..Min({m, c}) /\ DOMAIN top = 1..Min({m, c})
    BY <1>3
  <1> HIDE DEF top
  <1>6. r \in 1..c /\ DOMAIN top \subseteq Nat /\ (r > 1 => r - 1 \in DOMAIN top /\ r \in 2..c)
    BY <1>2, <1>4, <1>5
  <1>7. x \in kept /\ x \in DOMAIN counts /\ (r > 1 => counts[x].count <= counts[Ranked(kept, r - 1)].count)
    BY <1>1, <1>2, <1>6
  <1>8. top[r] = [target |-> counts[x].tgt, percent |-> Percent(x, b)]
    BY <1>3, <1>5
  <1> HIDE DEF x
  <1>9. IsKey(counts[x], k, s, o, counts[x].tgt)
    <2>1. x \in b
      BY <1>7, BucketFinite DEF kept, b
    <2> QED BY <2>1 DEF Bucket, IsKey, b
  <1>10. /\ counts[x].count = Occurrences(k, s, o, counts[x].tgt)
         /\ counts[x].count \in Nat \ {0}
    BY <1>7, <1>9, EntriesTrue DEF IsKey, Occurrences
  <1>11. FollowedBy(k, s, o, counts[x].tgt) # {}
    BY <1>10, FS_EmptySet DEF Occurrences
  <1> QED BY <1>2, <1>6, <1>7, <1>8, <1>9, <1>10, <1>11 DEF x, kept, b, c, top

LEMMA NoOverconfidenceHolds ==
  ASSUME LearnInv
  PROVE  NoOverconfidence
  <1> SUFFICES ASSUME ~learning, NEW k, NEW o \in 1..MaxOffset, NEW s, NEW r \in DOMAIN Top(k, s, o, Len(counts))
               PROVE  LET top == Top(k, s, o, Len(counts))
                          all == Cardinality(Followed(k, s, o))
                      IN  /\ top[r].percent * all <= Occurrences(k, s, o, top[r].target) * 100
                          /\ r > 1 => top[r].percent <= top[r - 1].percent
    BY DEF NoOverconfidence
  <1> DEFINE top == Top(k, s, o, Len(counts))
             b == Bucket(k, s, o)
             kept == Kept(b)
             all == Cardinality(Followed(k, s, o))
             x == Ranked(kept, r)
             y == Ranked(kept, r - 1)
             cx == counts[x].count
             cy == counts[y].count
  <1>0. Len(counts) \in Nat
    BY DEF LearnInv, CountsType, IsSeq
  <1>1. /\ top[r] = [target |-> counts[x].tgt, percent |-> Percent(x, b)]
        /\ cx = Occurrences(k, s, o, counts[x].tgt) /\ cx \in Nat \ {0}
        /\ FollowedBy(k, s, o, counts[x].tgt) # {}
        /\ r > 1 => r - 1 \in DOMAIN top /\ cx <= cy
    BY <1>0, TopIs
  <1>2. r > 1 => /\ top[r - 1] = [target |-> counts[y].tgt, percent |-> Percent(y, b)]
                 /\ cy \in Nat
    <2> HAVE r > 1
    <2>1. r - 1 \in DOMAIN Top(k, s, o, Len(counts))
      BY <1>1
    <2> QED BY <1>0, <2>1, TopIs
  <1>3. all \in Nat \ {0}
    <2>1. IsFiniteSet(Followed(k, s, o))
      BY FollowedFinite DEF LearnInv
    <2>2. Followed(k, s, o) # {}
      BY <1>1 DEF FollowedBy
    <2> QED BY <2>1, <2>2, FS_CardinalityType, FS_EmptySet
  <1>4. Denominator(b) = all
    BY DenominatorIs
  <1>5. Percent(x, b) = (cx * 100) \div all /\ Percent(y, b) = (cy * 100) \div all
    BY <1>4 DEF Percent
  <1> HIDE DEF top, b, kept, all, x, y
  <1>6. top[r].percent = (cx * 100) \div all /\ top[r].target = counts[x].tgt
    BY <1>1, <1>5
  <1>7. r > 1 => top[r - 1].percent = (cy * 100) \div all
    BY <1>2, <1>5
  <1>8. ((cx * 100) \div all) * all <= cx * 100
    <2>1. cx * 100 \in Nat
      BY <1>1
    <2> HIDE DEF cx
    <2> QED BY <1>3, <2>1, Division
  <1>9. r > 1 => (cx * 100) \div all <= (cy * 100) \div all
    <2> HAVE r > 1
    <2>1. cx \in Nat /\ cy \in Nat /\ cx <= cy
      BY <1>1, <1>2
    <2> HIDE DEF cx, cy
    <2>2. cx * 100 \in Nat /\ cy * 100 \in Nat /\ cx * 100 <= cy * 100
      BY <2>1
    <2> QED BY <1>3, <2>2, Division
  <1>10. top[r].percent * all <= Occurrences(k, s, o, top[r].target) * 100
    BY <1>1, <1>6, <1>8
  <1>11. r > 1 => top[r].percent <= top[r - 1].percent
    BY <1>6, <1>7, <1>9
  <1> QED BY <1>10, <1>11 DEF top, all

\* The table promises no more than the traces show: a percent is at most the
\* share of the calls that were followed so, and the best come first
\* (_build, top_tools).
THEOREM NeverOverconfident == Spec => []NoOverconfidence
  <1>1. LearnInv => NoOverconfidence
    BY NoOverconfidenceHolds
  <1> QED BY <1>1, LearnerInvariant, PTL

-------------------------------------------------------------------------------
(* The replay.                                                             *)

\* A prediction waits for a step that its first resource names.
ReplayType ==
    /\ IsSeq(run) /\ IsSeq(verdicts) /\ step \in 0..Len(run)
    /\ pending = <<>> \/ \E e : pending = <<e>>

PendingDue ==
    pending # <<>> =>
        /\ pending[1].made \in 1..step /\ pending[1].expected \in Nat
        /\ pending[1].expected = pending[1].made + pending[1].horizon

\* The run is one that the predictor knows.
Known ==
    \/ by = "oracle" /\ traces # <<>> /\ Records(traces[1])
    \/ by = "plan_only" /\ Distinct(run) /\ (plan = run \/ plan = Tail(run))
    \/ by = "transition_only" /\ Distinct(run) /\ \A x \in DOMAIN traces : Repeats(traces[x])

\* Then what is predicted comes at the step it is predicted for.
KnownDue ==
    Known /\ pending # <<>> =>
        /\ pending[1].expected > step
        /\ pending[1].expected <= Len(run) => pending[1].consumer = run[pending[1].expected]

KnownHits == Known => Wrong = {}

ReplayInv == ReplayType /\ PendingDue /\ KnownDue /\ KnownHits

LEMMA SeqIs ==
  \A s : IsSeq(s) => /\ Len(s) \in Nat /\ DOMAIN s = 1..Len(s)
                     /\ (s = <<>> <=> Len(s) = 0) /\ (s # <<>> => 1 \in DOMAIN s)
  BY DEF IsSeq

LEMMA SeqMade ==
  ASSUME NEW m \in Nat, NEW s, DOMAIN s = 1..m, s = [x \in 1..m |-> s[x]]
  PROVE  IsSeq(s) /\ Len(s) = m
  <1>1. s \in [1..m -> ToSet(s)]
    BY DEF ToSet
  <1> QED BY <1>1 DEF IsSeq

\* What two sequences give one after the other.
Joined(c, a, b) ==
    /\ IsSeq(c) /\ \A x \in DOMAIN c : c[x] \in ToSet(a) \cup ToSet(b)
    /\ (a # <<>> => c # <<>> /\ c[1] = a[1])
    /\ (a = <<>> => c = b)

LEMMA JoinedIs ==
  ASSUME NEW a, IsSeq(a), NEW b, IsSeq(b)
  PROVE  Joined(a \o b, a, b)
  <1> DEFINE S == ToSet(a) \cup ToSet(b)
             c == a \o b
  <1>1. a \in Seq(S) /\ b \in Seq(S)
    BY DEF IsSeq
  <1>2. a # <<>> => Len(a) >= 1
    BY <1>1
  <1> HIDE DEF S
  <1>3. /\ c \in Seq(S) /\ Len(c) = Len(a) + Len(b)
        /\ \A x \in 1..(Len(a) + Len(b)) : c[x] = IF x <= Len(a) THEN a[x] ELSE b[x - Len(a)]
    BY <1>1, ConcatProperties
  <1>4. Len(a) \in Nat /\ Len(b) \in Nat
    BY <1>1
  <1>5. a # <<>> => c # <<>> /\ c[1] = a[1]
    BY <1>2, <1>3, <1>4
  <1>6. a = <<>> => c = b
    BY <1>1, ConcatEmptySeq
  <1> HIDE DEF c
  <1>7. IsSeq(c)
    <2>1. Len(c) \in Nat /\ DOMAIN c = 1..Len(c) /\ c \in [1..Len(c) -> ToSet(c)]
      BY <1>3 DEF ToSet
    <2> QED BY <2>1 DEF IsSeq
  <1>8. \A x \in DOMAIN c : c[x] \in S
    BY <1>3
  <1> QED BY <1>5, <1>6, <1>7, <1>8 DEF Joined, S, c

\* Resources that are all needed at one distance, by one of some tools.
Offers(res, o, tools) ==
    IsSeq(res) /\ \A x \in DOMAIN res : res[x].offset = o /\ res[x].tool \in tools

LEMMA OffersJoined ==
  ASSUME NEW o, NEW tools, NEW a, NEW b, Offers(a, o, tools), Offers(b, o, tools)
  PROVE  Offers(a \o b, o, tools)
  <1>1. IsSeq(a) /\ IsSeq(b)
    BY DEF Offers
  <1>2. Joined(a \o b, a, b)
    BY <1>1, JoinedIs
  <1>3. \A y \in ToSet(a) \cup ToSet(b) : y.offset = o /\ y.tool \in tools
    BY DEF Offers, ToSet
  <1> QED BY <1>2, <1>3 DEF Joined, Offers

LEMMA OffersNone ==
  ASSUME NEW o, NEW tools
  PROVE  Offers(<<>>, o, tools)
  BY DEF Offers, IsSeq

LEMMA RegisteredIs ==
  ASSUME NEW specs, IsSeq(specs), NEW tools
  PROVE  /\ IsSeq(Registered(specs, tools))
         /\ \A x \in DOMAIN Registered(specs, tools) : Registered(specs, tools)[x].tool \in tools
  <1> DEFINE places == {x \in DOMAIN specs :
                          /\ specs[x].tool \in tools
                          /\ \A y \in 1..(x - 1) : specs[y].tool \in tools => specs[y].id # specs[x].id}
             c == Picked(specs, places)
  <1>1. Registered(specs, tools) = c
    BY DEF Registered
  <1>2. \A x \in places : specs[x].tool \in tools
    OBVIOUS
  <1>3. places \in SUBSET DOMAIN specs
    OBVIOUS
  <1>4. Len(specs) \in Nat /\ DOMAIN specs = 1..Len(specs)
    BY SeqIs
  <1> HIDE DEF places
  <1>5. places \in SUBSET Nat /\ IsFiniteSet(places)
    <2>1. IsFiniteSet(1..Len(specs))
      BY <1>4, FS_Interval
    <2>2. places \in SUBSET (1..Len(specs))
      BY <1>3, <1>4
    <2>3. IsFiniteSet(places)
      BY <2>1, <2>2, FS_Subset
    <2> QED BY <1>4, <2>2, <2>3
  <1>6. Picks(c, specs, places)
    BY <1>5, PickedFrom
  <1> HIDE DEF c
  <1>7. /\ Cardinality(places) \in Nat /\ DOMAIN c = 1..Cardinality(places)
        /\ c = [x \in 1..Cardinality(places) |-> c[x]]
        /\ \A x \in DOMAIN c : c[x].tool \in tools
    BY <1>2, <1>6 DEF Picks
  <1>8. IsSeq(c)
    BY <1>7, SeqMade
  <1> QED BY <1>1, <1>7, <1>8

LEMMA CopiesOffered ==
  ASSUME NEW specs, IsSeq(specs), NEW tools, \A x \in DOMAIN specs : specs[x].tool \in tools,
         NEW percent, NEW o
  PROVE  Offers(CopyResources(specs, percent, o), o, tools)
  <1> DEFINE c == CopyResources(specs, percent, o)
  <1>1. Len(specs) \in Nat /\ DOMAIN specs = 1..Len(specs)
    BY SeqIs
  <1>2. c = [x \in DOMAIN specs |-> [id |-> specs[x].id, tool |-> specs[x].tool,
                                     offset |-> o, percent |-> percent]]
    BY DEF CopyResources
  <1> HIDE DEF c
  <1>3. \A x \in DOMAIN c : c[x].offset = o /\ c[x].tool \in tools
    BY <1>2
  <1>4. DOMAIN c = 1..Len(specs) /\ c = [x \in 1..Len(specs) |-> c[x]]
    BY <1>1, <1>2
  <1>5. IsSeq(c)
    BY <1>1, <1>4, SeqMade
  <1> QED BY <1>3, <1>5 DEF Offers, c

LEMMA RegistryIs ==
  ASSUME NEW t
  PROVE  /\ IsSeq(Registry(t)) /\ \A x \in DOMAIN Registry(t) : Registry(t)[x].tool \in {t}
  <1> DEFINE places == {x \in DOMAIN JsonEntries : ~JsonEntries[x].comment}
             kept == Picked(JsonEntries, places)
             tables == ChemTable \o AtomTable
  <1>1. IsSeq(JsonEntries) /\ IsSeq(ChemTable) /\ IsSeq(AtomTable)
    BY ReplayConstants
  <1>2. Len(JsonEntries) \in Nat /\ DOMAIN JsonEntries = 1..Len(JsonEntries)
    BY <1>1, SeqIs
  <1>3. places \in SUBSET (1..Len(JsonEntries)) /\ places \in SUBSET Nat
    BY <1>2
  <1> HIDE DEF places
  <1>4. IsFiniteSet(places)
    <2>1. IsFiniteSet(1..Len(JsonEntries))
      BY <1>2, FS_Interval
    <2> QED BY <1>3, <2>1, FS_Subset
  <1>5. Picks(kept, JsonEntries, places)
    BY <1>3, <1>4, PickedFrom
  <1>6. JsonSpecs = [x \in DOMAIN kept |-> [id |-> kept[x].id, tool |-> kept[x].tool,
                                            offset |-> kept[x].offset, percent |-> 0]]
    BY DEF JsonSpecs, places
  <1> HIDE DEF kept
  <1>7. DOMAIN kept = 1..Cardinality(places) /\ Cardinality(places) \in Nat
    BY <1>5 DEF Picks
  <1>8. DOMAIN JsonSpecs = 1..Cardinality(places)
        /\ JsonSpecs = [x \in 1..Cardinality(places) |-> JsonSpecs[x]]
    BY <1>6, <1>7
  <1>9. IsSeq(JsonSpecs)
    BY <1>7, <1>8, SeqMade
  <1>10. IsSeq(tables)
    BY <1>1, JoinedIs DEF Joined
  <1> HIDE DEF tables
  <1>11. IsSeq(JsonSpecs \o tables)
    BY <1>9, <1>10, JoinedIs DEF Joined
  <1>12. Registry(t) = Registered(JsonSpecs \o tables, {t})
    BY DEF Registry, tables
  <1> QED BY <1>11, <1>12, RegisteredIs

\* The least offset is that of the first resource if none is smaller.
LEMMA Horizon ==
  ASSUME NEW res, IsSeq(res), res # <<>>,
         \A x \in DOMAIN res : res[x].offset \in Nat /\ res[1].offset <= res[x].offset
  PROVE  /\ Prediction(res).resources = res
         /\ Prediction(res).horizon = res[1].offset
  <1> DEFINE S == {res[x].offset : x \in DOMAIN res}
  <1>1. 1 \in DOMAIN res
    BY SeqIs
  <1>2. res[1].offset \in S /\ \A y \in S : y \in Nat /\ res[1].offset <= y
    BY <1>1
  <1>3. Prediction(res) = [resources |-> res, horizon |-> Min(S)]
    BY DEF Prediction
  <1> HIDE DEF S
  <1>4. Min(S) \in S /\ \A y \in S : Min(S) <= y
    BY <1>2 DEF Min
  <1>5. Min(S) = res[1].offset
    BY <1>2, <1>4
  <1> QED BY <1>3, <1>5

\* The horizon of a prediction is the distance of its first resource.
Coming(p) ==
    p.resources # <<>> => p.resources[1].offset \in Nat /\ p.horizon = p.resources[1].offset

\* The first resource is for the tool that the run has at that distance.
Right(p, s) ==
    p.resources # <<>> =>
        /\ p.resources[1].offset \in Nat \ {0}
        /\ s + p.resources[1].offset <= Len(run)
               => p.resources[1].tool = run[s + p.resources[1].offset]

LEMMA NothingComing ==
  Coming(Nothing) /\ \A s : Right(Nothing, s)
  BY DEF Coming, Right, Nothing

LEMMA OfferComing ==
  ASSUME NEW o \in Nat, NEW tools, NEW res, Offers(res, o, tools), res # <<>>
  PROVE  Coming(Prediction(res)) /\ Prediction(res).resources = res
  <1>1. IsSeq(res) /\ \A x \in DOMAIN res : res[x].offset = o
    BY DEF Offers
  <1>2. 1 \in DOMAIN res
    BY <1>1, SeqIs
  <1>3. Prediction(res).resources = res /\ Prediction(res).horizon = res[1].offset
    BY <1>1, <1>2, Horizon
  <1> QED BY <1>1, <1>2, <1>3 DEF Coming

\* The mock's table lists what is needed first before what is needed later.
LEMMA MockComing ==
  ASSUME NEW s, NEW told
  PROVE  Coming(MockPredict(s, told))
  <1> DEFINE table == Table(IF told = "auto" THEN MockFlow(s) ELSE told)
             places == {x \in DOMAIN table : table[x].trigger = run[s]}
             row == Picked(table, places)
  <1>1. table \in {ChemTable, AtomTable}
    BY DEF Table
  <1>2. MockPredict(s, told) = IF row = <<>> THEN Nothing ELSE Prediction(row)
    BY DEF MockPredict
  <1> HIDE DEF table
  <1>3. /\ IsSeq(table)
        /\ \A x, y \in DOMAIN table :
            /\ table[x].offset \in Nat
            /\ table[x].trigger = table[y].trigger /\ x < y => table[x].offset <= table[y].offset
    BY <1>1, ReplayConstants
  <1>4. Len(table) \in Nat /\ DOMAIN table = 1..Len(table)
    BY <1>3, SeqIs
  <1>5. \A x \in places : x \in DOMAIN table /\ table[x].trigger = run[s]
    OBVIOUS
  <1> HIDE DEF places
  <1>6. places \in SUBSET (1..Len(table)) /\ places \in SUBSET Nat
    BY <1>4, <1>5
  <1>7. IsFiniteSet(places)
    <2>1. IsFiniteSet(1..Len(table))
      BY <1>4, FS_Interval
    <2> QED BY <1>6, <2>1, FS_Subset
  <1>8. Picks(row, table, places)
    BY <1>6, <1>7, PickedFrom
  <1> HIDE DEF row
  <1>9. CASE row = <<>>
    BY <1>2, <1>9, NothingComing
  <1>10. CASE row # <<>>
    <2>1. /\ Cardinality(places) \in Nat /\ DOMAIN row = 1..Cardinality(places)
          /\ row = [x \in 1..Cardinality(places) |-> row[x]]
      BY <1>8 DEF Picks
    <2>2. IsSeq(row)
      BY <2>1, SeqMade
    <2>3. 1 \in DOMAIN row
      BY <1>10, <2>2, SeqIs
    <2>4. places # {}
      <3>1. Cardinality({}) = 0
        BY FS_EmptySet
      <3> QED BY <2>1, <2>3, <3>1
    <2>5. PICK least \in places : row[1] = table[least] /\ \A y \in places : least <= y
      BY <1>8, <2>4 DEF Picks
    <2>6. \A x \in DOMAIN row : row[x].offset \in Nat /\ row[1].offset <= row[x].offset
      <3> TAKE x \in DOMAIN row
      <3>1. PICK y \in places : row[x] = table[y]
        BY <1>8, <2>1 DEF Picks
      <3>2. least <= y /\ least \in Nat /\ y \in Nat
        BY <1>6, <2>5
      <3>3. table[y].offset \in Nat /\ table[least].offset \in Nat
        BY <1>3, <1>5
      <3>4. least < y => table[least].offset <= table[y].offset
        BY <1>3, <1>5
      <3> QED BY <2>5, <3>1, <3>2, <3>3, <3>4
    <2>7. Prediction(row).resources = row /\ Prediction(row).horizon = row[1].offset
      BY <1>10, <2>2, <2>6, Horizon
    <2> QED BY <1>2, <1>10, <2>3, <2>6, <2>7 DEF Coming
  <1> QED BY <1>9, <1>10

\* The oracle's resources are for the next tool of the trace.
LEMMA OracleOffers ==
  ASSUME NEW s
  PROVE  \/ OraclePredict(s) = Nothing
         \/ \E res : /\ OraclePredict(s) = [resources |-> res, horizon |-> 1] /\ res # <<>>
                     /\ Offers(res, 1, ToolOfStep(traces[1], s + 1))
  <1> DEFINE table == Table(IF flow = "auto" THEN OracleFlow(s) ELSE flow)
             tools == ToolOfStep(traces[1], s + 1)
             found == ResourcesFor(tools, table)
  <1>1. table \in {ChemTable, AtomTable}
    BY DEF Table
  <1>2. OraclePredict(s) = IF found = <<>> THEN Nothing ELSE [resources |-> found, horizon |-> 1]
    BY DEF OraclePredict
  <1> HIDE DEF table, tools
  <1>3. IsSeq(table)
    BY <1>1, ReplayConstants
  <1>4. /\ IsSeq(Registered(table, tools))
        /\ \A x \in DOMAIN Registered(table, tools) : Registered(table, tools)[x].tool \in tools
    BY <1>3, RegisteredIs
  <1>5. Offers(found, 1, tools)
    BY <1>4, CopiesOffered DEF ResourcesFor, Pinned
  <1> HIDE DEF found
  <1> QED BY <1>2, <1>5 DEF tools

LEMMA OracleComing ==
  ASSUME NEW s
  PROVE  Coming(OraclePredict(s))
  <1>1. CASE OraclePredict(s) = Nothing
    BY <1>1, NothingComing
  <1>2. CASE OraclePredict(s) # Nothing
    <2>1. PICK res : /\ OraclePredict(s) = [resources |-> res, horizon |-> 1] /\ res # <<>>
                     /\ Offers(res, 1, ToolOfStep(traces[1], s + 1))
      BY <1>2, OracleOffers
    <2>2. 1 \in DOMAIN res /\ res[1].offset = 1
      BY <2>1, SeqIs DEF Offers
    <2> QED BY <2>1, <2>2 DEF Coming
  <1> QED BY <1>1, <1>2

LEMMA GreatestIndex ==
  ASSUME NEW m \in Nat, NEW S \in SUBSET (1 .. m), S # {}
  PROVE  \E x \in S : \A y \in S : x >= y
  <1> DEFINE R == {m - y : y \in S}
  <1>1. R \in SUBSET Nat /\ R # {}
    <2>1. \A y \in S : m - y \in Nat /\ m - y \in R
      OBVIOUS
    <2> QED BY <2>1
  <1> HIDE DEF R
  <1>2. PICK r \in R : \A q \in R : r <= q
    BY <1>1, LeastIndex
  <1>3. PICK x \in S : r = m - x
    BY DEF R
  <1>4. \A y \in S : m - y \in R
    BY DEF R
  <1>5. \A y \in S : m - x <= m - y
    BY <1>2, <1>3, <1>4
  <1> QED BY <1>5

\* What the oracle reads for a step of a run that its trace records.
LEMMA StepsRecorded ==
  ASSUME NEW trace, IsSeq(trace), Records(trace), NEW s \in DOMAIN run, NEW u \in ToolOfStep(trace, s)
  PROVE  u = run[s]
  <1> DEFINE tools == {x \in DOMAIN trace : trace[x].kind = "tool"}
             count(x) == Cardinality({y \in tools : y <= x})
             at == {x \in tools : (IF trace[x].step # 0 THEN trace[x].step ELSE count(x)) = s}
  <1>1. at # {} /\ u = trace[Max(at)].name
    BY DEF ToolOfStep
  <1>2. Len(trace) \in Nat /\ at \in SUBSET (1..Len(trace))
    BY SeqIs
  <1>3. \A x \in at : x \in tools /\ (IF trace[x].step # 0 THEN trace[x].step ELSE count(x)) = s
    OBVIOUS
  <1>4. \A x \in tools : /\ trace[x].step \in {0, count(x)}
                         /\ count(x) \in DOMAIN run => trace[x].name = run[count(x)]
    BY DEF Records
  <1> HIDE DEF at, tools, count
  <1>5. Max(at) \in at
    <2>1. \E x \in at : \A y \in at : x >= y
      BY <1>1, <1>2, GreatestIndex
    <2> QED BY <2>1 DEF Max
  <1>6. count(Max(at)) = s
    BY <1>3, <1>4, <1>5
  <1> QED BY <1>1, <1>3, <1>4, <1>5, <1>6

LEMMA OracleRightly ==
  ASSUME LearnInv, traces # <<>>, Records(traces[1]), IsSeq(run), NEW s \in DOMAIN run
  PROVE  Right(OraclePredict(s), s)
  <1>1. CASE OraclePredict(s) = Nothing
    BY <1>1, NothingComing
  <1>2. CASE OraclePredict(s) # Nothing
    <2>1. PICK res : /\ OraclePredict(s) = [resources |-> res, horizon |-> 1] /\ res # <<>>
                     /\ Offers(res, 1, ToolOfStep(traces[1], s + 1))
      BY <1>2, OracleOffers
    <2>2. 1 \in DOMAIN res /\ res[1].offset = 1 /\ res[1].tool \in ToolOfStep(traces[1], s + 1)
      BY <2>1, SeqIs DEF Offers
    <2>3. IsSeq(traces[1])
      BY SeqIs DEF LearnInv, LoopType
    <2>4. s + 1 <= Len(run) => s + 1 \in DOMAIN run
      BY SeqIs
    <2>5. s + 1 <= Len(run) => res[1].tool = run[s + 1]
      BY <2>2, <2>3, <2>4, StepsRecorded
    <2> QED BY <2>1, <2>2, <2>5 DEF Right
  <1> QED BY <1>1, <1>2

\* What the plan offers a distance ahead.
Ahead(t, o) ==
    LET at == ToolAtOffset(Place(t), o)
    IN  IF at = {} THEN <<>>
        ELSE LET u == CHOOSE v \in at : TRUE
             IN  CopyResources(Registry(u), PlanConfidence(t, u, o), o)

LEMMA AheadOffers ==
  ASSUME NEW t, NEW o
  PROVE  Offers(Ahead(t, o), o, ToolAtOffset(Place(t), o))
  <1> DEFINE at == ToolAtOffset(Place(t), o)
             u == CHOOSE v \in at : TRUE
  <1>1. Ahead(t, o) = IF at = {} THEN <<>> ELSE CopyResources(Registry(u), PlanConfidence(t, u, o), o)
    BY DEF Ahead
  <1>2. at # {} => u \in at
    OBVIOUS
  <1> HIDE DEF at, u
  <1>3. CASE at = {}
    BY <1>1, <1>3, OffersNone DEF at
  <1>4. CASE at # {}
    <2>1. IsSeq(Registry(u)) /\ \A x \in DOMAIN Registry(u) : Registry(u)[x].tool \in {u}
      BY RegistryIs
    <2>2. \A x \in DOMAIN Registry(u) : Registry(u)[x].tool \in at
      BY <1>2, <1>4, <2>1
    <2>3. Offers(CopyResources(Registry(u), PlanConfidence(t, u, o), o), o, at)
      BY <2>1, <2>2, CopiesOffered
    <2> QED BY <1>1, <1>4, <2>3 DEF at
  <1> QED BY <1>3, <1>4

LEMMA PlanIs ==
  ASSUME NEW t
  PROVE  FromPlan(t) = Ahead(t, 1) \o Ahead(t, 2)
  BY DEF FromPlan, Ahead

\* The first of what the plan offers is for the nearest step that needs any.
LEMMA PlanFirst ==
  ASSUME NEW t, FromPlan(t) # <<>>
  PROVE  LET res == FromPlan(t)
         IN  /\ Coming(Prediction(res)) /\ Prediction(res).resources = res
             /\ \E o \in {1, 2} : res[1].offset = o /\ res[1].tool \in ToolAtOffset(Place(t), o)
  <1> DEFINE a == Ahead(t, 1)
             b == Ahead(t, 2)
             res == FromPlan(t)
             A == ToolAtOffset(Place(t), 1)
             B == ToolAtOffset(Place(t), 2)
  <1>1. Offers(a, 1, A) /\ Offers(b, 2, B) /\ res = a \o b
    BY AheadOffers, PlanIs
  <1> HIDE DEF a, b, res, A, B
  <1>2. Joined(res, a, b)
    BY <1>1, JoinedIs DEF Offers
  <1>3. CASE a # <<>>
    <2>1. res[1] = a[1] /\ res # <<>> /\ IsSeq(res)
      BY <1>2, <1>3 DEF Joined
    <2>2. 1 \in DOMAIN a /\ a[1].offset = 1 /\ a[1].tool \in A
      BY <1>1, <1>3, SeqIs DEF Offers
    <2>3. \A y \in ToSet(a) \cup ToSet(b) : y.offset \in {1, 2}
      BY <1>1 DEF Offers, ToSet
    <2>4. \A x \in DOMAIN res : res[x].offset \in {1, 2}
      BY <1>2, <2>3 DEF Joined
    <2>5. \A x \in DOMAIN res : res[x].offset \in Nat /\ res[1].offset <= res[x].offset
      BY <2>1, <2>2, <2>4
    <2>6. Prediction(res).resources = res /\ Prediction(res).horizon = res[1].offset
      BY <2>1, <2>5, Horizon
    <2>7. Coming(Prediction(res))
      BY <2>1, <2>2, <2>6 DEF Coming
    <2> QED BY <2>1, <2>2, <2>6, <2>7 DEF res, A
  <1>4. CASE a = <<>>
    <2>1. res = b
      BY <1>2, <1>4 DEF Joined
    <2>2. res # <<>>
      BY DEF res
    <2>3. 1 \in DOMAIN b /\ b[1].offset = 2 /\ b[1].tool \in B
      BY <1>1, <2>1, <2>2, SeqIs DEF Offers
    <2>4. Coming(Prediction(res)) /\ Prediction(res).resources = res
      BY <1>1, <2>1, <2>2, OfferComing
    <2> QED BY <2>1, <2>3, <2>4 DEF res, B
  <1> QED BY <1>3, <1>4

\* A tool that comes once in a run has one place in a plan that the run follows.
LEMMA PlanPlaces ==
  ASSUME IsSeq(run), Distinct(run), plan = run \/ plan = Tail(run), NEW s \in DOMAIN run,
         NEW o \in Nat, s + o <= Len(run), NEW u \in ToolAtOffset(Place(run[s]), o), o > 0
  PROVE  u = run[s + o]
  <1> DEFINE t == run[s]
             I == {x \in 1..Len(plan) : plan[x] = t}
  <1>0. /\ Len(run) \in Nat /\ DOMAIN run = 1..Len(run) /\ run \in Seq(ToSet(run)) /\ run # <<>>
        /\ s \in 1..Len(run)
    BY SeqIs DEF IsSeq
  <1>1. Place(t) = IF I # {} THEN Min(I) ELSE 0
    BY DEF Place, FindTool, SelectInSeq
  <1>2. Place(t) + o \in DOMAIN plan /\ u = plan[Place(t) + o]
    BY DEF ToolAtOffset
  <1>3. \A x \in 1..Len(run) : run[x] = t => x = s
    BY <1>0 DEF Distinct
  <1>4. CASE plan = run
    <2>1. I = {s}
      BY <1>0, <1>3, <1>4
    <2>2. Min(I) = s
      BY <1>0, <2>1 DEF Min
    <2>3. Place(t) = s
      BY <1>1, <2>1, <2>2
    <2> QED BY <1>2, <1>4, <2>3
  <1>5. CASE plan = Tail(run)
    <2>1. /\ plan \in Seq(ToSet(run)) /\ Len(plan) = Len(run) - 1
          /\ \A x \in 1..Len(plan) : plan[x] = run[x + 1]
      BY <1>0, <1>5, HeadTailProperties
    <2>2. DOMAIN plan = 1..Len(plan)
      BY <2>1
    <2>3. \A x \in 1..Len(plan) : plan[x] = t <=> x = s - 1
      <3> TAKE x \in 1..Len(plan)
      <3>1. x + 1 \in 1..Len(run) /\ x \in Nat
        BY <1>0, <2>1
      <3>2. plan[x] = t <=> x + 1 = s
        BY <1>3, <2>1, <3>1
      <3> QED BY <1>0, <3>1, <3>2
    <2>4. Place(t) = s - 1
      <3>1. CASE s = 1
        <4>1. I = {}
          BY <2>1, <2>3, <3>1
        <4> QED BY <1>1, <3>1, <4>1
      <3>2. CASE s # 1
        <4>1. s - 1 \in 1..Len(plan)
          BY <1>0, <2>1, <3>2
        <4>2. I = {s - 1}
          BY <2>3, <4>1
        <4>3. Min(I) = s - 1
          BY <4>1, <4>2 DEF Min
        <4> QED BY <1>1, <4>2, <4>3
      <3> QED BY <3>1, <3>2
    <2>5. u = plan[(s - 1) + o] /\ (s - 1) + o \in 1..Len(plan)
      BY <1>2, <2>2, <2>4
    <2>6. ((s - 1) + o) + 1 = s + o
      BY <1>0
    <2> QED BY <2>1, <2>5, <2>6
  <1> QED BY <1>4, <1>5

LEMMA PlanRightly ==
  ASSUME IsSeq(run), Distinct(run), plan = run \/ plan = Tail(run), NEW s \in DOMAIN run,
         FromPlan(run[s]) # <<>>
  PROVE  Right(Prediction(FromPlan(run[s])), s)
  <1> DEFINE res == FromPlan(run[s])
  <1>1. Prediction(res).resources = res
    BY PlanFirst
  <1>2. PICK o \in {1, 2} : res[1].offset = o /\ res[1].tool \in ToolAtOffset(Place(run[s]), o)
    BY PlanFirst
  <1>3. s + o <= Len(run) => res[1].tool = run[s + o]
    <2>1. o \in Nat /\ o > 0
      OBVIOUS
    <2> HIDE DEF res
    <2> QED BY <1>2, <2>1, PlanPlaces
  <1> HIDE DEF res
  <1> QED BY <1>1, <1>2, <1>3 DEF Right, res

\* What the table offers a distance ahead.
Entries(t, o) == Top("tool", t, o, 3)
Targets(t, o) == {Entries(t, o)[x].target : x \in DOMAIN Entries(t, o)}
OfEntry(t, o, x) ==
    IF x \in DOMAIN Entries(t, o) /\ Entries(t, o)[x].percent >= MinPercent
    THEN CopyResources(Registry(Entries(t, o)[x].target), Entries(t, o)[x].percent, o)
    ELSE <<>>

LEMMA FollowersOffer ==
  ASSUME NEW t, NEW o
  PROVE  Offers(Followers(t, o), o, Targets(t, o))
  <1> DEFINE T == Targets(t, o)
  <1>1. ASSUME NEW x
        PROVE  Offers(OfEntry(t, o, x), o, T)
    <2> DEFINE e == Entries(t, o)[x]
    <2>1. CASE x \in DOMAIN Entries(t, o) /\ e.percent >= MinPercent
      <3>1. e.target \in T
        BY <2>1 DEF Targets
      <3>2. OfEntry(t, o, x) = CopyResources(Registry(e.target), e.percent, o)
        BY <2>1 DEF OfEntry
      <3> HIDE DEF e, T
      <3>3. IsSeq(Registry(e.target)) /\ \A y \in DOMAIN Registry(e.target) : Registry(e.target)[y].tool \in T
        BY <3>1, RegistryIs
      <3>4. Offers(CopyResources(Registry(e.target), e.percent, o), o, T)
        BY <3>3, CopiesOffered
      <3> QED BY <3>2, <3>4
    <2>2. CASE ~(x \in DOMAIN Entries(t, o) /\ e.percent >= MinPercent)
      <3>1. OfEntry(t, o, x) = <<>>
        BY <2>2 DEF OfEntry
      <3> HIDE DEF T
      <3> QED BY <3>1, OffersNone
    <2> QED BY <2>1, <2>2
  <1>2. Followers(t, o) = OfEntry(t, o, 1) \o OfEntry(t, o, 2) \o OfEntry(t, o, 3)
    BY DEF Followers, OfEntry, Entries
  <1> HIDE DEF T
  <1>3. Offers(OfEntry(t, o, 1) \o OfEntry(t, o, 2), o, T)
    BY <1>1, OffersJoined
  <1>4. Offers((OfEntry(t, o, 1) \o OfEntry(t, o, 2)) \o OfEntry(t, o, 3), o, T)
    BY <1>1, <1>3, OffersJoined
  <1> QED BY <1>2, <1>4 DEF T

LEMMA TableOffers ==
  ASSUME NEW t
  PROVE  \E o \in {1, 2} : Offers(FromTable(t), o, Targets(t, o))
  <1>1. Offers(Followers(t, 1), 1, Targets(t, 1)) /\ Offers(Followers(t, 2), 2, Targets(t, 2))
    BY FollowersOffer
  <1>2. FromTable(t) = Followers(t, 1) \/ FromTable(t) = Followers(t, 2)
    BY DEF FromTable, FirstNonEmpty
  <1> QED BY <1>1, <1>2

\* In a run that begins as the traces go, what follows is what has followed.
LEMMA TargetsFollow ==
  ASSUME LearnInv, ~learning, IsSeq(run), Distinct(run),
         \A x \in DOMAIN traces : Repeats(traces[x]),
         NEW s \in DOMAIN run, NEW o \in Nat, NEW u \in Targets(run[s], o), s + o <= Len(run)
  PROVE  u = run[s + o]
  <1> DEFINE t == run[s]
             top == Top("tool", t, o, 3)
  <1>1. PICK r \in DOMAIN top : u = top[r].target
    BY DEF Targets, Entries
  <1> DEFINE x == Ranked(Kept(Bucket("tool", t, o)), r)
  <1>2. /\ top[r] = [target |-> counts[x].tgt, percent |-> Percent(x, Bucket("tool", t, o))]
        /\ FollowedBy("tool", t, o, counts[x].tgt) # {}
    BY TopIs
  <1> HIDE DEF top, x
  <1>3. u = counts[x].tgt
    BY <1>1, <1>2
  <1>4. PICK f \in FollowedBy("tool", t, o, u) : TRUE
    BY <1>2, <1>3
  <1>5. IsFollowed(f, "tool", t, o, u)
    BY FollowedByIs DEF LearnInv
  <1> DEFINE seq == Calls(traces[f[1]])
             p == f[2]
  <1>6. /\ p \in DOMAIN seq /\ p + o <= Len(seq) /\ seq[p].name = t /\ seq[p + o].name = u
        /\ p \in Nat \ {0} /\ f[1] \in DOMAIN traces
    BY <1>5 DEF IsFollowed
  <1>7. DOMAIN seq = 1..Len(seq) /\ Len(seq) \in Nat
    BY <1>6, CallsOf DEF LearnInv
  <1>8. \A y \in DOMAIN seq : y \in DOMAIN run /\ seq[y].name = run[y]
    BY <1>6 DEF Repeats
  <1> HIDE DEF seq, p
  <1>9. p + o \in DOMAIN seq
    BY <1>6, <1>7
  <1>10. run[p] = t /\ run[p + o] = u /\ p \in DOMAIN run
    BY <1>6, <1>8, <1>9
  <1>11. p = s
    BY <1>10 DEF Distinct
  <1> QED BY <1>10, <1>11

LEMMA TableRightly ==
  ASSUME LearnInv, ~learning, IsSeq(run), Distinct(run),
         \A x \in DOMAIN traces : Repeats(traces[x]),
         NEW s \in DOMAIN run, FromTable(run[s]) # <<>>
  PROVE  Right(Prediction(FromTable(run[s])), s)
  <1> DEFINE res == FromTable(run[s])
  <1>1. PICK o \in {1, 2} : Offers(res, o, Targets(run[s], o))
    BY TableOffers
  <1>2. Prediction(res).resources = res
    BY <1>1, OfferComing
  <1>3. 1 \in DOMAIN res /\ res[1].offset = o /\ res[1].tool \in Targets(run[s], o)
    BY <1>1, SeqIs DEF Offers
  <1>4. s + o <= Len(run) => res[1].tool = run[s + o]
    <2> HIDE DEF res
    <2> QED BY <1>3, TargetsFollow
  <1> HIDE DEF res
  <1> QED BY <1>2, <1>3, <1>4 DEF Right, res

\* The horizon is the first resource's whichever predictor it is.
LEMMA PredictComing ==
  ASSUME NEW s
  PROVE  Coming(Predict(s))
  <1> DEFINE planned == IF by \in {"full", "plan_only"} /\ plan # <<>> THEN FromPlan(run[s]) ELSE <<>>
             tabled == IF by \in {"full", "transition_only"} /\ counts # <<>>
                       THEN FromTable(run[s]) ELSE <<>>
             found == FirstNonEmpty(planned, tabled)
  <1>1. LearnedPredict(s) = IF found # <<>> THEN Prediction(found)
                            ELSE IF by = "full" THEN MockPredict(s, "auto") ELSE Nothing
    BY DEF LearnedPredict
  <1>2. found \in {<<>>, FromPlan(run[s]), FromTable(run[s])}
    BY DEF FirstNonEmpty
  <1> HIDE DEF found
  <1>3. ASSUME found # <<>>
        PROVE  Coming(Prediction(found))
    <2>1. CASE found = FromPlan(run[s])
      BY <1>3, <2>1, PlanFirst
    <2>2. CASE found = FromTable(run[s])
      <3>1. PICK o \in {1, 2} : Offers(found, o, Targets(run[s], o))
        BY <2>2, TableOffers
      <3> QED BY <1>3, <3>1, OfferComing
    <2> QED BY <1>2, <1>3, <2>1, <2>2
  <1>4. Coming(LearnedPredict(s))
    BY <1>1, <1>3, MockComing, NothingComing
  <1> QED BY <1>4, OracleComing, MockComing DEF Predict

LEMMA PredictRight ==
  ASSUME LearnInv, ~learning, IsSeq(run), Known, NEW s \in DOMAIN run
  PROVE  Right(Predict(s), s)
  <1> DEFINE planned == IF by \in {"full", "plan_only"} /\ plan # <<>> THEN FromPlan(run[s]) ELSE <<>>
             tabled == IF by \in {"full", "transition_only"} /\ counts # <<>>
                       THEN FromTable(run[s]) ELSE <<>>
             found == FirstNonEmpty(planned, tabled)
  <1>1. by # "full" => LearnedPredict(s) = IF found # <<>> THEN Prediction(found) ELSE Nothing
    BY DEF LearnedPredict
  <1>2. CASE by = "oracle" /\ traces # <<>> /\ Records(traces[1])
    BY <1>2, OracleRightly DEF Predict
  <1>3. CASE by = "plan_only" /\ Distinct(run) /\ (plan = run \/ plan = Tail(run))
    <2>1. found \in {<<>>, FromPlan(run[s])} /\ Predict(s) = LearnedPredict(s)
      BY <1>3 DEF FirstNonEmpty, Predict
    <2> HIDE DEF found
    <2> QED BY <1>1, <1>3, <2>1, PlanRightly, NothingComing
  <1>4. CASE by = "transition_only" /\ Distinct(run) /\ \A x \in DOMAIN traces : Repeats(traces[x])
    <2>1. found \in {<<>>, FromTable(run[s])} /\ Predict(s) = LearnedPredict(s)
      BY <1>4 DEF FirstNonEmpty, Predict
    <2> HIDE DEF found
    <2> QED BY <1>1, <1>4, <2>1, TableRightly, NothingComing
  <1> QED BY <1>2, <1>3, <1>4 DEF Known

LEMMA ReplayInvInit ==
  Init => ReplayInv
  <1> SUFFICES ASSUME Init PROVE ReplayInv
    OBVIOUS
  <1>1. step = 0 /\ pending = <<>> /\ verdicts = <<>> /\ IsSeq(run)
    BY ReplayConstants DEF Init
  <1>2. IsSeq(verdicts) /\ Wrong = {}
    BY <1>1 DEF IsSeq, Wrong, ToSet
  <1>3. ReplayType
    BY <1>1, <1>2, SeqIs DEF ReplayType
  <1> QED BY <1>1, <1>2, <1>3 DEF ReplayInv, PendingDue, KnownDue, KnownHits

LEMMA ReplayInvSame ==
  ASSUME ReplayInv, UNCHANGED <<traces, run, plan, by, step, pending, verdicts>>
  PROVE  ReplayInv'
  <1>1. Known' <=> Known
    BY DEF Known, Records, Repeats, Calls, Picked, Distinct
  <1>2. Wrong' = Wrong
    BY DEF Wrong
  <1> QED BY <1>1, <1>2 DEF ReplayInv, ReplayType, PendingDue, KnownDue, KnownHits

LEMMA ToolJudged ==
  ASSUME LearnInv, ReplayInv, ToolStarts
  PROVE  ReplayInv'
  <1> DEFINE s == step + 1
             p == Predict(s)
             first == p.resources[1]
             old == pending[1]
             e == [made |-> s, expected |-> s + first.offset, horizon |-> p.horizon,
                   consumer |-> first.tool]
             v == [made |-> old.made, at |-> s, hit |-> old.consumer = run[s]]
  <1>0. /\ ReplayType /\ PendingDue /\ KnownDue /\ KnownHits
        /\ ~learning /\ IsSeq(run) /\ IsSeq(verdicts) /\ step \in 0..Len(run)
    BY DEF ReplayInv, ReplayType, ToolStarts
  <1>1. Len(run) \in Nat /\ DOMAIN run = 1..Len(run)
    BY <1>0, SeqIs
  <1>2. /\ step < Len(run) /\ step' = s
        /\ verdicts' = IF Due(s) THEN Append(verdicts, v) ELSE verdicts
        /\ pending' = IF p.resources # <<>> THEN <<e>> ELSE IF Due(s) THEN <<>> ELSE pending
        /\ traces' = traces /\ run' = run /\ plan' = plan /\ by' = by
    BY DEF ToolStarts, learner
  <1>3. s \in DOMAIN run /\ s \in Nat /\ s \in 0..Len(run) /\ s >= 1 /\ s = step + 1 /\ step \in Nat
    BY <1>0, <1>1, <1>2
  <1>4. Coming(p)
    BY PredictComing
  <1>5. Known => Right(p, s)
    BY <1>0, <1>3, PredictRight
  <1>6. Known' <=> Known
    BY <1>2 DEF Known, Records, Repeats, Calls, Picked, Distinct
  <1>7. Due(s) <=> pending # <<>> /\ s >= old.expected
    BY DEF Due
  <1> HIDE DEF s, p
  <1>8. IsSeq(verdicts') /\ (Due(s) => ToSet(verdicts') = ToSet(verdicts) \cup {v})
    <2>1. CASE Due(s)
      <3> DEFINE S == ToSet(verdicts) \cup {v}
                 w == Append(verdicts, v)
      <3> HIDE DEF v
      <3>1. verdicts \in Seq(S) /\ v \in S /\ Len(verdicts) \in Nat /\ DOMAIN verdicts = 1..Len(verdicts)
        BY <1>0 DEF IsSeq
      <3>2. ToSet(verdicts) = {verdicts[x] : x \in 1..Len(verdicts)}
        BY <3>1 DEF ToSet
      <3> HIDE DEF S
      <3>3. /\ w \in Seq(S) /\ Len(w) = Len(verdicts) + 1 /\ w[Len(verdicts) + 1] = v
            /\ \A x \in 1..Len(verdicts) : w[x] = verdicts[x]
        BY <3>1, AppendProperties
      <3> HIDE DEF w
      <3>4. DOMAIN w = 1..(Len(verdicts) + 1) /\ w = [x \in 1..(Len(verdicts) + 1) |-> w[x]]
        BY <3>1, <3>3
      <3>5. IsSeq(w)
        BY <3>1, <3>4, SeqMade
      <3>6. ToSet(w) = {w[x] : x \in 1..(Len(verdicts) + 1)}
        BY <3>4 DEF ToSet
      <3>7. 1..(Len(verdicts) + 1) = 1..Len(verdicts) \cup {Len(verdicts) + 1}
        BY <3>1
      <3>8. ToSet(w) = ToSet(verdicts) \cup {v}
        BY <3>2, <3>3, <3>6, <3>7
      <3> QED BY <1>2, <2>1, <3>5, <3>8 DEF w
    <2>2. CASE ~Due(s)
      BY <1>0, <1>2, <2>2
    <2> QED BY <2>1, <2>2
  <1>9. ReplayType'
    <2>1. pending' = <<>> \/ \E x : pending' = <<x>>
      BY <1>0, <1>2 DEF ReplayType
    <2> QED BY <1>0, <1>2, <1>3, <1>8, <2>1 DEF ReplayType
  <1>10. PendingDue'
    <2>1. CASE p.resources # <<>>
      <3>1. first.offset \in Nat /\ p.horizon = first.offset
        BY <1>4, <2>1 DEF Coming
      <3>2. pending' = <<e>> /\ pending'[1] = e
        BY <1>2, <2>1
      <3>3. e.made = s /\ e.expected = s + first.offset /\ e.horizon = first.offset
        BY <3>1
      <3>4. /\ pending'[1].made = s /\ pending'[1].expected = s + first.offset
            /\ pending'[1].horizon = first.offset
        BY <3>2, <3>3
      <3> HIDE DEF first, e
      <3> QED BY <1>2, <1>3, <3>1, <3>4 DEF PendingDue
    <2>2. CASE p.resources = <<>>
      <3>1. pending' = <<>> \/ pending' = pending
        BY <1>2, <2>2
      <3>2. CASE pending' = <<>>
        BY <3>2 DEF PendingDue
      <3>3. CASE pending' = pending
        BY <1>0, <1>2, <1>3, <3>3 DEF PendingDue
      <3> QED BY <3>1, <3>2, <3>3
    <2> QED BY <2>1, <2>2
  <1>11. KnownDue'
    <2> SUFFICES ASSUME Known, pending' # <<>>
                 PROVE  /\ pending'[1].expected > s
                        /\ pending'[1].expected <= Len(run) =>
                              pending'[1].consumer = run[pending'[1].expected]
      BY <1>2, <1>6 DEF KnownDue
    <2>1. CASE p.resources # <<>>
      <3>1. /\ first.offset \in Nat \ {0}
            /\ s + first.offset <= Len(run) => first.tool = run[s + first.offset]
        BY <1>5, <2>1 DEF Right
      <3>2. pending' = <<e>> /\ pending'[1] = e
        BY <1>2, <2>1
      <3>3. e.expected = s + first.offset /\ e.consumer = first.tool
        OBVIOUS
      <3>4. pending'[1].expected = s + first.offset /\ pending'[1].consumer = first.tool
        BY <3>2, <3>3
      <3> HIDE DEF first, e
      <3> QED BY <1>3, <3>1, <3>4
    <2>2. CASE p.resources = <<>>
      <3>1. ~Due(s) /\ pending' = pending
        BY <1>2, <2>2
      <3>2. ~(s >= old.expected) /\ old.expected \in Nat
        BY <1>0, <1>7, <3>1 DEF PendingDue
      <3>3. old.expected > s
        BY <1>3, <3>2
      <3> QED BY <1>0, <3>1, <3>3 DEF KnownDue
    <2> QED BY <2>1, <2>2
  <1>12. KnownHits'
    <2> SUFFICES ASSUME Known PROVE Wrong' = {}
      BY <1>6 DEF KnownHits
    <2>1. Wrong = {}
      BY <1>0 DEF KnownHits
    <2>2. CASE Due(s)
      <3>1. pending # <<>> /\ s >= old.expected
        BY <1>7, <2>2
      <3>2. old.expected > step /\ old.expected \in Nat
        BY <1>0, <3>1 DEF KnownDue, PendingDue
      <3>3. old.expected = s
        BY <1>3, <3>1, <3>2
      <3>4. old.consumer = run[s]
        BY <1>0, <1>1, <1>3, <3>1, <3>3 DEF KnownDue
      <3>5. v.hit
        BY <3>4
      <3> HIDE DEF v
      <3> QED BY <1>8, <2>1, <2>2, <3>5 DEF Wrong
    <2>3. CASE ~Due(s)
      BY <1>2, <2>1, <2>3 DEF Wrong
    <2> QED BY <2>2, <2>3
  <1> QED BY <1>9, <1>10, <1>11, <1>12 DEF ReplayInv

\* The replay: a prediction that waits names a step to come, and on a run that
\* its predictor knows also the tool of that step.
THEOREM ReplayInvariant == Spec => []ReplayInv
  <1>1. Init => ReplayInv
    BY ReplayInvInit
  <1>2. LearnInv /\ ReplayInv /\ [Next]_vars => ReplayInv'
    <2> SUFFICES ASSUME LearnInv, ReplayInv, [Next]_vars PROVE ReplayInv'
      OBVIOUS
    <2>1. CASE LearnStep /\ UNCHANGED <<run, plan, by, flow, step, pending, verdicts>>
      <3>1. traces' = traces
        BY <2>1 DEF LearnStep, CountPair, NextSource, NextTrace, Learned
      <3> QED BY <2>1, <3>1, ReplayInvSame
    <2>2. CASE ToolStarts
      BY <2>2, ToolJudged
    <2>3. CASE UNCHANGED vars
      BY <2>3, ReplayInvSame DEF vars, learner
    <2> QED BY <2>1, <2>2, <2>3 DEF Next
  <1> QED BY <1>1, <1>2, LearnerInvariant, PTL DEF Spec

LEMMA TypesOfBoth ==
  ASSUME LearnInv, ReplayInv
  PROVE  TypeOK
  <1>1. learning \in BOOLEAN /\ n \in 1..(Len(traces) + 1)
    BY DEF LearnInv, LoopType
  <1>2. \A x \in DOMAIN counts : counts[x].offset \in 1..MaxOffset /\ counts[x].count > 0
    BY DEF LearnInv, CountsType
  <1>3. step \in 0..Len(run)
    BY DEF ReplayInv, ReplayType
  <1>4. Len(pending) <= 1
    <2>1. CASE pending = <<>>
      BY <2>1
    <2>2. CASE \E x : pending = <<x>>
      BY <2>2
    <2> QED BY <2>1, <2>2 DEF ReplayInv, ReplayType
  <1> QED BY <1>1, <1>2, <1>3, <1>4 DEF TypeOK

\* The table is exact: the loops count what the traces show, and the table made
\* from the counts promises no more (learn_from_traces, _build, top_tools).
THEOREM TableAlwaysExact == Spec => []TableExact
  <1>1. LearnInv /\ ReplayInv => TableExact
    BY TypesOfBoth, CountsExactHolds, NoOverconfidenceHolds DEF TableExact
  <1> QED BY <1>1, LearnerInvariant, ReplayInvariant, PTL

\* No predictor is wrong about a run it knows, whatever the tables and bounds,
\* and the resource a prediction is judged by is the first one due.
THEOREM KnownRunsAlwaysHit == Spec => []KnownRunsHit
  <1>1. ReplayInv => KnownRunsHit
    <2> SUFFICES ASSUME ReplayInv PROVE KnownRunsHit
      OBVIOUS
    <2>1. Known => Wrong = {}
      BY DEF ReplayInv, KnownHits
    <2>2. OracleRight /\ PlanRight /\ TableRight
      BY <2>1 DEF OracleRight, PlanRight, TableRight, Known
    <2>3. FirstDueFirst
      BY DEF ReplayInv, PendingDue, FirstDueFirst
    <2> QED BY <2>2, <2>3 DEF KnownRunsHit
  <1> QED BY <1>1, ReplayInvariant, PTL
===============================================================================
