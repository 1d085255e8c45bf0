-------------------------------- MODULE Sums --------------------------------
(***************************************************************************)
(* Facts about the sum of the integers that a function gives for the       *)
(* elements of a finite set, as FiniteSetsExt defines it.                  *)
(***************************************************************************)
EXTENDS Integers, FiniteSetsExt, FiniteSetTheorems, WellFoundedInduction, TLAPS

SumOf(v, S) == MapThenSumSet(LAMBDA x : v[x], S)

(* The element MapThenSumSet takes first out of a set.                      *)
First(s) == CHOOSE x \in s : TRUE

(* The partial sums over the subsets of S, as MapThenSumSet recurses.       *)
Added(v, g, s) == IF s = {} THEN 0 ELSE v[First(s)] + g[s \ {First(s)}]

PartialSums(v, S) == CHOOSE g : g = [s \in SUBSET S |-> Added(v, g, s)]

(* A nonempty set of natural numbers has a least one.                       *)
LEMMA SmallestNumber ==
  ASSUME NEW B, B \subseteq Nat, B # {}
  PROVE  \E n \in B : \A m \in B : n <= m
<1>1. \E n \in B : \A m \in B : ~(<<m, n>> \in OpToRel(<, Nat))
  BY WFMin, NatLessThanWellFounded, Zenon
<1>2. \A m, n \in Nat : m < n => <<m, n>> \in OpToRel(<, Nat)
  BY Zenon DEF OpToRel
<1>3. \A m, n \in Nat : ~(m < n) => n <= m
  OBVIOUS
<1> QED BY <1>1, <1>2, <1>3

(* A family of subsets of a finite set has a member with no smaller one.    *)
LEMMA SmallestSubset ==
  ASSUME NEW S, IsFiniteSet(S), NEW B, B \subseteq SUBSET S, B # {}
  PROVE  \E s \in B : \A t \in B : t \subseteq s => t = s
<1>1. FiniteSubsetsOf(S) = SUBSET S
  BY FS_FiniteSubsetsOfFinite
<1>2. IsWellFoundedOn(StrictSubsetOrdering(S), SUBSET S)
  BY <1>1, FS_StrictSubsetOrderingWellFounded
<1>3. \E s \in B : \A t \in B : ~(<<t, s>> \in StrictSubsetOrdering(S))
  BY <1>2, WFMin, Zenon
<1> QED BY <1>3 DEF StrictSubsetOrdering

(* A finite set of numbers has a greatest one.                             *)
LEMMA Greatest ==
  ASSUME NEW S, IsFiniteSet(S), \A x \in S : x \in Nat, S # {}
  PROVE  \E m \in S : \A x \in S : x <= m
<1> DEFINE Bad == {t \in SUBSET S : t # {} /\ ~\E m \in t : \A x \in t : x <= m}
<1>1. ASSUME Bad # {}
      PROVE  FALSE
  <2>0. Bad \subseteq SUBSET S
    OBVIOUS
  <2>1. PICK t \in Bad : \A u \in Bad : u \subseteq t => u = t
    <3> HIDE DEF Bad
    <3> QED BY <1>1, <2>0, SmallestSubset
  <2>2. t \in SUBSET S /\ t # {} /\ ~\E m \in t : \A x \in t : x <= m
    BY <2>1
  <2>3. PICK f \in t : TRUE
    BY <2>2
  <2> DEFINE u == t \ {f}
  <2>4. CASE u = {}
    BY <2>2, <2>3, <2>4
  <2>5. CASE u # {}
    <3>1. u \in SUBSET S /\ u \subseteq t /\ u # t
      BY <2>2, <2>3
    <3>2. \E m \in u : \A x \in u : x <= m
      BY <2>1, <2>5, <3>1
    <3>3. PICK m \in u : \A x \in u : x <= m
      BY <3>2
    <3>4. f \in Nat /\ m \in Nat /\ t \subseteq Nat
      BY <2>2, <2>3, <3>1, <3>3
    <3>5. CASE f <= m
      BY <2>2, <3>3, <3>4, <3>5
    <3>6. CASE m <= f
      BY <2>2, <2>3, <3>3, <3>4, <3>6
    <3> QED BY <3>4, <3>5, <3>6
  <2> QED BY <2>4, <2>5
<1>2. S \notin Bad
  BY <1>1
<1> QED BY <1>2

LEMMA FirstIn ==
  ASSUME NEW s, s # {}
  PROVE  First(s) \in s
BY DEF First

LEMMA SumIsPartial ==
  ASSUME NEW v, NEW S
  PROVE  SumOf(v, S) = PartialSums(v, S)[S]
BY DEF SumOf, MapThenSumSet, MapThenFoldSet, PartialSums, Added, First

(* The recursion has a solution over every finite set.                      *)
LEMMA PartialSumsExist ==
  ASSUME NEW v, NEW S, IsFiniteSet(S)
  PROVE  PartialSums(v, S) = [s \in SUBSET S |-> Added(v, PartialSums(v, S), s)]
<1> DEFINE Small(n) == {s \in SUBSET S : Cardinality(s) <= n}
           Solves(g, n) == \A s \in Small(n) : g[s] = Added(v, g, s)
           Bad == {n \in Nat : ~\E g : Solves(g, n)}
           Next(g) == [s \in SUBSET S |-> Added(v, g, s)]
<1>1. ASSUME NEW s \in SUBSET S
      PROVE  /\ Cardinality(s) \in Nat /\ (Cardinality(s) = 0 => s = {})
             /\ s # {} => /\ s \ {First(s)} \in SUBSET S
                          /\ Cardinality(s \ {First(s)}) = Cardinality(s) - 1
  <2>1. IsFiniteSet(s)
    BY FS_Subset
  <2> QED BY <2>1, FS_CardinalityType, FS_RemoveElement, FS_EmptySet, FirstIn
<1>2. \E g : Solves(g, 0)
  <2> DEFINE g == [s \in SUBSET S |-> 0]
  <2>1. ASSUME NEW s \in Small(0)
        PROVE  s \in SUBSET S /\ s = {}
    <3>1. s \in SUBSET S /\ Cardinality(s) <= 0
      OBVIOUS
    <3>2. Cardinality(s) \in Nat
      BY <1>1, <3>1
    <3>3. Cardinality(s) = 0
      BY <3>1, <3>2
    <3> QED BY <1>1, <3>1, <3>3
  <2>2. Solves(g, 0)
    BY <2>1 DEF Added
  <2> QED BY <2>2
<1>3. ASSUME NEW n \in Nat, NEW g, Solves(g, n)
      PROVE  Solves(Next(g), n + 1)
  <2> SUFFICES ASSUME NEW s \in Small(n + 1)
               PROVE  Next(g)[s] = Added(v, Next(g), s)
    OBVIOUS
  <2>1. CASE s = {}
    BY <2>1 DEF Added
  <2>2. CASE s # {}
    <3> DEFINE u == s \ {First(s)}
    <3>1. u \in Small(n)
      BY <1>1, <2>2
    <3>2. g[u] = Next(g)[u]
      BY <1>3, <3>1
    <3> QED BY <2>2, <3>2 DEF Added
  <2> QED BY <2>1, <2>2
<1>4. Bad = {}
  <2> SUFFICES ASSUME Bad # {} PROVE FALSE
    OBVIOUS
  <2>1. PICK n \in Bad : \A m \in Bad : n <= m
    BY SmallestNumber
  <2>2. n \in Nat /\ n # 0
    BY <1>2
  <2>3. n - 1 \in Nat /\ n - 1 \notin Bad
    BY <2>1, <2>2
  <2>4. PICK g : Solves(g, n - 1)
    BY <2>3
  <2>5. Solves(Next(g), (n - 1) + 1)
    BY <1>3, <2>3, <2>4
  <2>6. (n - 1) + 1 = n
    BY <2>2
  <2>7. Solves(Next(g), n)
    BY <2>5, <2>6
  <2> QED BY <2>1, <2>7
<1>5. Cardinality(S) \in Nat
  BY FS_CardinalityType
<1>6. PICK g : Solves(g, Cardinality(S))
  BY <1>4, <1>5
<1>7. \A s \in SUBSET S : s \in Small(Cardinality(S))
  BY FS_Subset
<1>8. \A s \in SUBSET S : g[s] = Added(v, g, s)
  BY <1>6, <1>7
<1>9. Next(g) = [s \in SUBSET S |-> Added(v, Next(g), s)]
  <2>1. ASSUME NEW s \in SUBSET S
        PROVE  Added(v, g, s) = Added(v, Next(g), s)
    <3>1. CASE s = {}
      BY <3>1 DEF Added
    <3>2. CASE s # {}
      BY <1>1, <1>8, <3>2 DEF Added
    <3> QED BY <3>1, <3>2
  <2> QED BY <2>1
<1> HIDE DEF Next
<1> QED BY <1>9 DEF PartialSums

LEMMA PartialSumsStep ==
  ASSUME NEW v, NEW S, IsFiniteSet(S), NEW T \in SUBSET S
  PROVE  PartialSums(v, S)[T] = Added(v, PartialSums(v, S), T)
<1> DEFINE g == PartialSums(v, S)
<1>1. g = [s \in SUBSET S |-> Added(v, g, s)]
  BY PartialSumsExist
<1> HIDE DEF g
<1>2. g[T] = Added(v, g, T)
  BY <1>1
<1> QED BY <1>2 DEF g

(* A partial sum is the sum of its subset.                                  *)
LEMMA PartialIsSum ==
  ASSUME NEW v, NEW S, IsFiniteSet(S), NEW T \in SUBSET S
  PROVE  PartialSums(v, S)[T] = SumOf(v, T)
<1> DEFINE Bad == {t \in SUBSET S :
                     \E U \in SUBSET S : t \subseteq U /\ PartialSums(v, U)[t] # SumOf(v, t)}
<1>1. ASSUME Bad # {}
      PROVE  FALSE
  <2>0. Bad \subseteq SUBSET S
    OBVIOUS
  <2>1. PICK t \in Bad : \A u \in Bad : u \subseteq t => u = t
    <3> HIDE DEF Bad
    <3> QED BY <1>1, <2>0, SmallestSubset
  <2>2. PICK U \in SUBSET S : t \subseteq U /\ PartialSums(v, U)[t] # SumOf(v, t)
    BY <2>1
  <2>3. IsFiniteSet(U) /\ IsFiniteSet(t)
    BY <2>1, FS_Subset
  <2>4. /\ PartialSums(v, U)[t] = Added(v, PartialSums(v, U), t)
        /\ PartialSums(v, t)[t] = Added(v, PartialSums(v, t), t)
    <3>1. t \in SUBSET U /\ t \in SUBSET t
      BY <2>2
    <3> QED BY <2>3, <3>1, PartialSumsStep
  <2>5. t # {} => /\ PartialSums(v, U)[t \ {First(t)}] = SumOf(v, t \ {First(t)})
                  /\ PartialSums(v, t)[t \ {First(t)}] = SumOf(v, t \ {First(t)})
    <3> SUFFICES ASSUME t # {}
                 PROVE  t \ {First(t)} \notin Bad
      BY <2>2
    <3> QED BY <2>1, FirstIn
  <2>6. PartialSums(v, U)[t] = PartialSums(v, t)[t]
    BY <2>4, <2>5 DEF Added
  <2> QED BY <2>2, <2>6, SumIsPartial
<1> QED BY <1>1

(* The sum over the empty set, and the recursion of the sum.                *)
LEMMA SumEmpty ==
  ASSUME NEW v
  PROVE  SumOf(v, {}) = 0
<1>1. IsFiniteSet({}) /\ {} \in SUBSET {}
  BY FS_EmptySet
<1>2. PartialSums(v, {})[{}] = Added(v, PartialSums(v, {}), {})
  BY <1>1, PartialSumsStep
<1> QED BY <1>2, SumIsPartial DEF Added

LEMMA SumFirst ==
  ASSUME NEW v, NEW S, IsFiniteSet(S), S # {}
  PROVE  SumOf(v, S) = v[First(S)] + SumOf(v, S \ {First(S)})
<1>1. S \in SUBSET S /\ S \ {First(S)} \in SUBSET S
  OBVIOUS
<1>2. PartialSums(v, S)[S] = Added(v, PartialSums(v, S), S)
  BY <1>1, PartialSumsStep
<1>3. PartialSums(v, S)[S \ {First(S)}] = SumOf(v, S \ {First(S)})
  BY <1>1, PartialIsSum
<1> QED BY <1>2, <1>3, SumIsPartial DEF Added

(* The sum of integers is an integer.                                       *)
LEMMA SumInteger ==
  ASSUME NEW v, NEW S, IsFiniteSet(S), \A x \in S : v[x] \in Int
  PROVE  SumOf(v, S) \in Int
<1> DEFINE Bad == {t \in SUBSET S : SumOf(v, t) \notin Int}
<1>1. ASSUME Bad # {}
      PROVE  FALSE
  <2>0. Bad \subseteq SUBSET S
    OBVIOUS
  <2>1. PICK t \in Bad : \A u \in Bad : u \subseteq t => u = t
    <3> HIDE DEF Bad
    <3> QED BY <1>1, <2>0, SmallestSubset
  <2>2. t # {} /\ IsFiniteSet(t)
    <3>1. t \in SUBSET S
      BY <2>0, <2>1
    <3>2. IsFiniteSet(t)
      BY <3>1, FS_Subset
    <3>3. SumOf(v, {}) = 0
      BY SumEmpty
    <3>4. ASSUME t = {}
          PROVE  SumOf(v, t) = 0
      BY <3>3, <3>4
    <3> QED BY <2>1, <3>2, <3>4
  <2>3. First(t) \in t /\ t \ {First(t)} \notin Bad
    BY <2>1, <2>2, FirstIn
  <2> QED BY <2>1, <2>2, <2>3, SumFirst
<1> QED BY <1>1

(* Any element may be taken out of the sum, not only the first.             *)
LEMMA SumRemove ==
  ASSUME NEW v, NEW S, IsFiniteSet(S), \A x \in S : v[x] \in Int, NEW x \in S
  PROVE  SumOf(v, S) = v[x] + SumOf(v, S \ {x})
<1> DEFINE Bad == {t \in SUBSET S : \E y \in t : SumOf(v, t) # v[y] + SumOf(v, t \ {y})}
<1>1. ASSUME Bad # {}
      PROVE  FALSE
  <2>0. Bad \subseteq SUBSET S
    OBVIOUS
  <2>1. PICK t \in Bad : \A u \in Bad : u \subseteq t => u = t
    <3> HIDE DEF Bad
    <3> QED BY <1>1, <2>0, SmallestSubset
  <2>2. PICK y \in t : SumOf(v, t) # v[y] + SumOf(v, t \ {y})
    BY <2>1
  <2> DEFINE f == First(t)
  <2>3. IsFiniteSet(t) /\ f \in t /\ IsFiniteSet(t \ {f}) /\ IsFiniteSet(t \ {y})
    BY <2>1, <2>2, FS_Subset, FirstIn
  <2>4. SumOf(v, t) = v[f] + SumOf(v, t \ {f})
    BY <2>2, <2>3, SumFirst
  <2>5. y # f
    BY <2>2, <2>4
  <2>6. t \ {f} \notin Bad /\ t \ {y} \notin Bad
    BY <2>1, <2>2, <2>3
  <2>7. SumOf(v, t \ {f}) = v[y] + SumOf(v, (t \ {f}) \ {y})
    BY <2>2, <2>5, <2>6
  <2>8. SumOf(v, t \ {y}) = v[f] + SumOf(v, (t \ {y}) \ {f})
    BY <2>3, <2>5, <2>6
  <2>9. (t \ {f}) \ {y} = (t \ {y}) \ {f} /\ IsFiniteSet((t \ {f}) \ {y})
    BY <2>3, FS_RemoveElement
  <2>10. SumOf(v, (t \ {f}) \ {y}) \in Int /\ v[f] \in Int /\ v[y] \in Int
    BY <2>2, <2>3, <2>9, SumInteger
  <2> QED BY <2>2, <2>4, <2>7, <2>8, <2>9, <2>10
<1> QED BY <1>1

(* Equal terms have equal sums.                                             *)
LEMMA SumSame ==
  ASSUME NEW v, NEW w, NEW S, IsFiniteSet(S), \A x \in S : v[x] = w[x]
  PROVE  SumOf(v, S) = SumOf(w, S)
<1> DEFINE Bad == {t \in SUBSET S : SumOf(v, t) # SumOf(w, t)}
<1>1. ASSUME Bad # {}
      PROVE  FALSE
  <2>0. Bad \subseteq SUBSET S
    OBVIOUS
  <2>1. PICK t \in Bad : \A u \in Bad : u \subseteq t => u = t
    <3> HIDE DEF Bad
    <3> QED BY <1>1, <2>0, SmallestSubset
  <2>2. t # {} /\ IsFiniteSet(t)
    <3>1. t \in SUBSET S
      BY <2>0, <2>1
    <3>2. IsFiniteSet(t)
      BY <3>1, FS_Subset
    <3>3. SumOf(v, {}) = 0 /\ SumOf(w, {}) = 0
      BY SumEmpty
    <3> QED BY <2>1, <3>1, <3>2, <3>3
  <2>3. First(t) \in t /\ t \ {First(t)} \notin Bad
    BY <2>1, <2>2, FirstIn
  <2> QED BY <2>1, <2>2, <2>3, SumFirst
<1> QED BY <1>1

(* A sum of zeros is zero.                                                  *)
LEMMA SumZero ==
  ASSUME NEW v, NEW S, IsFiniteSet(S), \A x \in S : v[x] = 0
  PROVE  SumOf(v, S) = 0
<1> DEFINE Bad == {t \in SUBSET S : SumOf(v, t) # 0}
<1>1. ASSUME Bad # {}
      PROVE  FALSE
  <2>0. Bad \subseteq SUBSET S
    OBVIOUS
  <2>1. PICK t \in Bad : \A u \in Bad : u \subseteq t => u = t
    <3> HIDE DEF Bad
    <3> QED BY <1>1, <2>0, SmallestSubset
  <2>2. t # {} /\ IsFiniteSet(t)
    <3>1. t \in SUBSET S
      BY <2>0, <2>1
    <3>2. IsFiniteSet(t)
      BY <3>1, FS_Subset
    <3> QED BY <2>1, <3>1, <3>2, SumEmpty
  <2>3. First(t) \in t /\ t \ {First(t)} \notin Bad
    BY <2>1, <2>2, FirstIn
  <2> QED BY <2>1, <2>2, <2>3, SumFirst
<1> QED BY <1>1

(* One more of a term is one more of the sum.                               *)
LEMMA SumBump ==
  ASSUME NEW S, IsFiniteSet(S), NEW v \in [S -> Nat], NEW x \in S
  PROVE  SumOf([v EXCEPT ![x] = @ + 1], S) = SumOf(v, S) + 1
<1> DEFINE w == [v EXCEPT ![x] = @ + 1]
           T == S \ {x}
<1>1. \A y \in S : w[y] \in Int /\ v[y] \in Int
  OBVIOUS
<1>2. w[x] = v[x] + 1 /\ \A y \in T : w[y] = v[y]
  OBVIOUS
<1>3. IsFiniteSet(T)
  BY FS_Subset
<1>4. \A y \in T : v[y] \in Int
  OBVIOUS
<1> HIDE DEF w
<1>5. SumOf(w, S) = w[x] + SumOf(w, T)
  BY <1>1, SumRemove
<1>6. SumOf(v, S) = v[x] + SumOf(v, T)
  BY <1>1, SumRemove
<1> HIDE DEF T
<1>7. SumOf(w, T) = SumOf(v, T)
  BY <1>2, <1>3, SumSame
<1>8. SumOf(v, T) \in Int
  BY <1>3, <1>4, SumInteger
<1>9. SumOf(w, S) = SumOf(v, S) + 1
  BY <1>1, <1>2, <1>5, <1>6, <1>7, <1>8
<1> QED BY <1>9 DEF w

(* A nonempty sum of positive terms is positive.                            *)
LEMMA SumPositive ==
  ASSUME NEW v, NEW S, IsFiniteSet(S), \A x \in S : v[x] \in Nat \ {0}
  PROVE  SumOf(v, S) \in Nat /\ (S # {} => SumOf(v, S) # 0)
<1> DEFINE Bad == {t \in SUBSET S : ~(SumOf(v, t) \in Nat /\ (t # {} => SumOf(v, t) # 0))}
<1>1. ASSUME Bad # {}
      PROVE  FALSE
  <2>0. Bad \subseteq SUBSET S
    OBVIOUS
  <2>1. PICK t \in Bad : \A u \in Bad : u \subseteq t => u = t
    <3> HIDE DEF Bad
    <3> QED BY <1>1, <2>0, SmallestSubset
  <2>2. t # {} /\ IsFiniteSet(t)
    <3>1. t \in SUBSET S
      BY <2>0, <2>1
    <3>2. IsFiniteSet(t)
      BY <3>1, FS_Subset
    <3>3. SumOf(v, {}) = 0
      BY SumEmpty
    <3>4. ASSUME t = {}
          PROVE  SumOf(v, t) = 0
      BY <3>3, <3>4
    <3> QED BY <2>1, <3>2, <3>4
  <2>3. First(t) \in t /\ t \ {First(t)} \notin Bad
    BY <2>1, <2>2, FirstIn
  <2> QED BY <2>1, <2>2, <2>3, SumFirst
<1> QED BY <1>1

(* The sum over two disjoint sets.                                          *)
LEMMA SumUnion ==
  ASSUME NEW v, NEW S, NEW T, IsFiniteSet(S), IsFiniteSet(T), S \cap T = {},
         \A x \in S \cup T : v[x] \in Int
  PROVE  SumOf(v, S \cup T) = SumOf(v, S) + SumOf(v, T)
<1> DEFINE Bad == {t \in SUBSET T : SumOf(v, S \cup t) # SumOf(v, S) + SumOf(v, t)}
<1>1. ASSUME Bad # {}
      PROVE  FALSE
  <2>0. Bad \subseteq SUBSET T
    OBVIOUS
  <2>1. PICK t \in Bad : \A u \in Bad : u \subseteq t => u = t
    <3> HIDE DEF Bad
    <3> QED BY <1>1, <2>0, SmallestSubset
  <2>2. t \in SUBSET T /\ IsFiniteSet(t) /\ SumOf(v, S) \in Int
    <3>1. t \in SUBSET T
      BY <2>0, <2>1
    <3> QED BY <3>1, FS_Subset, SumInteger
  <2>3. CASE t = {}
    <3>1. S \cup {} = S
      OBVIOUS
    <3>2. SumOf(v, S \cup t) = SumOf(v, S) /\ SumOf(v, t) = 0
      BY <2>3, <3>1, SumEmpty, Zenon
    <3> QED BY <2>1, <2>2, <3>2
  <2>4. CASE t # {}
    <3> DEFINE f == First(t)
               u == t \ {f}
    <3>1. f \in t /\ u \in SUBSET T /\ u \subseteq t /\ u # t
      BY <2>2, <2>4, FirstIn
    <3>2. SumOf(v, S \cup u) = SumOf(v, S) + SumOf(v, u)
      BY <2>1, <3>1
    <3>3. SumOf(v, t) = v[f] + SumOf(v, u)
      BY <2>2, <2>4, SumFirst
    <3>4. SumOf(v, S \cup t) = v[f] + SumOf(v, S \cup u)
      <4>1. IsFiniteSet(S \cup t)
        BY <2>2, FS_Union
      <4>2. f \in S \cup t /\ (S \cup t) \ {f} = S \cup u /\ \A x \in S \cup t : v[x] \in Int
        BY <2>2, <3>1
      <4> QED BY <4>1, <4>2, SumRemove
    <3>5. IsFiniteSet(u) /\ SumOf(v, u) \in Int /\ v[f] \in Int
      <4>1. IsFiniteSet(u)
        BY <2>2, <3>1, FS_Subset
      <4> QED BY <2>2, <3>1, <4>1, SumInteger
    <3> QED BY <2>1, <2>2, <3>2, <3>3, <3>4, <3>5
  <2> QED BY <2>3, <2>4
<1>2. T \notin Bad
  BY <1>1
<1> QED BY <1>2

(* The sum over pairs with the same first part, and over all pairs.         *)
Along(v, m, T, w) == \A i \in T : v[<<m, i>>] \in Int /\ w[i] = v[<<m, i>>]

LEMMA SumRow ==
  ASSUME NEW v, NEW m, NEW T, NEW w, IsFiniteSet(T), Along(v, m, T, w)
  PROVE  SumOf(v, {m} \X T) = SumOf(w, T)
<1> DEFINE Bad == {t \in SUBSET T : SumOf(v, {m} \X t) # SumOf(w, t)}
<1>0. \A i \in T : v[<<m, i>>] \in Int /\ w[i] = v[<<m, i>>]
  BY DEF Along
<1>1. ASSUME Bad # {}
      PROVE  FALSE
  <2>0. Bad \subseteq SUBSET T
    OBVIOUS
  <2>1. PICK t \in Bad : \A u \in Bad : u \subseteq t => u = t
    <3> HIDE DEF Bad
    <3> QED BY <1>1, <2>0, SmallestSubset
  <2>2. t \in SUBSET T /\ IsFiniteSet(t)
    <3>1. t \in SUBSET T
      BY <2>0, <2>1
    <3> QED BY <3>1, FS_Subset
  <2>3. CASE t = {}
    <3>1. {m} \X {} = {}
      OBVIOUS
    <3>2. SumOf(v, {m} \X t) = 0 /\ SumOf(w, t) = 0
      BY <2>3, <3>1, SumEmpty, Zenon
    <3> QED BY <2>1, <3>2
  <2>4. CASE t # {}
    <3> DEFINE f == First(t)
               u == t \ {f}
    <3>1. f \in t /\ u \in SUBSET T /\ u \subseteq t /\ u # t
      BY <2>2, <2>4, FirstIn
    <3>2. SumOf(v, {m} \X u) = SumOf(w, u)
      BY <2>1, <3>1
    <3>3. SumOf(w, t) = w[f] + SumOf(w, u)
      BY <2>2, <2>4, SumFirst
    <3>4. SumOf(v, {m} \X t) = v[<<m, f>>] + SumOf(v, {m} \X u)
      <4>1. IsFiniteSet({m} \X t)
        BY <2>2, FS_Singleton, FS_Product
      <4>2. /\ <<m, f>> \in {m} \X t /\ ({m} \X t) \ {<<m, f>>} = {m} \X u
            /\ \A x \in {m} \X t : v[x] \in Int
        BY <1>0, <2>2, <3>1
      <4> QED BY <4>1, <4>2, SumRemove
    <3> QED BY <1>0, <2>1, <2>2, <3>1, <3>2, <3>3, <3>4
  <2> QED BY <2>3, <2>4
<1>2. T \notin Bad
  BY <1>1
<1> QED BY <1>2

LEMMA SumProduct ==
  ASSUME NEW v, NEW S, NEW T, IsFiniteSet(S), IsFiniteSet(T),
         \A m \in S, i \in T : v[<<m, i>>] \in Int
  PROVE  SumOf(v, S \X T) = SumOf([m \in S |-> SumOf([i \in T |-> v[<<m, i>>]], T)], S)
<1> DEFINE w == [m \in S |-> SumOf([i \in T |-> v[<<m, i>>]], T)]
           Bad == {s \in SUBSET S : SumOf(v, s \X T) # SumOf(w, s)}
<1>0. ASSUME NEW m \in S
      PROVE  w[m] = SumOf(v, {m} \X T)
  <2> DEFINE row == [i \in T |-> v[<<m, i>>]]
  <2>1. Along(v, m, T, row)
    BY DEF Along
  <2>2. w[m] = SumOf(row, T)
    OBVIOUS
  <2> HIDE DEF row, w
  <2>3. SumOf(v, {m} \X T) = SumOf(row, T)
    BY <2>1, SumRow
  <2> QED BY <2>2, <2>3
<1> HIDE DEF w
<1>1. ASSUME Bad # {}
      PROVE  FALSE
  <2>0. Bad \subseteq SUBSET S
    OBVIOUS
  <2>1. PICK s \in Bad : \A u \in Bad : u \subseteq s => u = s
    <3> HIDE DEF Bad
    <3> QED BY <1>1, <2>0, SmallestSubset
  <2>2. s \in SUBSET S /\ IsFiniteSet(s)
    <3>1. s \in SUBSET S
      BY <2>0, <2>1
    <3> QED BY <3>1, FS_Subset
  <2>3. CASE s = {}
    <3>1. {} \X T = {}
      OBVIOUS
    <3>2. SumOf(v, s \X T) = 0 /\ SumOf(w, s) = 0
      BY <2>3, <3>1, SumEmpty, Zenon
    <3> QED BY <2>1, <3>2
  <2>4. CASE s # {}
    <3> DEFINE f == First(s)
               u == s \ {f}
    <3>1. f \in s /\ u \in SUBSET S /\ u \subseteq s /\ u # s
      BY <2>2, <2>4, FirstIn
    <3>2. SumOf(v, u \X T) = SumOf(w, u)
      BY <2>1, <3>1
    <3>3. SumOf(w, s) = w[f] + SumOf(w, u)
      BY <2>2, <2>4, SumFirst
    <3>4. SumOf(v, s \X T) = SumOf(v, u \X T) + SumOf(v, {f} \X T)
      <4>1. IsFiniteSet(u \X T) /\ IsFiniteSet({f} \X T)
        <5>1. IsFiniteSet(u)
          BY <2>2, <3>1, FS_Subset
        <5> QED BY <5>1, FS_Singleton, FS_Product
      <4>2. /\ (u \X T) \cap ({f} \X T) = {} /\ (u \X T) \cup ({f} \X T) = s \X T
            /\ \A x \in (u \X T) \cup ({f} \X T) : v[x] \in Int
        BY <2>2, <3>1
      <4>3. SumOf(v, (u \X T) \cup ({f} \X T)) = SumOf(v, u \X T) + SumOf(v, {f} \X T)
        BY <4>1, <4>2, SumUnion
      <4> QED BY <4>2, <4>3
    <3>5. /\ SumOf(v, u \X T) \in Int /\ SumOf(v, {f} \X T) \in Int
      <4>1. IsFiniteSet(u \X T) /\ IsFiniteSet({f} \X T)
        <5>1. IsFiniteSet(u)
          BY <2>2, <3>1, FS_Subset
        <5> QED BY <5>1, FS_Singleton, FS_Product
      <4>2. (\A x \in u \X T : v[x] \in Int) /\ (\A x \in {f} \X T : v[x] \in Int)
        BY <2>2, <3>1
      <4> QED BY <4>1, <4>2, SumInteger
    <3>6. SumOf(v, s \X T) = SumOf(w, s)
      <4>1. w[f] = SumOf(v, {f} \X T)
        BY <1>0, <2>2, <3>1
      <4> QED BY <3>2, <3>3, <3>4, <3>5, <4>1
    <3> QED BY <2>1, <3>6
  <2> QED BY <2>3, <2>4
<1>2. S \notin Bad
  BY <1>1
<1> QED BY <1>2 DEF w
=============================================================================
