----------------------- MODULE ColumnarSourceProofs -------------------------
(***************************************************************************)
(* Proofs about ColumnarSource: how fragments are dealt to the workers of  *)
(* all ranks, and what each worker has emitted at any cursor, for any      *)
(* datasets, topologies, crashes and rewrites.                             *)
(***************************************************************************)
EXTENDS ColumnarSource, Sums, FunctionTheorems, SequenceTheorems

-----------------------------------------------------------------------------
(* Sorting.                                                                 *)

(* R is a strict order in which any two members of S are related.           *)
Orders(R, S) ==
  /\ \A x, y \in S : x # y => <<x, y>> \in R \/ <<y, x>> \in R
  /\ \A x, y, z \in S : <<x, y>> \in R /\ <<y, z>> \in R => <<x, z>> \in R
  /\ \A x \in S : <<x, x>> \notin R

LEMMA OrdersSubset ==
  ASSUME NEW R, NEW S, NEW T, Orders(R, S), T \subseteq S
  PROVE  Orders(R, T)
BY DEF Orders

LEMMA LastInOrder ==
  ASSUME NEW R, NEW S, IsFiniteSet(S), Orders(R, S), S # {}
  PROVE  \E m \in S : \A x \in S : x # m => <<x, m>> \in R
<1> DEFINE Bad == {t \in SUBSET S : t # {} /\ ~\E m \in t : \A x \in t : x # m => <<x, m>> \in R}
<1>1. ASSUME Bad # {}
      PROVE  FALSE
  <2>0. Bad \subseteq SUBSET S
    OBVIOUS
  <2>1. PICK t \in Bad : \A u \in Bad : u \subseteq t => u = t
    <3> HIDE DEF Bad
    <3> QED BY <1>1, <2>0, SmallestSubset
  <2>2. /\ t \in SUBSET S /\ t # {}
        /\ ~\E m \in t : \A x \in t : x # m => <<x, m>> \in R
    BY <2>1
  <2>3. PICK f \in t : TRUE
    BY <2>2
  <2> DEFINE u == t \ {f}
  <2>4. CASE u = {}
    BY <2>2, <2>3, <2>4
  <2>5. CASE u # {}
    <3>1. u \in SUBSET S /\ u \subseteq t /\ u # t
      BY <2>2, <2>3
    <3>2. \E m \in u : \A x \in u : x # m => <<x, m>> \in R
      BY <2>1, <2>5, <3>1
    <3>3. PICK m \in u : \A x \in u : x # m => <<x, m>> \in R
      BY <3>2
    <3>4. f \in S /\ m \in S /\ m # f /\ \A x \in t : x \in S /\ (x = f \/ x \in u)
      BY <2>2, <2>3, <3>1, <3>3
    <3>5. CASE <<f, m>> \in R
      BY <2>2, <3>3, <3>4, <3>5
    <3>6. CASE <<m, f>> \in R
      <4>1. ASSUME NEW x \in t, x # f
            PROVE  <<x, f>> \in R
        BY <3>3, <3>4, <3>6, <4>1 DEF Orders
      <4> QED BY <2>2, <2>3, <4>1
    <3> QED BY <3>4, <3>5, <3>6 DEF Orders
  <2> QED BY <2>4, <2>5
<1>2. S \notin Bad
  BY <1>1
<1> QED BY <1>2

(* f lists the members of S in the order R.                                 *)
Lists(f, S, R) ==
  /\ f \in SetToSeqs(S)
  /\ \A i, j \in DOMAIN f : i < j => <<f[i], f[j]>> \in R

LEMMA ListingIs ==
  ASSUME NEW S, NEW R, IsFiniteSet(S), NEW f
  PROVE  Lists(f, S, R) <=>
           /\ f \in [1..Cardinality(S) -> S] /\ Cardinality(S) \in Nat
           /\ \A i, j \in 1..Cardinality(S) : i # j => f[i] # f[j]
           /\ \A i, j \in 1..Cardinality(S) : i < j => <<f[i], f[j]>> \in R
<1>1. Cardinality(S) \in Nat
  BY FS_CardinalityType
<1> DEFINE D == 1..Cardinality(S)
<1>2. SetToSeqs(S) = {g \in [D -> S] : \A i, j \in D : i # j => g[i] # g[j]}
  BY DEF SetToSeqs
<1>3. f \in SetToSeqs(S) <=> f \in [D -> S] /\ \A i, j \in D : i # j => f[i] # f[j]
  <2> HIDE DEF D
  <2> QED BY <1>2
<1>4. f \in [D -> S] => DOMAIN f = D
  OBVIOUS
<1> HIDE DEF D
<1>5. Lists(f, S, R) <=>
        /\ f \in [D -> S] /\ \A i, j \in D : i # j => f[i] # f[j]
        /\ \A i, j \in D : i < j => <<f[i], f[j]>> \in R
  BY <1>3, <1>4 DEF Lists
<1> QED BY <1>1, <1>5 DEF D

LEMMA CanBeSorted ==
  ASSUME NEW R, NEW S, IsFiniteSet(S), Orders(R, S)
  PROVE  \E f : Lists(f, S, R)
<1> DEFINE Bad == {t \in SUBSET S : ~\E f : Lists(f, t, R)}
<1>1. ASSUME Bad # {}
      PROVE  FALSE
  <2>0. Bad \subseteq SUBSET S
    OBVIOUS
  <2>1. PICK t \in Bad : \A u \in Bad : u \subseteq t => u = t
    <3> HIDE DEF Bad
    <3> QED BY <1>1, <2>0, SmallestSubset
  <2>2. t \in SUBSET S /\ ~\E f : Lists(f, t, R)
    BY <2>1
  <2>3. IsFiniteSet(t) /\ Orders(R, t)
    BY <2>2, FS_Subset, OrdersSubset
  <2>4. CASE t = {}
    <3>1. Cardinality(t) = 0
      BY <2>4, FS_EmptySet
    <3> DEFINE f == <<>>
    <3>2. f \in [1..0 -> t] /\ 1..0 = {}
      BY <2>4
    <3> HIDE DEF f
    <3>3. f \in [1..Cardinality(t) -> t] /\ 1..Cardinality(t) = {} /\ Cardinality(t) \in Nat
      BY <3>1, <3>2
    <3>4. Lists(f, t, R)
      BY <2>3, <3>3, ListingIs
    <3> QED BY <2>2, <3>4
  <2>5. CASE t # {}
    <3>1. PICK m \in t : \A x \in t : x # m => <<x, m>> \in R
      BY <2>3, <2>5, LastInOrder
    <3> DEFINE u == t \ {m}
               n == Cardinality(u)
    <3>2. IsFiniteSet(u) /\ n \in Nat /\ Cardinality(t) = n + 1
      <4>1. IsFiniteSet(u) /\ Cardinality(u) = Cardinality(t) - 1
        BY <2>3, FS_RemoveElement
      <4> QED BY <2>3, <4>1, FS_CardinalityType
    <3>3. u \in SUBSET S /\ u # t /\ u \subseteq t
      BY <2>2
    <3>4. u \notin Bad
      <4> HIDE DEF Bad, u
      <4> QED BY <2>1, <3>3
    <3>5. PICK f : Lists(f, u, R)
      <4> HIDE DEF u
      <4> QED BY <3>3, <3>4
    <3>6. /\ f \in [1..n -> u]
          /\ \A i, j \in 1..n : i # j => f[i] # f[j]
          /\ \A i, j \in 1..n : i < j => <<f[i], f[j]>> \in R
      <4> HIDE DEF u
      <4> QED BY <3>2, <3>5, ListingIs
    <3> HIDE DEF n
    <3> DEFINE g == [i \in 1..n+1 |-> IF i <= n THEN f[i] ELSE m]
    <3>7. g \in [1..n+1 -> t]
      BY <3>2, <3>6
    <3>8. g[n + 1] = m /\ \A i \in 1..n : g[i] = f[i] /\ g[i] \in t /\ g[i] # m
      BY <3>2, <3>6
    <3>9. \A i \in 1..n+1 : i = n + 1 \/ i \in 1..n
      BY <3>2
    <3> HIDE DEF g
    <3>10. \A i, j \in 1..n+1 : i # j => g[i] # g[j]
      BY <3>6, <3>8, <3>9
    <3>11. ASSUME NEW i \in 1..n+1, NEW j \in 1..n+1, i < j
           PROVE  <<g[i], g[j]>> \in R
      <4>1. i \in 1..n
        BY <3>2, <3>11
      <4>2. CASE j = n + 1
        BY <3>1, <3>8, <4>1, <4>2
      <4>3. CASE j \in 1..n
        BY <3>6, <3>8, <3>11, <4>1, <4>3
      <4> QED BY <3>9, <4>2, <4>3
    <3>12. Lists(g, t, R)
      BY <2>3, <3>2, <3>7, <3>10, <3>11, ListingIs
    <3> QED BY <2>2, <3>12
  <2> QED BY <2>4, <2>5
<1>2. S \notin Bad
  BY <1>1
<1> QED BY <1>2

(* Sorted lists the members of a set that an order relates.                 *)
LEMMA SortedLists ==
  ASSUME NEW R, NEW S, IsFiniteSet(S), Orders(R, S)
  PROVE  Lists(Sorted(S, R), S, R)
<1>1. PICK f : Lists(f, S, R)
  BY CanBeSorted
<1>2. f \in SetToSeqs(S) /\ \A i, j \in DOMAIN f : i < j => <<f[i], f[j]>> \in R
  BY <1>1 DEF Lists
<1> QED BY <1>2 DEF Sorted, Lists

-----------------------------------------------------------------------------
(* Dealing.                                                                 *)

(* The workers a fragment goes to, when the parts hold d.                   *)
To(rows, parts, d) ==
  LET least == Min({RowsIn(rows, d[p]) : p \in 0..parts-1})
  IN  Min({p \in 0..parts-1 : RowsIn(rows, d[p]) = least})

Given(rows, parts, d, f) == [d EXCEPT ![To(rows, parts, d)] = @ \cup {f}]

Nothing(parts) == [p \in 0..parts-1 |-> {}]

(* The parts after the fragments at the positions in s, as FoldLeft folds.  *)
DealtAfter(rows, parts, q, g, s) ==
  IF s = {} THEN Nothing(parts) ELSE Given(rows, parts, g[s \ {Max(s)}], q[Max(s)])

Deals(rows, parts, q, S) ==
  CHOOSE g : g = [s \in SUBSET S |-> DealtAfter(rows, parts, q, g, s)]

LEMMA DealIsDeals ==
  ASSUME NEW rows, NEW parts
  PROVE  Deal(rows, parts) =
           Deals(rows, parts, BySize(rows), DOMAIN BySize(rows))[DOMAIN BySize(rows)]
BY DEF Deal, FoldLeft, MapThenFoldSet, Deals, DealtAfter, Given, To, Nothing

LEMMA MaxIn ==
  ASSUME NEW S, IsFiniteSet(S), \A x \in S : x \in Nat, S # {}
  PROVE  Max(S) \in S /\ \A x \in S : x <= Max(S)
BY Greatest DEF Max

(* The recursion of the fold has a solution.                                *)
LEMMA DealsStep ==
  ASSUME NEW rows, NEW parts, NEW q, NEW S, IsFiniteSet(S), \A x \in S : x \in Nat
  PROVE  \A T \in SUBSET S : Deals(rows, parts, q, S)[T]
           = DealtAfter(rows, parts, q, Deals(rows, parts, q, S), T)
<1> DEFINE Small(n) == {s \in SUBSET S : Cardinality(s) <= n}
           Solves(g, n) == \A s \in Small(n) : g[s] = DealtAfter(rows, parts, q, g, s)
           Bad == {n \in Nat : ~\E g : Solves(g, n)}
           Further(g) == [s \in SUBSET S |-> DealtAfter(rows, parts, q, g, s)]
<1>1. ASSUME NEW s \in SUBSET S
      PROVE  /\ Cardinality(s) \in Nat /\ (Cardinality(s) = 0 => s = {})
             /\ s # {} => /\ s \ {Max(s)} \in SUBSET S
                          /\ Cardinality(s \ {Max(s)}) = Cardinality(s) - 1
  <2>1. IsFiniteSet(s)
    BY FS_Subset
  <2>2. s # {} => Max(s) \in s
    BY <2>1, MaxIn
  <2> QED BY <2>1, <2>2, FS_CardinalityType, FS_RemoveElement, FS_EmptySet
<1>2. \E g : Solves(g, 0)
  <2> DEFINE g == [s \in SUBSET S |-> Nothing(parts)]
  <2>1. ASSUME NEW s \in Small(0)
        PROVE  s \in SUBSET S /\ s = {}
    <3>1. s \in SUBSET S /\ Cardinality(s) <= 0
      OBVIOUS
    <3>2. Cardinality(s) \in Nat
      BY <1>1, <3>1
    <3>3. Cardinality(s) = 0
      BY <3>1, <3>2
    <3> QED BY <1>1, <3>1, <3>3
  <2>2. Solves(g, 0)
    BY <2>1 DEF DealtAfter
  <2> QED BY <2>2
<1>3. ASSUME NEW n \in Nat, NEW g, Solves(g, n)
      PROVE  Solves(Further(g), n + 1)
  <2> SUFFICES ASSUME NEW s \in Small(n + 1)
               PROVE  Further(g)[s] = DealtAfter(rows, parts, q, Further(g), s)
    OBVIOUS
  <2>1. CASE s = {}
    BY <2>1 DEF DealtAfter
  <2>2. CASE s # {}
    <3> DEFINE u == s \ {Max(s)}
    <3>1. u \in Small(n)
      BY <1>1, <2>2
    <3>2. g[u] = Further(g)[u]
      BY <1>3, <3>1
    <3> QED BY <2>2, <3>2 DEF DealtAfter
  <2> QED BY <2>1, <2>2
<1>4. Bad = {}
  <2> SUFFICES ASSUME Bad # {} PROVE FALSE
    OBVIOUS
  <2>1. PICK n \in Bad : \A m \in Bad : n <= m
    BY SmallestNumber
  <2>2. n \in Nat /\ n # 0
    BY <1>2
  <2>3. n - 1 \in Nat /\ n - 1 \notin Bad
    BY <2>1, <2>2
  <2>4. PICK g : Solves(g, n - 1)
    BY <2>3
  <2>5. Solves(Further(g), (n - 1) + 1)
    <3> HIDE DEF Solves, Further
    <3> QED BY <1>3, <2>3, <2>4
  <2>6. (n - 1) + 1 = n
    BY <2>2
  <2>7. Solves(Further(g), n)
    BY <2>5, <2>6
  <2> QED BY <2>1, <2>7
<1>5. Cardinality(S) \in Nat
  BY FS_CardinalityType
<1>6. PICK g : Solves(g, Cardinality(S))
  BY <1>4, <1>5
<1>7. \A s \in SUBSET S : s \in Small(Cardinality(S))
  BY FS_Subset
<1>8. \A s \in SUBSET S : g[s] = DealtAfter(rows, parts, q, g, s)
  BY <1>6, <1>7
<1>9. Further(g) = [s \in SUBSET S |-> DealtAfter(rows, parts, q, Further(g), s)]
  <2>1. ASSUME NEW s \in SUBSET S
        PROVE  DealtAfter(rows, parts, q, g, s) = DealtAfter(rows, parts, q, Further(g), s)
    <3>1. CASE s = {}
      BY <3>1 DEF DealtAfter
    <3>2. CASE s # {}
      BY <1>1, <1>8, <3>2 DEF DealtAfter
    <3> QED BY <3>1, <3>2
  <2> QED BY <2>1
<1> HIDE DEF Further
<1> DEFINE h == Deals(rows, parts, q, S)
<1>10. h = [s \in SUBSET S |-> DealtAfter(rows, parts, q, h, s)]
  BY <1>9 DEF Deals
<1> HIDE DEF h
<1>11. \A T \in SUBSET S : h[T] = DealtAfter(rows, parts, q, h, T)
  BY <1>10
<1> QED BY <1>11 DEF h

LEMMA FoundFacts ==
  ASSUME NEW rows \in Seq(Nat)
  PROVE  /\ IsFiniteSet(Found(rows)) /\ Found(rows) \subseteq DOMAIN rows
         /\ \A f \in Found(rows) : f \in Nat \ {0} /\ rows[f] \in Nat \ {0}
         /\ Orders(Larger(rows), Found(rows)) /\ Orders(Earlier(rows), Found(rows))
<1> DEFINE S == Found(rows)
<1>1. DOMAIN rows = 1..Len(rows) /\ Len(rows) \in Nat
  OBVIOUS
<1>2. IsFiniteSet(DOMAIN rows)
  BY <1>1, FS_Interval
<1>3. S \subseteq DOMAIN rows /\ \A f \in S : rows[f] \in Nat \ {0}
  BY DEF Found
<1>4. IsFiniteSet(S)
  BY <1>2, <1>3, FS_Subset
<1>5. \A f \in S : f \in Nat \ {0} /\ rows[f] \in Nat \ {0}
  BY <1>1, <1>3
<1>6. \A f, g \in S : <<f, g>> \in Larger(rows) <=>
                        rows[f] > rows[g] \/ (rows[f] = rows[g] /\ f < g)
  BY DEF Larger
<1>7. \A f, g \in S : <<f, g>> \in Earlier(rows) <=> f < g
  BY DEF Earlier
<1> HIDE DEF S
<1>8. Orders(Larger(rows), S)
  BY <1>5, <1>6 DEF Orders
<1>9. Orders(Earlier(rows), S)
  BY <1>5, <1>7 DEF Orders
<1> QED BY <1>3, <1>4, <1>5, <1>8, <1>9 DEF S

(* RowsIn is a sum of natural numbers over fragments.                       *)
LEMMA RowsAreSums ==
  ASSUME NEW rows, NEW S
  PROVE  RowsIn(rows, S) = SumOf(rows, S)
BY DEF RowsIn, SumOf

LEMMA RowsTyped ==
  ASSUME NEW rows \in Seq(Nat), NEW S, S \subseteq Found(rows)
  PROVE  IsFiniteSet(S) /\ RowsIn(rows, S) \in Nat
<1>1. IsFiniteSet(S)
  BY FoundFacts, FS_Subset
<1>2. \A f \in S : rows[f] \in Nat \ {0}
  BY FoundFacts
<1> QED BY <1>1, <1>2, SumPositive, RowsAreSums

LEMMA RowsWith ==
  ASSUME NEW rows \in Seq(Nat), NEW S, S \subseteq Found(rows), NEW f \in S
  PROVE  /\ RowsIn(rows, S) = rows[f] + RowsIn(rows, S \ {f})
         /\ RowsIn(rows, S \ {f}) \in Nat /\ rows[f] \in Nat \ {0}
<1>1. IsFiniteSet(S)
  BY RowsTyped
<1>2. \A g \in S : rows[g] \in Int
  BY FoundFacts
<1>3. RowsIn(rows, S) = rows[f] + RowsIn(rows, S \ {f})
  BY <1>1, <1>2, SumRemove, RowsAreSums
<1>4. S \ {f} \subseteq Found(rows)
  OBVIOUS
<1> QED BY <1>3, <1>4, RowsTyped, FoundFacts

(* The fragments a part holds, and how evenly.                              *)
Holds(rows, parts, d) == d \in [0..parts-1 -> SUBSET Found(rows)]
Apart(d) == \A p, q \in DOMAIN d : p # q => d[p] \cap d[q] = {}
Even(rows, d) ==
  \A p, q \in DOMAIN d : \A f \in d[p] :
    \/ RowsIn(rows, d[p] \ {f}) <= RowsIn(rows, d[q])
    \/ \E g \in d[p] : rows[g] < rows[f]

LEMMA MinIn ==
  ASSUME NEW S, \A x \in S : x \in Nat, S # {}
  PROVE  Min(S) \in S /\ \A x \in S : Min(S) <= x
<1>1. S \subseteq Nat
  OBVIOUS
<1> QED BY <1>1, SmallestNumber DEF Min

(* A fragment goes to a part that has the fewest rows.                      *)
LEMMA ToLeast ==
  ASSUME NEW rows \in Seq(Nat), NEW parts \in Nat \ {0}, NEW d, Holds(rows, parts, d)
  PROVE  /\ To(rows, parts, d) \in 0..parts-1
         /\ \A p \in 0..parts-1 : RowsIn(rows, d[To(rows, parts, d)]) <= RowsIn(rows, d[p])
<1> DEFINE loads == {RowsIn(rows, d[p]) : p \in 0..parts-1}
           least == Min(loads)
           which == {p \in 0..parts-1 : RowsIn(rows, d[p]) = least}
<1>1. \A p \in 0..parts-1 : RowsIn(rows, d[p]) \in Nat
  BY RowsTyped DEF Holds
<1>2. loads # {} /\ \A x \in loads : x \in Nat
  <2>1. 0 \in 0..parts-1
    OBVIOUS
  <2> QED BY <1>1, <2>1
<1>3. least \in loads /\ \A x \in loads : least <= x
  <2> HIDE DEF loads
  <2> QED BY <1>2, MinIn
<1>4. which # {} /\ \A p \in which : p \in Nat
  <2>1. least \in {RowsIn(rows, d[p]) : p \in 0..parts-1}
    <3> HIDE DEF least
    <3> QED BY <1>3
  <2> HIDE DEF least
  <2>2. PICK p \in 0..parts-1 : least = RowsIn(rows, d[p])
    BY <2>1
  <2>3. p \in which
    BY <2>2
  <2> QED BY <2>3
<1>5. Min(which) \in which
  <2> HIDE DEF which
  <2> QED BY <1>4, MinIn
<1>6. To(rows, parts, d) = Min(which)
  BY DEF To
<1> DEFINE t == Min(which)
<1>7. t \in 0..parts-1 /\ RowsIn(rows, d[t]) = least
  BY <1>5
<1>8. \A p \in 0..parts-1 : least <= RowsIn(rows, d[p])
  BY <1>3
<1> HIDE DEF t, least
<1> QED BY <1>6, <1>7, <1>8 DEF t

(* Dealing one more fragment, no larger than those that were dealt.         *)
LEMMA DealOne ==
  ASSUME NEW rows \in Seq(Nat), NEW parts \in Nat \ {0}, NEW d, NEW f \in Found(rows),
         Holds(rows, parts, d), Apart(d), Even(rows, d),
         \A p \in 0..parts-1 : \A h \in d[p] : h # f /\ rows[f] <= rows[h]
  PROVE  /\ Holds(rows, parts, Given(rows, parts, d, f))
         /\ Apart(Given(rows, parts, d, f)) /\ Even(rows, Given(rows, parts, d, f))
         /\ \A p \in 0..parts-1 : /\ d[p] \subseteq Given(rows, parts, d, f)[p]
                                  /\ Given(rows, parts, d, f)[p] \subseteq d[p] \cup {f}
         /\ \E p \in 0..parts-1 : f \in Given(rows, parts, d, f)[p]
<1> DEFINE t == To(rows, parts, d)
           e == Given(rows, parts, d, f)
           W == 0..parts-1
<1>1. t \in W /\ \A p \in W : RowsIn(rows, d[t]) <= RowsIn(rows, d[p])
  BY ToLeast
<1>2. d \in [W -> SUBSET Found(rows)] /\ DOMAIN d = W
  BY DEF Holds
<1>3. e = [d EXCEPT ![t] = @ \cup {f}]
  BY DEF Given
<1> HIDE DEF t, e, W
<1>4. e \in [W -> SUBSET Found(rows)] /\ DOMAIN e = W
  BY <1>1, <1>2, <1>3
<1>5. e[t] = d[t] \cup {f} /\ \A p \in W : p # t => e[p] = d[p]
  BY <1>1, <1>2, <1>3
<1>6. \A p \in W : f \notin d[p]
  BY DEF W
<1>7. Apart(e)
  BY <1>1, <1>2, <1>4, <1>5, <1>6 DEF Apart
<1>8. \A p \in W : RowsIn(rows, d[p]) \in Nat /\ RowsIn(rows, e[p]) \in Nat
  <2>1. \A p \in W : d[p] \subseteq Found(rows) /\ e[p] \subseteq Found(rows)
    BY <1>2, <1>4
  <2> QED BY <2>1, RowsTyped
<1>9. RowsIn(rows, e[t]) = rows[f] + RowsIn(rows, d[t]) /\ rows[f] \in Nat \ {0}
  <2>1. e[t] \subseteq Found(rows) /\ f \in e[t] /\ e[t] \ {f} = d[t]
    BY <1>1, <1>4, <1>5, <1>6
  <2> DEFINE S == e[t]
  <2>2. S \subseteq Found(rows) /\ f \in S
    BY <2>1
  <2> HIDE DEF S
  <2>3. RowsIn(rows, S) = rows[f] + RowsIn(rows, S \ {f}) /\ rows[f] \in Nat \ {0}
    BY <2>2, RowsWith
  <2> QED BY <2>1, <2>3 DEF S
<1>10. \A p \in W : RowsIn(rows, d[p]) <= RowsIn(rows, e[p])
  <2>1. \A p \in W : p # t => RowsIn(rows, d[p]) = RowsIn(rows, e[p])
    BY <1>5
  <2> QED BY <1>1, <1>8, <1>9, <2>1
<1>11. ASSUME NEW p \in W, NEW q \in W, NEW h \in e[p]
       PROVE  \/ RowsIn(rows, e[p] \ {h}) <= RowsIn(rows, e[q])
              \/ \E g \in e[p] : rows[g] < rows[h]
  <2>1. RowsIn(rows, d[q]) \in Nat /\ RowsIn(rows, e[q]) \in Nat
        /\ RowsIn(rows, d[q]) <= RowsIn(rows, e[q])
    BY <1>8, <1>10
  <2>2. CASE p # t
    <3>1. e[p] = d[p] /\ h \in d[p]
      BY <1>5, <1>11, <2>2
    <3>2. \/ RowsIn(rows, d[p] \ {h}) <= RowsIn(rows, d[q])
          \/ \E g \in d[p] : rows[g] < rows[h]
      BY <1>2, <3>1 DEF Even
    <3>3. RowsIn(rows, d[p] \ {h}) \in Nat
      <4>1. d[p] \ {h} \subseteq Found(rows)
        BY <1>2
      <4> QED BY <4>1, RowsTyped
    <3> QED BY <2>1, <3>1, <3>2, <3>3
  <2>3. CASE p = t /\ h = f
    <3>1. e[p] \ {h} = d[t]
      BY <1>1, <1>5, <1>6, <2>3
    <3>2. RowsIn(rows, d[t]) <= RowsIn(rows, d[q]) /\ RowsIn(rows, d[t]) \in Nat
      BY <1>1, <1>8
    <3>3. RowsIn(rows, d[t]) <= RowsIn(rows, e[q])
      BY <2>1, <3>2
    <3> QED BY <3>1, <3>3
  <2>4. CASE p = t /\ h # f
    <3>1. h \in d[t] /\ h \in e[t] /\ f \in e[t] /\ e[t] \subseteq Found(rows)
      BY <1>1, <1>4, <1>5, <1>11, <2>4
    <3>2. rows[f] <= rows[h]
      BY <1>1, <3>1 DEF W
    <3>3. /\ RowsIn(rows, e[t]) = rows[h] + RowsIn(rows, e[t] \ {h})
          /\ RowsIn(rows, e[t] \ {h}) \in Nat /\ rows[h] \in Nat \ {0}
      BY <3>1, RowsWith
    <3>4. CASE rows[f] < rows[h]
      BY <2>4, <3>1, <3>4
    <3>5. CASE rows[f] = rows[h]
      <4>1. RowsIn(rows, d[t]) \in Nat /\ RowsIn(rows, d[t]) <= RowsIn(rows, d[q])
        BY <1>1, <1>8
      <4>2. RowsIn(rows, e[t] \ {h}) = RowsIn(rows, d[t])
        BY <1>9, <3>3, <3>5, <4>1
      <4> QED BY <2>1, <2>4, <4>1, <4>2
    <3> QED BY <1>9, <3>2, <3>3, <3>4, <3>5
  <2> QED BY <2>2, <2>3, <2>4
<1>12. Even(rows, e)
  BY <1>4, <1>11 DEF Even
<1>13. \A p \in W : d[p] \subseteq e[p] /\ e[p] \subseteq d[p] \cup {f}
  BY <1>5
<1>14. \E p \in W : f \in e[p]
  BY <1>1, <1>5
<1> QED BY <1>14, <1>4, <1>7, <1>12, <1>13 DEF e, W, Holds

(* The parts after the first k fragments of q.                              *)
Dealt(rows, parts, q, k, d) ==
  /\ Holds(rows, parts, d) /\ Apart(d) /\ Even(rows, d)
  /\ \A p \in 0..parts-1 : \A f \in d[p] : \E i \in 1..k : f = q[i]
  /\ \A i \in 1..k : \E p \in 0..parts-1 : q[i] \in d[p]

LEMMA FirstFinite ==
  ASSUME NEW n \in Nat
  PROVE  IsFiniteSet(1..n) /\ Cardinality(1..n) = n /\ \A x \in 1..n : x \in Nat
<1>1. IsFiniteSet(1..n)
  BY FS_Interval
<1>2. Cardinality(1..n) = IF 1 > n THEN 0 ELSE n - 1 + 1
  BY FS_Interval
<1>3. Cardinality(1..n) = n
  BY <1>2
<1>4. \A x \in 1..n : x \in Nat
  OBVIOUS
<1> QED BY <1>1, <1>3, <1>4

LEMMA MaxOfFirst ==
  ASSUME NEW k \in Nat \ {0}
  PROVE  Max(1..k) = k
<1>1. IsFiniteSet(1..k) /\ \A x \in 1..k : x \in Nat
  BY FirstFinite
<1>3. k \in 1..k /\ 1..k # {}
  OBVIOUS
<1>2. Max(1..k) \in 1..k /\ \A x \in 1..k : x <= Max(1..k)
  BY <1>1, <1>3, MaxIn
<1> DEFINE m == Max(1..k)
<1>4. m \in 1..k /\ k <= m
  BY <1>2, <1>3
<1> HIDE DEF m
<1>5. m = k
  BY <1>4
<1> QED BY <1>5 DEF m

LEMMA DealtFirst ==
  ASSUME NEW rows \in Seq(Nat), NEW parts \in Nat \ {0}, NEW n \in Nat,
         NEW q \in [1..n -> Found(rows)],
         \A i, j \in 1..n : i # j => q[i] # q[j],
         \A i, j \in 1..n : i < j => <<q[i], q[j]>> \in Larger(rows)
  PROVE  Dealt(rows, parts, q, n, Deals(rows, parts, q, 1..n)[1..n])
<1> DEFINE h == Deals(rows, parts, q, 1..n)
           Good(k) == Dealt(rows, parts, q, k, h[1..k])
           Bad == {k \in Nat : k <= n /\ ~Good(k)}
<1>1. IsFiniteSet(1..n) /\ \A x \in 1..n : x \in Nat
  BY FirstFinite
<1>2. \A T \in SUBSET (1..n) : h[T] = DealtAfter(rows, parts, q, h, T)
  <2> DEFINE S == 1..n
  <2>1. IsFiniteSet(S) /\ \A x \in S : x \in Nat
    BY <1>1
  <2> HIDE DEF S
  <2>2. \A T \in SUBSET S : Deals(rows, parts, q, S)[T]
           = DealtAfter(rows, parts, q, Deals(rows, parts, q, S), T)
    BY <2>1, DealsStep
  <2> QED BY <2>2 DEF S
<1> HIDE DEF h
<1>3. Good(0)
  <2>1. 1..0 = {} /\ 1..0 \in SUBSET (1..n)
    OBVIOUS
  <2>2. h[1..0] = Nothing(parts)
    BY <1>2, <2>1 DEF DealtAfter
  <2>3. Holds(rows, parts, Nothing(parts)) /\ \A p \in 0..parts-1 : Nothing(parts)[p] = {}
    BY DEF Holds, Nothing
  <2>4. DOMAIN Nothing(parts) = 0..parts-1
    BY DEF Nothing
  <2>5. Apart(Nothing(parts)) /\ Even(rows, Nothing(parts))
    BY <2>3, <2>4 DEF Apart, Even
  <2> QED BY <2>1, <2>2, <2>3, <2>5 DEF Dealt
<1>4. ASSUME NEW k \in 1..n, Good(k - 1)
      PROVE  Good(k)
  <2> DEFINE d == h[1..(k-1)]
  <2>1. k \in Nat \ {0} /\ k \in 1..k /\ 1..k \in SUBSET (1..n) /\ (1..k) \ {k} = 1..(k-1)
    OBVIOUS
  <2>2. h[1..k] = DealtAfter(rows, parts, q, h, 1..k)
    BY <1>2, <2>1
  <2>3. 1..k # {} /\ Max(1..k) = k
    BY <2>1, MaxOfFirst
  <2>4. h[1..k] = Given(rows, parts, d, q[k])
    BY <2>1, <2>2, <2>3 DEF DealtAfter
  <2>5. Dealt(rows, parts, q, k - 1, d)
    BY <1>4
  <2> HIDE DEF d, Good
  <2>6. /\ Holds(rows, parts, d) /\ Apart(d) /\ Even(rows, d)
        /\ \A p \in 0..parts-1 : \A f \in d[p] : \E i \in 1..(k-1) : f = q[i]
        /\ \A i \in 1..(k-1) : \E p \in 0..parts-1 : q[i] \in d[p]
    BY <2>5 DEF Dealt
  <2>7. q[k] \in Found(rows)
    OBVIOUS
  <2>8. ASSUME NEW i \in 1..(k-1)
        PROVE  q[i] # q[k] /\ rows[q[k]] <= rows[q[i]] /\ i \in 1..k
    <3>1. i \in 1..n /\ i < k /\ i \in 1..k
      OBVIOUS
    <3>2. q[i] # q[k] /\ <<q[i], q[k]>> \in Larger(rows) /\ q[i] \in Found(rows)
      BY <3>1
    <3>3. rows[q[i]] > rows[q[k]] \/ rows[q[i]] = rows[q[k]]
      BY <3>2 DEF Larger
    <3>4. rows[q[i]] \in Nat /\ rows[q[k]] \in Nat
      BY <2>7, <3>2, FoundFacts
    <3> QED BY <3>1, <3>2, <3>3, <3>4
  <2>9. \A p \in 0..parts-1 : \A g \in d[p] : g # q[k] /\ rows[q[k]] <= rows[g]
    BY <2>6, <2>8
  <2> DEFINE e == Given(rows, parts, d, q[k])
  <2>10. /\ Holds(rows, parts, e) /\ Apart(e) /\ Even(rows, e)
         /\ \A p \in 0..parts-1 : d[p] \subseteq e[p] /\ e[p] \subseteq d[p] \cup {q[k]}
         /\ \E p \in 0..parts-1 : q[k] \in e[p]
    BY <2>6, <2>7, <2>9, DealOne
  <2> HIDE DEF e
  <2>11. \A i \in 1..k : i = k \/ i \in 1..(k-1)
    OBVIOUS
  <2>12. \A p \in 0..parts-1 : \A f \in e[p] : \E i \in 1..k : f = q[i]
    BY <2>1, <2>6, <2>8, <2>10
  <2>13. \A i \in 1..k : \E p \in 0..parts-1 : q[i] \in e[p]
    BY <2>6, <2>10, <2>11
  <2>14. Dealt(rows, parts, q, k, e)
    BY <2>10, <2>12, <2>13 DEF Dealt
  <2> QED BY <2>4, <2>14 DEF Good, e
<1>5. ASSUME Bad # {}
      PROVE  FALSE
  <2>1. PICK k \in Bad : \A m \in Bad : k <= m
    <3>1. Bad \subseteq Nat
      OBVIOUS
    <3> HIDE DEF Bad
    <3> QED BY <1>5, <3>1, SmallestNumber
  <2>2. k \in Nat /\ k <= n /\ ~Good(k)
    BY <2>1
  <2>3. k # 0
    BY <1>3, <2>2
  <2>4. k \in 1..n /\ k - 1 \in Nat /\ k - 1 <= n /\ ~(k <= k - 1)
    BY <2>2, <2>3
  <2>5. k - 1 \notin Bad
    BY <2>1, <2>4
  <2>6. Good(k - 1)
    BY <2>4, <2>5
  <2> QED BY <1>4, <2>2, <2>4, <2>6
<1>6. n \notin Bad
  BY <1>5
<1>7. Good(n)
  BY <1>6
<1> QED BY <1>7 DEF h

(* What balanced_fragment_assignment deals out: every fragment to one part, *)
(* and as evenly as possible.                                               *)
LEMMA DealFacts ==
  ASSUME NEW rows \in Seq(Nat), NEW parts \in Nat \ {0}
  PROVE  /\ Holds(rows, parts, Deal(rows, parts))
         /\ Apart(Deal(rows, parts)) /\ Even(rows, Deal(rows, parts))
         /\ \A f \in Found(rows) : \E p \in 0..parts-1 : f \in Deal(rows, parts)[p]
<1> DEFINE q == BySize(rows)
           n == Cardinality(Found(rows))
<1>1. IsFiniteSet(Found(rows)) /\ Orders(Larger(rows), Found(rows))
  BY FoundFacts
<1>2. Lists(q, Found(rows), Larger(rows))
  BY <1>1, SortedLists DEF BySize
<1>3. /\ q \in [1..n -> Found(rows)] /\ n \in Nat
      /\ \A i, j \in 1..n : i # j => q[i] # q[j]
      /\ \A i, j \in 1..n : i < j => <<q[i], q[j]>> \in Larger(rows)
  <2> HIDE DEF q
  <2> QED BY <1>1, <1>2, ListingIs
<1>4. \A f \in Found(rows) : \E i \in 1..n : f = q[i]
  <2> HIDE DEF q
  <2>2. IsFiniteSet(1..n) /\ Cardinality(1..n) = n
    BY <1>3, FirstFinite
  <2> DEFINE D == 1..n
  <2> HIDE DEF n
  <2>3. q \in [D -> Found(rows)] /\ \A i, j \in D : i # j => q[i] # q[j]
    BY <1>3
  <2> HIDE DEF D
  <2>4. q \in Injection(D, Found(rows))
    BY <2>3 DEF Injection, IsInjective
  <2>5. Cardinality(D) = Cardinality(Found(rows)) <=> q \in Surjection(D, Found(rows))
    BY <1>1, <2>4, FS_Injection
  <2>6. q \in Surjection(D, Found(rows))
    BY <2>2, <2>5 DEF D, n
  <2> QED BY <2>6 DEF Surjection, D
<1> DEFINE d == Deals(rows, parts, q, 1..n)[1..n]
<1>5. Dealt(rows, parts, q, n, d)
  <2> HIDE DEF q, n
  <2> QED BY <1>3, DealtFirst
<1>6. Deal(rows, parts) = d
  <2>1. DOMAIN q = 1..n
    <3> HIDE DEF q
    <3> QED BY <1>3
  <2>2. Deal(rows, parts) = Deals(rows, parts, q, DOMAIN q)[DOMAIN q]
    BY DealIsDeals
  <2> HIDE DEF q, n
  <2> QED BY <2>1, <2>2
<1> HIDE DEF q, n, d
<1>7. \A f \in Found(rows) : \E p \in 0..parts-1 : f \in d[p]
  BY <1>4, <1>5 DEF Dealt
<1> QED BY <1>5, <1>6, <1>7 DEF Dealt

-----------------------------------------------------------------------------
(* What a worker reads: the fragments a, in this order.                     *)

Share(rows, a) ==
  /\ a \in Seq(Found(rows))
  /\ \A i, j \in 1..Len(a) : i # j => a[i] # a[j]

(* Rows before fragment n of them, and in all of them.                      *)
Before(rows, a, n) == RowsIn(rows, {a[i] : i \in 1..n-1})
Total(rows, a) == Before(rows, a, Len(a) + 1)

LEMMA RowsWithin ==
  ASSUME NEW rows \in Seq(Nat), NEW S, NEW T, S \subseteq T, T \subseteq Found(rows)
  PROVE  RowsIn(rows, S) <= RowsIn(rows, T)
<1> DEFINE U == T \ S
<1>1. S \subseteq Found(rows) /\ U \subseteq Found(rows) /\ S \cap U = {} /\ S \cup U = T
  OBVIOUS
<1>2. \A f \in S \cup U : rows[f] \in Int
  BY <1>1, FoundFacts
<1> HIDE DEF U
<1>3. /\ IsFiniteSet(S) /\ RowsIn(rows, S) \in Nat
      /\ IsFiniteSet(U) /\ RowsIn(rows, U) \in Nat
  BY <1>1, RowsTyped
<1>4. SumOf(rows, S \cup U) = SumOf(rows, S) + SumOf(rows, U)
  BY <1>1, <1>2, <1>3, SumUnion
<1>5. RowsIn(rows, T) = RowsIn(rows, S) + RowsIn(rows, U)
  BY <1>1, <1>4, RowsAreSums
<1> QED BY <1>3, <1>5

LEMMA BeforeFacts ==
  ASSUME NEW rows \in Seq(Nat), NEW a, Share(rows, a)
  PROVE  /\ Before(rows, a, 1) = 0
         /\ \A n \in 1..Len(a)+1 : Before(rows, a, n) \in Nat
         /\ \A n \in 1..Len(a) : /\ a[n] \in Found(rows) /\ rows[a[n]] \in Nat \ {0}
                                 /\ Before(rows, a, n+1) = Before(rows, a, n) + rows[a[n]]
         /\ \A m, n \in 1..Len(a)+1 : m <= n => Before(rows, a, m) <= Before(rows, a, n)
<1> DEFINE Leading(n) == {a[i] : i \in 1..n-1}
<1>1. a \in Seq(Found(rows)) /\ Len(a) \in Nat /\ \A i \in 1..Len(a) : a[i] \in Found(rows)
  BY DEF Share
<1>2. \A n \in 1..Len(a)+1 : Leading(n) \subseteq Found(rows)
  BY <1>1
<1>3. \A n \in 1..Len(a)+1 : Before(rows, a, n) \in Nat
  <2>1. ASSUME NEW n \in 1..Len(a)+1
        PROVE  RowsIn(rows, Leading(n)) \in Nat
    <3> DEFINE S == Leading(n)
    <3>1. S \subseteq Found(rows)
      BY <1>2
    <3> HIDE DEF S
    <3>2. RowsIn(rows, S) \in Nat
      BY <3>1, RowsTyped
    <3> QED BY <3>2 DEF S
  <2> QED BY <2>1 DEF Before
<1>4. Before(rows, a, 1) = 0
  <2>1. Leading(1) = {}
    OBVIOUS
  <2>2. RowsIn(rows, {}) = 0
    BY SumEmpty, RowsAreSums
  <2> QED BY <2>1, <2>2 DEF Before
<1>5. ASSUME NEW n \in 1..Len(a)
      PROVE  /\ a[n] \in Found(rows) /\ rows[a[n]] \in Nat \ {0}
             /\ Before(rows, a, n+1) = Before(rows, a, n) + rows[a[n]]
  <2>1. a[n] \in Found(rows) /\ n + 1 \in 1..Len(a)+1 /\ n \in Nat
    BY <1>1
  <2>2. \A i \in 1..(n+1)-1 : i = n \/ i \in 1..n-1
    BY <2>1
  <2>3. \A i \in 1..n-1 : i \in 1..(n+1)-1 /\ i \in 1..Len(a) /\ i # n
    BY <1>1
  <2>4. n \in 1..(n+1)-1
    BY <2>1
  <2>5. \A i \in 1..n-1 : a[i] # a[n]
    BY <2>3 DEF Share
  <2> DEFINE S == Leading(n + 1)
             T == Leading(n)
  <2>6. S \subseteq Found(rows)
    BY <1>2, <2>1
  <2>7. a[n] \in S /\ S \ {a[n]} = T
    BY <2>2, <2>3, <2>4, <2>5
  <2> HIDE DEF S, T
  <2>8. RowsIn(rows, S) = rows[a[n]] + RowsIn(rows, S \ {a[n]})
        /\ RowsIn(rows, S \ {a[n]}) \in Nat /\ rows[a[n]] \in Nat \ {0}
    BY <2>6, <2>7, RowsWith
  <2>9. RowsIn(rows, S) = RowsIn(rows, T) + rows[a[n]]
    <3>1. RowsIn(rows, S) = rows[a[n]] + RowsIn(rows, T) /\ RowsIn(rows, T) \in Nat
      BY <2>7, <2>8, Zenon
    <3>2. rows[a[n]] \in Nat
      BY <2>8
    <3> QED BY <3>1, <3>2
  <2>10. Before(rows, a, n + 1) = RowsIn(rows, S) /\ Before(rows, a, n) = RowsIn(rows, T)
    BY DEF Before, S, T
  <2> QED BY <2>1, <2>8, <2>9, <2>10
<1>6. ASSUME NEW m \in 1..Len(a)+1, NEW n \in 1..Len(a)+1, m <= n
      PROVE  Before(rows, a, m) <= Before(rows, a, n)
  <2> DEFINE S == Leading(m)
             T == Leading(n)
  <2>1. T \subseteq Found(rows)
    BY <1>2
  <2>2. S \subseteq T
    <3>1. \A i \in 1..m-1 : i \in 1..n-1
      BY <1>6
    <3> QED BY <3>1
  <2> HIDE DEF S, T
  <2>3. RowsIn(rows, S) <= RowsIn(rows, T)
    BY <2>1, <2>2, RowsWithin
  <2> QED BY <2>3 DEF Before, S, T
<1> QED BY <1>3, <1>4, <1>5, <1>6

(* Two positions in equally long epochs that are equal are in the same one. *)
LEMMA SameEpoch ==
  ASSUME NEW t \in Nat, NEW d \in Nat, NEW e \in Nat, NEW x \in Nat, NEW y \in Nat,
         x < t, y < t, d * t + x = e * t + y
  PROVE  d = e
<1>1. ASSUME NEW m \in Nat, NEW n \in Nat, m < n
      PROVE  m * t + t <= n * t
  <2>1. n - m - 1 \in Nat
    BY <1>1
  <2>2. (n - m - 1) * t \in Nat
    BY <2>1
  <2>3. n * t = m * t + t + (n - m - 1) * t
    BY <2>1
  <2>4. m * t \in Nat
    OBVIOUS
  <2> QED BY <2>2, <2>3, <2>4
<1>2. d * t \in Nat /\ e * t \in Nat
  OBVIOUS
<1>3. ~(d < e)
  BY <1>1, <1>2
<1>4. ~(e < d)
  BY <1>1, <1>2
<1> QED BY <1>3, <1>4

LEMMA NextEpoch ==
  ASSUME NEW t \in Nat, NEW d \in Nat
  PROVE  (d + 1) * t = d * t + t /\ d * t \in Nat
OBVIOUS

-----------------------------------------------------------------------------
(* One worker: its fragments a, its cursor c, the rows e it has emitted.    *)

Row == [epoch : Nat, fragment : Nat, row : Nat]

(* The cursor is inside the fragments, or behind the last of them.          *)
Inside(a, c) ==
  /\ c.fragment <= Len(a) + 1
  /\ c.fragment > Len(a) => c.row = 0

(* Every emitted record is counted, and the count is that of the cursor.    *)
Counted(rows, a, c, e) ==
  /\ c.emitted = Len(e)
  /\ Len(e) = c.epoch * Total(rows, a) + Before(rows, a, c.fragment) + c.row

(* A record's place in the stream follows from what the record is.          *)
Numbered(rows, a, e) ==
  \A i \in 1..Len(e) : \E p \in 1..Len(a) :
    /\ e[i].fragment = a[p]
    /\ i = e[i].epoch * Total(rows, a) + Before(rows, a, p) + e[i].row + 1

(* The cursor is behind row n of the worker's p-th fragment in epoch d.     *)
Behind(c, d, p, n) ==
  \/ d < c.epoch
  \/ d = c.epoch /\ (p < c.fragment \/ (p = c.fragment /\ n < c.row))

(* All rows before the cursor were emitted.                                 *)
Covered(rows, a, c, e) ==
  \A d \in 0..c.epoch, p \in 1..Len(a) : \A n \in 0..rows[a[p]]-1 :
    Behind(c, d, p, n) =>
      \E i \in 1..Len(e) : e[i] = [epoch |-> d, fragment |-> a[p], row |-> n]

(* The cursor is not past the declared rows of its fragment.                *)
NotPast(rows, a, c) == c.fragment <= Len(a) => c.row <= rows[a[c.fragment]]

(* Rows past the declared ones can only be of the cursor's fragment.        *)
Declared(rows, a, c, e) ==
  NotPast(rows, a, c) => \A i \in 1..Len(e) : e[i].row < rows[e[i].fragment]

Worker(rows, a, c, e) ==
  /\ c \in CursorType /\ e \in Seq(Row)
  /\ Inside(a, c) /\ Counted(rows, a, c, e) /\ Numbered(rows, a, e)
  /\ Covered(rows, a, c, e) /\ Declared(rows, a, c, e)

LEMMA WorkerStarts ==
  ASSUME NEW rows \in Seq(Nat), NEW a, Share(rows, a)
  PROVE  Worker(rows, a, FirstCursor, <<>>)
<1>1. Len(a) \in Nat /\ Before(rows, a, 1) = 0 /\ Total(rows, a) \in Nat
  <2>1. Len(a) \in Nat
    BY DEF Share
  <2>2. Len(a) + 1 \in 1..Len(a)+1
    BY <2>1
  <2> QED BY <2>1, <2>2, BeforeFacts DEF Total
<1> DEFINE c == FirstCursor
           e == <<>>
<1>2. /\ c \in CursorType /\ c.epoch = 0 /\ c.fragment = 1 /\ c.row = 0 /\ c.emitted = 0
      /\ e \in Seq(Row) /\ Len(e) = 0 /\ 1..Len(e) = {}
  BY DEF FirstCursor, CursorType
<1>3. FirstCursor = c /\ <<>> = e
  OBVIOUS
<1> HIDE DEF c, e
<1>4. Inside(a, c)
  BY <1>1, <1>2 DEF Inside
<1>5. 0 * Total(rows, a) = 0
  BY <1>1
<1>6. Counted(rows, a, c, e)
  BY <1>1, <1>2, <1>5 DEF Counted
<1>7. Numbered(rows, a, e) /\ Declared(rows, a, c, e)
  BY <1>2 DEF Numbered, Declared
<1>8. Covered(rows, a, c, e)
  <2>1. \A d \in 0..c.epoch, p \in 1..Len(a) : \A n \in Nat : ~Behind(c, d, p, n)
    BY <1>1, <1>2 DEF Behind
  <2>2. \A m, n : n \in 0..m-1 => n \in Nat
    OBVIOUS
  <2> QED BY <2>1, <2>2 DEF Covered
<1> QED BY <1>2, <1>3, <1>4, <1>6, <1>7, <1>8 DEF Worker

LEMMA WorkerTypes ==
  ASSUME NEW rows \in Seq(Nat), NEW a, Share(rows, a), NEW c, NEW e, Worker(rows, a, c, e)
  PROVE  /\ Len(a) \in Nat /\ Len(e) \in Nat /\ Total(rows, a) \in Nat
         /\ c.epoch \in Nat /\ c.row \in Nat /\ c.emitted \in Nat
         /\ c.fragment \in 1..Len(a)+1 /\ Before(rows, a, c.fragment) \in Nat
         /\ \A i \in 1..Len(e) : e[i].epoch \in Nat /\ e[i].fragment \in Nat /\ e[i].row \in Nat
<1>1. Len(a) \in Nat /\ Len(e) \in Nat
  BY DEF Share, Worker
<1>2. c.epoch \in Nat /\ c.row \in Nat /\ c.emitted \in Nat /\ c.fragment \in Nat \ {0}
  BY DEF Worker, CursorType
<1>3. c.fragment \in 1..Len(a)+1
  BY <1>1, <1>2 DEF Worker, Inside
<1>4. Len(a) + 1 \in 1..Len(a)+1
  BY <1>1
<1>5. Before(rows, a, c.fragment) \in Nat /\ Total(rows, a) \in Nat
  BY <1>3, <1>4, BeforeFacts DEF Total
<1>6. \A i \in 1..Len(e) : e[i] \in Row
  BY DEF Worker
<1>7. \A i \in 1..Len(e) : e[i].epoch \in Nat /\ e[i].fragment \in Nat /\ e[i].row \in Nat
  BY <1>6 DEF Row
<1> QED BY <1>1, <1>2, <1>3, <1>5, <1>7

(* Rollover.                                                                *)
LEMMA WorkerRolls ==
  ASSUME NEW rows \in Seq(Nat), NEW a, Share(rows, a), NEW c, NEW e, Worker(rows, a, c, e),
         NEW k \in CursorType, c.fragment > Len(a),
         k.epoch = c.epoch + 1, k.fragment = 1, k.row = 0, k.emitted = c.emitted
  PROVE  Worker(rows, a, k, e)
<1> DEFINE T == Total(rows, a)
<1>1. /\ Len(a) \in Nat /\ Len(e) \in Nat /\ T \in Nat /\ c.epoch \in Nat
      /\ c.fragment \in 1..Len(a)+1
  BY WorkerTypes
<1>2. c.fragment = Len(a) + 1 /\ c.row = 0
  BY <1>1 DEF Worker, Inside
<1>3. Before(rows, a, 1) = 0 /\ Before(rows, a, c.fragment) = T
  BY <1>2, BeforeFacts DEF Total
<1>4. Inside(a, k)
  BY <1>1 DEF Inside
<1> HIDE DEF T
<1>5. Counted(rows, a, k, e)
  <2>1. c.emitted = Len(e) /\ Len(e) = c.epoch * T + T + 0
    BY <1>2, <1>3 DEF Worker, Counted, T
  <2>2. (c.epoch + 1) * T = c.epoch * T + T /\ c.epoch * T \in Nat
    BY <1>1, NextEpoch
  <2>3. Len(e) = (c.epoch + 1) * T + 0 + 0
    BY <1>1, <2>1, <2>2
  <2> QED BY <1>3, <2>1, <2>3 DEF Counted, T
<1>6. Covered(rows, a, k, e)
  <2>1. \A d \in 0..k.epoch, p \in 1..Len(a) : \A n \in 0..rows[a[p]]-1 :
          Behind(k, d, p, n) => d \in 0..c.epoch /\ Behind(c, d, p, n)
    BY <1>1, <1>2 DEF Behind
  <2>2. Covered(rows, a, c, e)
    BY DEF Worker
  <2> QED BY <2>1, <2>2 DEF Covered
<1>7. Declared(rows, a, k, e)
  <2>1. NotPast(rows, a, c)
    BY <1>1, <1>2 DEF NotPast
  <2> QED BY <2>1 DEF Worker, Declared
<1> QED BY <1>4, <1>5, <1>6, <1>7 DEF Worker

(* EndFragment.                                                             *)
LEMMA WorkerEndsFragment ==
  ASSUME NEW rows \in Seq(Nat), NEW a, Share(rows, a), NEW c, NEW e, Worker(rows, a, c, e),
         NEW k \in CursorType, c.fragment <= Len(a), c.row = rows[a[c.fragment]],
         k.epoch = c.epoch, k.fragment = c.fragment + 1, k.row = 0, k.emitted = c.emitted
  PROVE  Worker(rows, a, k, e)
<1> DEFINE T == Total(rows, a)
           m == c.fragment
<1>1. /\ Len(a) \in Nat /\ Len(e) \in Nat /\ T \in Nat /\ c.epoch \in Nat
      /\ m \in 1..Len(a)+1
  BY WorkerTypes
<1>2. m \in 1..Len(a) /\ m + 1 \in 1..Len(a)+1
  BY <1>1
<1>3. /\ Before(rows, a, m + 1) = Before(rows, a, m) + rows[a[m]]
      /\ Before(rows, a, m) \in Nat /\ rows[a[m]] \in Nat
  BY <1>1, <1>2, BeforeFacts
<1>4. Inside(a, k)
  BY <1>2 DEF Inside
<1> HIDE DEF T
<1>5. Counted(rows, a, k, e)
  <2>1. c.emitted = Len(e) /\ Len(e) = c.epoch * T + Before(rows, a, m) + c.row
    BY DEF Worker, Counted, T
  <2>2. c.epoch * T \in Nat
    BY <1>1
  <2> DEFINE b == Before(rows, a, m)
             r == rows[a[m]]
             s == c.epoch * T
  <2>3. b \in Nat /\ r \in Nat /\ s \in Nat /\ Len(e) = s + b + r /\ Before(rows, a, m + 1) = b + r
    BY <1>3, <2>1, <2>2
  <2> HIDE DEF b, r, s
  <2>4. Len(e) = s + Before(rows, a, m + 1) + 0
    BY <2>3
  <2> QED BY <2>1, <2>4 DEF Counted, T, s
<1>6. Covered(rows, a, k, e)
  <2>0. \A p \in 1..Len(a) : rows[a[p]] \in Nat
    BY BeforeFacts
  <2>1. \A d \in 0..k.epoch, p \in 1..Len(a) : \A n \in 0..rows[a[p]]-1 :
          Behind(k, d, p, n) => d \in 0..c.epoch /\ Behind(c, d, p, n)
    BY <1>1, <1>2, <2>0 DEF Behind
  <2>2. Covered(rows, a, c, e)
    BY DEF Worker
  <2> QED BY <2>1, <2>2 DEF Covered
<1>7. Declared(rows, a, k, e)
  <2>1. NotPast(rows, a, c)
    BY <1>3 DEF NotPast
  <2> QED BY <2>1 DEF Worker, Declared
<1> QED BY <1>4, <1>5, <1>6, <1>7 DEF Worker

(* Emit.                                                                    *)
LEMMA WorkerEmits ==
  ASSUME NEW rows \in Seq(Nat), NEW a, Share(rows, a), NEW c, NEW e, Worker(rows, a, c, e),
         NEW k \in CursorType, c.fragment <= Len(a), NEW g,
         k.epoch = c.epoch, k.fragment = c.fragment, k.row = c.row + 1,
         k.emitted = c.emitted + 1,
         g = Append(e, [epoch |-> c.epoch, fragment |-> a[c.fragment], row |-> c.row])
  PROVE  Worker(rows, a, k, g)
<1> DEFINE T == Total(rows, a)
           m == c.fragment
           x == [epoch |-> c.epoch, fragment |-> a[m], row |-> c.row]
<1>1. /\ Len(a) \in Nat /\ Len(e) \in Nat /\ T \in Nat /\ c.epoch \in Nat /\ c.row \in Nat
      /\ m \in 1..Len(a)+1 /\ Before(rows, a, m) \in Nat
  BY WorkerTypes
<1>2. m \in 1..Len(a)
  BY <1>1
<1>3. a[m] \in Nat /\ rows[a[m]] \in Nat
  BY <1>2, BeforeFacts, FoundFacts
<1>4. x \in Row /\ x.epoch = c.epoch /\ x.fragment = a[m] /\ x.row = c.row
  BY <1>1, <1>3 DEF Row
<1>5. e \in Seq(Row)
  BY DEF Worker
<1> HIDE DEF x
<1>6. /\ g \in Seq(Row) /\ Len(g) = Len(e) + 1 /\ g[Len(e) + 1] = x
      /\ \A i \in 1..Len(e) : g[i] = e[i] /\ i \in 1..Len(g)
  <2>1. g = Append(e, x)
    BY DEF x
  <2> QED BY <1>4, <1>5, <2>1
<1>7. \A i \in 1..Len(g) : i = Len(e) + 1 \/ i \in 1..Len(e)
  BY <1>1, <1>6
<1>8. Len(e) + 1 \in 1..Len(g)
  BY <1>1, <1>6
<1>9. Inside(a, k)
  BY <1>1, <1>2 DEF Inside
<1> HIDE DEF T
<1>10. c.emitted = Len(e) /\ Len(e) = c.epoch * T + Before(rows, a, m) + c.row
  BY DEF Worker, Counted, T
<1>11. Counted(rows, a, k, g)
  <2>1. c.epoch * T \in Nat
    BY <1>1
  <2> DEFINE b == Before(rows, a, m)
             s == c.epoch * T
  <2>2. b \in Nat /\ s \in Nat /\ Len(e) = s + b + c.row
    BY <1>1, <1>10, <2>1
  <2> HIDE DEF b, s
  <2>3. Len(e) + 1 = s + b + (c.row + 1)
    BY <1>1, <2>2
  <2> QED BY <1>6, <1>10, <2>3 DEF Counted, T, b, s
<1>12. Numbered(rows, a, g)
  <2>1. ASSUME NEW i \in 1..Len(g)
        PROVE  \E p \in 1..Len(a) :
                 /\ g[i].fragment = a[p]
                 /\ i = g[i].epoch * T + Before(rows, a, p) + g[i].row + 1
    <3>1. CASE i = Len(e) + 1
      BY <1>2, <1>4, <1>6, <1>10, <3>1
    <3>2. CASE i \in 1..Len(e)
      BY <1>6, <3>2 DEF Worker, Numbered, T
    <3> QED BY <1>7, <3>1, <3>2
  <2> QED BY <2>1 DEF Numbered, T
<1>13. Covered(rows, a, k, g)
  <2>1. ASSUME NEW d \in 0..k.epoch, NEW p \in 1..Len(a), NEW n \in 0..rows[a[p]]-1,
               Behind(k, d, p, n)
        PROVE  \E i \in 1..Len(g) : g[i] = [epoch |-> d, fragment |-> a[p], row |-> n]
    <3>1. CASE Behind(c, d, p, n)
      <4>1. \E i \in 1..Len(e) : e[i] = [epoch |-> d, fragment |-> a[p], row |-> n]
        BY <2>1, <3>1 DEF Worker, Covered
      <4> QED BY <1>6, <4>1
    <3>2. CASE ~Behind(c, d, p, n)
      <4>1. d = c.epoch /\ p = m /\ n = c.row
        BY <1>1, <1>2, <2>1, <3>2 DEF Behind
      <4> QED BY <1>6, <1>8, <4>1 DEF x
    <3> QED BY <3>1, <3>2
  <2> QED BY <2>1 DEF Covered
<1>14. Declared(rows, a, k, g)
  <2> SUFFICES ASSUME NotPast(rows, a, k), NEW i \in 1..Len(g)
               PROVE  g[i].row < rows[g[i].fragment]
    BY DEF Declared
  <2>1. c.row + 1 <= rows[a[m]]
    BY <1>2 DEF NotPast
  <2>2. NotPast(rows, a, c)
    BY <1>1, <1>3, <2>1 DEF NotPast
  <2>3. CASE i = Len(e) + 1
    BY <1>1, <1>3, <1>4, <1>6, <2>1, <2>3
  <2>4. CASE i \in 1..Len(e)
    BY <1>6, <2>2, <2>4 DEF Worker, Declared
  <2> QED BY <1>7, <2>3, <2>4
<1> QED BY <1>6, <1>9, <1>11, <1>12, <1>13, <1>14 DEF Worker

-----------------------------------------------------------------------------
(* What follows for one worker and for two.                                 *)

LEMMA WorkerOnce ==
  ASSUME NEW rows \in Seq(Nat), NEW a, Share(rows, a), NEW c, NEW e, Worker(rows, a, c, e),
         NEW i \in 1..Len(e), NEW j \in 1..Len(e), e[i] = e[j]
  PROVE  i = j
<1>1. PICK p \in 1..Len(a) :
        /\ e[i].fragment = a[p]
        /\ i = e[i].epoch * Total(rows, a) + Before(rows, a, p) + e[i].row + 1
  BY DEF Worker, Numbered
<1>2. PICK q \in 1..Len(a) :
        /\ e[j].fragment = a[q]
        /\ j = e[j].epoch * Total(rows, a) + Before(rows, a, q) + e[j].row + 1
  BY DEF Worker, Numbered
<1>3. p = q
  BY <1>1, <1>2 DEF Share
<1> QED BY <1>1, <1>2, <1>3

LEMMA WorkersApart ==
  ASSUME NEW rows, NEW a, NEW b, NEW c, NEW k, NEW e, NEW g,
         Worker(rows, a, c, e), Worker(rows, b, k, g),
         \A p \in 1..Len(a), q \in 1..Len(b) : a[p] # b[q],
         NEW i \in 1..Len(e), NEW j \in 1..Len(g)
  PROVE  e[i] # g[j]
<1>1. PICK p \in 1..Len(a) : e[i].fragment = a[p]
  BY DEF Worker, Numbered
<1>2. PICK q \in 1..Len(b) : g[j].fragment = b[q]
  BY DEF Worker, Numbered
<1> QED BY <1>1, <1>2

LEMMA LastRow ==
  ASSUME NEW rows \in Seq(Nat), NEW a, Share(rows, a), NEW c, NEW e, Worker(rows, a, c, e),
         NotPast(rows, a, c), Len(e) # 0
  PROVE  /\ e[Len(e)].epoch \in Nat
         /\ \E x \in Nat : /\ x < Total(rows, a)
                           /\ Len(e) = e[Len(e)].epoch * Total(rows, a) + x + 1
<1> DEFINE i == Len(e)
           T == Total(rows, a)
<1>1. Len(a) \in Nat /\ i \in 1..Len(e) /\ T \in Nat
  BY WorkerTypes
<1>2. e[i].epoch \in Nat /\ e[i].row \in Nat
  BY <1>1, WorkerTypes
<1>3. e[i].row < rows[e[i].fragment]
  BY <1>1 DEF Worker, Declared
<1>4. PICK p \in 1..Len(a) : e[i].fragment = a[p] /\ i = e[i].epoch * T + Before(rows, a, p) + e[i].row + 1
  BY <1>1 DEF Worker, Numbered
<1>5. p + 1 \in 1..Len(a)+1 /\ p \in 1..Len(a)+1 /\ Len(a) + 1 \in 1..Len(a)+1 /\ p + 1 <= Len(a) + 1
  BY <1>1
<1>6. /\ Before(rows, a, p + 1) = Before(rows, a, p) + rows[a[p]] /\ rows[a[p]] \in Nat
      /\ Before(rows, a, p) \in Nat
  BY <1>5, BeforeFacts
<1>7. Before(rows, a, p + 1) <= T
  BY <1>5, BeforeFacts DEF Total
<1> HIDE DEF T
<1> DEFINE b == Before(rows, a, p)
           s == e[i].epoch * T
           r == rows[a[p]]
           n == e[i].row
<1>8. b \in Nat /\ r \in Nat /\ n \in Nat /\ n < r /\ b + r <= T
  BY <1>2, <1>3, <1>4, <1>6, <1>7
<1>9. s \in Nat /\ i = s + b + n + 1
  BY <1>1, <1>2, <1>4, NextEpoch
<1> HIDE DEF b, s, r, n
<1>10. b + n \in Nat /\ b + n < T /\ i = s + (b + n) + 1
  BY <1>1, <1>8, <1>9
<1>11. \E x \in Nat : x < T /\ i = s + x + 1
  BY <1>10
<1> QED BY <1>2, <1>11 DEF T, s

LEMMA LastTogether ==
  ASSUME NEW rows \in Seq(Nat), NEW a, Share(rows, a), NEW b, Share(rows, b),
         NEW c, NEW k, NEW e, NEW g,
         Worker(rows, a, c, e), Worker(rows, b, k, g),
         NotPast(rows, a, c), NotPast(rows, b, k),
         Total(rows, a) = Total(rows, b), Len(e) = Len(g), Len(e) # 0
  PROVE  e[Len(e)].epoch = g[Len(g)].epoch
<1> DEFINE T == Total(rows, a)
           d == e[Len(e)].epoch
           f == g[Len(g)].epoch
<1>1. T \in Nat
  BY WorkerTypes
<1>2. d \in Nat /\ \E x \in Nat : x < T /\ Len(e) = d * T + x + 1
  BY LastRow
<1>3. f \in Nat /\ \E y \in Nat : y < T /\ Len(g) = f * T + y + 1
  BY LastRow
<1> HIDE DEF T, d, f
<1>4. PICK x \in Nat : x < T /\ Len(e) = d * T + x + 1
  BY <1>2
<1>5. PICK y \in Nat : y < T /\ Len(g) = f * T + y + 1
  BY <1>3
<1>6. d * T \in Nat /\ f * T \in Nat
  BY <1>1, <1>2, <1>3, NextEpoch
<1>7. d * T + x = f * T + y
  <2> DEFINE m == d * T
             n == f * T
  <2>1. m \in Nat /\ n \in Nat /\ Len(e) = m + x + 1 /\ Len(g) = n + y + 1
    BY <1>4, <1>5, <1>6
  <2> HIDE DEF m, n
  <2>2. m + x + 1 = n + y + 1
    BY <2>1, Zenon
  <2>3. m + x = n + y
    BY <2>1, <2>2
  <2> QED BY <2>3 DEF m, n
<1>8. d = f
  BY <1>1, <1>2, <1>3, <1>4, <1>5, <1>7, SameEpoch
<1> QED BY <1>8 DEF d, f

(* An epoch before the cursor is complete.                                  *)
LEMMA EpochComplete ==
  ASSUME NEW rows \in Seq(Nat), NEW a, Share(rows, a), NEW c, NEW e, Worker(rows, a, c, e),
         NEW d \in Nat, d < c.epoch \/ (d = c.epoch /\ c.fragment > Len(a)),
         NEW p \in 1..Len(a), NEW n \in 0..rows[a[p]]-1
  PROVE  \E i \in 1..Len(e) : e[i] = [epoch |-> d, fragment |-> a[p], row |-> n]
<1>1. Len(a) \in Nat /\ c.fragment \in 1..Len(a)+1
  BY WorkerTypes
<1>2. Behind(c, d, p, n) /\ d \in 0..c.epoch
  <2>1. c.epoch \in Nat
    BY WorkerTypes
  <2> QED BY <1>1, <2>1 DEF Behind
<1> QED BY <1>2 DEF Worker, Covered

-----------------------------------------------------------------------------
(* The assignment of a job.                                                 *)

LEMMA PartsPositive ==
  ASSUME NEW t \in Topologies
  PROVE  Parts(t) \in Nat \ {0}
<1>1. t.world \in Nat \ {0} /\ t.workers \in Nat \ {0}
  BY ColumnarAssumption
<1>2. \A m, n \in Nat \ {0} : m * n \in Nat \ {0}
  <2> TAKE m, n \in Nat \ {0}
  <2>1. m - 1 \in Nat /\ n \in Nat /\ n # 0
    OBVIOUS
  <2>2. ((m - 1) + 1) * n = (m - 1) * n + n /\ (m - 1) * n \in Nat
    BY <2>1, NextEpoch
  <2>3. (m - 1) + 1 = m
    OBVIOUS
  <2>4. m * n = (m - 1) * n + n
    BY <2>2, <2>3
  <2> QED BY <2>1, <2>2, <2>4
<1> QED BY <1>1, <1>2 DEF Parts

LEMMA ListsAll ==
  ASSUME NEW S, NEW R, IsFiniteSet(S), NEW f, Lists(f, S, R)
  PROVE  /\ f \in Seq(S) /\ ToSet(f) = S /\ {f[i] : i \in 1..Len(f)} = S
         /\ \A i, j \in 1..Len(f) : i # j => f[i] # f[j]
<1> DEFINE n == Cardinality(S)
           D == 1..n
<1>1. /\ f \in [D -> S] /\ n \in Nat
      /\ \A i, j \in D : i # j => f[i] # f[j]
  BY ListingIs
<1>2. f \in Seq(S) /\ Len(f) = n
  <2> HIDE DEF n
  <2> QED BY <1>1
<1>3. Cardinality(D) = Cardinality(S)
  <2> HIDE DEF n
  <2>1. Cardinality(D) = n
    BY <1>1, FirstFinite
  <2> QED BY <2>1 DEF n
<1> HIDE DEF D
<1>4. f \in Injection(D, S)
  BY <1>1 DEF Injection, IsInjective
<1>5. f \in Surjection(D, S)
  BY <1>3, <1>4, FS_Injection
<1>6. \A x \in S : \E i \in D : f[i] = x
  BY <1>5 DEF Surjection
<1>7. DOMAIN f = D /\ 1..Len(f) = D
  BY <1>1, <1>2 DEF D
<1>8. {f[i] : i \in D} = S
  BY <1>1, <1>6
<1> QED BY <1>1, <1>2, <1>7, <1>8 DEF ToSet

LEMMA AssignmentFacts ==
  ASSUME NEW rows \in Seq(Nat), NEW t \in Topologies
  PROVE  /\ DOMAIN Assignment(rows, t) = Part(t)
         /\ \A w \in Part(t) :
              /\ Share(rows, Assignment(rows, t)[w])
              /\ ToSet(Assignment(rows, t)[w]) = Deal(rows, Parts(t))[w]
              /\ Total(rows, Assignment(rows, t)[w]) = RowsIn(rows, Deal(rows, Parts(t))[w])
         /\ \A v, w \in Part(t) : v # w =>
              \A i \in 1..Len(Assignment(rows, t)[v]), j \in 1..Len(Assignment(rows, t)[w]) :
                Assignment(rows, t)[v][i] # Assignment(rows, t)[w][j]
<1> DEFINE d == Deal(rows, Parts(t))
           A == Assignment(rows, t)
<1>1. Holds(rows, Parts(t), d) /\ Apart(d)
  BY PartsPositive, DealFacts
<1>2. A = [w \in Part(t) |-> Sorted(d[w], Earlier(rows))]
  BY DEF Assignment
<1> HIDE DEF d, A
<1>3. d \in [Part(t) -> SUBSET Found(rows)] /\ DOMAIN d = Part(t)
  BY <1>1 DEF Holds, Part
<1>4. ASSUME NEW w \in Part(t)
      PROVE  /\ A[w] \in Seq(d[w]) /\ ToSet(A[w]) = d[w] /\ {A[w][i] : i \in 1..Len(A[w])} = d[w]
             /\ \A i, j \in 1..Len(A[w]) : i # j => A[w][i] # A[w][j]
  <2> DEFINE S == d[w]
             f == Sorted(S, Earlier(rows))
  <2>1. S \subseteq Found(rows)
    BY <1>3
  <2>2. A[w] = f
    BY <1>2
  <2> HIDE DEF S
  <2>3. IsFiniteSet(S)
    BY <2>1, FoundFacts, FS_Subset
  <2>4. Orders(Earlier(rows), S)
    BY <2>1, FoundFacts, OrdersSubset
  <2>5. Lists(f, S, Earlier(rows))
    BY <2>3, <2>4, SortedLists
  <2> HIDE DEF f
  <2>6. /\ f \in Seq(S) /\ ToSet(f) = S /\ {f[i] : i \in 1..Len(f)} = S
        /\ \A i, j \in 1..Len(f) : i # j => f[i] # f[j]
    BY <2>3, <2>5, ListsAll
  <2> QED BY <2>2, <2>6 DEF S
<1>5. ASSUME NEW w \in Part(t)
      PROVE  Share(rows, A[w]) /\ Total(rows, A[w]) = RowsIn(rows, d[w])
  <2>1. d[w] \subseteq Found(rows)
    BY <1>3
  <2>2. A[w] \in Seq(Found(rows)) /\ Len(A[w]) \in Nat
    BY <1>4, <2>1
  <2>3. 1..(Len(A[w]) + 1) - 1 = 1..Len(A[w])
    BY <2>2
  <2>4. {A[w][i] : i \in 1..(Len(A[w]) + 1) - 1} = d[w]
    BY <1>4, <2>3
  <2> QED BY <1>4, <2>2, <2>4 DEF Share, Total, Before
<1>6. ASSUME NEW v \in Part(t), NEW w \in Part(t), v # w,
             NEW i \in 1..Len(A[v]), NEW j \in 1..Len(A[w])
      PROVE  A[v][i] # A[w][j]
  <2>1. A[v][i] \in d[v] /\ A[w][j] \in d[w]
    BY <1>4
  <2> QED BY <1>1, <1>3, <1>6, <2>1 DEF Apart
<1>7. DOMAIN A = Part(t)
  BY <1>2
<1> QED BY <1>4, <1>5, <1>6, <1>7 DEF d, A

-----------------------------------------------------------------------------
(* The inductive invariant.                                                 *)

Types ==
  /\ actual \in Seq(Nat) /\ declared \in Seq(Nat) /\ intact \in BOOLEAN
  /\ topology \in Topologies
  /\ assigned = Assignment(declared, topology)
  /\ cursor \in [Workers -> CursorType]
  /\ open \in [Workers -> Nat \cup {None}]
  /\ calling \in [Workers -> BOOLEAN]
  /\ status \in [Workers -> {"reading", "ended", "failed"}]
  /\ seen \in [Workers -> Seq(Row)]

(* A call is a reading worker's, its iterator is at the cursor, and a worker *)
(* stops only at the end of a source that does not repeat.                  *)
CallInv ==
  \A w \in Workers :
    /\ calling[w] => status[w] = "reading"
    /\ open[w] # None => open[w] = cursor[w].row
    /\ status[w] = "ended" => ~repeat /\ PastLast(w)
    /\ ~repeat => cursor[w].epoch = 0

ReadInv == \A w \in Workers : Worker(declared, assigned[w], cursor[w], seen[w])

(* Only a rewritten file has more rows than the source declared.            *)
IntactInv ==
  intact => actual = declared /\ \A w \in Workers : NotPast(declared, assigned[w], cursor[w])

(* The workers of a repeating source have equally many rows, or none reads. *)
EvenInv ==
  repeat => \/ \A w \in Workers : status[w] = "failed" /\ seen[w] = <<>>
            \/ \A v, w \in Workers : Total(declared, assigned[v]) = Total(declared, assigned[w])

(* A checkpoint holds the position of the workers of a job.                 *)
SavedOk(s) ==
  /\ s.state.topology \in Topologies /\ s.state.identity \in Seq(Nat)
  /\ s.state.assigned = Assignment(s.state.identity, s.state.topology)
  /\ s.state.cursor \in [Part(s.state.topology) -> CursorType]
  /\ s.seen \in [Part(s.state.topology) -> Seq(Row)]
  /\ \A w \in Part(s.state.topology) :
       Worker(s.state.identity, s.state.assigned[w], s.state.cursor[w], s.seen[w])

SavedInv == saved # NotSaved => SavedOk(saved)

IInv == Types /\ CallInv /\ ReadInv /\ IntactInv /\ EvenInv /\ SavedInv

(* What a job that was just started has.                                    *)
LEMMA FreshJob ==
  ASSUME NEW rows \in Seq(Nat), NEW t \in Topologies
  PROVE  /\ \A w \in Part(t) :
              /\ Worker(rows, Assignment(rows, t)[w], FirstCursor, <<>>)
              /\ NotPast(rows, Assignment(rows, t)[w], FirstCursor)
         /\ repeat /\ Shardable(rows, t) =>
              \A v, w \in Part(t) : Total(rows, Assignment(rows, t)[v])
                                      = Total(rows, Assignment(rows, t)[w])
<1> DEFINE A == Assignment(rows, t)
           d == Deal(rows, Parts(t))
<1>1. \A w \in Part(t) : Share(rows, A[w]) /\ Total(rows, A[w]) = RowsIn(rows, d[w])
  BY AssignmentFacts
<1> HIDE DEF A, d
<1>2. ASSUME NEW w \in Part(t)
      PROVE  Worker(rows, A[w], FirstCursor, <<>>) /\ NotPast(rows, A[w], FirstCursor)
  <2> DEFINE a == A[w]
  <2>1. Share(rows, a)
    BY <1>1
  <2> HIDE DEF a
  <2>2. Worker(rows, a, FirstCursor, <<>>)
    BY <2>1, WorkerStarts
  <2>3. FirstCursor.row = 0 /\ FirstCursor.fragment = 1
    BY DEF FirstCursor
  <2>4. Len(a) \in Nat /\ \A n \in 1..Len(a) : rows[a[n]] \in Nat \ {0}
    BY <2>1, BeforeFacts DEF Share
  <2>5. NotPast(rows, a, FirstCursor)
    BY <2>3, <2>4 DEF NotPast
  <2> QED BY <2>2, <2>5 DEF a
<1>3. ASSUME repeat, Shardable(rows, t), NEW v \in Part(t), NEW w \in Part(t)
      PROVE  Total(rows, A[v]) = Total(rows, A[w])
  <2>1. Parts(t) = 1 \/ RowsIn(rows, d[v]) = RowsIn(rows, d[w])
    BY <1>3 DEF Shardable, d
  <2>2. CASE Parts(t) = 1
    <3>1. v = w
      BY <2>2 DEF Part
    <3> QED BY <3>1
  <2> QED BY <1>1, <2>1, <2>2
<1> QED BY <1>2, <1>3 DEF A

LEMMA InitInv == Init => IInv
<1> SUFFICES ASSUME Init PROVE IInv
  OBVIOUS
<1> USE DEF Workers
<1> DEFINE A == Assignment(actual, topology)
<1>1. actual \in Seq(Nat) /\ topology \in Topologies
  BY ColumnarAssumption DEF Init
<1>2. /\ \A w \in Part(topology) : Worker(actual, A[w], FirstCursor, <<>>)
                                   /\ NotPast(actual, A[w], FirstCursor)
      /\ repeat /\ Shardable(actual, topology) =>
           \A v, w \in Part(topology) : Total(actual, A[v]) = Total(actual, A[w])
  BY <1>1, FreshJob
<1>3. /\ declared = actual /\ intact = TRUE /\ assigned = A
      /\ cursor = [w \in Workers |-> FirstCursor] /\ open = [w \in Workers |-> None]
      /\ calling = [w \in Workers |-> FALSE] /\ saved = NotSaved /\ seen = [w \in Workers |-> <<>>]
      /\ status = [w \in Workers |-> IF Shardable(actual, topology) THEN "reading" ELSE "failed"]
  BY DEF Init
<1>4. FirstCursor \in CursorType /\ FirstCursor.epoch = 0
  BY DEF FirstCursor, CursorType
<1> HIDE DEF A
<1>5. \A w \in Workers : /\ cursor[w] = FirstCursor /\ open[w] = None /\ calling[w] = FALSE
                         /\ status[w] \in {"reading", "failed"} /\ seen[w] = <<>>
                         /\ (~Shardable(actual, topology) => status[w] = "failed")
  BY <1>3
<1>6. Types
  <2>1. cursor \in [Workers -> CursorType] /\ open \in [Workers -> Nat \cup {None}]
        /\ calling \in [Workers -> BOOLEAN] /\ seen \in [Workers -> Seq(Row)]
    BY <1>3, <1>4
  <2>2. status \in [Workers -> {"reading", "ended", "failed"}]
    BY <1>3
  <2> QED BY <1>1, <1>3, <2>1, <2>2 DEF Types, A
<1>7. CallInv
  BY <1>4, <1>5 DEF CallInv
<1>8. ReadInv
  BY <1>2, <1>3, <1>5 DEF ReadInv
<1>9. IntactInv
  BY <1>2, <1>3, <1>5 DEF IntactInv
<1>10. EvenInv
  BY <1>2, <1>3, <1>5 DEF EvenInv
<1> QED BY <1>3, <1>6, <1>7, <1>8, <1>9, <1>10 DEF IInv, SavedInv

LEMMA CrashInv == IInv /\ Crash => IInv'
<1> SUFFICES ASSUME IInv, Crash PROVE IInv'
  OBVIOUS
<1> USE DEF Workers
<1>1. PICK t \in Topologies : Started(t)
  BY DEF Crash
<1> DEFINE A == Assignment(actual, t)
<1>2. actual \in Seq(Nat) /\ actual' = actual /\ repeat' = repeat /\ saved' = saved
  BY DEF IInv, Types, Crash
<1>3. /\ \A w \in Part(t) : Worker(actual, A[w], FirstCursor, <<>>)
                            /\ NotPast(actual, A[w], FirstCursor)
      /\ repeat /\ Shardable(actual, t) =>
           \A v, w \in Part(t) : Total(actual, A[v]) = Total(actual, A[w])
  BY <1>2, FreshJob
<1>4. /\ topology' = t /\ declared' = actual /\ intact' = TRUE /\ assigned' = A
      /\ cursor' = [w \in Part(t) |-> FirstCursor] /\ open' = [w \in Part(t) |-> None]
      /\ calling' = [w \in Part(t) |-> FALSE] /\ seen' = [w \in Part(t) |-> <<>>]
      /\ status' = [w \in Part(t) |-> IF Shardable(actual, t) THEN "reading" ELSE "failed"]
  BY <1>1 DEF Started
<1>5. FirstCursor \in CursorType /\ FirstCursor.epoch = 0
  BY DEF FirstCursor, CursorType
<1> HIDE DEF A
<1>6. Workers' = Part(t)
  BY <1>4
<1>7. \A w \in Part(t) : /\ cursor'[w] = FirstCursor /\ open'[w] = None /\ calling'[w] = FALSE
                         /\ status'[w] \in {"reading", "failed"} /\ seen'[w] = <<>>
                         /\ (~Shardable(actual, t) => status'[w] = "failed")
  BY <1>4
<1>8. Types'
  <2>1. cursor' \in [Part(t) -> CursorType] /\ open' \in [Part(t) -> Nat \cup {None}]
        /\ calling' \in [Part(t) -> BOOLEAN] /\ seen' \in [Part(t) -> Seq(Row)]
    BY <1>4, <1>5
  <2>2. status' \in [Part(t) -> {"reading", "ended", "failed"}]
    BY <1>4
  <2> QED BY <1>2, <1>4, <2>1, <2>2 DEF Types, A
<1>9. CallInv'
  BY <1>4, <1>5, <1>7 DEF CallInv
<1>10. ReadInv'
  BY <1>3, <1>4, <1>7 DEF ReadInv
<1>11. IntactInv'
  BY <1>2, <1>3, <1>4, <1>7 DEF IntactInv
<1>12. EvenInv'
  BY <1>2, <1>3, <1>4, <1>7 DEF EvenInv
<1>13. SavedInv'
  BY <1>2 DEF SavedInv, IInv
<1> QED BY <1>8, <1>9, <1>10, <1>11, <1>12, <1>13 DEF IInv

-----------------------------------------------------------------------------
(* The steps of a worker.                                                   *)

LEMMA WorkerFacts ==
  ASSUME IInv, NEW w \in Workers
  PROVE  /\ Share(declared, assigned[w]) /\ declared \in Seq(Nat)
         /\ cursor[w] \in CursorType /\ Len(assigned[w]) \in Nat
         /\ Worker(declared, assigned[w], cursor[w], seen[w])
<1>1. /\ declared \in Seq(Nat) /\ topology \in Topologies /\ cursor[w] \in CursorType
      /\ assigned = Assignment(declared, topology) /\ w \in Part(topology)
  BY DEF IInv, Types, Workers
<1>2. Share(declared, assigned[w])
  <2>1. \A v \in Part(topology) : Share(declared, Assignment(declared, topology)[v])
    BY <1>1, AssignmentFacts
  <2> QED BY <1>1, <2>1
<1>3. Worker(declared, assigned[w], cursor[w], seen[w])
  BY DEF IInv, ReadInv
<1>4. Len(assigned[w]) \in Nat
  BY <1>2 DEF Share
<1> QED BY <1>1, <1>2, <1>3, <1>4

LEMMA CallStep ==
  ASSUME IInv, NEW w \in Workers, Call(w)
  PROVE  IInv'
<1> USE DEF Workers
<1>1. /\ actual' = actual /\ intact' = intact /\ repeat' = repeat /\ topology' = topology
      /\ declared' = declared /\ assigned' = assigned /\ cursor' = cursor /\ open' = open
      /\ status' = status /\ saved' = saved /\ seen' = seen
      /\ calling' = [calling EXCEPT ![w] = TRUE] /\ status[w] = "reading"
  BY DEF Call, jobVars
<1>2. Types /\ CallInv /\ ReadInv /\ IntactInv /\ EvenInv /\ SavedInv
  BY DEF IInv
<1>3. Types'
  <2>1. calling' \in [Workers -> BOOLEAN]
    BY <1>1, <1>2 DEF Types
  <2> QED BY <1>1, <1>2, <2>1 DEF Types
<1>4. CallInv'
  BY <1>1, <1>2 DEF Types, CallInv, PastLast
<1>5. ReadInv' /\ IntactInv' /\ EvenInv' /\ SavedInv'
  BY <1>1, <1>2 DEF ReadInv, IntactInv, EvenInv, SavedInv
<1> QED BY <1>3, <1>4, <1>5 DEF IInv

LEMMA StopStep ==
  ASSUME IInv, NEW w \in Workers, Stop(w)
  PROVE  IInv'
<1> USE DEF Workers
<1>1. /\ actual' = actual /\ intact' = intact /\ repeat' = repeat /\ topology' = topology
      /\ declared' = declared /\ assigned' = assigned /\ cursor' = cursor /\ open' = open
      /\ saved' = saved /\ seen' = seen
      /\ calling' = [calling EXCEPT ![w] = FALSE] /\ status' = [status EXCEPT ![w] = "ended"]
      /\ calling[w] /\ PastLast(w) /\ ~repeat
  BY DEF Stop, Return, jobVars
<1>2. Types /\ CallInv /\ ReadInv /\ IntactInv /\ EvenInv /\ SavedInv
  BY DEF IInv
<1>3. Types'
  <2>1. calling' \in [Workers -> BOOLEAN] /\ status' \in [Workers -> {"reading", "ended", "failed"}]
    BY <1>1, <1>2 DEF Types
  <2> QED BY <1>1, <1>2, <2>1 DEF Types
<1>4. CallInv'
  BY <1>1, <1>2 DEF Types, CallInv, PastLast
<1>5. ReadInv' /\ IntactInv' /\ SavedInv' /\ EvenInv'
  BY <1>1, <1>2 DEF ReadInv, IntactInv, SavedInv, EvenInv
<1> QED BY <1>3, <1>4, <1>5 DEF IInv

LEMMA ActivateStep ==
  ASSUME IInv, NEW w \in Workers, Activate(w)
  PROVE  IInv'
<1> USE DEF Workers
<1>1. /\ actual' = actual /\ intact' = intact /\ repeat' = repeat /\ topology' = topology
      /\ declared' = declared /\ assigned' = assigned /\ cursor' = cursor
      /\ saved' = saved /\ seen' = seen /\ calling[w]
  BY DEF Activate, jobVars
<1>2. \/ open' = [open EXCEPT ![w] = cursor[w].row] /\ calling' = calling /\ status' = status
      \/ /\ open' = open /\ calling' = [calling EXCEPT ![w] = FALSE]
         /\ status' = [status EXCEPT ![w] = "failed"]
  BY DEF Activate, Return
<1>3. Types /\ CallInv /\ ReadInv /\ IntactInv /\ EvenInv /\ SavedInv
  BY DEF IInv
<1>4. cursor[w].row \in Nat
  BY <1>3 DEF Types, CursorType
<1>5. Types'
  <2>1. calling' \in [Workers -> BOOLEAN] /\ status' \in [Workers -> {"reading", "ended", "failed"}]
    BY <1>2, <1>3 DEF Types
  <2>2. open' \in [Workers -> Nat \cup {None}]
    BY <1>2, <1>3, <1>4 DEF Types
  <2> QED BY <1>1, <1>3, <2>1, <2>2 DEF Types
<1>6. CallInv'
  <2>1. \A v \in Workers : open'[v] # None => open'[v] = cursor'[v].row
    BY <1>1, <1>2, <1>3 DEF Types, CallInv
  <2>2. \A v \in Workers :
          /\ calling'[v] => status'[v] = "reading"
          /\ status'[v] = "ended" => status[v] = "ended"
    BY <1>2, <1>3 DEF Types, CallInv
  <2>3. \A v \in Workers :
          /\ status'[v] = "ended" => ~repeat' /\ PastLast(v)'
          /\ ~repeat' => cursor'[v].epoch = 0
    BY <1>1, <1>3, <2>2 DEF CallInv, PastLast
  <2> QED BY <1>1, <2>1, <2>2, <2>3 DEF CallInv
<1>7. ReadInv' /\ IntactInv' /\ SavedInv'
  BY <1>1, <1>3 DEF ReadInv, IntactInv, SavedInv
<1>8. EvenInv'
  <2>1. \A v \in Workers : status[v] = "failed" => status'[v] = "failed"
    BY <1>2, <1>3 DEF Types
  <2> QED BY <1>1, <1>3, <2>1 DEF EvenInv
<1> QED BY <1>5, <1>6, <1>7, <1>8 DEF IInv

LEMMA RolloverStep ==
  ASSUME IInv, NEW w \in Workers, Rollover(w)
  PROVE  IInv'
<1> USE DEF Workers
<1>1. /\ actual' = actual /\ intact' = intact /\ repeat' = repeat /\ topology' = topology
      /\ declared' = declared /\ assigned' = assigned /\ status' = status /\ calling' = calling
      /\ saved' = saved /\ seen' = seen /\ calling[w] /\ PastLast(w) /\ repeat
      /\ open' = [open EXCEPT ![w] = None]
  BY DEF Rollover, jobVars
<1>2. Types /\ CallInv /\ ReadInv /\ IntactInv /\ EvenInv /\ SavedInv
  BY DEF IInv
<1>3. /\ cursor' \in [Workers -> CursorType] /\ \A v \in Workers : v # w => cursor'[v] = cursor[v]
      /\ cursor'[w].epoch = cursor[w].epoch + 1 /\ cursor'[w].fragment = 1
      /\ cursor'[w].row = 0 /\ cursor'[w].emitted = cursor[w].emitted
  BY <1>2 DEF Rollover, Types, CursorType
<1>4. Worker(declared, assigned[w], cursor'[w], seen[w])
  <2> DEFINE a == assigned[w]
             c == cursor[w]
             k == cursor'[w]
             e == seen[w]
  <2>1. Share(declared, a) /\ declared \in Seq(Nat) /\ Worker(declared, a, c, e)
    BY WorkerFacts
  <2>2. k \in CursorType /\ c.fragment > Len(a) /\ k.epoch = c.epoch + 1
        /\ k.fragment = 1 /\ k.row = 0 /\ k.emitted = c.emitted
    BY <1>1, <1>3 DEF PastLast
  <2> HIDE DEF a, c, k, e
  <2>3. Worker(declared, a, k, e)
    BY <2>1, <2>2, WorkerRolls
  <2> QED BY <2>3 DEF a, k, e
<1>5. NotPast(declared, assigned[w], cursor'[w])
  <2>1. Share(declared, assigned[w]) /\ declared \in Seq(Nat)
    BY WorkerFacts
  <2>2. \A n \in 1..Len(assigned[w]) : declared[assigned[w][n]] \in Nat \ {0}
    BY <2>1, BeforeFacts
  <2>3. Len(assigned[w]) \in Nat
    BY WorkerFacts
  <2> QED BY <1>3, <2>2, <2>3 DEF NotPast
<1>6. Types'
  <2>1. open' \in [Workers -> Nat \cup {None}]
    BY <1>1, <1>2 DEF Types
  <2> QED BY <1>1, <1>2, <1>3, <2>1 DEF Types
<1>7. CallInv'
  BY <1>1, <1>2, <1>3 DEF Types, CallInv, PastLast
<1>8. ReadInv'
  BY <1>1, <1>2, <1>3, <1>4 DEF ReadInv
<1>9. IntactInv'
  BY <1>1, <1>2, <1>3, <1>5 DEF IntactInv
<1>10. EvenInv' /\ SavedInv'
  BY <1>1, <1>2 DEF EvenInv, SavedInv
<1> QED BY <1>6, <1>7, <1>8, <1>9, <1>10 DEF IInv

LEMMA EndFragmentStep ==
  ASSUME IInv, NEW w \in Workers, EndFragment(w)
  PROVE  IInv'
<1> USE DEF Workers
<1>1. /\ actual' = actual /\ intact' = intact /\ repeat' = repeat /\ topology' = topology
      /\ declared' = declared /\ assigned' = assigned
      /\ saved' = saved /\ seen' = seen /\ calling[w] /\ ~PastLast(w)
  BY DEF EndFragment, jobVars
<1>2. Types /\ CallInv /\ ReadInv /\ IntactInv /\ EvenInv /\ SavedInv
  BY DEF IInv
<1>3. CASE cursor[w].row # declared[FragmentAt(w)]
  <2>1. /\ cursor' = cursor /\ open' = open /\ calling' = [calling EXCEPT ![w] = FALSE]
        /\ status' = [status EXCEPT ![w] = "failed"]
    BY <1>3 DEF EndFragment, Return
  <2>2. Types'
    <3>1. calling' \in [Workers -> BOOLEAN] /\ status' \in [Workers -> {"reading", "ended", "failed"}]
      BY <1>2, <2>1 DEF Types
    <3> QED BY <1>1, <1>2, <2>1, <3>1 DEF Types
  <2>3. CallInv'
    BY <1>1, <1>2, <2>1 DEF Types, CallInv, PastLast
  <2>4. ReadInv' /\ IntactInv' /\ SavedInv'
    BY <1>1, <1>2, <2>1 DEF ReadInv, IntactInv, SavedInv
  <2>5. EvenInv'
    <3>1. \A v \in Workers : status[v] = "failed" => status'[v] = "failed"
      BY <1>2, <2>1 DEF Types
    <3> QED BY <1>1, <1>2, <3>1 DEF EvenInv
  <2> QED BY <2>2, <2>3, <2>4, <2>5 DEF IInv
<1>4. CASE cursor[w].row = declared[FragmentAt(w)]
  <2>1. /\ cursor' = [cursor EXCEPT ![w] =
                        [epoch |-> @.epoch, fragment |-> @.fragment + 1,
                         row |-> 0, emitted |-> @.emitted]]
        /\ open' = [open EXCEPT ![w] = None] /\ calling' = calling /\ status' = status
    BY <1>4 DEF EndFragment
  <2>2. /\ cursor' \in [Workers -> CursorType] /\ \A v \in Workers : v # w => cursor'[v] = cursor[v]
        /\ cursor'[w].epoch = cursor[w].epoch /\ cursor'[w].fragment = cursor[w].fragment + 1
        /\ cursor'[w].row = 0 /\ cursor'[w].emitted = cursor[w].emitted
    BY <1>2, <2>1 DEF Types, CursorType
  <2>3. Share(declared, assigned[w]) /\ declared \in Seq(Nat) /\ Len(assigned[w]) \in Nat
        /\ Worker(declared, assigned[w], cursor[w], seen[w])
    BY WorkerFacts
  <2>4. Worker(declared, assigned[w], cursor'[w], seen[w])
    <3> DEFINE a == assigned[w]
               c == cursor[w]
               k == cursor'[w]
               e == seen[w]
    <3>1. Len(a) \in Nat /\ c.fragment \in Nat
      BY <1>2, <2>3 DEF Types, CursorType
    <3>2. k \in CursorType /\ c.fragment <= Len(a) /\ k.epoch = c.epoch
          /\ c.row = declared[a[c.fragment]]
          /\ k.fragment = c.fragment + 1 /\ k.row = 0 /\ k.emitted = c.emitted
      BY <1>1, <1>4, <2>2, <3>1 DEF PastLast, FragmentAt
    <3>3. Share(declared, a) /\ Worker(declared, a, c, e)
      BY <2>3
    <3> HIDE DEF a, c, k, e
    <3>4. Worker(declared, a, k, e)
      BY <2>3, <3>2, <3>3, WorkerEndsFragment
    <3> QED BY <3>4 DEF a, k, e
  <2>5. NotPast(declared, assigned[w], cursor'[w])
    <3>1. \A n \in 1..Len(assigned[w]) : declared[assigned[w][n]] \in Nat \ {0}
      BY <2>3, BeforeFacts
    <3>2. cursor[w].fragment \in Nat \ {0}
      BY <1>2 DEF Types, CursorType
    <3>3. cursor'[w].fragment <= Len(assigned[w]) => cursor'[w].fragment \in 1..Len(assigned[w])
      BY <2>2, <2>3, <3>2
    <3> QED BY <2>2, <3>1, <3>3 DEF NotPast
  <2>6. Types'
    <3>1. open' \in [Workers -> Nat \cup {None}]
      BY <1>2, <2>1 DEF Types
    <3> QED BY <1>1, <1>2, <2>1, <2>2, <3>1 DEF Types
  <2>7. CallInv'
    <3>1. status[w] = "reading"
      BY <1>1, <1>2 DEF CallInv
    <3> QED BY <1>1, <1>2, <2>1, <2>2, <3>1 DEF Types, CallInv, PastLast
  <2>8. ReadInv'
    BY <1>1, <1>2, <2>2, <2>4 DEF ReadInv
  <2>9. IntactInv'
    BY <1>1, <1>2, <2>2, <2>5 DEF IntactInv
  <2>10. EvenInv' /\ SavedInv'
    BY <1>1, <1>2, <2>1 DEF EvenInv, SavedInv
  <2> QED BY <2>6, <2>7, <2>8, <2>9, <2>10 DEF IInv
<1> QED BY <1>3, <1>4

LEMMA EmitStep ==
  ASSUME IInv, NEW w \in Workers, Emit(w)
  PROVE  IInv'
<1> USE DEF Workers
<1> DEFINE x == [epoch |-> cursor[w].epoch, fragment |-> FragmentAt(w), row |-> open[w]]
<1>1. /\ actual' = actual /\ intact' = intact /\ repeat' = repeat /\ topology' = topology
      /\ declared' = declared /\ assigned' = assigned /\ saved' = saved
      /\ calling[w] /\ ~PastLast(w) /\ open[w] # None /\ open[w] < actual[FragmentAt(w)]
      /\ open' = [open EXCEPT ![w] = @ + 1] /\ seen' = [seen EXCEPT ![w] = Append(@, x)]
      /\ calling' = [calling EXCEPT ![w] = FALSE] /\ status' = [status EXCEPT ![w] = "reading"]
  BY DEF Emit, Return, jobVars
<1>2. Types /\ CallInv /\ ReadInv /\ IntactInv /\ EvenInv /\ SavedInv
  BY DEF IInv
<1>3. /\ cursor' \in [Workers -> CursorType] /\ \A v \in Workers : v # w => cursor'[v] = cursor[v]
      /\ cursor'[w].epoch = cursor[w].epoch /\ cursor'[w].fragment = cursor[w].fragment
      /\ cursor'[w].row = cursor[w].row + 1 /\ cursor'[w].emitted = cursor[w].emitted + 1
  <2>1. cursor' = [cursor EXCEPT ![w] =
                     [epoch |-> @.epoch, fragment |-> @.fragment,
                      row |-> @.row + 1, emitted |-> @.emitted + 1]]
    BY DEF Emit
  <2> QED BY <1>2, <2>1 DEF Types, CursorType
<1>4. /\ open[w] = cursor[w].row /\ status[w] = "reading"
      /\ cursor[w].fragment \in Nat \ {0} /\ cursor[w].row \in Nat
  BY <1>1, <1>2 DEF CallInv, Types, CursorType
<1>5. Share(declared, assigned[w]) /\ declared \in Seq(Nat) /\ Len(assigned[w]) \in Nat
      /\ Worker(declared, assigned[w], cursor[w], seen[w])
  BY WorkerFacts
<1>6. cursor[w].fragment \in 1..Len(assigned[w])
  BY <1>1, <1>4, <1>5 DEF PastLast
<1>7. seen'[w] = Append(seen[w], x) /\ \A v \in Workers : v # w => seen'[v] = seen[v]
  BY <1>1, <1>2 DEF Types
<1>8. Worker(declared, assigned[w], cursor'[w], seen'[w])
  <2> DEFINE a == assigned[w]
             c == cursor[w]
             k == cursor'[w]
             e == seen[w]
             g == seen'[w]
  <2>1. g = Append(e, [epoch |-> c.epoch, fragment |-> a[c.fragment], row |-> c.row])
    BY <1>4, <1>7 DEF FragmentAt
  <2>2. k \in CursorType /\ c.fragment <= Len(a) /\ k.epoch = c.epoch
        /\ k.fragment = c.fragment /\ k.row = c.row + 1 /\ k.emitted = c.emitted + 1
    BY <1>3, <1>6
  <2>3. Share(declared, a) /\ Worker(declared, a, c, e)
    BY <1>5
  <2> HIDE DEF a, c, k, e, g
  <2>4. Worker(declared, a, k, g)
    BY <1>5, <2>1, <2>2, <2>3, WorkerEmits
  <2> QED BY <2>4 DEF a, k, g
<1> HIDE DEF x
<1>9. Types'
  <2>1. calling' \in [Workers -> BOOLEAN] /\ status' \in [Workers -> {"reading", "ended", "failed"}]
    BY <1>1, <1>2 DEF Types
  <2>2. open' \in [Workers -> Nat \cup {None}]
    BY <1>1, <1>2, <1>4 DEF Types
  <2>3. seen'[w] \in Seq(Row)
    BY <1>8 DEF Worker
  <2>4. seen' \in [Workers -> Seq(Row)]
    BY <1>1, <1>2, <1>7, <2>3 DEF Types
  <2> QED BY <1>1, <1>2, <1>3, <2>1, <2>2, <2>4 DEF Types
<1>10. CallInv'
  <2>1. open'[w] = cursor[w].row + 1 /\ \A v \in Workers : v # w => open'[v] = open[v]
    BY <1>1, <1>2, <1>4 DEF Types
  <2>2. /\ calling'[w] = FALSE /\ status'[w] = "reading"
        /\ \A v \in Workers : v # w => calling'[v] = calling[v] /\ status'[v] = status[v]
    BY <1>1, <1>2 DEF Types
  <2> QED BY <1>1, <1>2, <1>3, <2>1, <2>2 DEF CallInv, PastLast
<1>11. ReadInv'
  BY <1>1, <1>2, <1>3, <1>7, <1>8 DEF ReadInv
<1>12. IntactInv'
  <2> SUFFICES ASSUME intact
               PROVE  NotPast(declared, assigned[w], cursor'[w])
    BY <1>1, <1>2, <1>3 DEF IntactInv
  <2>1. cursor[w].row < declared[FragmentAt(w)]
    BY <1>1, <1>2, <1>4 DEF IntactInv
  <2>2. declared[assigned[w][cursor[w].fragment]] \in Nat
    BY <1>5, <1>6, BeforeFacts
  <2> QED BY <1>3, <1>4, <2>1, <2>2 DEF NotPast, FragmentAt
<1>13. EvenInv'
  <2>1. repeat => \A u, v \in Workers : Total(declared, assigned[u]) = Total(declared, assigned[v])
    BY <1>2, <1>4 DEF EvenInv
  <2> QED BY <1>1, <2>1 DEF EvenInv
<1>14. SavedInv'
  BY <1>1, <1>2 DEF SavedInv
<1> QED BY <1>9, <1>10, <1>11, <1>12, <1>13, <1>14 DEF IInv

-----------------------------------------------------------------------------
(* Checkpoints, rewrites, and all steps.                                    *)

LEMMA SaveStep == IInv /\ Save => IInv'
<1> SUFFICES ASSUME IInv, Save PROVE IInv'
  OBVIOUS
<1> USE DEF Workers
<1>1. /\ actual' = actual /\ intact' = intact /\ repeat' = repeat /\ topology' = topology
      /\ declared' = declared /\ assigned' = assigned /\ cursor' = cursor /\ open' = open
      /\ status' = status /\ seen' = seen /\ calling' = calling
  BY DEF Save, jobVars
<1>2. Types /\ CallInv /\ ReadInv /\ IntactInv /\ EvenInv /\ SavedInv
  BY DEF IInv
<1>3. /\ saved'.state.topology = topology /\ saved'.state.identity = declared
      /\ saved'.state.assigned = assigned /\ saved'.state.cursor = cursor /\ saved'.seen = seen
  BY DEF Save, StateDict
<1>4. SavedOk(saved')
  BY <1>2, <1>3 DEF SavedOk, Types, ReadInv
<1>5. Types' /\ CallInv' /\ ReadInv' /\ IntactInv' /\ EvenInv'
  BY <1>1, <1>2 DEF Types, CallInv, ReadInv, IntactInv, EvenInv, PastLast
<1> QED BY <1>4, <1>5 DEF IInv, SavedInv

LEMMA RewriteStep == IInv /\ Rewrite => IInv'
<1> SUFFICES ASSUME IInv, Rewrite PROVE IInv'
  OBVIOUS
<1> USE DEF Workers
<1>1. /\ intact' = FALSE /\ repeat' = repeat /\ topology' = topology
      /\ declared' = declared /\ assigned' = assigned /\ cursor' = cursor /\ open' = open
      /\ status' = status /\ seen' = seen /\ calling' = calling /\ saved' = saved
  BY DEF Rewrite, jobVars
<1>2. Types /\ CallInv /\ ReadInv /\ IntactInv /\ EvenInv /\ SavedInv
  BY DEF IInv
<1>3. PICK f \in DOMAIN actual, n \in Rewritten : actual' = [actual EXCEPT ![f] = n]
  BY DEF Rewrite
<1>4. n \in Nat /\ actual \in Seq(Nat)
  BY <1>2, ColumnarAssumption DEF Types
<1>5. actual' \in Seq(Nat)
  BY <1>3, <1>4
<1>6. Types' /\ CallInv' /\ ReadInv' /\ IntactInv' /\ EvenInv' /\ SavedInv'
  BY <1>1, <1>2, <1>5 DEF Types, CallInv, ReadInv, IntactInv, EvenInv, SavedInv, PastLast
<1> QED BY <1>6 DEF IInv

LEMMA LoadStep == IInv /\ Load => IInv'
<1> SUFFICES ASSUME IInv, Load PROVE IInv'
  OBVIOUS
<1> USE DEF Workers
<1>1. /\ actual' = actual /\ intact' = intact /\ repeat' = repeat /\ topology' = topology
      /\ declared' = declared /\ assigned' = assigned /\ calling' = calling /\ saved' = saved
      /\ saved # NotSaved /\ Untouched /\ \A w \in Workers : status[w] = "reading"
  BY DEF Load, jobVars
<1>2. Types /\ CallInv /\ ReadInv /\ IntactInv /\ EvenInv /\ SavedInv
  BY DEF IInv
<1>3. SavedOk(saved)
  BY <1>1, <1>2 DEF SavedInv
<1>4. CASE ~Accepted(saved.state)
  <2>1. cursor' = cursor /\ open' = open /\ seen' = seen
        /\ status' = [w \in Workers |-> "failed"]
    BY <1>4 DEF Load
  <2>2. \A w \in Workers : seen[w] = <<>> /\ calling[w] = FALSE
    <3> TAKE w \in Workers
    <3>1. cursor[w] = FirstCursor /\ ~calling[w]
      BY <1>1 DEF Untouched
    <3>2. cursor[w].emitted = 0 /\ cursor[w].emitted = Len(seen[w]) /\ seen[w] \in Seq(Row)
      BY <1>2, <3>1 DEF FirstCursor, ReadInv, Worker, Counted
    <3>3. seen[w] = <<>>
      BY <3>2, EmptySeq
    <3>4. calling[w] \in BOOLEAN
      BY <1>2 DEF Types
    <3> QED BY <3>1, <3>3, <3>4
  <2>3. \A w \in Workers : status'[w] = "failed"
    BY <2>1
  <2>4. Types'
    <3>1. status' \in [Workers -> {"reading", "ended", "failed"}]
      BY <2>1
    <3> QED BY <1>1, <1>2, <2>1, <3>1 DEF Types
  <2>5. CallInv'
    BY <1>1, <1>2, <2>1, <2>2, <2>3 DEF CallInv
  <2>6. ReadInv' /\ IntactInv' /\ SavedInv'
    BY <1>1, <1>2, <2>1 DEF ReadInv, IntactInv, SavedInv
  <2>7. EvenInv'
    BY <1>1, <2>1, <2>2, <2>3 DEF EvenInv
  <2> QED BY <2>4, <2>5, <2>6, <2>7 DEF IInv
<1>5. CASE Accepted(saved.state)
  <2>1. cursor' = saved.state.cursor /\ open' = [w \in Workers |-> None] /\ seen' = saved.seen
        /\ status' = status
    BY <1>5 DEF Load
  <2>2. /\ saved.state.identity = declared /\ saved.state.topology = topology
        /\ saved.state.assigned = assigned
        /\ \A w \in Workers : CursorAccepted(w, saved.state.cursor[w])
    BY <1>5 DEF Accepted
  <2>3. /\ cursor' \in [Workers -> CursorType] /\ seen' \in [Workers -> Seq(Row)]
        /\ \A w \in Workers : Worker(declared, assigned[w], cursor'[w], seen'[w])
    BY <1>3, <2>1, <2>2 DEF SavedOk
  <2>4. Types'
    <3>1. open' \in [Workers -> Nat \cup {None}]
      BY <2>1
    <3> QED BY <1>1, <1>2, <2>1, <2>3, <3>1 DEF Types
  <2>5. CallInv'
    <3>1. \A w \in Workers : open'[w] = None /\ status'[w] = "reading"
      BY <1>1, <2>1
    <3>2. \A w \in Workers : ~repeat => cursor'[w].epoch = 0
      BY <2>1, <2>2 DEF CursorAccepted
    <3> QED BY <1>1, <3>1, <3>2 DEF CallInv
  <2>6. ReadInv'
    BY <1>1, <2>3 DEF ReadInv
  <2>7. IntactInv'
    <3>1. ASSUME NEW w \in Workers
          PROVE  NotPast(declared, assigned[w], cursor'[w])
      <4>1. CursorAccepted(w, cursor'[w]) /\ cursor'[w].fragment \in Nat /\ Len(assigned[w]) \in Nat
        BY <2>1, <2>2, <2>3, WorkerFacts DEF CursorType
      <4> QED BY <4>1 DEF CursorAccepted, NotPast
    <3> QED BY <1>1, <1>2, <3>1 DEF IntactInv
  <2>8. EvenInv'
    <3>1. repeat /\ Workers # {} =>
            \A v, w \in Workers : Total(declared, assigned[v]) = Total(declared, assigned[w])
      BY <1>1, <1>2 DEF EvenInv
    <3> QED BY <1>1, <3>1 DEF EvenInv
  <2> QED BY <1>1, <1>2, <2>4, <2>5, <2>6, <2>7, <2>8 DEF IInv, SavedInv
<1> QED BY <1>4, <1>5

LEMMA NextInv == IInv /\ [Next]_vars => IInv'
<1> SUFFICES ASSUME IInv, [Next]_vars PROVE IInv'
  OBVIOUS
<1>1. ASSUME NEW w \in Workers, Read(w)
      PROVE  IInv'
  BY <1>1, CallStep, RolloverStep, StopStep, ActivateStep, EmitStep, EndFragmentStep DEF Read
<1>2. CASE UNCHANGED vars
  <2>1. /\ actual' = actual /\ intact' = intact /\ repeat' = repeat /\ topology' = topology
        /\ declared' = declared /\ assigned' = assigned /\ cursor' = cursor /\ open' = open
        /\ status' = status /\ seen' = seen /\ calling' = calling /\ saved' = saved
    BY <1>2 DEF vars, jobVars
  <2> QED BY <2>1 DEF IInv, Types, CallInv, ReadInv, IntactInv, EvenInv, SavedInv, PastLast, Workers
<1> QED BY <1>1, <1>2, SaveStep, CrashInv, LoadStep, RewriteStep DEF Next

-----------------------------------------------------------------------------
(* The properties.                                                          *)

LEMMA ReadTwice == IInv => EachRowOnce
<1> SUFFICES ASSUME IInv, NEW v \in Workers, NEW w \in Workers,
                    NEW i \in DOMAIN seen[v], NEW j \in DOMAIN seen[w], <<v, i>> # <<w, j>>
             PROVE  seen[v][i] # seen[w][j]
  BY DEF EachRowOnce
<1>1. /\ Share(declared, assigned[v]) /\ declared \in Seq(Nat)
      /\ Worker(declared, assigned[v], cursor[v], seen[v])
      /\ Worker(declared, assigned[w], cursor[w], seen[w])
  BY WorkerFacts
<1>2. i \in 1..Len(seen[v]) /\ j \in 1..Len(seen[w])
  BY <1>1 DEF Worker
<1>3. CASE v = w
  <2>1. i # j /\ j \in 1..Len(seen[v])
    BY <1>2, <1>3
  <2>2. seen[v][i] # seen[v][j]
    BY <1>1, <1>2, <2>1, WorkerOnce
  <2> QED BY <1>3, <2>2
<1>4. CASE v # w
  <2>1. \A p \in 1..Len(assigned[v]), q \in 1..Len(assigned[w]) : assigned[v][p] # assigned[w][q]
    <3>1. topology \in Topologies /\ declared \in Seq(Nat) /\ assigned = Assignment(declared, topology)
      BY DEF IInv, Types
    <3>2. \A x, y \in Part(topology) : x # y =>
            \A p \in 1..Len(Assignment(declared, topology)[x]),
               q \in 1..Len(Assignment(declared, topology)[y]) :
              Assignment(declared, topology)[x][p] # Assignment(declared, topology)[y][q]
      BY <3>1, AssignmentFacts
    <3> QED BY <1>4, <3>1, <3>2 DEF Workers
  <2> QED BY <1>1, <1>2, <2>1, WorkersApart
<1> QED BY <1>3, <1>4

LEMMA ReadAll == IInv => NothingSkipped
<1> SUFFICES ASSUME IInv, NEW w \in Workers
             PROVE  /\ \A d \in 0..cursor[w].epoch-1 : EpochRows(w, d) \subseteq ToSet(seen[w])
                    /\ status[w] = "ended" => EpochRows(w, 0) \subseteq ToSet(seen[w])
  BY DEF NothingSkipped
<1>1. /\ Share(declared, assigned[w]) /\ declared \in Seq(Nat)
      /\ Worker(declared, assigned[w], cursor[w], seen[w])
      /\ Len(assigned[w]) \in Nat /\ cursor[w].epoch \in Nat
  <2>1. cursor[w] \in CursorType
    BY WorkerFacts
  <2> QED BY <2>1, WorkerFacts DEF CursorType
<1>2. ASSUME NEW d \in Nat,
             d < cursor[w].epoch \/ (d = cursor[w].epoch /\ cursor[w].fragment > Len(assigned[w]))
      PROVE  EpochRows(w, d) \subseteq ToSet(seen[w])
  <2>1. ASSUME NEW f \in ToSet(assigned[w]), NEW n \in 0..declared[f]-1
        PROVE  [epoch |-> d, fragment |-> f, row |-> n] \in ToSet(seen[w])
    <3>1. PICK p \in 1..Len(assigned[w]) : f = assigned[w][p]
      BY <1>1 DEF ToSet, Share
    <3>2. n \in 0..declared[assigned[w][p]]-1
      BY <3>1
    <3>3. PICK i \in 1..Len(seen[w]) :
            seen[w][i] = [epoch |-> d, fragment |-> assigned[w][p], row |-> n]
      <4> DEFINE a == assigned[w]
                 c == cursor[w]
                 e == seen[w]
      <4>1. Share(declared, a) /\ Worker(declared, a, c, e) /\ n \in 0..declared[a[p]]-1
        BY <1>1, <3>2
      <4>2. p \in 1..Len(a) /\ (d < c.epoch \/ (d = c.epoch /\ c.fragment > Len(a)))
        BY <1>2
      <4> HIDE DEF a, c, e
      <4>3. \E i \in 1..Len(e) : e[i] = [epoch |-> d, fragment |-> a[p], row |-> n]
        BY <1>1, <4>1, <4>2, EpochComplete
      <4> QED BY <4>3 DEF a, e
    <3>4. i \in DOMAIN seen[w]
      BY <1>1 DEF Worker
    <3> QED BY <3>1, <3>3, <3>4 DEF ToSet
  <2> QED BY <2>1 DEF EpochRows
<1>3. \A d \in 0..cursor[w].epoch-1 : d \in Nat /\ d < cursor[w].epoch
  BY <1>1
<1>4. ASSUME status[w] = "ended"
      PROVE  0 = cursor[w].epoch /\ cursor[w].fragment > Len(assigned[w])
  BY <1>4 DEF IInv, CallInv, PastLast
<1> QED BY <1>2, <1>3, <1>4

LEMMA ReadTogether == IInv => EpochsTogether
<1> SUFFICES ASSUME IInv PROVE EpochsTogether
  OBVIOUS
<1>1. ASSUME repeat, intact, NEW v \in Workers, NEW w \in Workers,
             Len(seen[v]) = Len(seen[w]), seen[v] # <<>>
      PROVE  Last(seen[v]).epoch = Last(seen[w]).epoch
  <2> DEFINE a == assigned[v]
             b == assigned[w]
             c == cursor[v]
             k == cursor[w]
             e == seen[v]
             g == seen[w]
  <2>1. /\ Share(declared, a) /\ Share(declared, b) /\ declared \in Seq(Nat)
        /\ Worker(declared, a, c, e) /\ Worker(declared, b, k, g)
    BY WorkerFacts
  <2>2. NotPast(declared, a, c) /\ NotPast(declared, b, k)
    BY <1>1 DEF IInv, IntactInv
  <2>3. Total(declared, a) = Total(declared, b)
    BY <1>1 DEF IInv, EvenInv
  <2>4. e \in Seq(Row) /\ Len(e) = Len(g) /\ e # <<>>
    BY <1>1, <2>1 DEF Worker
  <2> HIDE DEF a, b, c, k, e, g
  <2>5. Len(e) # 0
    BY <2>4, EmptySeq
  <2>6. e[Len(e)].epoch = g[Len(g)].epoch
    BY <2>1, <2>2, <2>3, <2>4, <2>5, LastTogether
  <2> QED BY <2>6 DEF Last, e, g
<1>2. ASSUME NEW p \in Workers, NEW q \in Workers, NEW f \in ToSet(assigned[p])
      PROVE  \/ RowsIn(declared, ToSet(assigned[p]) \ {f}) <= RowsIn(declared, ToSet(assigned[q]))
             \/ \E g \in ToSet(assigned[p]) : declared[g] < declared[f]
  <2> DEFINE d == Deal(declared, Parts(topology))
  <2>1. topology \in Topologies /\ declared \in Seq(Nat) /\ assigned = Assignment(declared, topology)
    BY DEF IInv, Types
  <2>2. \A x \in Part(topology) : ToSet(Assignment(declared, topology)[x]) = d[x]
    BY <2>1, AssignmentFacts
  <2>3. ToSet(assigned[p]) = d[p] /\ ToSet(assigned[q]) = d[q]
    BY <2>1, <2>2 DEF Workers
  <2>4. Holds(declared, Parts(topology), d) /\ Even(declared, d)
    BY <2>1, PartsPositive, DealFacts
  <2> HIDE DEF d
  <2>5. DOMAIN d = Part(topology)
    BY <2>4 DEF Holds, Part
  <2>6. f \in d[p] /\ p \in DOMAIN d /\ q \in DOMAIN d
    BY <2>3, <2>5 DEF Workers
  <2>7. \/ RowsIn(declared, d[p] \ {f}) <= RowsIn(declared, d[q])
        \/ \E g \in d[p] : declared[g] < declared[f]
    BY <2>4, <2>6 DEF Even
  <2> QED BY <2>3, <2>7
<1> QED BY <1>1, <1>2 DEF EpochsTogether

LEMMA StateAccepted == IInv => SavedStateAccepted
<1> SUFFICES ASSUME IInv, intact PROVE Accepted(StateDict)
  BY DEF SavedStateAccepted
<1>1. ASSUME NEW w \in Workers
      PROVE  CursorAccepted(w, cursor[w])
  <2> DEFINE c == cursor[w]
             a == assigned[w]
  <2>1. c \in CursorType /\ Len(a) \in Nat /\ Worker(declared, a, c, seen[w])
    BY WorkerFacts
  <2>2. NotPast(declared, a, c) /\ (~repeat => c.epoch = 0)
    BY DEF IInv, IntactInv, CallInv
  <2>3. c.fragment \in Nat /\ c.row \in Nat
    BY <2>1 DEF CursorType
  <2>4. Inside(a, c) /\ Counted(declared, a, c, seen[w])
    BY <2>1 DEF Worker
  <2>5. \A n : RowsBefore(w, n) = Before(declared, a, n)
    BY DEF RowsBefore, Before
  <2> HIDE DEF c, a
  <2>6. /\ c.fragment <= Len(a) + 1
        /\ c.row <= (IF c.fragment > Len(a) THEN 0 ELSE declared[a[c.fragment]])
    BY <2>1, <2>2, <2>3, <2>4 DEF Inside, NotPast
  <2>7. c.emitted = c.epoch * RowsBefore(w, Len(a) + 1) + RowsBefore(w, c.fragment) + c.row
    BY <2>4, <2>5 DEF Counted, Total
  <2> QED BY <2>2, <2>6, <2>7 DEF CursorAccepted, c, a
<1> QED BY <1>1 DEF Accepted, StateDict

LEMMA ReadTypes == IInv => TypeOK
<1> SUFFICES ASSUME IInv PROVE TypeOK
  OBVIOUS
<1>1. Types
  BY DEF IInv
<1>2. ASSUME NEW w \in Workers
      PROVE  cursor[w].fragment <= Len(assigned[w]) + 1 /\ cursor[w].emitted = Len(seen[w])
  <2>1. Worker(declared, assigned[w], cursor[w], seen[w])
    BY WorkerFacts
  <2> QED BY <2>1 DEF Worker, Inside, Counted
<1>3. \A w \in Workers : seen[w] \in Seq([epoch : Nat, fragment : Nat, row : Nat])
  BY <1>1 DEF Types, Row
<1> QED BY <1>1, <1>2, <1>3 DEF TypeOK, Types

(* The reachable states satisfy the inductive invariant.                    *)
THEOREM ColumnarInvariance == Spec => []IInv
<1> QED BY InitInv, NextInv, PTL DEF Spec

(* Cursors stay within a worker's fragments, and next_record's count is     *)
(* that of the rows emitted on the trajectory, for any dataset, topology,   *)
(* and number of crashes and rewrites.                                      *)
THEOREM CursorsTyped == Spec => []TypeOK
<1> QED BY ColumnarInvariance, ReadTypes, PTL

(* No row is emitted twice in an epoch, by one worker or by two.            *)
THEOREM NoRowTwice == Spec => []EachRowOnce
<1> QED BY ColumnarInvariance, ReadTwice, PTL

(* An epoch a worker has left had all rows the dataset had when the job     *)
(* started, whatever happened to the files since.                           *)
THEOREM EpochsComplete == Spec => []NothingSkipped
<1> QED BY ColumnarInvariance, ReadAll, PTL

(* The workers of a repeating source begin their epochs together, and       *)
(* balanced_fragment_assignment deals as evenly as the fragments allow.     *)
THEOREM EpochsBeginTogether == Spec => []EpochsTogether
<1> QED BY ColumnarInvariance, ReadTogether, PTL

(* What state_dict returns, load_state_dict accepts.                        *)
THEOREM StatesAccepted == Spec => []SavedStateAccepted
<1> QED BY ColumnarInvariance, StateAccepted, PTL

(* balanced_fragment_assignment gives every fragment that has rows to       *)
(* exactly one of the workers.                                              *)
THEOREM EveryFragmentAssigned ==
  ASSUME NEW rows \in Seq(Nat), NEW t \in Topologies, NEW f \in Found(rows)
  PROVE  \E w \in Part(t) :
           /\ f \in ToSet(Assignment(rows, t)[w])
           /\ \A v \in Part(t) : f \in ToSet(Assignment(rows, t)[v]) => v = w
<1> DEFINE d == Deal(rows, Parts(t))
<1>1. \A w \in Part(t) : ToSet(Assignment(rows, t)[w]) = d[w]
  BY AssignmentFacts
<1>2. Holds(rows, Parts(t), d) /\ Apart(d) /\ \E p \in 0..Parts(t)-1 : f \in d[p]
  BY PartsPositive, DealFacts
<1> HIDE DEF d
<1>3. DOMAIN d = Part(t) /\ Part(t) = 0..Parts(t)-1
  BY <1>2 DEF Holds, Part
<1>4. PICK w \in Part(t) : f \in d[w]
  BY <1>2, <1>3
<1>5. \A v \in Part(t) : f \in d[v] => v = w
  BY <1>2, <1>3, <1>4 DEF Apart
<1> QED BY <1>1, <1>4, <1>5
=============================================================================
