----------------------- MODULE MixtureSourceProofs --------------------------
(***************************************************************************)
(* Proofs about MixtureSource: whatever a run emits at a cursor it emits   *)
(* there again after any crashes and resumes, what it saves is accepted,   *)
(* and a child is given up only when all its samples were emitted once,    *)
(* for any children, weights and draws.                                    *)
(*                                                                         *)
(* A turn of next_sample's loop is a function of the state that is saved,  *)
(* so all trajectories go along one run of that function.                  *)
(***************************************************************************)
EXTENDS MixtureSource, Sums, SequenceTheorems

-----------------------------------------------------------------------------
(* The run.                                                                *)

Mixtures == [cursor : Nat, counts : [Names -> Nat], active : SUBSET Names]
Dicts    == [mixture : Mixtures, at : [Names -> Nat]]
Samples  == [name : Names, index : Nat]

(* What a run fixes: the weights, the children and the draws.              *)
Settings ==
  [weight : [Names -> Nat \ {0}],
   child  : [Names -> [kind : Kinds, length : Nat \ {0}, tagged : SUBSET Nat]],
   draws  : [0..MaxCursor-1 -> 0..Grain-1]]

Fresh == [mixture |-> FreshMixture, at |-> [n \in Names |-> 0]]

(* SourceName, HasNext, and what Emit and DropSource make, of any state.   *)
Shares(g, s) ==
  {n \in s.mixture.active :
     g.draws[s.mixture.cursor] * SumOf(g.weight, s.mixture.active)
       < SumOf(g.weight, {m \in s.mixture.active : m <= n}) * Grain}
Choice(g, s) == Min(Shares(g, s))
More(g, s)   == \/ g.child[Choice(g, s)].kind = "repeating"
             \/ s.at[Choice(g, s)] < g.child[Choice(g, s)].length
Sample(g, s) == [name |-> Choice(g, s), index |-> s.at[Choice(g, s)] % g.child[Choice(g, s)].length]

Reads(s) == s.mixture.cursor < MaxCursor /\ s.mixture.active # {}

Emitted(g, s) ==
  [mixture |-> [cursor |-> s.mixture.cursor + 1,
                counts |-> [s.mixture.counts EXCEPT ![Choice(g, s)] = @ + 1],
                active |-> s.mixture.active],
   at      |-> [s.at EXCEPT ![Choice(g, s)] = @ + 1]]
Dropped(g, s) ==
  [mixture |-> [cursor |-> s.mixture.cursor, counts |-> s.mixture.counts,
                active |-> s.mixture.active \ {Choice(g, s)}],
   at      |-> s.at]
Turn(g, s) == IF More(g, s) THEN Emitted(g, s) ELSE Dropped(g, s)

(* r is what the source goes through in its first k turns.                 *)
Run(g, r, k) ==
  /\ r \in [0..k -> Dicts] /\ r[0] = Fresh
  /\ \A i \in 1..k : Reads(r[i - 1]) /\ r[i] = Turn(g, r[i - 1])

Reached(g, s) == \E k \in Nat : \E r \in [0..k -> Dicts] : Run(g, r, k) /\ r[k] = s

(* x is the sample of cursor c.                                            *)
Emits(g, c, x) ==
  \E s \in Dicts : /\ Reached(g, s) /\ Reads(s) /\ More(g, s)
                   /\ s.mixture.cursor = c /\ x = Sample(g, s)

(* The drawn child is an active one.                                       *)
LEMMA ChoiceActive ==
  ASSUME NEW g \in Settings, NEW s \in Dicts, Reads(s)
  PROVE  Choice(g, s) \in s.mixture.active /\ Choice(g, s) \in Names
<1> DEFINE A == s.mixture.active
           c == s.mixture.cursor
<1>0. /\ A \subseteq Names /\ A # {} /\ c \in 0..MaxCursor-1
  BY MixtureAssumption DEF Reads, Dicts, Mixtures
<1>1. IsFiniteSet(A) /\ A \subseteq Nat
  BY <1>0, MixtureAssumption, FS_Subset
<1>2. \A n \in A : g.weight[n] \in Nat \ {0} /\ g.weight[n] \in Int
  BY <1>0 DEF Settings
<1>3. g.draws[c] \in 0..Grain-1 /\ Grain \in Nat \ {0}
  BY <1>0, MixtureAssumption DEF Settings
<1>4. PICK m \in A : \A x \in A : x <= m
  <2> HIDE DEF A
  <2> QED BY <1>0, <1>1, Greatest
<1>5. {x \in A : x <= m} = A
  BY <1>4
<1>6. SumOf(g.weight, A) \in Int /\ SumOf(g.weight, A) > 0
  <2>1. SumOf(g.weight, A) \in Nat /\ SumOf(g.weight, A) # 0
    <3> HIDE DEF A
    <3>1. IsFiniteSet(A) /\ A # {}
      BY <1>0, <1>1
    <3>2. \A x \in A : g.weight[x] \in Nat \ {0}
      BY <1>2
    <3> QED BY <3>1, <3>2, SumPositive
  <2> QED BY <2>1
<1>7. m \in Shares(g, s)
  <2>1. g.draws[c] * SumOf(g.weight, A) < SumOf(g.weight, A) * Grain
    <3> DEFINE t == SumOf(g.weight, A)
               d == g.draws[c]
    <3>1. t \in Int /\ t > 0 /\ d \in Int /\ d < Grain /\ Grain \in Int /\ 0 <= d
      BY <1>3, <1>6
    <3> HIDE DEF t, d
    <3>2. d * t < Grain * t
      BY <3>1
    <3>3. Grain * t = t * Grain
      BY <3>1
    <3> QED BY <3>2, <3>3 DEF t, d
  <2>2. g.draws[c] * SumOf(g.weight, A) < SumOf(g.weight, {x \in A : x <= m}) * Grain
    BY <1>5, <2>1
  <2> QED BY <2>2 DEF Shares
<1>8. Shares(g, s) \subseteq A
  BY DEF Shares
<1>9. \E n \in Shares(g, s) : \A x \in Shares(g, s) : n <= x
  <2>1. Shares(g, s) \subseteq Nat /\ Shares(g, s) # {}
    BY <1>1, <1>7, <1>8
  <2> QED BY <2>1, SmallestNumber
<1>10. Choice(g, s) \in Shares(g, s)
  BY <1>9 DEF Choice, Min
<1> QED BY <1>0, <1>8, <1>10

(* A turn keeps the types, adds one to the cursor or keeps it.              *)
LEMMA TurnInDicts ==
  ASSUME NEW g \in Settings, NEW s \in Dicts, Reads(s)
  PROVE  /\ Turn(g, s) \in Dicts
         /\ Turn(g, s).mixture.cursor \in {s.mixture.cursor, s.mixture.cursor + 1}
         /\ More(g, s) => Turn(g, s).mixture.cursor = s.mixture.cursor + 1
<1> DEFINE n == Choice(g, s)
           c == s.mixture.cursor
           counts == s.mixture.counts
           active == s.mixture.active
           at2 == s.at
<1>1. n \in Names
  BY ChoiceActive
<1>2. /\ c \in Nat /\ counts \in [Names -> Nat] /\ active \in SUBSET Names
      /\ at2 \in [Names -> Nat]
  BY DEF Dicts, Mixtures
<1> HIDE DEF n, c, counts, active, at2
<1>3. /\ [cursor |-> c + 1, counts |-> [counts EXCEPT ![n] = @ + 1], active |-> active]
           \in Mixtures
      /\ [cursor |-> c, counts |-> counts, active |-> active \ {n}] \in Mixtures
      /\ [at2 EXCEPT ![n] = @ + 1] \in [Names -> Nat]
  BY <1>1, <1>2 DEF Mixtures
<1>4. Emitted(g, s) \in Dicts /\ Dropped(g, s) \in Dicts
  BY <1>2, <1>3 DEF Emitted, Dropped, Dicts, n, c, counts, active, at2
<1>5. Emitted(g, s).mixture.cursor = c + 1 /\ Dropped(g, s).mixture.cursor = c
  BY DEF Emitted, Dropped, c
<1> QED BY <1>4, <1>5 DEF Turn, c

(* The run goes on.                                                         *)
LEMMA Extend ==
  ASSUME NEW g \in Settings, NEW s \in Dicts, Reached(g, s), Reads(s)
  PROVE  Reached(g, Turn(g, s))
<1>0. PICK k \in Nat : \E r \in [0..k -> Dicts] : Run(g, r, k) /\ r[k] = s
  BY DEF Reached
<1>1. PICK r \in [0..k -> Dicts] : Run(g, r, k) /\ r[k] = s
  BY <1>0
<1> DEFINE t == Turn(g, s)
           q == [i \in 0..k+1 |-> IF i <= k THEN r[i] ELSE t]
<1>2. t \in Dicts
  BY TurnInDicts
<1> HIDE DEF t
<1>3. q \in [0..k+1 -> Dicts] /\ k + 1 \in Nat /\ q[k + 1] = t
  BY <1>1, <1>2
<1>4. \A i \in 0..k : q[i] = r[i]
  BY <1>1
<1>5. q[0] = Fresh
  BY <1>1, <1>4 DEF Run
<1>6. ASSUME NEW i \in 1..k+1
      PROVE  Reads(q[i - 1]) /\ q[i] = Turn(g, q[i - 1])
  <2>1. CASE i = k + 1
    <3>1. q[i - 1] = s /\ q[i] = t
      BY <1>1, <1>3, <1>4, <2>1
    <3> HIDE DEF q
    <3> QED BY <3>1 DEF t
  <2>2. CASE i # k + 1
    <3>1. i \in 1..k /\ q[i - 1] = r[i - 1] /\ q[i] = r[i]
      BY <1>1, <1>4, <2>2
    <3>2. Reads(r[i - 1]) /\ r[i] = Turn(g, r[i - 1])
      BY <1>1, <3>1 DEF Run
    <3> HIDE DEF q
    <3> QED BY <3>1, <3>2
  <2> QED BY <2>1, <2>2
<1> HIDE DEF q
<1>7. Run(g, q, k + 1)
  BY <1>3, <1>5, <1>6 DEF Run
<1> QED BY <1>3, <1>7 DEF Reached, t

(* The cursor never goes back along a run.                                  *)
LEMMA CursorGrows ==
  ASSUME NEW g \in Settings, NEW k \in Nat, NEW r, Run(g, r, k), NEW i \in 0..k, NEW j \in 0..k, i <= j
  PROVE  r[i].mixture.cursor <= r[j].mixture.cursor
<1> DEFINE Bad == {n \in 0..k : i <= n /\ ~(r[i].mixture.cursor <= r[n].mixture.cursor)}
<1>0. \A n \in 0..k : r[n] \in Dicts /\ r[n].mixture.cursor \in Nat
  BY DEF Run, Dicts, Mixtures
<1>1. ASSUME Bad # {}
      PROVE  FALSE
  <2>1. Bad \subseteq Nat
    OBVIOUS
  <2>2. PICK n \in Bad : \A m \in Bad : n <= m
    <3> HIDE DEF Bad
    <3> QED BY <1>1, <2>1, SmallestNumber
  <2>3. n \in 0..k /\ i <= n /\ ~(r[i].mixture.cursor <= r[n].mixture.cursor)
    BY <2>2
  <2>4. n # i
    BY <1>0, <2>3
  <2>5. n \in 1..k /\ n - 1 \in 0..k /\ i <= n - 1
    BY <2>3, <2>4
  <2>6. n - 1 \notin Bad
    <3> HIDE DEF Bad
    <3> QED BY <2>2, <2>5
  <2>7. r[i].mixture.cursor <= r[n - 1].mixture.cursor
    BY <2>5, <2>6
  <2>8. r[n - 1] \in Dicts /\ Reads(r[n - 1]) /\ r[n] = Turn(g, r[n - 1])
    BY <1>0, <2>5 DEF Run
  <2>9. r[n].mixture.cursor \in {r[n - 1].mixture.cursor, r[n - 1].mixture.cursor + 1}
    BY <2>8, TurnInDicts
  <2>10. /\ r[i].mixture.cursor \in Nat /\ r[n].mixture.cursor \in Nat
         /\ r[n - 1].mixture.cursor \in Nat
    BY <1>0, <2>5
  <2> QED BY <2>3, <2>7, <2>9, <2>10
<1>2. j \notin Bad
  BY <1>1
<1> QED BY <1>2

(* Two runs of the same length are the same.                                *)
LEMMA OneRun ==
  ASSUME NEW g, NEW k \in Nat, NEW j \in Nat, NEW r, NEW q,
         Run(g, r, k), Run(g, q, j), NEW i \in 0..k, i <= j
  PROVE  r[i] = q[i]
<1> DEFINE Bad == {n \in 0..k : n <= j /\ r[n] # q[n]}
<1>1. ASSUME Bad # {}
      PROVE  FALSE
  <2>1. Bad \subseteq Nat
    OBVIOUS
  <2>2. PICK n \in Bad : \A m \in Bad : n <= m
    <3> HIDE DEF Bad
    <3> QED BY <1>1, <2>1, SmallestNumber
  <2>3. n \in 0..k /\ n <= j /\ r[n] # q[n]
    BY <2>2
  <2>4. n # 0
    BY <2>3 DEF Run
  <2>5. n \in 1..k /\ n \in 1..j /\ n - 1 \in 0..k /\ n - 1 <= j /\ ~(n <= n - 1)
    BY <2>3, <2>4
  <2>6. r[n - 1] = q[n - 1]
    <3>1. n - 1 \notin Bad
      <4> HIDE DEF Bad
      <4> QED BY <2>2, <2>5
    <3> QED BY <2>5, <3>1
  <2>7. r[n] = Turn(g, r[n - 1]) /\ q[n] = Turn(g, q[n - 1])
    BY <2>5 DEF Run
  <2> QED BY <2>3, <2>6, <2>7
<1>2. i \notin Bad
  BY <1>1
<1> QED BY <1>2

(* A state that emits is the only one of its cursor that does, so far as    *)
(* a longer run tells.                                                      *)
LEMMA OneEmission ==
  ASSUME NEW g \in Settings, NEW k \in Nat, NEW j \in Nat, k <= j, NEW r, NEW q,
         Run(g, r, k), Run(g, q, j), Reads(r[k]), More(g, r[k]),
         r[k].mixture.cursor = q[j].mixture.cursor
  PROVE  r[k] = q[j]
<1>1. q[k] = r[k]
  BY OneRun
<1>2. CASE k = j
  BY <1>1, <1>2
<1>3. CASE k # j
  <2>1. k + 1 \in 1..j /\ k + 1 \in 0..j /\ j \in 0..j /\ k + 1 <= j /\ (k + 1) - 1 = k
    BY <1>3
  <2>2. q[k + 1] = Turn(g, q[k])
    BY <2>1 DEF Run
  <2>3. r[k] \in Dicts /\ q[j] \in Dicts
    BY <2>1 DEF Run
  <2>4. q[k + 1].mixture.cursor = r[k].mixture.cursor + 1
    BY <1>1, <2>2, <2>3, TurnInDicts
  <2>5. q[k + 1].mixture.cursor <= q[j].mixture.cursor
    BY <2>1, CursorGrows
  <2>6. r[k].mixture.cursor \in Nat
    BY <2>3 DEF Dicts, Mixtures
  <2> QED BY <2>4, <2>5, <2>6
<1> QED BY <1>2, <1>3

(* Sampling is a function of the cursor.                                    *)
LEMMA EmitsOnce ==
  ASSUME NEW g \in Settings, NEW c, NEW x, NEW y, Emits(g, c, x), Emits(g, c, y)
  PROVE  x = y
<1>1. PICK s \in Dicts : /\ Reached(g, s) /\ Reads(s) /\ More(g, s)
                         /\ s.mixture.cursor = c /\ x = Sample(g, s)
  BY DEF Emits
<1>2. PICK t \in Dicts : /\ Reached(g, t) /\ Reads(t) /\ More(g, t)
                         /\ t.mixture.cursor = c /\ y = Sample(g, t)
  BY DEF Emits
<1>3. PICK k \in Nat : \E r \in [0..k -> Dicts] : Run(g, r, k) /\ r[k] = s
  BY <1>1 DEF Reached
<1>4. PICK r \in [0..k -> Dicts] : Run(g, r, k) /\ r[k] = s
  BY <1>3
<1>5. PICK j \in Nat : \E q \in [0..j -> Dicts] : Run(g, q, j) /\ q[j] = t
  BY <1>2 DEF Reached
<1>6. PICK q \in [0..j -> Dicts] : Run(g, q, j) /\ q[j] = t
  BY <1>5
<1>7. CASE k <= j
  <2>1. r[k] = q[j]
    BY <1>1, <1>2, <1>4, <1>6, <1>7, OneEmission
  <2> QED BY <1>1, <1>2, <1>4, <1>6, <2>1
<1>8. CASE j <= k
  <2>1. q[j] = r[k]
    BY <1>1, <1>2, <1>4, <1>6, <1>8, OneEmission
  <2> QED BY <1>1, <1>2, <1>4, <1>6, <2>1
<1> QED BY <1>7, <1>8

-----------------------------------------------------------------------------
(* What holds of a saved or running state and the samples that led to it.   *)
Indices(e, n) == {x.index : x \in {y \in ToSet(e) : y.name = n}}

Fits(g, s, e) ==
  /\ e \in Seq(Samples) /\ Len(e) = s.mixture.cursor /\ Len(e) <= MaxCursor
  /\ SumOf(s.mixture.counts, Names) = s.mixture.cursor
  /\ s.mixture.counts = s.at
  /\ \A n \in Names : g.child[n].kind # "repeating" =>
       s.at[n] <= g.child[n].length /\ Indices(e, n) = 0..s.at[n]-1
  /\ \A n \in Names \ s.mixture.active :
       g.child[n].kind # "repeating" /\ s.at[n] = g.child[n].length

LEMMA SmallRemainder ==
  ASSUME NEW a \in Nat, NEW b \in Nat \ {0}, a < b
  PROVE  a % b = a
<1>1. a = b * (a \div b) + (a % b) /\ 0 <= a % b /\ a % b < b /\ a \div b \in Int
  OBVIOUS
<1> DEFINE q == a \div b
           m == a % b
<1>2. a = b * q + m /\ 0 <= m /\ m < b /\ q \in Int /\ m \in Int
  BY <1>1
<1> HIDE DEF q, m
<1>3. q = 0
  BY <1>2
<1> QED BY <1>2, <1>3 DEF m

LEMMA AppendIndices ==
  ASSUME NEW e \in Seq(Samples), NEW x \in Samples, NEW n
  PROVE  /\ n = x.name => Indices(Append(e, x), n) = Indices(e, n) \cup {x.index}
         /\ n # x.name => Indices(Append(e, x), n) = Indices(e, n)
<1>1. ToSet(Append(e, x)) = ToSet(e) \cup {x}
  <2>1. /\ DOMAIN Append(e, x) = 1..Len(e)+1 /\ DOMAIN e = 1..Len(e) /\ Len(e) \in Nat
        /\ Append(e, x)[Len(e) + 1] = x
        /\ \A i \in 1..Len(e) : Append(e, x)[i] = e[i]
    OBVIOUS
  <2> DEFINE a == Append(e, x)
  <2> HIDE DEF a
  <2>2. ToSet(a) = {a[i] : i \in 1..Len(e)+1} /\ ToSet(e) = {e[i] : i \in 1..Len(e)}
    BY <2>1 DEF ToSet, a
  <2>3. {a[i] : i \in 1..Len(e)+1} = {e[i] : i \in 1..Len(e)} \cup {x}
    BY <2>1 DEF a
  <2> QED BY <2>2, <2>3 DEF a
<1> DEFINE S == ToSet(e)
<1> HIDE DEF S
<1>2. {y \in S \cup {x} : y.name = x.name} = {y \in S : y.name = x.name} \cup {x}
  OBVIOUS
<1>3. n # x.name => {y \in S \cup {x} : y.name = n} = {y \in S : y.name = n}
  OBVIOUS
<1>4. ASSUME NEW T
      PROVE  {y.index : y \in T \cup {x}} = {y.index : y \in T} \cup {x.index}
  OBVIOUS
<1> QED BY <1>1, <1>2, <1>3, <1>4 DEF Indices, S

LEMMA FreshFits ==
  ASSUME NEW g \in Settings
  PROVE  Fresh \in Dicts /\ Reached(g, Fresh) /\ Fits(g, Fresh, <<>>)
<1> DEFINE zero == [n \in Names |-> 0]
<1>0. zero \in [Names -> Nat] /\ (\A n \in Names : zero[n] = 0)
      /\ IsFiniteSet(Names) /\ MaxCursor \in Nat
  BY MixtureAssumption
<1>1. Fresh = [mixture |-> [cursor |-> 0, counts |-> zero, active |-> Names], at |-> zero]
  BY DEF Fresh, FreshMixture
<1>2. SumOf(zero, Names) = 0
  <2> HIDE DEF zero
  <2> QED BY <1>0, SumZero
<1> HIDE DEF zero
<1>3. Fresh \in Dicts
  BY <1>0, <1>1 DEF Dicts, Mixtures
<1>4. ASSUME NEW n \in Names
      PROVE  Indices(<<>>, n) = 0..zero[n]-1
  BY <1>0 DEF Indices, ToSet
<1>5. \A n \in Names : g.child[n].length \in Nat
  BY DEF Settings
<1>6. Fits(g, Fresh, <<>>)
  <2>1. <<>> \in Seq(Samples) /\ Len(<<>>) = 0
    OBVIOUS
  <2> QED BY <1>0, <1>1, <1>2, <1>4, <1>5, <2>1 DEF Fits
<1>7. Reached(g, Fresh)
  <2> DEFINE r == [i \in 0..0 |-> Fresh]
  <2>1. r \in [0..0 -> Dicts] /\ r[0] = Fresh /\ 0 \in Nat /\ 1..0 = {}
    BY <1>3
  <2> HIDE DEF r
  <2>2. Run(g, r, 0)
    BY <2>1 DEF Run
  <2> QED BY <2>1, <2>2 DEF Reached
<1> QED BY <1>3, <1>6, <1>7

(* A child that is given up is finite and was emitted whole; one that is    *)
(* drawn gives its next sample.                                             *)
LEMMA DropFits ==
  ASSUME NEW g \in Settings, NEW s \in Dicts, NEW e, Reads(s), ~More(g, s), Fits(g, s, e)
  PROVE  Fits(g, Dropped(g, s), e)
<1> DEFINE n == Choice(g, s)
           active == s.mixture.active
<1>1. n \in Names
  BY ChoiceActive
<1>2. g.child[n].kind # "repeating" /\ ~(s.at[n] < g.child[n].length)
  BY DEF More
<1>3. s.at[n] \in Nat /\ g.child[n].length \in Nat
  BY <1>1 DEF Settings, Dicts
<1>4. s.at[n] <= g.child[n].length
  BY <1>1, <1>2 DEF Fits
<1>5. s.at[n] = g.child[n].length
  BY <1>2, <1>3, <1>4
<1>6. /\ Dropped(g, s).mixture.cursor = s.mixture.cursor
      /\ Dropped(g, s).mixture.counts = s.mixture.counts
      /\ Dropped(g, s).mixture.active = active \ {n}
      /\ Dropped(g, s).at = s.at
  BY DEF Dropped
<1> HIDE DEF n, active
<1>7. ASSUME NEW m \in Names \ (active \ {n})
      PROVE  g.child[m].kind # "repeating" /\ s.at[m] = g.child[m].length
  <2>1. CASE m = n
    BY <1>2, <1>5, <2>1
  <2>2. CASE m # n
    BY <2>2 DEF Fits, active
  <2> QED BY <2>1, <2>2
<1> QED BY <1>6, <1>7 DEF Fits

LEMMA EmitFits ==
  ASSUME NEW g \in Settings, NEW s \in Dicts, NEW e, Reads(s), More(g, s), Fits(g, s, e)
  PROVE  /\ Sample(g, s) \in Samples
         /\ Fits(g, Emitted(g, s), Append(e, Sample(g, s)))
<1> DEFINE n == Choice(g, s)
           x == Sample(g, s)
           t == Emitted(g, s)
           at2 == s.at
           counts == s.mixture.counts
           c == s.mixture.cursor
<1>1. n \in Names /\ n \in s.mixture.active
  BY ChoiceActive
<1>2. /\ at2 \in [Names -> Nat] /\ counts \in [Names -> Nat] /\ c \in Nat
      /\ \A m \in Names : g.child[m].length \in Nat \ {0}
  BY DEF Settings, Dicts, Mixtures
<1>3. x = [name |-> n, index |-> at2[n] % g.child[n].length]
  BY DEF Sample
<1>4. x \in Samples
  BY <1>1, <1>2, <1>3 DEF Samples
<1>5. /\ t.mixture.cursor = c + 1
      /\ t.mixture.counts = [counts EXCEPT ![n] = @ + 1]
      /\ t.mixture.active = s.mixture.active
      /\ t.at = [at2 EXCEPT ![n] = @ + 1]
  BY DEF Emitted
<1>6. g.child[n].kind # "repeating" => at2[n] < g.child[n].length
  BY DEF More
<1>7. /\ e \in Seq(Samples) /\ Len(e) = c /\ SumOf(counts, Names) = c /\ counts = at2
      /\ \A m \in Names : g.child[m].kind # "repeating" =>
           at2[m] <= g.child[m].length /\ Indices(e, m) = 0..at2[m]-1
      /\ \A m \in Names \ s.mixture.active :
           g.child[m].kind # "repeating" /\ at2[m] = g.child[m].length
  BY DEF Fits
<1>8. c + 1 <= MaxCursor
  BY <1>2, MixtureAssumption DEF Reads
<1> HIDE DEF n, x, t, at2, counts, c
<1>9. Append(e, x) \in Seq(Samples) /\ Len(Append(e, x)) = c + 1
  BY <1>2, <1>4, <1>7
<1>10. SumOf([counts EXCEPT ![n] = @ + 1], Names) = c + 1
  <2>1. SumOf([counts EXCEPT ![n] = @ + 1], Names) = SumOf(counts, Names) + 1
    BY <1>1, <1>2, MixtureAssumption, SumBump
  <2> QED BY <1>7, <2>1
<1>11. ASSUME NEW m \in Names, g.child[m].kind # "repeating"
       PROVE  /\ [at2 EXCEPT ![n] = @ + 1][m] <= g.child[m].length
              /\ Indices(Append(e, x), m) = 0..[at2 EXCEPT ![n] = @ + 1][m]-1
  <2>1. CASE m = n
    <3>1. at2[n] \in Nat /\ g.child[n].length \in Nat \ {0} /\ at2[n] < g.child[n].length
      BY <1>1, <1>2, <1>6, <1>11, <2>1
    <3>2. at2[n] % g.child[n].length = at2[n]
      BY <3>1, SmallRemainder
    <3>3. x.name = n /\ x.index = at2[n]
      BY <1>3, <3>2
    <3>4. Indices(Append(e, x), n) = Indices(e, n) \cup {at2[n]}
      BY <1>4, <1>7, <3>3, AppendIndices
    <3>5. Indices(e, n) = 0..at2[n]-1
      BY <1>1, <1>7, <1>11, <2>1
    <3>6. (0..at2[n]-1) \cup {at2[n]} = 0..(at2[n] + 1)-1
      BY <3>1
    <3>7. [at2 EXCEPT ![n] = @ + 1][n] = at2[n] + 1
      BY <1>1, <1>2
    <3>8. at2[n] + 1 <= g.child[n].length
      BY <3>1
    <3> QED BY <2>1, <3>4, <3>5, <3>6, <3>7, <3>8
  <2>2. CASE m # n
    <3>1. x.name # m
      BY <1>3, <2>2
    <3>2. Indices(Append(e, x), m) = Indices(e, m)
      BY <1>4, <1>7, <3>1, AppendIndices
    <3>3. [at2 EXCEPT ![n] = @ + 1][m] = at2[m]
      BY <1>2, <2>2
    <3>4. at2[m] <= g.child[m].length /\ Indices(e, m) = 0..at2[m]-1
      BY <1>7, <1>11
    <3> QED BY <3>2, <3>3, <3>4
  <2> QED BY <2>1, <2>2
<1>12. ASSUME NEW m \in Names \ s.mixture.active
       PROVE  /\ g.child[m].kind # "repeating"
              /\ [at2 EXCEPT ![n] = @ + 1][m] = g.child[m].length
  <2>1. m # n
    BY <1>1
  <2>2. [at2 EXCEPT ![n] = @ + 1][m] = at2[m]
    BY <1>2, <2>1
  <2> QED BY <1>7, <2>2
<1>13. [counts EXCEPT ![n] = @ + 1] = [at2 EXCEPT ![n] = @ + 1]
  BY <1>7
<1>14. Fits(g, t, Append(e, x))
  BY <1>5, <1>8, <1>9, <1>10, <1>11, <1>12, <1>13 DEF Fits
<1> QED BY <1>4, <1>14 DEF t, x

-----------------------------------------------------------------------------
(* The invariant.                                                           *)
Setting == [weight |-> weight, child |-> child, draws |-> draws]

(* s was reached by the run, e is what it emitted, and sc records it.       *)
Follows(g, s, e, sc) ==
  /\ s \in Dicts /\ Reached(g, s) /\ Fits(g, s, e)
  /\ \A c \in 1..Len(e) : e[c] = sc[c - 1]

Types ==
  /\ Setting \in Settings
  /\ calling \in BOOLEAN
  /\ status \in {"reading", "ended", "failed"}
  /\ script \in [0..MaxCursor-1 -> Samples \cup {NoSample}]

CallInv ==
  /\ calling => status = "reading" /\ mixture.cursor < MaxCursor
  /\ status = "ended" => mixture.active = {}

StateInv  == Follows(Setting, StateDict, emitted, script)
SavedInv  == saved # NotSaved => Follows(Setting, saved.state, saved.emitted, script)
ScriptInv == \A c \in 0..MaxCursor-1 : script[c] # NoSample => Emits(Setting, c, script[c])

IInv == Types /\ CallInv /\ StateInv /\ SavedInv /\ ScriptInv

LEMMA NotASample == NoSample \notin Samples
<1>1. -1 \notin Names
  BY MixtureAssumption
<1> QED BY <1>1 DEF NoSample, Samples, None

(* What is recorded stays recorded.                                         *)
LEMMA StillFollows ==
  ASSUME NEW g, NEW s, NEW e, NEW sc, NEW sd, Follows(g, s, e, sc),
         \A c \in 0..MaxCursor-1 : sc[c] # NoSample => sd[c] = sc[c]
  PROVE  Follows(g, s, e, sd)
<1>1. e \in Seq(Samples) /\ Len(e) <= MaxCursor
  BY DEF Follows, Fits
<1>2. ASSUME NEW c \in 1..Len(e)
      PROVE  e[c] = sd[c - 1]
  <2>1. c - 1 \in 0..MaxCursor-1 /\ e[c] \in Samples
    BY <1>1, MixtureAssumption
  <2>2. e[c] = sc[c - 1]
    BY DEF Follows
  <2>3. sc[c - 1] # NoSample
    BY <2>1, <2>2, NotASample
  <2> QED BY <2>1, <2>2, <2>3
<1> QED BY <1>2 DEF Follows

LEMMA EmitFollows ==
  ASSUME NEW g \in Settings, NEW s, NEW e, NEW sc, Follows(g, s, e, sc),
         Reads(s), More(g, s), sc[s.mixture.cursor] = Sample(g, s)
  PROVE  Follows(g, Emitted(g, s), Append(e, Sample(g, s)), sc)
<1> DEFINE x == Sample(g, s)
           t == Emitted(g, s)
<1>1. s \in Dicts /\ Reached(g, s) /\ Fits(g, s, e)
  BY DEF Follows
<1>2. x \in Samples /\ Fits(g, t, Append(e, x))
  BY <1>1, EmitFits
<1>3. t \in Dicts /\ Reached(g, t)
  BY <1>1, TurnInDicts, Extend DEF Turn
<1>4. e \in Seq(Samples) /\ Len(e) = s.mixture.cursor
  BY <1>1 DEF Fits
<1>5. \A c \in 1..Len(e) : e[c] = sc[c - 1]
  BY DEF Follows
<1> HIDE DEF x, t
<1>6. sc[Len(e)] = x
  BY <1>4 DEF x
<1>7. ASSUME NEW c \in 1..Len(Append(e, x))
      PROVE  Append(e, x)[c] = sc[c - 1]
  <2>1. Len(Append(e, x)) = Len(e) + 1 /\ Len(e) \in Nat
    BY <1>2, <1>4
  <2>2. CASE c = Len(e) + 1
    <3>1. Append(e, x)[c] = x /\ c - 1 = Len(e)
      BY <1>2, <1>4, <2>1, <2>2
    <3> QED BY <1>6, <3>1
  <2>3. CASE c # Len(e) + 1
    <3>1. c \in 1..Len(e)
      BY <2>1, <2>3
    <3>2. Append(e, x)[c] = e[c]
      BY <1>2, <1>4, <3>1
    <3> QED BY <1>5, <3>1, <3>2
  <2> QED BY <2>2, <2>3
<1>8. Follows(g, t, Append(e, x), sc)
  BY <1>2, <1>3, <1>7 DEF Follows
<1> QED BY <1>8 DEF t, x

LEMMA DropFollows ==
  ASSUME NEW g \in Settings, NEW s, NEW e, NEW sc, Follows(g, s, e, sc),
         Reads(s), ~More(g, s)
  PROVE  Follows(g, Dropped(g, s), e, sc)
<1>1. s \in Dicts /\ Reached(g, s) /\ Fits(g, s, e)
  BY DEF Follows
<1>2. Fits(g, Dropped(g, s), e)
  BY <1>1, DropFits
<1>3. Dropped(g, s) \in Dicts /\ Reached(g, Dropped(g, s))
  BY <1>1, TurnInDicts, Extend DEF Turn
<1> QED BY <1>2, <1>3 DEF Follows

LEMMA FreshFollows ==
  ASSUME NEW g \in Settings, NEW sc
  PROVE  Follows(g, Fresh, <<>>, sc)
<1>1. 1..Len(<<>>) = {}
  OBVIOUS
<1> QED BY <1>1, FreshFits DEF Follows

(* The model's draw is the run's.                                           *)
LEMMA DrawIsChoice ==
  /\ SourceName = Choice(Setting, StateDict)
  /\ HasNext(SourceName) <=> More(Setting, StateDict)
<1> DEFINE g == Setting
           s == StateDict
<1>1. /\ g.weight = weight /\ g.child = child /\ g.draws = draws
      /\ s.mixture = mixture /\ s.at = at
  BY DEF Setting, StateDict
<1>2. ASSUME NEW A
      PROVE  Total(A) = SumOf(weight, A)
  BY DEF Total, SumOf
<1> DEFINE T == {n \in mixture.active :
                   draws[mixture.cursor] * Total(mixture.active)
                     < Total({m \in mixture.active : m <= n}) * Grain}
<1>3. SourceName = Min(T)
  BY DEF SourceName
<1> HIDE DEF g, s
<1>4. Shares(g, s) = T
  BY <1>1, <1>2 DEF Shares
<1>5. SourceName = Choice(g, s)
  BY <1>3, <1>4 DEF Choice
<1>6. HasNext(SourceName) <=> More(g, s)
  BY <1>1, <1>5 DEF HasNext, More
<1> QED BY <1>5, <1>6 DEF g, s

-----------------------------------------------------------------------------
LEMMA InitInv == Init => IInv
<1> SUFFICES ASSUME Init
             PROVE  IInv
  OBVIOUS
<1>1. /\ weight \in [Names -> Nat \ {0}]
      /\ child \in [Names -> [kind : Kinds, length : Nat \ {0}, tagged : SUBSET Nat]]
      /\ draws \in [0..MaxCursor-1 -> 0..Grain-1]
  BY MixtureAssumption DEF Init
<1>2. Setting \in Settings
  BY <1>1 DEF Setting, Settings
<1>3. /\ script = [c \in 0..MaxCursor-1 |-> NoSample]
      /\ calling = FALSE /\ status = "reading" /\ saved = NotSaved /\ emitted = <<>>
  BY DEF Init
<1>4. StateDict = Fresh
  BY DEF Init, StateDict, Fresh
<1>5. Types
  BY <1>2, <1>3 DEF Types
<1>6. CallInv
  BY <1>3 DEF CallInv
<1>7. StateInv
  BY <1>2, <1>3, <1>4, FreshFollows DEF StateInv
<1>8. SavedInv
  BY <1>3 DEF SavedInv
<1>9. ScriptInv
  BY <1>3 DEF ScriptInv
<1> QED BY <1>5, <1>6, <1>7, <1>8, <1>9 DEF IInv

(* A step that leaves the settings, the script and the checkpoint alone.    *)
LEMMA OtherStep ==
  ASSUME IInv, UNCHANGED <<weight, child, draws, script, saved>>
  PROVE  /\ Setting' = Setting /\ Setting' \in Settings
         /\ script' \in [0..MaxCursor-1 -> Samples \cup {NoSample}]
         /\ SavedInv' /\ ScriptInv'
<1>1. Setting' = Setting
  BY DEF Setting
<1>2. Setting \in Settings /\ script \in [0..MaxCursor-1 -> Samples \cup {NoSample}]
  BY DEF IInv, Types
<1>3. SavedInv'
  BY <1>1 DEF IInv, SavedInv
<1>4. ScriptInv'
  BY <1>1 DEF IInv, ScriptInv
<1> QED BY <1>1, <1>2, <1>3, <1>4

(* The draw of a call that is running.                                      *)
LEMMA Drawing ==
  ASSUME IInv, calling, mixture.active # {}
  PROVE  /\ Setting \in Settings /\ StateDict \in Dicts /\ Reads(StateDict)
         /\ Follows(Setting, StateDict, emitted, script)
         /\ mixture \in Mixtures /\ mixture = StateDict.mixture /\ at = StateDict.at
<1>1. Follows(Setting, StateDict, emitted, script)
  BY DEF IInv, StateInv
<1>2. StateDict \in Dicts
  BY <1>1 DEF Follows
<1>3. mixture = StateDict.mixture /\ at = StateDict.at
  BY DEF StateDict
<1>4. Reads(StateDict)
  BY <1>3 DEF Reads, IInv, CallInv
<1>5. mixture \in Mixtures
  BY <1>2, <1>3 DEF Dicts
<1> QED BY <1>1, <1>2, <1>3, <1>4, <1>5 DEF IInv, Types

LEMMA EmitStep ==
  ASSUME IInv, Emit \/ RefuseSample
  PROVE  IInv'
<1> DEFINE g == Setting
           s == StateDict
           x == Sample(g, s)
           c == mixture.cursor
<1>0. DrawnSample.name = SourceName
  BY DEF DrawnSample
<1>1. /\ calling /\ mixture.active # {} /\ Count(DrawnSample)
      /\ calling' = FALSE /\ status' \in {status, "failed"}
      /\ UNCHANGED <<weight, child, draws, saved>>
  BY DEF Emit, RefuseSample, config
<1>2. /\ g \in Settings /\ s \in Dicts /\ Reads(s) /\ Follows(g, s, emitted, script)
      /\ mixture \in Mixtures /\ mixture = s.mixture /\ at = s.at
  BY <1>1, Drawing
<1>3. SourceName = Choice(g, s) /\ More(g, s)
  BY <1>0, <1>1, DrawIsChoice DEF Count
<1>4. /\ g.child = child /\ script \in [0..MaxCursor-1 -> Samples \cup {NoSample}]
      /\ status = "reading" /\ c \in 0..MaxCursor-1
      /\ \A d \in 0..MaxCursor-1 : script[d] # NoSample => Emits(g, d, script[d])
  <2>1. c \in Nat
    BY <1>2 DEF Mixtures
  <2> QED BY <1>1, <2>1, MixtureAssumption DEF IInv, Types, CallInv, ScriptInv, Setting
<1>5. x = [name |-> SourceName, index |-> at[SourceName] % child[SourceName].length]
  BY <1>2, <1>3, <1>4 DEF Sample
<1>d. x = DrawnSample
  BY <1>5 DEF DrawnSample
<1>6. /\ at' = [at EXCEPT ![SourceName] = @ + 1]
      /\ mixture' = [cursor |-> mixture.cursor + 1,
                     counts |-> [mixture.counts EXCEPT ![SourceName] = @ + 1],
                     active |-> mixture.active]
      /\ emitted' = Append(emitted, x)
      /\ script' = [script EXCEPT ![c] = IF @ = NoSample THEN x ELSE @]
      /\ calling' = FALSE /\ status' \in {status, "failed"}
      /\ UNCHANGED <<weight, child, draws, saved>>
  <2> HIDE DEF x, g, s
  <2> QED BY <1>0, <1>1, <1>d DEF Count
<1>7. StateDict' = Emitted(g, s)
  <2>2. StateDict' = [mixture |-> mixture', at |-> at']
    BY DEF StateDict
  <2> HIDE DEF g, s
  <2> QED BY <1>2, <1>3, <1>6, <2>2 DEF Emitted
<1>8. Setting' = g
  BY <1>6 DEF Setting
<1>9. x \in Samples /\ Reached(g, s)
  <2>1. Fits(g, s, emitted) /\ Reached(g, s)
    BY <1>2 DEF Follows
  <2> QED BY <1>2, <1>3, <2>1, EmitFits
<1>10. Emits(g, c, x)
  BY <1>2, <1>3, <1>9 DEF Emits
<1> HIDE DEF g, s, x, c
<1>11. script[c] # NoSample => script[c] = x
  BY <1>2, <1>4, <1>10, EmitsOnce
<1>12. script'[c] = x
  BY <1>4, <1>6, <1>11
<1>13. \A d \in 0..MaxCursor-1 : d # c => script'[d] = script[d]
  BY <1>4, <1>6
<1>14. script' \in [0..MaxCursor-1 -> Samples \cup {NoSample}]
  BY <1>4, <1>6, <1>9
<1>15. \A d \in 0..MaxCursor-1 : script[d] # NoSample => script'[d] = script[d]
  BY <1>11, <1>12, <1>13
<1>16. ScriptInv'
  <2>1. \A d \in 0..MaxCursor-1 : script'[d] # NoSample => Emits(g, d, script'[d])
    BY <1>4, <1>10, <1>12, <1>13
  <2> QED BY <1>8, <2>1 DEF ScriptInv
<1>17. StateInv'
  <2>1. Follows(g, s, emitted, script')
    BY <1>2, <1>15, StillFollows
  <2>2. script'[s.mixture.cursor] = Sample(g, s)
    BY <1>2, <1>12 DEF x, c
  <2>3. Follows(g, Emitted(g, s), Append(emitted, x), script')
    BY <1>2, <1>3, <2>1, <2>2, EmitFollows DEF x
  <2> QED BY <1>6, <1>7, <1>8, <2>3 DEF StateInv
<1>18. SavedInv'
  <2>1. ASSUME saved # NotSaved
        PROVE  Follows(g, saved.state, saved.emitted, script')
    <3>1. Follows(g, saved.state, saved.emitted, script)
      BY <2>1 DEF IInv, SavedInv, g
    <3> QED BY <1>15, <3>1, StillFollows
  <2> QED BY <1>6, <1>8, <2>1 DEF SavedInv
<1>19. Types'
  BY <1>2, <1>4, <1>6, <1>8, <1>14 DEF Types
<1>20. CallInv'
  BY <1>4, <1>6 DEF CallInv
<1> QED BY <1>16, <1>17, <1>18, <1>19, <1>20 DEF IInv

LEMMA DropStep ==
  ASSUME IInv, DropSource
  PROVE  IInv'
<1> DEFINE g == Setting
           s == StateDict
<1>1. calling /\ mixture.active # {}
  BY DEF DropSource
<1>2. /\ g \in Settings /\ s \in Dicts /\ Reads(s) /\ Follows(g, s, emitted, script)
      /\ mixture \in Mixtures /\ mixture = s.mixture /\ at = s.at
  BY <1>1, Drawing
<1>3. SourceName = Choice(g, s) /\ ~More(g, s)
  BY DrawIsChoice DEF DropSource
<1>4. /\ mixture' = [mixture EXCEPT !.active = @ \ {SourceName}]
      /\ UNCHANGED <<weight, child, draws, at, calling, status, saved, script, emitted>>
  BY DEF DropSource, config
<1>5. mixture' = [cursor |-> mixture.cursor, counts |-> mixture.counts,
                  active |-> mixture.active \ {SourceName}]
  BY <1>2, <1>4 DEF Mixtures
<1>6. StateDict' = Dropped(g, s)
  <2>1. StateDict' = [mixture |-> mixture', at |-> at']
    BY DEF StateDict
  <2> HIDE DEF g, s
  <2> QED BY <1>2, <1>3, <1>4, <1>5, <2>1 DEF Dropped
<1>7. Setting' = g /\ SavedInv' /\ ScriptInv'
      /\ script' \in [0..MaxCursor-1 -> Samples \cup {NoSample}]
  BY <1>4, OtherStep
<1> HIDE DEF g, s
<1>8. StateInv'
  <2>1. Follows(g, Dropped(g, s), emitted, script)
    BY <1>2, <1>3, DropFollows
  <2> QED BY <1>4, <1>6, <1>7, <2>1 DEF StateInv
<1>9. Types'
  BY <1>2, <1>4, <1>7 DEF Types, IInv
<1>10. CallInv'
  BY <1>1, <1>4, <1>5 DEF CallInv, IInv, Types
<1> QED BY <1>7, <1>8, <1>9, <1>10 DEF IInv

LEMMA CallStep ==
  ASSUME IInv, Call
  PROVE  IInv'
<1>1. /\ status = "reading" /\ mixture.cursor < MaxCursor /\ calling' = TRUE
      /\ UNCHANGED <<weight, child, draws, mixture, at, status, saved, script, emitted>>
  BY DEF Call, config
<1>2. /\ Setting' = Setting /\ Setting' \in Settings /\ SavedInv' /\ ScriptInv'
      /\ script' \in [0..MaxCursor-1 -> Samples \cup {NoSample}]
  BY <1>1, OtherStep
<1>3. StateInv'
  <2>1. StateDict' = StateDict
    BY <1>1 DEF StateDict
  <2> QED BY <1>1, <1>2, <2>1 DEF IInv, StateInv
<1>4. Types' /\ CallInv'
  BY <1>1, <1>2 DEF Types, CallInv, IInv
<1> QED BY <1>2, <1>3, <1>4 DEF IInv

LEMMA StopStep ==
  ASSUME IInv, Stop
  PROVE  IInv'
<1>1. /\ mixture.active = {} /\ calling' = FALSE /\ status' = "ended"
      /\ UNCHANGED <<weight, child, draws, mixture, at, saved, script, emitted>>
  BY DEF Stop, config
<1>2. /\ Setting' = Setting /\ Setting' \in Settings /\ SavedInv' /\ ScriptInv'
      /\ script' \in [0..MaxCursor-1 -> Samples \cup {NoSample}]
  BY <1>1, OtherStep
<1>3. StateInv'
  <2>1. StateDict' = StateDict
    BY <1>1 DEF StateDict
  <2> QED BY <1>1, <1>2, <2>1 DEF IInv, StateInv
<1>4. Types' /\ CallInv'
  BY <1>1, <1>2 DEF Types, CallInv
<1> QED BY <1>2, <1>3, <1>4 DEF IInv

LEMMA SaveStep ==
  ASSUME IInv, Save
  PROVE  IInv'
<1>1. /\ saved' = [cursor |-> mixture.cursor, state |-> StateDict, emitted |-> emitted]
      /\ UNCHANGED <<weight, child, draws, mixture, at, calling, status, script, emitted>>
  BY DEF Save, config
<1>2. Setting' = Setting /\ StateDict' = StateDict
  BY <1>1 DEF Setting, StateDict
<1>3. saved'.state = StateDict /\ saved'.emitted = emitted
  BY <1>1
<1>4. Follows(Setting, StateDict, emitted, script)
  BY DEF IInv, StateInv
<1>5. SavedInv' /\ StateInv'
  BY <1>1, <1>2, <1>3, <1>4 DEF SavedInv, StateInv
<1>6. ScriptInv'
  BY <1>1, <1>2 DEF IInv, ScriptInv
<1>7. Types' /\ CallInv'
  BY <1>1, <1>2 DEF Types, CallInv, IInv
<1> QED BY <1>5, <1>6, <1>7 DEF IInv

LEMMA CrashStep ==
  ASSUME IInv, Crash
  PROVE  IInv'
<1>1. /\ mixture' = FreshMixture /\ at' = [n \in Names |-> 0]
      /\ calling' = FALSE /\ status' = "reading" /\ emitted' = <<>>
      /\ UNCHANGED <<weight, child, draws, saved, script>>
  BY DEF Crash, config
<1>2. /\ Setting' = Setting /\ Setting' \in Settings /\ SavedInv' /\ ScriptInv'
      /\ script' \in [0..MaxCursor-1 -> Samples \cup {NoSample}]
  BY <1>1, OtherStep
<1>3. StateInv'
  <2>1. StateDict' = Fresh
    BY <1>1 DEF StateDict, Fresh
  <2>2. Follows(Setting', Fresh, <<>>, script')
    BY <1>2, FreshFollows
  <2> QED BY <1>1, <2>1, <2>2 DEF StateInv
<1>4. Types' /\ CallInv'
  BY <1>1, <1>2 DEF Types, CallInv
<1> QED BY <1>2, <1>3, <1>4 DEF IInv

LEMMA LoadStep ==
  ASSUME IInv, Load
  PROVE  IInv'
<1>1. /\ saved # NotSaved /\ status = "reading" /\ ~calling
      /\ UNCHANGED <<weight, child, draws, calling, saved, script>>
  BY DEF Load, config
<1>2. /\ Setting' = Setting /\ Setting' \in Settings /\ SavedInv' /\ ScriptInv'
      /\ script' \in [0..MaxCursor-1 -> Samples \cup {NoSample}]
  BY <1>1, OtherStep
<1>3. CASE Accepted(saved.state)
  <2>1. /\ mixture' = saved.state.mixture /\ at' = saved.state.at
        /\ emitted' = saved.emitted /\ status' = status
    BY <1>3 DEF Load
  <2>2. Follows(Setting, saved.state, saved.emitted, script)
    BY <1>1 DEF IInv, SavedInv
  <2>3. StateDict' = saved.state
    <3>1. saved.state \in Dicts
      BY <2>2 DEF Follows
    <3>2. StateDict' = [mixture |-> saved.state.mixture, at |-> saved.state.at]
      BY <2>1 DEF StateDict
    <3> QED BY <3>1, <3>2 DEF Dicts
  <2>4. StateInv'
    BY <1>1, <1>2, <2>1, <2>2, <2>3 DEF StateInv
  <2>5. Types' /\ CallInv'
    BY <1>1, <1>2, <2>1 DEF Types, CallInv, IInv
  <2> QED BY <1>2, <2>4, <2>5 DEF IInv
<1>4. CASE ~Accepted(saved.state)
  <2>1. status' = "failed" /\ UNCHANGED <<mixture, at, emitted>>
    BY <1>4 DEF Load
  <2>2. StateInv'
    <3>1. StateDict' = StateDict
      BY <2>1 DEF StateDict
    <3> QED BY <1>1, <1>2, <2>1, <3>1 DEF IInv, StateInv
  <2>3. Types' /\ CallInv'
    BY <1>1, <1>2, <2>1 DEF Types, CallInv, IInv
  <2> QED BY <1>2, <2>2, <2>3 DEF IInv
<1> QED BY <1>3, <1>4

LEMMA StepInv == IInv /\ [Next]_vars => IInv'
<1> SUFFICES ASSUME IInv, [Next]_vars
             PROVE  IInv'
  OBVIOUS
<1>1. CASE UNCHANGED vars
  <2>1. /\ Setting' = Setting /\ StateDict' = StateDict
        /\ UNCHANGED <<mixture, calling, status, saved, script, emitted>>
    BY <1>1 DEF vars, config, Setting, StateDict
  <2> QED BY <2>1 DEF IInv, Types, CallInv, StateInv, SavedInv, ScriptInv
<1>2. CASE Next
  BY <1>2, CallStep, EmitStep, DropStep, StopStep, SaveStep, CrashStep, LoadStep DEF Next
<1> QED BY <1>1, <1>2

-----------------------------------------------------------------------------
(* The invariant holds in every run of a mixture: its state is one that the *)
(* draws lead to from a fresh one, and so is the state of its checkpoint.   *)
THEOREM MixtureInvariance == Spec => []IInv
<1>1. Init => IInv
  BY InitInv
<1>2. IInv /\ [Next]_vars => IInv'
  BY StepInv
<1> QED BY <1>1, <1>2, PTL DEF Spec

(* A resumed source repeats the samples of the one that was saved, at any   *)
(* cursor and after any crashes, and accepts what it saves.                 *)
THEOREM SamplesRepeat == Spec => []Replayable
<1>1. ASSUME IInv
      PROVE  Replayable
  <2>1. Follows(Setting, StateDict, emitted, script)
    BY <1>1 DEF IInv, StateInv
  <2>2. /\ Fits(Setting, StateDict, emitted) /\ StateDict \in Dicts
        /\ \A c \in 1..Len(emitted) : emitted[c] = script[c - 1]
    BY <2>1 DEF Follows
  <2>3. StateDict.mixture = mixture /\ StateDict.at = at /\ Setting.child = child
    BY DEF StateDict, Setting
  <2>4. emitted \in Seq(Samples) /\ Len(emitted) = mixture.cursor
    BY <2>2, <2>3 DEF Fits
  <2>5. Accepted(StateDict)
    <3> DEFINE s == StateDict
    <3>1. MapThenSumSet(LAMBDA n : s.mixture.counts[n], Names) = SumOf(s.mixture.counts, Names)
      BY DEF SumOf
    <3>2. s.mixture.active \subseteq Names
      BY <2>2 DEF Dicts, Mixtures
    <3>3. /\ SumOf(s.mixture.counts, Names) = s.mixture.cursor
          /\ \A n \in Names : child[n].kind # "repeating" => s.at[n] <= child[n].length
      BY <2>2, <2>3 DEF Fits
    <3> HIDE DEF s
    <3> QED BY <3>1, <3>2, <3>3 DEF Accepted, s
  <2> QED BY <2>2, <2>4, <2>5 DEF Replayable
<1> QED BY <1>1, MixtureInvariance, PTL

(* No sample of a child that is given up is missed or emitted twice, and a  *)
(* mixture that ranks may share does not end.                               *)
THEOREM ChildrenAreDrained == Spec => []ChildrenDrained
<1>1. ASSUME IInv
      PROVE  ChildrenDrained
  <2> DEFINE length == [n \in Names |-> child[n].length]
             s == StateDict
  <2>1. Fits(Setting, s, emitted) /\ s \in Dicts
    BY <1>1 DEF IInv, StateInv, Follows
  <2>2. s.mixture = mixture /\ s.at = at /\ Setting.child = child
    BY DEF StateDict, Setting
  <2>3. mixture.active \subseteq Names
    BY <2>1, <2>2 DEF Dicts, Mixtures
  <2>4. \A n \in Names \ mixture.active :
          child[n].kind # "repeating" /\ at[n] = length[n] /\ mixture.counts[n] = length[n]
    BY <2>1, <2>2 DEF Fits
  <2>5. ASSUME NEW n \in Names \ mixture.active
        PROVE  {x.index : x \in {y \in ToSet(emitted) : y.name = n}} = 0..length[n]-1
    <3>1. Indices(emitted, n) = 0..at[n]-1
      BY <2>1, <2>2, <2>4, <2>5 DEF Fits
    <3> HIDE DEF length
    <3> QED BY <2>4, <2>5, <3>1 DEF Indices
  <2>6. ASSUME status = "ended"
        PROVE  /\ Len(emitted) = MapThenSumSet(LAMBDA n : length[n], Names)
               /\ IsFinite # "repeating"
    <3>1. mixture.active = {}
      BY <1>1, <2>6 DEF IInv, CallInv
    <3>2. Len(emitted) = SumOf(mixture.counts, Names)
      BY <2>1, <2>2 DEF Fits
    <3>3. SumOf(mixture.counts, Names) = SumOf(length, Names)
      <4>1. \A n \in Names : mixture.counts[n] = length[n]
        BY <2>4, <3>1
      <4> HIDE DEF length
      <4> QED BY <4>1, MixtureAssumption, SumSame
    <3>4. SumOf(length, Names) = MapThenSumSet(LAMBDA n : length[n], Names)
      <4> HIDE DEF length
      <4> QED BY DEF SumOf
    <3>5. \A n \in Names : child[n].kind # "repeating"
      BY <2>4, <3>1
    <3>6. \A n \in Names : child[n].kind \in Kinds
      BY <1>1 DEF IInv, Types, Setting, Settings
    <3>7. IsFinite # "repeating"
      BY <3>5, <3>6 DEF IsFinite, Kinds
    <3> HIDE DEF length
    <3> QED BY <3>2, <3>3, <3>4, <3>7
  <2> HIDE DEF s
  <2> QED BY <2>5, <2>6 DEF ChildrenDrained
<1> QED BY <1>1, MixtureInvariance, PTL
=============================================================================
