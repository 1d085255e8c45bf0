------------------------- MODULE TrainEngineProofs --------------------------
(***************************************************************************)
(* Proofs about TrainEngine: the types, that the collectives of all ranks  *)
(* are the same ones in the same order, that the ranks apply the same      *)
(* updates, and that each update is the gradient of the global mean loss.  *)
(*                                                                         *)
(* Every optimizer step of a rank enters the same collectives, so that     *)
(* their number tells where a rank is: this is what the invariant rests    *)
(* on.  From it follow which contributions meet in a reduction, and what   *)
(* they are sums of.                                                       *)
(***************************************************************************)
EXTENDS TrainEngine, Sums

(* The collectives of one optimizer step, and of the first s steps: an      *)
(* agreement for each microbatch, and the four that follow the last.        *)
Round == Accumulation + 4

Before(s) == s * Round

(* The microbatches of the first s steps, and those of the s-th.            *)
Used(s) == s * Accumulation

Window(s) == (Used(s - 1) + 1)..Used(s)

(* The kind of the collective with k before it in its step, and of the      *)
(* n-th of all.                                                             *)
KindOf(k) ==
  IF k < Accumulation THEN "agree"
  ELSE IF k = Accumulation THEN "synchronize"
  ELSE IF k = Accumulation + 1 THEN "normalize"
  ELSE IF k = Accumulation + 2 THEN "losses"
  ELSE "metrics"

KindAt(n) == KindOf((n - 1) % Round)

(* The place of the s-th step's gradient and denominator reductions.        *)
SyncAt(s) == Before(s - 1) + Accumulation + 1
NormAt(s) == Before(s - 1) + Accumulation + 2

(* How far a rank is into its step, in collectives and in microbatches.     *)
Offset == [fetch |-> 0, agree |-> 1, forward |-> 1, synchronize |-> 2,
           normalize |-> 3, apply |-> 3, losses |-> -1, report |-> -1,
           metrics |-> 0, log |-> 0, done |-> 0, raised |-> 0]

InBatch == {"forward", "synchronize", "normalize", "apply"}

(* Between two microbatches' backward passes, or two steps.                 *)
Adding == {"fetch", "agree", "forward", "losses", "report", "metrics", "log", "done"}

Contribution ==
  [kind : {"agree"}, value : {"batch", "failed"}]
    \cup [kind : {"synchronize"}, value : GradientType]
    \cup [kind : {"normalize"}, value : Nat \ {0}]
    \cup [kind : {"losses", "metrics"}, value : {"values"}]

Nums(r) == [i \in DOMAIN given[r] |-> given[r][i].num]
Dens(r) == [i \in DOMAIN given[r] |-> given[r][i].den]

(* Sums over the s-th step's microbatches: of one rank, and of all.         *)
LocalNum(r, s) == SumOf(Nums(r), Window(s))
LocalDen(r, s) == SumOf(Dens(r), Window(s))
GlobalNum(s) == SumOf([m \in Members |-> LocalNum(m, s)], Members)
GlobalDen(s) == SumOf([m \in Members |-> LocalDen(m, s)], Members)

-----------------------------------------------------------------------------
(* The invariant.                                                           *)

Types ==
  /\ TypeOK
  /\ mail \in [Ranks -> Seq(Contribution)]

(* A rank that has not raised has entered exactly the collectives of its    *)
(* finished steps and those of its control point; one that has raised is    *)
(* between the last update and the next.                                    *)
PositionInv ==
  \A r \in Members :
    /\ pc[r] # "raised" => Len(mail[r]) = Before(step[r]) + micro[r] + Offset[pc[r]]
    /\ NormAt(step[r]) <= Len(mail[r]) /\ Len(mail[r]) <= NormAt(step[r] + 1)
    /\ pc[r] \in {"fetch", "agree"} \cup InBatch => step[r] < TargetSteps
    /\ pc[r] \in {"synchronize", "normalize", "apply"} => micro[r] = Accumulation - 1
    /\ pc[r] \in {"losses", "report", "metrics", "log"} => micro[r] = 0 /\ step[r] > 0
    /\ pc[r] = "done" => micro[r] = 0

KindInv ==
  \A r \in Members : \A n \in 1..Len(mail[r]) : mail[r][n].kind = KindAt(n)

(* No rank is more than one collective ahead, and one that is has entered   *)
(* it and not returned, unless it has raised.                               *)
AheadInv ==
  \A r, m \in Members :
    /\ Len(mail[r]) <= Len(mail[m]) + 1
    /\ pc[r] \notin Waiting \cup {"raised"} => Len(mail[r]) <= Len(mail[m])

(* Nobody passes the agreement in which a rank announced a failure.         *)
FailedInv ==
  \A r, m \in Members : \A n \in 1..Len(mail[r]) :
    mail[r][n].kind = "agree" /\ mail[r][n].value = "failed" =>
      /\ Len(mail[m]) <= n
      /\ Len(mail[m]) = n => pc[m] \in {"agree", "raised"}

(* The microbatches a rank has been given.                                  *)
GivenInv ==
  \A r \in Members :
    /\ pc[r] \notin InBatch \cup {"agree", "raised"} =>
         Len(given[r]) = Used(step[r]) + micro[r]
    /\ \/ pc[r] \in InBatch
       \/ pc[r] = "agree" /\ mail[r][Len(mail[r])].value # "failed"
       => Len(given[r]) = Used(step[r]) + micro[r] + 1

(* What a rank has accumulated.                                             *)
AccumulatedInv ==
  \A r \in Members :
    LET part == (Used(step[r]) + 1)..(Used(step[r]) + micro[r])
    IN  /\ pc[r] \in Adding =>
             /\ grad[r].sum = SumOf(Nums(r), part)
             /\ grad[r].over = 1
             /\ denom[r] = SumOf(Dens(r), part)
        /\ pc[r] = "synchronize" =>
             /\ grad[r].sum = LocalNum(r, step[r] + 1)
             /\ denom[r] = LocalDen(r, step[r] + 1)

(* What the ranks contribute to the s-th step's reductions.                 *)
ContributedInv ==
  \A m \in Members : \A s \in 1..TargetSteps :
    /\ SyncAt(s) <= Len(mail[m]) =>
         /\ Used(s) <= Len(given[m])
         /\ mail[m][SyncAt(s)].value.sum = LocalNum(m, s)
    /\ NormAt(s) <= Len(mail[m]) =>
         mail[m][NormAt(s)].value = LocalDen(m, s)

(* What the reductions return.                                              *)
ReducedInv ==
  \A r \in Members :
    /\ pc[r] = "normalize" =>
         /\ grad[r].sum = GlobalNum(step[r] + 1)
         /\ grad[r].over = world
    /\ pc[r] = "apply" =>
         /\ grad[r].sum = GlobalNum(step[r] + 1) * world
         /\ grad[r].over = world * GlobalDen(step[r] + 1)
         /\ ~grad[r].overflow

(* What has been applied, and that all ranks had contributed to it.         *)
AppliedInv ==
  \A r \in Members :
    /\ Len(update[r]) = step[r]
    /\ \A s \in 1..step[r] :
         /\ \A m \in Members : NormAt(s) <= Len(mail[m])
         /\ update[r][s].sum = GlobalNum(s) * world
         /\ update[r][s].over = world * GlobalDen(s)
         /\ ~update[r][s].overflow

IInv ==
  /\ Types
  /\ PositionInv
  /\ KindInv
  /\ AheadInv
  /\ FailedInv
  /\ GivenInv
  /\ AccumulatedInv
  /\ ContributedInv
  /\ ReducedInv
  /\ AppliedInv

-----------------------------------------------------------------------------
(* Arithmetic of the rounds.                                                *)

LEMMA Products ==
  ASSUME NEW n \in Nat
  PROVE  /\ \A s \in Int : s * n \in Int /\ (s + 1) * n = s * n + n
         /\ \A s, t \in Int : s <= t => s * n <= t * n
<1>1. \A s \in Int : s * n \in Int /\ (s + 1) * n = s * n + n
  OBVIOUS
<1>2. ASSUME NEW s \in Int, NEW t \in Int, s <= t
      PROVE  s * n <= t * n
  <2>1. t * n = s * n + (t - s) * n
    OBVIOUS
  <2>2. (t - s) \in Nat
    BY <1>2
  <2>3. \A d \in Nat : d * n >= 0
    OBVIOUS
  <2>4. (t - s) * n >= 0
    BY <2>2, <2>3
  <2>5. s * n \in Int /\ t * n \in Int /\ (t - s) * n \in Int
    BY <2>2
  <2> QED BY <2>1, <2>4, <2>5
<1> QED BY <1>1, <1>2

LEMMA Rounds ==
  /\ Accumulation \in Nat \ {0} /\ Round \in Nat /\ Round = Accumulation + 4
  /\ \A s \in Int : /\ Before(s) \in Int /\ Before(s + 1) = Before(s) + Round
                    /\ Used(s) \in Int /\ Used(s + 1) = Used(s) + Accumulation
  /\ \A s, t \in Int : s <= t => Before(s) <= Before(t) /\ Used(s) <= Used(t)
  /\ Before(0) = 0 /\ Used(0) = 0
<1>1. Accumulation \in Nat \ {0} /\ Round \in Nat /\ Round = Accumulation + 4
  BY EngineAssumption DEF Round
<1>2. /\ \A s \in Int : /\ Before(s) \in Int /\ Before(s + 1) = Before(s) + Round
                        /\ Used(s) \in Int /\ Used(s + 1) = Used(s) + Accumulation
      /\ \A s, t \in Int : s <= t => Before(s) <= Before(t) /\ Used(s) <= Used(t)
  BY <1>1, Products DEF Before, Used
<1>3. \A n \in Nat : 0 * n = 0
  OBVIOUS
<1> QED BY <1>1, <1>2, <1>3 DEF Before, Used

(* Before is injective enough: later steps start at least a round later.    *)
LEMMA StepsApart ==
  ASSUME NEW s \in Int, NEW t \in Int
  PROVE  /\ Before(s) <= Before(t) => s <= t
         /\ s < t => Before(s) + Round <= Before(t) /\ Used(s) + Accumulation <= Used(t)
<1>1. s < t => Before(s) + Round <= Before(t) /\ Used(s) + Accumulation <= Used(t)
  <2>1. s < t => s + 1 <= t /\ s + 1 \in Int
    OBVIOUS
  <2> QED BY <2>1, Rounds
<1>2. t < s => Before(t) + Round <= Before(s)
  <2>1. t < s => t + 1 <= s /\ t + 1 \in Int
    OBVIOUS
  <2> QED BY <2>1, Rounds
<1>3. Before(s) \in Int /\ Before(t) \in Int
  BY Rounds
<1>4. Round \in Nat /\ Round > 0
  BY Rounds
<1> QED BY <1>1, <1>2, <1>3, <1>4

LEMMA KindInRound ==
  ASSUME NEW s \in Nat, NEW k \in 0..Round-1
  PROVE  KindAt(Before(s) + k + 1) = KindOf(k)
<1>1. (s * Round + k) % Round = k
  <2> DEFINE x == s * Round + k
             q == x \div Round
             j == x % Round
  <2>1. Round \in Nat /\ Round > 0
    BY Rounds
  <2>12. s * Round \in Nat /\ x \in Nat
    BY <2>1
  <2>2. q \in Int /\ j \in 0..Round-1 /\ x = Round * q + j
    BY <2>1, <2>12
  <2> HIDE DEF x, q, j
  <2>3. x = Before(s) + k /\ x = Before(q) + j
    <3>1. Round * q = q * Round
      BY <2>1, <2>2
    <3> QED BY <2>2, <3>1 DEF x, Before
  <2>4. Before(s) \in Int /\ Before(q) \in Int
    <3>1. s \in Int /\ q \in Int
      BY <2>2
    <3> QED BY <3>1, Rounds
  <2>5. ~(s < q) /\ ~(q < s)
    <3>1. s < q => Before(s) + Round <= Before(q)
      BY <2>2, StepsApart
    <3>2. q < s => Before(q) + Round <= Before(s)
      BY <2>2, StepsApart
    <3> QED BY <2>1, <2>2, <2>3, <2>4, <3>1, <3>2
  <2>6. s = q
    BY <2>2, <2>5
  <2>7. j = k
    BY <2>2, <2>3, <2>4, <2>6
  <2> QED BY <2>7 DEF x, j
<1>2. Before(s) \in Int /\ Before(s) = s * Round
  BY Rounds DEF Before
<1> DEFINE n == Before(s) + k + 1
<1>3. (n - 1) % Round = k
  <2>1. n - 1 = Before(s) + k
    BY <1>2
  <2> HIDE DEF n
  <2> QED BY <1>1, <1>2, <2>1, Zenon
<1> HIDE DEF n
<1>4. KindAt(n) = KindOf(k)
  BY <1>3 DEF KindAt
<1> QED BY <1>4 DEF n

(* The kind of each collective that a rank may be in, from its position.    *)
LEMMA KindsOfStep ==
  ASSUME NEW s \in Nat
  PROVE  /\ \A k \in 0..Accumulation-1 : KindAt(Before(s) + k + 1) = "agree"
         /\ KindAt(Before(s) + Accumulation + 1) = "synchronize"
         /\ KindAt(Before(s) + Accumulation + 2) = "normalize"
         /\ KindAt(Before(s) + Accumulation + 3) = "losses"
         /\ KindAt(Before(s) + Accumulation + 4) = "metrics"
<1>1. /\ Accumulation \in Nat \ {0} /\ Round = Accumulation + 4
      /\ Before(s) \in Int
  BY Rounds
<1>2. /\ 0..Accumulation-1 \subseteq 0..Round-1
      /\ Accumulation \in 0..Round-1 /\ Accumulation + 1 \in 0..Round-1
      /\ Accumulation + 2 \in 0..Round-1 /\ Accumulation + 3 \in 0..Round-1
  BY <1>1
<1>3. \A k \in 0..Round-1 : KindAt(Before(s) + k + 1) = KindOf(k)
  BY KindInRound
<1>4. /\ Before(s) + Accumulation + 2 = Before(s) + (Accumulation + 1) + 1
      /\ Before(s) + Accumulation + 3 = Before(s) + (Accumulation + 2) + 1
      /\ Before(s) + Accumulation + 4 = Before(s) + (Accumulation + 3) + 1
  BY <1>1
<1>5. \A k \in 0..Accumulation-1 : KindAt(Before(s) + k + 1) = "agree"
  BY <1>1, <1>2, <1>3 DEF KindOf
<1>6. KindAt(Before(s) + Accumulation + 1) = "synchronize"
  BY <1>1, <1>2, <1>3 DEF KindOf
<1>7. KindAt(Before(s) + (Accumulation + 1) + 1) = "normalize"
  BY <1>1, <1>2, <1>3 DEF KindOf
<1>8. KindAt(Before(s) + (Accumulation + 2) + 1) = "losses"
  BY <1>1, <1>2, <1>3 DEF KindOf
<1>9. KindAt(Before(s) + (Accumulation + 3) + 1) = "metrics"
  BY <1>1, <1>2, <1>3 DEF KindOf
<1> QED BY <1>4, <1>5, <1>6, <1>7, <1>8, <1>9

-----------------------------------------------------------------------------
(* Sums over microbatches and over ranks.                                   *)

LEMMA MembersAre ==
  ASSUME Types
  PROVE  /\ world \in Nat \ {0} /\ Members \subseteq Ranks
         /\ IsFiniteSet(Members) /\ Members # {}
<1>1. world \in 1..MaxWorld /\ MaxWorld \in Nat \ {0}
  BY EngineAssumption DEF Types, TypeOK
<1>2. IsFiniteSet(0..world-1)
  BY <1>1, FS_Interval
<1> QED BY <1>1, <1>2 DEF Members, Ranks

(* SumOver, as a sum of a function.                                         *)
LEMMA SumsOver ==
  ASSUME NEW r
  PROVE  /\ SumOver(r, LAMBDA g : g.sum)
              = SumOf([m \in Members |-> Contributed(r, m).sum], Members)
         /\ SumOver(r, LAMBDA d : d)
              = SumOf([m \in Members |-> Contributed(r, m)], Members)
<1>1. SumOver(r, LAMBDA g : g.sum)
        = SumOf([m \in Members |-> Contributed(r, m).sum], Members)
  <2> DEFINE F(g) == [s \in SUBSET Members |->
                        IF s = {} THEN 0
                        ELSE Contributed(r, CHOOSE x \in s : TRUE).sum
                               + g[s \ {CHOOSE x \in s : TRUE}]]
             G(g) == [s \in SUBSET Members |->
                        IF s = {} THEN 0
                        ELSE [m \in Members |-> Contributed(r, m).sum][CHOOSE x \in s : TRUE]
                               + g[s \ {CHOOSE x \in s : TRUE}]]
  <2>1. ASSUME NEW g
        PROVE  F(g) = G(g)
    OBVIOUS
  <2>2. SumOver(r, LAMBDA g : g.sum) = (CHOOSE g : g = F(g))[Members]
    BY DEF SumOver, MapThenSumSet, MapThenFoldSet
  <2>3. SumOf([m \in Members |-> Contributed(r, m).sum], Members)
          = (CHOOSE g : g = G(g))[Members]
    BY DEF SumOf, MapThenSumSet, MapThenFoldSet
  <2>4. (CHOOSE g : g = F(g)) = (CHOOSE g : g = G(g))
    <3> HIDE DEF F, G
    <3> QED BY <2>1
  <2> QED BY <2>2, <2>3, <2>4
<1>2. SumOver(r, LAMBDA d : d)
        = SumOf([m \in Members |-> Contributed(r, m)], Members)
  <2> DEFINE F(g) == [s \in SUBSET Members |->
                        IF s = {} THEN 0
                        ELSE Contributed(r, CHOOSE x \in s : TRUE)
                               + g[s \ {CHOOSE x \in s : TRUE}]]
             G(g) == [s \in SUBSET Members |->
                        IF s = {} THEN 0
                        ELSE [m \in Members |-> Contributed(r, m)][CHOOSE x \in s : TRUE]
                               + g[s \ {CHOOSE x \in s : TRUE}]]
  <2>1. ASSUME NEW g
        PROVE  F(g) = G(g)
    OBVIOUS
  <2>2. SumOver(r, LAMBDA d : d) = (CHOOSE g : g = F(g))[Members]
    BY DEF SumOver, MapThenSumSet, MapThenFoldSet
  <2>3. SumOf([m \in Members |-> Contributed(r, m)], Members)
          = (CHOOSE g : g = G(g))[Members]
    BY DEF SumOf, MapThenSumSet, MapThenFoldSet
  <2>4. (CHOOSE g : g = F(g)) = (CHOOSE g : g = G(g))
    <3> HIDE DEF F, G
    <3> QED BY <2>1
  <2> QED BY <2>2, <2>3, <2>4
<1> QED BY <1>1, <1>2

(* A microbatch of a rank.                                                  *)
LEMMA GivenType ==
  ASSUME Types, NEW m \in Ranks
  PROVE  /\ Len(given[m]) \in Nat /\ given[m] \in Seq(Microbatches)
         /\ DOMAIN given[m] = 1..Len(given[m])
         /\ \A i \in 1..Len(given[m]) :
              /\ Nums(m)[i] = given[m][i].num /\ Nums(m)[i] \in Int
              /\ Dens(m)[i] = given[m][i].den /\ Dens(m)[i] \in Nat \ {0}
<1>1. given[m] \in Seq(Microbatches) /\ Microbatches \subseteq MicrobatchType
  BY EngineAssumption DEF Types, TypeOK
<1>2. \A i \in 1..Len(given[m]) : given[m][i] \in MicrobatchType
  BY <1>1
<1>3. Len(given[m]) \in Nat /\ DOMAIN given[m] = 1..Len(given[m])
  BY <1>1
<1> QED BY <1>1, <1>2, <1>3 DEF Nums, Dens, MicrobatchType

LEMMA SumTypes ==
  ASSUME Types, NEW m \in Ranks, NEW lo \in Nat \ {0}, NEW hi \in Int,
         hi <= Len(given[m])
  PROVE  /\ SumOf(Nums(m), lo..hi) \in Int
         /\ SumOf(Dens(m), lo..hi) \in Nat
         /\ lo <= hi => SumOf(Dens(m), lo..hi) # 0
<1>0. lo \in Int /\ hi \in Int /\ IsFiniteSet(lo..hi)
  BY FS_Interval
<1>1. lo..hi \subseteq 1..Len(given[m]) /\ IsFiniteSet(lo..hi)
  BY <1>0, GivenType
<1>2. \A i \in lo..hi : Nums(m)[i] \in Int /\ Dens(m)[i] \in Nat \ {0}
  BY <1>1, GivenType
<1>3. SumOf(Nums(m), lo..hi) \in Int
  BY <1>1, <1>2, SumInteger
<1>4. SumOf(Dens(m), lo..hi) \in Nat /\ (lo..hi # {} => SumOf(Dens(m), lo..hi) # 0)
  BY <1>1, <1>2, SumPositive
<1>5. lo <= hi => lo \in lo..hi
  OBVIOUS
<1> QED BY <1>3, <1>4, <1>5

(* The next microbatch is added to the sum of those before it.              *)
LEMMA SumsGrow ==
  ASSUME Types, NEW m \in Ranks, NEW lo \in Nat \ {0}, NEW n \in Nat,
         lo <= n + 1, Len(given[m]) = n + 1
  PROVE  /\ SumOf(Nums(m), lo..(n + 1)) = SumOf(Nums(m), lo..n) + Last(given[m]).num
         /\ SumOf(Dens(m), lo..(n + 1)) = SumOf(Dens(m), lo..n) + Last(given[m]).den
         /\ Last(given[m]) \in Microbatches
<1>0. lo \in Int /\ n + 1 \in Int /\ IsFiniteSet(lo..(n + 1))
  BY FS_Interval
<1>1. /\ lo..(n + 1) \subseteq 1..Len(given[m]) /\ IsFiniteSet(lo..(n + 1))
      /\ n + 1 \in lo..(n + 1) /\ (lo..(n + 1)) \ {n + 1} = lo..n
  BY <1>0
<1>2. \A i \in lo..(n + 1) : Nums(m)[i] \in Int /\ Dens(m)[i] \in Int
  BY <1>1, GivenType
<1>3. /\ SumOf(Nums(m), lo..(n + 1)) = Nums(m)[n + 1] + SumOf(Nums(m), lo..n)
      /\ SumOf(Dens(m), lo..(n + 1)) = Dens(m)[n + 1] + SumOf(Dens(m), lo..n)
  BY <1>1, <1>2, SumRemove
<1>4. Nums(m)[n + 1] = Last(given[m]).num /\ Dens(m)[n + 1] = Last(given[m]).den
  BY GivenType DEF Last
<1>5. SumOf(Nums(m), lo..n) \in Int /\ SumOf(Dens(m), lo..n) \in Int
  BY SumTypes
<1>6. Last(given[m]) \in Microbatches
  BY GivenType DEF Last
<1>7. Nums(m)[n + 1] \in Int /\ Dens(m)[n + 1] \in Int
  BY <1>1, <1>2
<1> QED BY <1>3, <1>4, <1>5, <1>6, <1>7

(* What has been given stays.                                               *)
LEMMA SumsStay ==
  ASSUME Types, NEW m \in Ranks, NEW lo \in Nat \ {0}, NEW hi \in Int,
         hi <= Len(given[m]),
         given'[m] = given[m] \/ \E b : given'[m] = Append(given[m], b)
  PROVE  /\ SumOf(Nums(m), lo..hi)' = SumOf(Nums(m), lo..hi)
         /\ SumOf(Dens(m), lo..hi)' = SumOf(Dens(m), lo..hi)
<1>1. given[m] \in Seq(Microbatches) /\ Len(given[m]) \in Nat
  BY GivenType
<1>2. /\ DOMAIN given[m] \subseteq DOMAIN given'[m] /\ DOMAIN given[m] = 1..Len(given[m])
      /\ \A i \in 1..Len(given[m]) : given'[m][i] = given[m][i]
  BY <1>1
<1>3. \A i \in 1..Len(given[m]) : Nums(m)'[i] = Nums(m)[i] /\ Dens(m)'[i] = Dens(m)[i]
  BY <1>2 DEF Nums, Dens
<1>0. lo \in Int /\ hi \in Int /\ IsFiniteSet(lo..hi)
  BY FS_Interval
<1>4. lo..hi \subseteq 1..Len(given[m]) /\ IsFiniteSet(lo..hi)
  BY <1>0, <1>1
<1>5. /\ SumOf(Nums(m)', lo..hi) = SumOf(Nums(m), lo..hi)
      /\ SumOf(Dens(m)', lo..hi) = SumOf(Dens(m), lo..hi)
  BY <1>3, <1>4, SumSame
<1> QED BY <1>5

LEMMA LocalTypes ==
  ASSUME Types, NEW m \in Ranks, NEW s \in Nat \ {0}, Used(s) <= Len(given[m])
  PROVE  LocalNum(m, s) \in Int /\ LocalDen(m, s) \in Nat \ {0}
<1>1. s - 1 \in Nat /\ s - 1 \in Int /\ 0 \in Int /\ 0 <= s - 1 /\ (s - 1) + 1 = s
  OBVIOUS
<1>2. Used(s - 1) \in Int /\ Used(s) = Used(s - 1) + Accumulation
  BY <1>1, Rounds
<1>3. Accumulation \in Nat \ {0} /\ Used(0) = 0
  BY Rounds
<1>4. Used(0) <= Used(s - 1)
  BY <1>1, Rounds
<1> DEFINE lo == Used(s - 1) + 1
           hi == Used(s)
<1>5. lo \in Nat \ {0} /\ hi \in Int /\ lo <= hi
  BY <1>2, <1>3, <1>4
<1> QED
  <2> HIDE DEF lo, hi
  <2>1. /\ SumOf(Nums(m), lo..hi) \in Int
        /\ SumOf(Dens(m), lo..hi) \in Nat /\ SumOf(Dens(m), lo..hi) # 0
    <3>1. hi <= Len(given[m])
      BY DEF hi
    <3> QED BY <1>5, <3>1, SumTypes
  <2> QED BY <2>1 DEF LocalNum, LocalDen, Window, lo, hi

LEMMA LocalStays ==
  ASSUME Types, NEW m \in Ranks, NEW s \in Nat \ {0}, Used(s) <= Len(given[m]),
         given'[m] = given[m] \/ \E b : given'[m] = Append(given[m], b)
  PROVE  LocalNum(m, s)' = LocalNum(m, s) /\ LocalDen(m, s)' = LocalDen(m, s)
<1>1. s - 1 \in Int /\ s \in Int /\ 0 \in Int /\ 0 <= s - 1
  OBVIOUS
<1>2. Used(s - 1) \in Int /\ Used(s) \in Int /\ Used(0) <= Used(s - 1) /\ Used(0) = 0
  <2>1. Used(s - 1) \in Int /\ Used(s) \in Int
    BY <1>1, Rounds
  <2>2. Used(0) <= Used(s - 1)
    BY <1>1, Rounds
  <2>3. Used(0) = 0
    BY Rounds
  <2> QED BY <2>1, <2>2, <2>3
<1>3. Used(s - 1) + 1 \in Nat \ {0}
  BY <1>2
<1>4. /\ SumOf(Nums(m), (Used(s - 1) + 1)..Used(s))' = SumOf(Nums(m), (Used(s - 1) + 1)..Used(s))
      /\ SumOf(Dens(m), (Used(s - 1) + 1)..Used(s))' = SumOf(Dens(m), (Used(s - 1) + 1)..Used(s))
  BY <1>2, <1>3, SumsStay
<1> QED BY <1>4 DEF LocalNum, LocalDen, Window

(* The sums over all ranks are numbers, once all were given the step's      *)
(* microbatches, and stay.                                                  *)
LEMMA GlobalTypes ==
  ASSUME Types, NEW s \in Nat \ {0}, \A m \in Members : Used(s) <= Len(given[m])
  PROVE  GlobalNum(s) \in Int /\ GlobalDen(s) \in Nat \ {0}
<1> DEFINE v == [m \in Members |-> LocalNum(m, s)]
           w == [m \in Members |-> LocalDen(m, s)]
<1>1. \A m \in Members : LocalNum(m, s) \in Int /\ LocalDen(m, s) \in Nat \ {0}
  BY MembersAre, LocalTypes
<1>2. \A m \in Members : v[m] \in Int /\ w[m] \in Nat \ {0}
  BY <1>1
<1> HIDE DEF v, w
<1>3. SumOf(v, Members) \in Int
  BY <1>2, MembersAre, SumInteger
<1>4. SumOf(w, Members) \in Nat \ {0}
  BY <1>2, MembersAre, SumPositive
<1> QED BY <1>3, <1>4 DEF GlobalNum, GlobalDen, v, w

LEMMA GlobalStays ==
  ASSUME Types, NEW s \in Nat \ {0}, world' = world,
         \A m \in Members :
           /\ Used(s) <= Len(given[m])
           /\ given'[m] = given[m] \/ \E b : given'[m] = Append(given[m], b)
  PROVE  GlobalNum(s)' = GlobalNum(s) /\ GlobalDen(s)' = GlobalDen(s)
<1>1. Members' = Members
  BY DEF Members
<1>2. \A m \in Members : /\ LocalNum(m, s)' = LocalNum(m, s)
                         /\ LocalDen(m, s)' = LocalDen(m, s)
  BY MembersAre, LocalStays
<1>3. /\ [m \in Members |-> LocalNum(m, s)]' = [m \in Members |-> LocalNum(m, s)]
      /\ [m \in Members |-> LocalDen(m, s)]' = [m \in Members |-> LocalDen(m, s)]
  BY <1>1, <1>2
<1> QED BY <1>1, <1>3 DEF GlobalNum, GlobalDen

-----------------------------------------------------------------------------
(* What any step of a rank does.                                            *)

Acts(r) == Advance(r) \/ SaveAfterFailure(r)

Level(r) == \A m \in Members : Len(mail[r]) <= Len(mail[m])

LEMMA RankTypes ==
  ASSUME Types, NEW r \in Ranks
  PROVE  /\ pc[r] \in Points /\ step[r] \in 0..TargetSteps /\ TargetSteps \in Nat
         /\ micro[r] \in 0..Accumulation-1 /\ Accumulation \in Nat \ {0}
         /\ grad[r] \in GradientType /\ denom[r] \in Nat
         /\ mail[r] \in Seq(Contribution) /\ Len(mail[r]) \in Nat
         /\ given[r] \in Seq(Microbatches) /\ Len(given[r]) \in Nat
         /\ update[r] \in Seq(GradientType) /\ Len(update[r]) \in Nat
         /\ step[r] \in Int /\ micro[r] \in Int
         /\ Before(step[r]) \in Int /\ Used(step[r]) \in Int
         /\ NormAt(step[r]) \in Int
         /\ NormAt(step[r] + 1) = Before(step[r]) + Accumulation + 2
<1>1. /\ pc[r] \in Points /\ step[r] \in 0..TargetSteps /\ TargetSteps \in Nat
      /\ micro[r] \in 0..Accumulation-1 /\ Accumulation \in Nat \ {0}
      /\ grad[r] \in GradientType /\ denom[r] \in Nat
      /\ mail[r] \in Seq(Contribution)
      /\ given[r] \in Seq(Microbatches)
      /\ update[r] \in Seq(GradientType)
  BY EngineAssumption DEF Types, TypeOK
<1>2. Len(mail[r]) \in Nat /\ Len(given[r]) \in Nat /\ Len(update[r]) \in Nat
  BY <1>1
<1>3. step[r] \in Int /\ micro[r] \in Int /\ step[r] - 1 \in Int
  BY <1>1
<1>4. Before(step[r]) \in Int /\ Used(step[r]) \in Int /\ Before(step[r] - 1) \in Int
  BY <1>3, Rounds
<1>5. (step[r] + 1) - 1 = step[r]
  BY <1>3
<1>6. NormAt(step[r] + 1) = Before(step[r]) + Accumulation + 2
  BY <1>5 DEF NormAt
<1>7. NormAt(step[r]) \in Int
  BY <1>1, <1>4 DEF NormAt
<1> QED BY <1>1, <1>2, <1>3, <1>4, <1>6, <1>7

LEMMA Frame ==
  ASSUME Types, NEW r \in Members, Acts(r)
  PROVE  /\ world' = world /\ inert' = inert /\ Members' = Members
         /\ \A m \in Ranks : m # r =>
              /\ pc'[m] = pc[m] /\ step'[m] = step[m] /\ micro'[m] = micro[m]
              /\ grad'[m] = grad[m] /\ denom'[m] = denom[m] /\ mail'[m] = mail[m]
              /\ given'[m] = given[m] /\ update'[m] = update[m]
<1>1. world' = world /\ inert' = inert
  BY DEF Acts, Advance, Fetch, FetchFails, Agree, Forward, ForwardFails, Synchronize,
         TermsFail, Normalize, Apply, LossesReduced, Report, ReportFails, Reported, Log,
         LogFails, PeerLost, SaveAfterFailure
<1> USE DEF Types, TypeOK, Enter, Goto
<1>2. ASSUME NEW m \in Ranks, m # r
      PROVE  /\ pc'[m] = pc[m] /\ step'[m] = step[m] /\ micro'[m] = micro[m]
             /\ grad'[m] = grad[m] /\ denom'[m] = denom[m] /\ mail'[m] = mail[m]
             /\ given'[m] = given[m] /\ update'[m] = update[m]
  <2>1. CASE Fetch(r)
    BY <1>2, <2>1 DEF Fetch
  <2>2. CASE FetchFails(r)
    BY <1>2, <2>2 DEF FetchFails
  <2>3. CASE Agree(r)
    BY <1>2, <2>3 DEF Agree
  <2>4. CASE Forward(r)
    BY <1>2, <2>4 DEF Forward
  <2>5. CASE ForwardFails(r) \/ TermsFail(r) \/ ReportFails(r) \/ LogFails(r) \/ PeerLost(r)
    BY <1>2, <2>5 DEF ForwardFails, TermsFail, ReportFails, LogFails, PeerLost
  <2>6. CASE Synchronize(r)
    BY <1>2, <2>6 DEF Synchronize
  <2>7. CASE Normalize(r)
    BY <1>2, <2>7 DEF Normalize
  <2>8. CASE Apply(r)
    BY <1>2, <2>8 DEF Apply
  <2>9. CASE LossesReduced(r) \/ Reported(r) \/ Log(r)
    BY <1>2, <2>9 DEF LossesReduced, Reported, Log
  <2>10. CASE Report(r)
    BY <1>2, <2>10 DEF Report
  <2>11. CASE SaveAfterFailure(r)
    BY <2>11 DEF SaveAfterFailure
  <2> QED BY <2>1, <2>2, <2>3, <2>4, <2>5, <2>6, <2>7, <2>8, <2>9, <2>10, <2>11
             DEF Acts, Advance
<1> QED BY <1>1, <1>2 DEF Members

(* The collectives' results: what the reductions of a step return.          *)
LEMMA ReachedSums ==
  ASSUME Types, PositionInv, ContributedInv, NEW r \in Members, Complete(r)
  PROVE  /\ pc[r] = "synchronize" =>
              SumOver(r, LAMBDA g : g.sum) = GlobalNum(step[r] + 1)
         /\ pc[r] = "normalize" =>
              SumOver(r, LAMBDA d : d) = GlobalDen(step[r] + 1)
         /\ pc[r] \in {"synchronize", "normalize"} =>
              \A m \in Members : Used(step[r] + 1) <= Len(given[m])
<1> DEFINE s == step[r] + 1
<1>1. /\ r \in Ranks /\ IsFiniteSet(Members) /\ Members \subseteq Ranks
      /\ \A m \in Members : Len(mail[r]) <= Len(mail[m]) /\ Len(mail[m]) \in Nat
  BY MembersAre, RankTypes DEF Complete
<1>2. CASE pc[r] \in {"synchronize", "normalize"}
  <2>1. /\ s \in 1..TargetSteps /\ s - 1 = step[r]
        /\ pc[r] = "synchronize" => Len(mail[r]) = SyncAt(s)
        /\ Len(mail[r]) >= SyncAt(s) /\ SyncAt(s) \in Int
        /\ pc[r] = "normalize" => Len(mail[r]) = NormAt(s)
    <3>1. /\ step[r] < TargetSteps /\ micro[r] = Accumulation - 1
          /\ Len(mail[r]) = Before(step[r]) + micro[r] + Offset[pc[r]]
      BY <1>1, <1>2 DEF PositionInv, InBatch
    <3>2. s \in 1..TargetSteps /\ s - 1 = step[r]
      <4>1. step[r] \in 0..TargetSteps /\ TargetSteps \in Nat
        BY <1>1, RankTypes
      <4> QED BY <3>1, <4>1
    <3>3. Before(step[r]) \in Int /\ Accumulation \in Nat \ {0}
      BY <1>1, RankTypes
    <3>4. /\ Offset["synchronize"] = 2 /\ Offset["normalize"] = 3
      BY DEF Offset
    <3> QED BY <1>2, <3>1, <3>2, <3>3, <3>4 DEF SyncAt, NormAt
  <2> HIDE DEF s
  <2>2. \A m \in Members : Len(mail[m]) >= SyncAt(s)
    BY <1>1, <2>1
  <2>3. \A m \in Members : /\ Used(s) <= Len(given[m])
                           /\ mail[m][SyncAt(s)].value.sum = LocalNum(m, s)
    BY <2>1, <2>2 DEF ContributedInv
  <2>4. ASSUME pc[r] = "synchronize"
        PROVE  SumOver(r, LAMBDA g : g.sum) = GlobalNum(s)
    <3>1. \A m \in Members : Contributed(r, m).sum = LocalNum(m, s)
      BY <2>1, <2>3, <2>4 DEF Contributed
    <3>2. [m \in Members |-> Contributed(r, m).sum] = [m \in Members |-> LocalNum(m, s)]
      BY <3>1
    <3> QED BY <3>2, SumsOver DEF GlobalNum
  <2>5. ASSUME pc[r] = "normalize"
        PROVE  SumOver(r, LAMBDA d : d) = GlobalDen(s)
    <3>1. \A m \in Members : Contributed(r, m) = LocalDen(m, s)
      BY <1>1, <2>1, <2>5 DEF Contributed, ContributedInv
    <3>2. [m \in Members |-> Contributed(r, m)] = [m \in Members |-> LocalDen(m, s)]
      BY <3>1
    <3> QED BY <3>2, SumsOver DEF GlobalDen
  <2> QED BY <2>3, <2>4, <2>5 DEF s
<1> QED BY <1>2

LEMMA GradientWith ==
  ASSUME NEW g \in GradientType, NEW n \in Int, NEW o \in BOOLEAN
  PROVE  /\ [g EXCEPT !.sum = n, !.overflow = o] \in GradientType
         /\ [g EXCEPT !.sum = n, !.overflow = o].sum = n
         /\ [g EXCEPT !.sum = n, !.overflow = o].over = g.over
BY DEF GradientType

LEMMA ScaledGradient ==
  ASSUME NEW g \in GradientType, NEW n, NEW q
  PROVE  /\ [g EXCEPT !.sum = n, !.over = q].sum = n
         /\ [g EXCEPT !.sum = n, !.over = q].over = q
         /\ [g EXCEPT !.sum = n, !.over = q].overflow = g.overflow
BY DEF GradientType

LEMMA PositiveProduct ==
  ASSUME NEW a \in Nat \ {0}, NEW b \in Nat \ {0}
  PROVE  a * b \in Nat \ {0}
<1>1. a * b \in Int
  OBVIOUS
<1>2. (a - 1) * b \in Int /\ a * b = (a - 1) * b + b
  OBVIOUS
<1>3. (a - 1) * b >= 0
  OBVIOUS
<1> QED BY <1>1, <1>2, <1>3

(* A rank that prepared its batch has one; at the end of a step's           *)
(* microbatches its denominator is that of all of them.                     *)
LEMMA GivenFacts ==
  ASSUME IInv, NEW r \in Members
  PROVE  /\ pc[r] \in InBatch => /\ Len(given[r]) = Used(step[r]) + micro[r] + 1
                                 /\ Len(given[r]) \in Nat \ {0} /\ Used(step[r]) \in Nat
         /\ pc[r] \in {"synchronize", "normalize", "apply"} =>
              Len(given[r]) = Used(step[r] + 1)
         /\ pc[r] = "synchronize" => denom[r] \in Nat \ {0}
<1>1. r \in Ranks
  BY MembersAre DEF IInv
<1>2. /\ step[r] \in Int /\ 0 \in Int /\ 0 <= step[r] /\ micro[r] \in 0..Accumulation-1
      /\ Accumulation \in Nat \ {0} /\ Len(given[r]) \in Nat
  BY <1>1, RankTypes DEF IInv
<1>3. Used(0) <= Used(step[r]) /\ Used(0) = 0 /\ Used(step[r]) \in Int
  BY <1>2, Rounds
<1>4. pc[r] \in InBatch => Len(given[r]) = Used(step[r]) + micro[r] + 1
  BY DEF IInv, GivenInv
<1>5. pc[r] \in {"synchronize", "normalize", "apply"} => Len(given[r]) = Used(step[r] + 1)
  <2>1. Used(step[r] + 1) = Used(step[r]) + Accumulation
    BY <1>2, Rounds
  <2>2. pc[r] \in {"synchronize", "normalize", "apply"} =>
          pc[r] \in InBatch /\ micro[r] = Accumulation - 1
    BY DEF IInv, PositionInv, InBatch
  <2> QED BY <1>2, <1>3, <1>4, <2>1, <2>2
<1>6. pc[r] = "synchronize" => denom[r] \in Nat \ {0}
  <2>1. step[r] + 1 \in Nat \ {0}
    BY <1>2
  <2>2. ASSUME pc[r] = "synchronize"
        PROVE  denom[r] = LocalDen(r, step[r] + 1) /\ Used(step[r] + 1) <= Len(given[r])
    BY <1>2, <1>5, <2>2 DEF IInv, AccumulatedInv
  <2>3. Types
    BY DEF IInv
  <2> QED BY <1>1, <2>1, <2>2, <2>3, LocalTypes
<1> QED BY <1>2, <1>3, <1>4, <1>5, <1>6

(* What a rank contributes, and when: only a rank that is not waiting, or   *)
(* whose wait is over, contributes, and it then waits for what it           *)
(* contributed to.                                                          *)
Contributes(r) ==
  /\ \E c \in Contribution : mail'[r] = Append(mail[r], c) /\ c.kind = pc'[r]
  /\ pc'[r] \in Waiting
  /\ pc[r] \notin {"raised", "agree"}
  /\ pc[r] \notin Waiting \/ Complete(r)

LEMMA Posting ==
  ASSUME IInv, NEW r \in Members, Acts(r)
  PROVE  /\ \/ /\ mail'[r] = mail[r]
               /\ pc'[r] \in Waiting => pc'[r] = pc[r]
               /\ pc'[r] \notin Waiting \cup {"raised"} =>
                    pc[r] \notin Waiting \cup {"raised"} \/ Complete(r)
            \/ Contributes(r)
         /\ given'[r] = given[r] \/ \E b \in Microbatches : given'[r] = Append(given[r], b)
         /\ pc'[r] \in Points
         /\ pc[r] = "raised" => pc'[r] = "raised" /\ mail'[r] = mail[r]
         /\ pc[r] = "agree" =>
              /\ mail'[r] = mail[r] /\ given'[r] = given[r]
              /\ \/ pc'[r] = "raised"
                 \/ /\ pc'[r] = "forward" /\ Complete(r)
                    /\ \A m \in Members : Contributed(r, m) # "failed"
<1>1. Types /\ r \in Ranks /\ pc \in [Ranks -> Points] /\ pc[r] \in Points
  BY MembersAre, RankTypes DEF IInv, Types, TypeOK
<1>2. /\ mail \in [Ranks -> Seq(Contribution)] /\ given \in [Ranks -> Seq(Microbatches)]
      /\ grad[r] \in GradientType /\ mail[r] \in Seq(Contribution)
  BY <1>1, RankTypes DEF Types, TypeOK
<1> USE DEF Enter, Goto, Waiting, Points, Contributes
<1>3. CASE Fetch(r)
  <2>1. [kind |-> "agree", value |-> "batch"] \in Contribution
    BY DEF Contribution
  <2> QED BY <1>1, <1>2, <1>3, <2>1 DEF Fetch
<1>4. CASE FetchFails(r)
  <2>1. [kind |-> "agree", value |-> "failed"] \in Contribution
    BY DEF Contribution
  <2> QED BY <1>1, <1>2, <1>4, <2>1 DEF FetchFails
<1>5. CASE Agree(r)
  BY <1>1, <1>2, <1>5 DEF Agree
<1>6. CASE Forward(r)
  <2> DEFINE b == Last(given[r])
             g == [grad[r] EXCEPT !.sum = @ + b.num, !.overflow = @ \/ b.overflow]
  <2>1. b \in MicrobatchType
    <3>1. Len(given[r]) \in Nat \ {0}
      BY <1>6, GivenFacts DEF Forward, InBatch
    <3>2. b \in Microbatches
      BY <1>1, <1>2, <3>1 DEF Last
    <3> QED BY <3>2, EngineAssumption
  <2>2. g \in GradientType
    <3>1. b.num \in Int /\ b.overflow \in BOOLEAN
      BY <2>1 DEF MicrobatchType
    <3>2. (grad[r].overflow \/ b.overflow) \in BOOLEAN
      BY Zenon
    <3>3. grad[r].sum \in Int /\ grad[r].over \in Nat \ {0}
      BY <1>2 DEF GradientType
    <3>4. grad[r].sum + b.num \in Int
      BY <3>1, <3>3
    <3> QED BY <1>2, <3>2, <3>4, GradientWith
  <2>3. [kind |-> "synchronize", value |-> g] \in Contribution
    BY <2>2 DEF Contribution
  <2>4. /\ pc[r] = "forward" /\ UNCHANGED given
        /\ \/ Enter(r, "synchronize", g) /\ Goto(r, "synchronize")
           \/ Goto(r, "fetch") /\ UNCHANGED mail
    BY <1>6 DEF Forward
  <2> HIDE DEF g
  <2> QED BY <1>1, <1>2, <2>3, <2>4
<1>7. CASE ForwardFails(r) \/ TermsFail(r) \/ ReportFails(r) \/ LogFails(r) \/ PeerLost(r)
  BY <1>1, <1>2, <1>7 DEF ForwardFails, TermsFail, ReportFails, LogFails, PeerLost
<1>8. CASE Synchronize(r)
  <2>1. [kind |-> "normalize", value |-> denom[r]] \in Contribution
    BY <1>8, GivenFacts DEF Contribution, Synchronize
  <2>2. /\ pc[r] = "synchronize" /\ Complete(r) /\ UNCHANGED given
        /\ Enter(r, "normalize", denom[r]) /\ Goto(r, "normalize")
    BY <1>8 DEF Synchronize
  <2> QED BY <1>1, <1>2, <2>1, <2>2
<1>9. CASE Normalize(r)
  <2>1. /\ pc[r] = "normalize" /\ Complete(r) /\ UNCHANGED <<given, mail>>
        /\ Goto(r, "raised") \/ Goto(r, "apply")
    BY <1>9 DEF Normalize
  <2> QED BY <1>1, <1>2, <2>1
<1>10. CASE Apply(r)
  <2>1. [kind |-> "losses", value |-> "values"] \in Contribution
    BY DEF Contribution
  <2>2. /\ pc[r] = "apply" /\ UNCHANGED given
        /\ \/ Goto(r, "raised") /\ UNCHANGED mail
           \/ Goto(r, "losses") /\ Enter(r, "losses", "values")
    BY <1>10 DEF Apply
  <2> QED BY <1>1, <1>2, <2>1, <2>2
<1>11. CASE LossesReduced(r) \/ Reported(r) \/ Log(r)
  BY <1>1, <1>2, <1>11 DEF LossesReduced, Reported, Log
<1>12. CASE Report(r)
  <2>1. [kind |-> "metrics", value |-> "values"] \in Contribution
    BY DEF Contribution
  <2> QED BY <1>1, <1>2, <1>12, <2>1 DEF Report
<1>13. CASE SaveAfterFailure(r)
  BY <1>1, <1>13 DEF SaveAfterFailure
<1> QED BY <1>3, <1>4, <1>5, <1>6, <1>7, <1>8, <1>9, <1>10, <1>11, <1>12, <1>13
           DEF Acts, Advance

-----------------------------------------------------------------------------
(* Types.                                                                   *)

LEMMA TypesNext ==
  ASSUME IInv, NEW r \in Members, Acts(r)
  PROVE  Types'
<1>1. Types /\ PositionInv /\ ContributedInv /\ r \in Ranks
  BY MembersAre DEF IInv
<1>2. /\ pc[r] \in Points /\ step[r] \in 0..TargetSteps /\ TargetSteps \in Nat
      /\ micro[r] \in 0..Accumulation-1 /\ Accumulation \in Nat \ {0}
      /\ grad[r] \in GradientType /\ denom[r] \in Nat
      /\ world \in Nat \ {0} /\ Len(given[r]) \in Nat
  BY <1>1, RankTypes, MembersAre
<1>3. world' \in Worlds /\ inert' \subseteq EvidenceSteps \X BOOLEAN
  BY <1>1, Frame DEF Types, TypeOK
<1>4. pc' \in [Ranks -> Points]
  <2>1. DOMAIN pc' = Ranks /\ pc' = [x \in DOMAIN pc' |-> pc'[x]]
    BY <1>1 DEF Acts, Advance, Fetch, FetchFails, Agree, Forward, ForwardFails, Synchronize,
         TermsFail, Normalize, Apply, LossesReduced, Report, ReportFails, Reported, Log,
         LogFails, PeerLost, SaveAfterFailure, Goto, Types, TypeOK
  <2>2. \A x \in Ranks : pc'[x] \in Points
    BY <1>1, Frame, Posting DEF Types, TypeOK
  <2> QED BY <2>1, <2>2
<1>5. mail' \in [Ranks -> Seq(Contribution)]
  <2>1. DOMAIN mail' = Ranks /\ mail' = [x \in DOMAIN mail' |-> mail'[x]]
    BY <1>1 DEF Acts, Advance, Fetch, FetchFails, Agree, Forward, ForwardFails, Synchronize,
         TermsFail, Normalize, Apply, LossesReduced, Report, ReportFails, Reported, Log,
         LogFails, PeerLost, SaveAfterFailure, Enter, Types, TypeOK
  <2>2. \A x \in Ranks : mail[x] \in Seq(Contribution)
    BY <1>1 DEF Types
  <2>3. mail'[r] \in Seq(Contribution)
    <3>1. mail'[r] = mail[r] \/ \E c \in Contribution : mail'[r] = Append(mail[r], c)
      BY <1>1, Posting DEF Contributes
    <3> QED BY <1>1, <2>2, <3>1
  <2>4. \A x \in Ranks : mail'[x] \in Seq(Contribution)
    BY <1>1, <2>2, <2>3, Frame
  <2> QED BY <2>1, <2>4
<1>6. given' \in [Ranks -> Seq(Microbatches)]
  <2>1. DOMAIN given' = Ranks /\ given' = [x \in DOMAIN given' |-> given'[x]]
    BY <1>1 DEF Acts, Advance, Fetch, FetchFails, Agree, Forward, ForwardFails, Synchronize,
         TermsFail, Normalize, Apply, LossesReduced, Report, ReportFails, Reported, Log,
         LogFails, PeerLost, SaveAfterFailure, Types, TypeOK
  <2>2. \A x \in Ranks : given[x] \in Seq(Microbatches)
    BY <1>1 DEF Types, TypeOK
  <2>3. given'[r] \in Seq(Microbatches)
    <3>1. given'[r] = given[r] \/ \E b \in Microbatches : given'[r] = Append(given[r], b)
      BY <1>1, Posting
    <3> QED BY <1>1, <2>2, <3>1
  <2>4. \A x \in Ranks : given'[x] \in Seq(Microbatches)
    BY <1>1, <2>2, <2>3, Frame
  <2> QED BY <2>1, <2>4
<1>7. /\ step' \in [Ranks -> 0..TargetSteps] /\ micro' \in [Ranks -> 0..Accumulation-1]
      /\ grad' \in [Ranks -> GradientType] /\ denom' \in [Ranks -> Nat]
      /\ update' \in [Ranks -> Seq(GradientType)]
  <2>1. /\ step \in [Ranks -> 0..TargetSteps] /\ micro \in [Ranks -> 0..Accumulation-1]
        /\ grad \in [Ranks -> GradientType] /\ denom \in [Ranks -> Nat]
        /\ update \in [Ranks -> Seq(GradientType)]
    BY <1>1 DEF Types, TypeOK
  <2>2. CASE UNCHANGED <<step, micro, grad, denom, update>>
    BY <2>1, <2>2
  <2>3. CASE Forward(r)
    <3>1. Len(given[r]) # 0
      BY <2>3, GivenFacts DEF Forward, InBatch
    <3>2. Last(given[r]) \in MicrobatchType
      <4>1. given[r] \in Seq(Microbatches)
        BY <1>1, RankTypes
      <4> QED BY <1>2, <3>1, <4>1, EngineAssumption DEF Last
    <3>3. grad' \in [Ranks -> GradientType]
      <4> DEFINE b == Last(given[r])
                 g == [grad[r] EXCEPT !.sum = @ + b.num, !.overflow = @ \/ b.overflow]
      <4>1. b.num \in Int /\ b.overflow \in BOOLEAN /\ grad[r].sum \in Int
        BY <1>2, <3>2 DEF MicrobatchType, GradientType
      <4>2. (grad[r].overflow \/ b.overflow) \in BOOLEAN
        BY Zenon
      <4>3. grad[r].sum + b.num \in Int
        BY <4>1
      <4>4. g \in GradientType
        BY <1>2, <4>2, <4>3, GradientWith
      <4>5. grad' = [grad EXCEPT ![r] = g]
        BY <2>3 DEF Forward
      <4> HIDE DEF g
      <4> QED BY <2>1, <4>4, <4>5
    <3>4. denom' \in [Ranks -> Nat]
      <4>1. denom[r] + Last(given[r]).den \in Nat
        BY <1>2, <3>2 DEF MicrobatchType
      <4> QED BY <2>1, <2>3, <4>1 DEF Forward
    <3>5. micro' \in [Ranks -> 0..Accumulation-1]
      <4>1. \/ micro' = micro
            \/ micro[r] # Accumulation - 1 /\ micro' = [micro EXCEPT ![r] = @ + 1]
        BY <2>3 DEF Forward
      <4>2. micro[r] # Accumulation - 1 => micro[r] + 1 \in 0..Accumulation-1
        BY <1>2
      <4> QED BY <2>1, <4>1, <4>2
    <3>6. UNCHANGED <<step, update>>
      BY <2>3 DEF Forward
    <3> QED BY <2>1, <3>3, <3>4, <3>5, <3>6
  <2>4. CASE Synchronize(r)
    <3> DEFINE n == SumOver(r, LAMBDA g : g.sum)
               o == \E m \in Members : Contributed(r, m).overflow
               g == [sum |-> n, over |-> world, overflow |-> o]
    <3>1. n = GlobalNum(step[r] + 1) /\ \A m \in Members : Used(step[r] + 1) <= Len(given[m])
      BY <1>1, <2>4, ReachedSums DEF Synchronize
    <3>2. step[r] + 1 \in Nat \ {0}
      BY <1>2
    <3>3. n \in Int
      BY <1>1, <3>1, <3>2, GlobalTypes
    <3>4. o \in BOOLEAN
      BY Zenon
    <3>5. grad' = [grad EXCEPT ![r] = g] /\ UNCHANGED <<step, micro, denom, update>>
      BY <2>4 DEF Synchronize
    <3> HIDE DEF n, o
    <3>6. g \in GradientType
      BY <1>2, <3>3, <3>4 DEF GradientType
    <3> HIDE DEF g
    <3> QED BY <2>1, <3>5, <3>6
  <2>5. CASE Normalize(r)
    <3> DEFINE total == SumOver(r, LAMBDA d : d)
               g == [grad[r] EXCEPT !.sum = @ * world, !.over = @ * total]
    <3>1. total = GlobalDen(step[r] + 1) /\ \A m \in Members : Used(step[r] + 1) <= Len(given[m])
      BY <1>1, <2>5, ReachedSums DEF Normalize
    <3>2. step[r] + 1 \in Nat \ {0}
      BY <1>2
    <3>3. total \in Nat \ {0}
      BY <1>1, <3>1, <3>2, GlobalTypes
    <3>4. /\ UNCHANGED <<step, micro, denom, update>>
          /\ \/ grad' = [grad EXCEPT ![r] = NoGradient]
             \/ grad' = [grad EXCEPT ![r] = g]
      BY <2>5, <1>1, <2>1 DEF Normalize
    <3> HIDE DEF total
    <3>5. g \in GradientType
      <4>1. grad[r].sum * world \in Int /\ grad[r].over * total \in Nat \ {0}
        BY <1>2, <3>3, PositiveProduct DEF GradientType
      <4> QED BY <1>2, <4>1 DEF GradientType
    <3>6. NoGradient \in GradientType
      BY DEF NoGradient, GradientType
    <3> HIDE DEF g
    <3> QED BY <2>1, <3>4, <3>5, <3>6
  <2>6. CASE Apply(r)
    <3>1. step[r] + 1 \in 0..TargetSteps
      BY <1>1, <1>2, <2>6 DEF Apply, PositionInv, InBatch
    <3>2. NoGradient \in GradientType
      BY DEF NoGradient, GradientType
    <3>3. 0 \in Nat /\ 0 \in 0..Accumulation-1
      BY <1>2
    <3>4. Append(update[r], grad[r]) \in Seq(GradientType)
      BY <1>1, <1>2, <2>1
    <3> HIDE DEF GradientType
    <3> QED BY <2>1, <2>6, <3>1, <3>2, <3>3, <3>4 DEF Apply
  <2> QED BY <2>2, <2>3, <2>4, <2>5, <2>6
          DEF Acts, Advance, Fetch, FetchFails, Agree, ForwardFails, TermsFail, LossesReduced,
              Report, ReportFails, Reported, Log, LogFails, PeerLost, SaveAfterFailure
<1>8. saves' \subseteq [step : Nat, taken : Nat]
  <2>1. Position(r) \in [step : Nat, taken : Nat]
    BY <1>2 DEF Position
  <2>2. saves \subseteq [step : Nat, taken : Nat]
    BY <1>1 DEF Types, TypeOK
  <2>3. UNCHANGED saves \/ saves' = saves \cup {Position(r)}
    BY DEF Acts, Advance, Fetch, FetchFails, Agree, Forward, ForwardFails, Synchronize,
           TermsFail, Normalize, Apply, LossesReduced, Report, ReportFails, Reported, Log,
           LogFails, PeerLost, SaveAfterFailure
  <2> QED BY <2>1, <2>2, <2>3
<1>9. faults' \in 0..MaxFaults
  <2>1. faults \in 0..MaxFaults /\ MaxFaults \in Nat
    BY <1>1, EngineAssumption DEF Types, TypeOK
  <2>2. UNCHANGED faults \/ Fault
    BY DEF Acts, Advance, Fetch, FetchFails, Agree, Forward, ForwardFails, Synchronize,
           TermsFail, Normalize, Apply, LossesReduced, Report, ReportFails, Reported, Log,
           LogFails, PeerLost, SaveAfterFailure
  <2> QED BY <2>1, <2>2 DEF Fault
<1> QED BY <1>3, <1>4, <1>5, <1>6, <1>7, <1>8, <1>9 DEF Types, TypeOK

-----------------------------------------------------------------------------
(* Where a rank is.                                                         *)

LEMMA Offsets ==
  /\ Offset["fetch"] = 0 /\ Offset["agree"] = 1 /\ Offset["forward"] = 1
  /\ Offset["synchronize"] = 2 /\ Offset["normalize"] = 3 /\ Offset["apply"] = 3
  /\ Offset["losses"] = -1 /\ Offset["report"] = -1 /\ Offset["metrics"] = 0
  /\ Offset["log"] = 0 /\ Offset["done"] = 0
BY DEF Offset

(* PositionInv of a rank with n collectives at point p of step s.           *)
Place(p, s, k, n) ==
  /\ p # "raised" => n = Before(s) + k + Offset[p]
  /\ NormAt(s) <= n /\ n <= NormAt(s + 1)
  /\ p \in {"fetch", "agree"} \cup InBatch => s < TargetSteps
  /\ p \in {"synchronize", "normalize", "apply"} => k = Accumulation - 1
  /\ p \in {"losses", "report", "metrics", "log"} => k = 0 /\ s > 0
  /\ p = "done" => k = 0

(* The same step, after one more collective or none.                        *)
LEMMA PlaceNext ==
  ASSUME NEW s \in 0..TargetSteps, NEW k \in 0..Accumulation-1, NEW n \in Nat,
         NEW p, Place(p, s, k, n)
  PROVE  /\ Place("raised", s, k, n)
         /\ p = "fetch" => Place("agree", s, k, n + 1)
         /\ p = "agree" => Place("forward", s, k, n)
         /\ p = "forward" =>
              IF k = Accumulation - 1 THEN Place("synchronize", s, k, n + 1)
                                      ELSE Place("fetch", s, k + 1, n)
         /\ p = "synchronize" => Place("normalize", s, k, n + 1)
         /\ p = "normalize" => Place("apply", s, k, n)
         /\ p = "apply" => /\ Place("losses", s + 1, 0, n + 1)
                           /\ Place("raised", s + 1, 0, n)
         /\ p = "losses" => Place("report", s, k, n)
         /\ p = "report" => Place("metrics", s, k, n + 1)
         /\ p = "metrics" => Place("log", s, k, n)
         /\ p = "log" => /\ s < TargetSteps => Place("fetch", s, k, n)
                         /\ Place("done", s, k, n)
<1> DEFINE b == Before(s)
<1>1. /\ s \in Int /\ s - 1 \in Int /\ s + 1 \in Int /\ TargetSteps \in Nat
      /\ (s - 1) + 1 = s /\ (s + 1) - 1 = s /\ (s + 1 + 1) - 1 = s + 1
  BY EngineAssumption
<1>2. Round = Accumulation + 4 /\ Accumulation \in Nat \ {0}
  BY Rounds
<1>3. b \in Int /\ Before(s - 1) \in Int /\ Before(s + 1) = b + Round
  BY <1>1, Rounds
<1>4. b = Before(s - 1) + Round
  <2>1. Before((s - 1) + 1) = Before(s - 1) + Round
    BY <1>1, Rounds
  <2> QED BY <1>1, <2>1
<1>5. /\ Before(s + 1) = b + Accumulation + 4
      /\ NormAt(s) = b - 2
      /\ NormAt(s + 1) = b + Accumulation + 2
      /\ NormAt(s + 1 + 1) = b + Accumulation + 4 + Accumulation + 2
  BY <1>1, <1>2, <1>3, <1>4 DEF NormAt
<1> HIDE DEF b
<1>6. Before(s) = b
  BY DEF b
<1> USE <1>1, <1>2, <1>3, <1>5, <1>6, Offsets DEF Place, InBatch
<1>7. Place("raised", s, k, n)
  OBVIOUS
<1>8. p = "fetch" => Place("agree", s, k, n + 1)
  OBVIOUS
<1>9. p = "agree" => Place("forward", s, k, n)
  OBVIOUS
<1>10. p = "forward" => IF k = Accumulation - 1 THEN Place("synchronize", s, k, n + 1)
                                                ELSE Place("fetch", s, k + 1, n)
  OBVIOUS
<1>11. p = "synchronize" => Place("normalize", s, k, n + 1)
  OBVIOUS
<1>12. p = "normalize" => Place("apply", s, k, n)
  OBVIOUS
<1>13. p = "apply" => Place("losses", s + 1, 0, n + 1) /\ Place("raised", s + 1, 0, n)
  OBVIOUS
<1>14. p = "losses" => Place("report", s, k, n)
  OBVIOUS
<1>15. p = "report" => Place("metrics", s, k, n + 1)
  OBVIOUS
<1>16. p = "metrics" => Place("log", s, k, n)
  OBVIOUS
<1>17. p = "log" => (s < TargetSteps => Place("fetch", s, k, n)) /\ Place("done", s, k, n)
  OBVIOUS
<1> QED BY <1>7, <1>8, <1>9, <1>10, <1>11, <1>12, <1>13, <1>14, <1>15, <1>16, <1>17

LEMMA PositionNext ==
  ASSUME IInv, NEW r \in Members, Acts(r)
  PROVE  PositionInv'
<1> DEFINE At(x) == Place(pc[x], step[x], micro[x], Len(mail[x]))
<1>1. Types /\ r \in Ranks /\ Members \subseteq Ranks
  BY MembersAre DEF IInv
<1>2. /\ pc \in [Ranks -> Points] /\ step \in [Ranks -> 0..TargetSteps]
      /\ micro \in [Ranks -> 0..Accumulation-1] /\ mail \in [Ranks -> Seq(Contribution)]
  BY <1>1 DEF Types, TypeOK
<1>3. /\ step[r] \in 0..TargetSteps /\ micro[r] \in 0..Accumulation-1
      /\ mail[r] \in Seq(Contribution) /\ Len(mail[r]) \in Nat
  BY <1>1, RankTypes
<1>4. ASSUME NEW x \in Members
      PROVE  At(x)
  BY DEF IInv, PositionInv, Place
<1>5. ASSUME NEW c
      PROVE  Len(Append(mail[r], c)) = Len(mail[r]) + 1
  BY <1>3
<1>6. At(r)'
  <2> DEFINE Moves(p, s, k, n) ==
        pc'[r] = p /\ step'[r] = s /\ micro'[r] = k /\ Len(mail'[r]) = n
  <2>1. ASSUME NEW p, NEW s, NEW k, NEW n, Moves(p, s, k, n), Place(p, s, k, n)
        PROVE  At(r)'
    BY <2>1
  <2>2. At(r)
    BY <1>4
  <2> DEFINE s == step[r]
             k == micro[r]
             n == Len(mail[r])
  <2>3. /\ Place("raised", s, k, n)
        /\ pc[r] = "fetch" => Place("agree", s, k, n + 1)
        /\ pc[r] = "agree" => Place("forward", s, k, n)
        /\ pc[r] = "forward" =>
             IF k = Accumulation - 1 THEN Place("synchronize", s, k, n + 1)
                                     ELSE Place("fetch", s, k + 1, n)
        /\ pc[r] = "synchronize" => Place("normalize", s, k, n + 1)
        /\ pc[r] = "normalize" => Place("apply", s, k, n)
        /\ pc[r] = "apply" => /\ Place("losses", s + 1, 0, n + 1)
                              /\ Place("raised", s + 1, 0, n)
        /\ pc[r] = "losses" => Place("report", s, k, n)
        /\ pc[r] = "report" => Place("metrics", s, k, n + 1)
        /\ pc[r] = "metrics" => Place("log", s, k, n)
        /\ pc[r] = "log" => /\ s < TargetSteps => Place("fetch", s, k, n)
                            /\ Place("done", s, k, n)
    BY <1>3, <2>2, PlaceNext
  <2>4. \/ pc[r] = "fetch" /\ Moves("agree", s, k, n + 1)
        \/ Moves("raised", s, k, n)
        \/ pc[r] = "agree" /\ Moves("forward", s, k, n)
        \/ pc[r] = "forward" /\ IF k = Accumulation - 1 THEN Moves("synchronize", s, k, n + 1)
                                                        ELSE Moves("fetch", s, k + 1, n)
        \/ pc[r] = "synchronize" /\ Moves("normalize", s, k, n + 1)
        \/ pc[r] = "normalize" /\ Moves("apply", s, k, n)
        \/ pc[r] = "apply" /\ (Moves("losses", s + 1, 0, n + 1) \/ Moves("raised", s + 1, 0, n))
        \/ pc[r] = "losses" /\ Moves("report", s, k, n)
        \/ pc[r] = "report" /\ Moves("metrics", s, k, n + 1)
        \/ pc[r] = "metrics" /\ Moves("log", s, k, n)
        \/ pc[r] = "log" /\ s < TargetSteps /\ Moves("fetch", s, k, n)
        \/ pc[r] = "log" /\ Moves("done", s, k, n)
    <3> USE <1>1, <1>2, <1>5 DEF Goto, Enter
    <3>1. CASE Fetch(r)
      BY <3>1 DEF Fetch
    <3>2. CASE FetchFails(r)
      BY <3>2 DEF FetchFails
    <3>3. CASE Agree(r)
      BY <3>3 DEF Agree
    <3>4. CASE Forward(r)
      <4>1. CASE micro[r] = Accumulation - 1
        BY <3>4, <4>1 DEF Forward
      <4>2. CASE micro[r] # Accumulation - 1
        BY <3>4, <4>2 DEF Forward
      <4> QED BY <4>1, <4>2
    <3>5. CASE ForwardFails(r) \/ TermsFail(r) \/ ReportFails(r) \/ LogFails(r) \/ PeerLost(r)
      BY <3>5 DEF ForwardFails, TermsFail, ReportFails, LogFails, PeerLost
    <3>6. CASE Synchronize(r)
      BY <3>6 DEF Synchronize
    <3>7. CASE Normalize(r)
      BY <3>7 DEF Normalize
    <3>8. CASE Apply(r)
      BY <3>8 DEF Apply
    <3>9. CASE LossesReduced(r) \/ Reported(r) \/ Log(r)
      BY <3>9 DEF LossesReduced, Reported, Log
    <3>10. CASE Report(r)
      BY <3>10 DEF Report
    <3>11. CASE SaveAfterFailure(r)
      BY <3>11 DEF SaveAfterFailure
    <3> QED BY <3>1, <3>2, <3>3, <3>4, <3>5, <3>6, <3>7, <3>8, <3>9, <3>10, <3>11
               DEF Acts, Advance
  <2> HIDE DEF Moves, At
  <2> QED BY <2>1, <2>3, <2>4
<1>7. ASSUME NEW m \in Members, m # r
      PROVE  At(m)'
  <2>1. At(m)
    BY <1>4
  <2>2. m \in Ranks /\ pc'[m] = pc[m] /\ step'[m] = step[m] /\ micro'[m] = micro[m]
        /\ mail'[m] = mail[m]
    BY <1>1, <1>7, Frame
  <2> QED BY <2>1, <2>2
<1>8. Members' = Members
  BY <1>1, Frame
<1> QED BY <1>6, <1>7, <1>8 DEF PositionInv, Place

-----------------------------------------------------------------------------
(* The collectives of all ranks are the same.                               *)

(* A rank that waits does so in the collective its position tells.          *)
LEMMA PlaceKind ==
  ASSUME NEW s \in 0..TargetSteps, NEW k \in 0..Accumulation-1, NEW n \in Nat,
         NEW p \in Waiting, Place(p, s, k, n)
  PROVE  KindAt(n) = p
<1>1. /\ s \in Nat /\ Accumulation \in Nat \ {0} /\ s \in Int
  BY EngineAssumption
<1>2. /\ \A j \in 0..Accumulation-1 : KindAt(Before(s) + j + 1) = "agree"
      /\ KindAt(Before(s) + Accumulation + 1) = "synchronize"
      /\ KindAt(Before(s) + Accumulation + 2) = "normalize"
  BY <1>1, KindsOfStep
<1>3. Before(s) \in Int
  BY <1>1, Rounds
<1> USE Offsets DEF Place
<1> HIDE DEF KindAt, Before, NormAt
<1>4. CASE p = "agree"
  <2>1. n = Before(s) + k + 1
    BY <1>4
  <2> QED BY <1>2, <1>4, <2>1
<1>5. CASE p = "synchronize"
  <2>1. n = Before(s) + Accumulation + 1
    BY <1>1, <1>3, <1>5
  <2> QED BY <1>2, <1>5, <2>1
<1>6. CASE p = "normalize"
  <2>1. n = Before(s) + Accumulation + 2
    BY <1>1, <1>3, <1>6
  <2> QED BY <1>2, <1>6, <2>1
<1>7. CASE p \in {"losses", "metrics"}
  <2>1. s - 1 \in Nat /\ s - 1 \in Int /\ (s - 1) + 1 = s /\ k = 0
    BY <1>1, <1>7
  <2>2. /\ KindAt(Before(s - 1) + Accumulation + 3) = "losses"
        /\ KindAt(Before(s - 1) + Accumulation + 4) = "metrics"
    BY <2>1, KindsOfStep
  <2>3. Before((s - 1) + 1) = Before(s - 1) + Round /\ Before(s - 1) \in Int
    BY <2>1, Rounds
  <2>4. Before(s) = Before(s - 1) + Accumulation + 4
    <3>1. Round = Accumulation + 4
      BY Rounds
    <3>2. Before((s - 1) + 1) = Before(s)
      BY <2>1
    <3> QED BY <1>1, <2>3, <3>1, <3>2
  <2>5. CASE p = "losses"
    <3>1. n = Before(s - 1) + Accumulation + 3
      BY <1>1, <2>1, <2>3, <2>4, <2>5
    <3> QED BY <2>2, <2>5, <3>1
  <2>6. CASE p = "metrics"
    <3>1. n = Before(s - 1) + Accumulation + 4
      BY <1>1, <2>1, <2>3, <2>4, <2>6
    <3> QED BY <2>2, <2>6, <3>1
  <2> QED BY <1>7, <2>5, <2>6
<1> QED BY <1>4, <1>5, <1>6, <1>7 DEF Waiting

LEMMA WaitingKind ==
  /\ IInv => \A m \in Members : pc[m] \in Waiting => KindAt(Len(mail[m])) = pc[m]
  /\ Types' /\ PositionInv' => \A m \in Members' : pc'[m] \in Waiting =>
                                 KindAt(Len(mail'[m])) = pc'[m]
<1>1. ASSUME Types, PositionInv, NEW m \in Members, pc[m] \in Waiting
      PROVE  KindAt(Len(mail[m])) = pc[m]
  <2>1. /\ step[m] \in 0..TargetSteps /\ micro[m] \in 0..Accumulation-1
        /\ Len(mail[m]) \in Nat
    BY <1>1, MembersAre, RankTypes
  <2>2. Place(pc[m], step[m], micro[m], Len(mail[m]))
    BY <1>1 DEF PositionInv, Place
  <2> QED BY <1>1, <2>1, <2>2, PlaceKind
<1>2. ASSUME Types', PositionInv', NEW m \in Members', pc'[m] \in Waiting
      PROVE  KindAt(Len(mail'[m])) = pc'[m]
  <2>1. m \in Ranks
    <3>1. world' \in 1..MaxWorld /\ MaxWorld \in Nat \ {0}
      BY <1>2, EngineAssumption DEF Types, TypeOK
    <3>2. m \in 0..world'-1
      BY DEF Members
    <3>3. \A w \in 1..MaxWorld : 0..w-1 \subseteq 0..MaxWorld-1
      BY EngineAssumption
    <3> QED BY <3>1, <3>2, <3>3, Zenon DEF Ranks
  <2>2. /\ step'[m] \in 0..TargetSteps /\ micro'[m] \in 0..Accumulation-1
        /\ mail'[m] \in Seq(Contribution)
    BY <1>2, <2>1 DEF Types, TypeOK
  <2>3. Len(mail'[m]) \in Nat
    BY <2>2
  <2>4. Place(pc'[m], step'[m], micro'[m], Len(mail'[m]))
    BY <1>2 DEF PositionInv, Place
  <2> QED BY <1>2, <2>2, <2>3, <2>4, PlaceKind
<1> QED BY <1>1, <1>2 DEF IInv

(* How a step changes the mail of its rank.                                 *)
LEMMA MailGrows ==
  ASSUME IInv, NEW r \in Members, Acts(r)
  PROVE  /\ \A m \in Members :
              /\ m \in Ranks /\ Len(mail[m]) \in Nat /\ Len(mail'[m]) \in Nat
              /\ Len(mail[m]) <= Len(mail'[m])
              /\ \A n \in 1..Len(mail[m]) : mail'[m][n] = mail[m][n]
              /\ m # r => mail'[m] = mail[m] /\ pc'[m] = pc[m]
         /\ \/ mail'[r] = mail[r]
            \/ /\ Contributes(r) /\ Level(r)
               /\ Len(mail'[r]) = Len(mail[r]) + 1
               /\ mail'[r][Len(mail[r]) + 1].kind = pc'[r]
         /\ Members' = Members
<1>1. Types /\ r \in Ranks /\ Members \subseteq Ranks /\ Members' = Members
  BY MembersAre, Frame DEF IInv
<1>2. \A m \in Members : mail[m] \in Seq(Contribution) /\ Len(mail[m]) \in Nat /\ m \in Ranks
  BY <1>1, RankTypes
<1>3. \A m \in Members : m # r => mail'[m] = mail[m] /\ pc'[m] = pc[m]
  BY <1>1, <1>2, Frame
<1>4. CASE Contributes(r)
  <2>1. PICK c \in Contribution : mail'[r] = Append(mail[r], c) /\ c.kind = pc'[r]
    BY <1>4 DEF Contributes
  <2>2. /\ Len(mail'[r]) = Len(mail[r]) + 1
        /\ mail'[r][Len(mail[r]) + 1] = c
        /\ \A n \in 1..Len(mail[r]) : mail'[r][n] = mail[r][n]
    BY <1>2, <2>1
  <2>3. Level(r)
    BY <1>4 DEF Contributes, Complete, Level, IInv, AheadInv
  <2> QED BY <1>1, <1>2, <1>3, <1>4, <2>1, <2>2, <2>3
<1>5. CASE mail'[r] = mail[r]
  BY <1>1, <1>2, <1>3, <1>5
<1> QED BY <1>1, <1>4, <1>5, Posting

LEMMA KindNext ==
  ASSUME IInv, NEW r \in Members, Acts(r)
  PROVE  KindInv'
<1> SUFFICES ASSUME NEW m \in Members, NEW n \in 1..Len(mail'[m])
             PROVE  mail'[m][n].kind = KindAt(n)
  BY MailGrows DEF KindInv
<1>1. CASE n \in 1..Len(mail[m])
  BY <1>1, MailGrows DEF IInv, KindInv
<1>2. CASE n \notin 1..Len(mail[m])
  <2>1. /\ m = r /\ Contributes(r) /\ n = Len(mail[r]) + 1 /\ n = Len(mail'[r])
        /\ mail'[r][n].kind = pc'[r]
    BY <1>2, MailGrows
  <2>2. KindAt(Len(mail'[r])) = pc'[r]
    BY <2>1, TypesNext, PositionNext, WaitingKind, MailGrows DEF Contributes
  <2> QED BY <2>1, <2>2
<1> QED BY <1>1, <1>2

LEMMA AheadNext ==
  ASSUME IInv, NEW r \in Members, Acts(r)
  PROVE  AheadInv'
<1> SUFFICES ASSUME NEW x \in Members, NEW y \in Members
             PROVE  /\ Len(mail'[x]) <= Len(mail'[y]) + 1
                    /\ pc'[x] \notin Waiting \cup {"raised"} => Len(mail'[x]) <= Len(mail'[y])
  BY MailGrows DEF AheadInv
<1>1. /\ Len(mail[x]) <= Len(mail[y]) + 1
      /\ pc[x] \notin Waiting \cup {"raised"} => Len(mail[x]) <= Len(mail[y])
  BY DEF IInv, AheadInv
<1>2. /\ Len(mail[x]) \in Nat /\ Len(mail'[x]) \in Nat
      /\ Len(mail[y]) \in Nat /\ Len(mail'[y]) \in Nat /\ Len(mail[y]) <= Len(mail'[y])
  BY MailGrows
<1>3. CASE x # r
  <2>1. mail'[x] = mail[x] /\ pc'[x] = pc[x]
    BY <1>3, MailGrows
  <2> QED BY <1>1, <1>2, <2>1
<1>4. CASE x = r /\ mail'[r] # mail[r]
  <2>1. Len(mail'[r]) = Len(mail[r]) + 1 /\ Len(mail[r]) <= Len(mail[y]) /\ pc'[r] \in Waiting
    BY <1>4, MailGrows DEF Level, Contributes
  <2> QED BY <1>2, <1>4, <2>1
<1>5. CASE x = r /\ mail'[r] = mail[r]
  <2>1. pc'[r] \notin Waiting \cup {"raised"} => Len(mail[r]) <= Len(mail[y])
    <3>1. pc'[r] \notin Waiting \cup {"raised"} =>
            pc[r] \notin Waiting \cup {"raised"} \/ Complete(r)
      BY <1>5, Posting DEF Contributes
    <3> QED BY <1>1, <1>5, <3>1 DEF Complete
  <2> QED BY <1>1, <1>2, <1>5, <2>1
<1> QED BY <1>3, <1>4, <1>5

LEMMA FailedNext ==
  ASSUME IInv, NEW r \in Members, Acts(r)
  PROVE  FailedInv'
<1> SUFFICES ASSUME NEW x \in Members, NEW y \in Members, NEW n \in 1..Len(mail'[x]),
                    mail'[x][n].kind = "agree", mail'[x][n].value = "failed"
             PROVE  /\ Len(mail'[y]) <= n
                    /\ Len(mail'[y]) = n => pc'[y] \in {"agree", "raised"}
  BY MailGrows DEF FailedInv
<1>1. /\ Len(mail[x]) \in Nat /\ Len(mail'[x]) \in Nat /\ Len(mail[r]) \in Nat
      /\ Len(mail[y]) \in Nat /\ Len(mail'[y]) \in Nat /\ Members' = Members
  BY MailGrows
<1>2. KindAt(n) = "agree"
  BY KindNext, <1>1 DEF KindInv
<1>3. pc'[y] \in Waiting /\ Len(mail'[y]) = n => pc'[y] = "agree"
  BY <1>1, <1>2, TypesNext, PositionNext, WaitingKind
<1>4. CASE n \in 1..Len(mail[x])
  <2>1. mail[x][n].kind = "agree" /\ mail[x][n].value = "failed"
    BY <1>4, MailGrows
  <2>2. Len(mail[y]) <= n /\ (Len(mail[y]) = n => pc[y] \in {"agree", "raised"})
    BY <1>4, <2>1 DEF IInv, FailedInv
  <2>3. CASE y # r
    BY <2>2, <2>3, MailGrows
  <2>4. CASE y = r /\ mail'[r] = mail[r]
    <3>1. Len(mail[r]) = n => Contributed(r, x) = "failed"
      BY <2>1 DEF Contributed
    <3>2. /\ pc[r] = "raised" => pc'[r] = "raised"
          /\ pc[r] = "agree" =>
               pc'[r] = "raised" \/ \A m \in Members : Contributed(r, m) # "failed"
      BY Posting
    <3> QED BY <2>2, <2>4, <3>1, <3>2
  <2>5. CASE y = r /\ mail'[r] # mail[r]
    <3>1. /\ Len(mail'[r]) = Len(mail[r]) + 1 /\ pc[r] \notin {"raised", "agree"}
          /\ pc'[r] \in Waiting
      BY <2>5, MailGrows DEF Contributes
    <3> QED BY <1>1, <1>3, <2>2, <2>5, <3>1
  <2> QED BY <2>3, <2>4, <2>5
<1>5. CASE n \notin 1..Len(mail[x])
  <2>1. x = r /\ Contributes(r) /\ n = Len(mail[r]) + 1 /\ n = Len(mail'[r])
    BY <1>5, MailGrows
  <2>2. CASE y = r
    BY <1>1, <1>3, <2>1, <2>2 DEF Contributes
  <2>3. CASE y # r
    <3>1. mail'[y] = mail[y] /\ pc'[y] = pc[y]
      BY <2>3, MailGrows
    <3>2. /\ Len(mail[y]) <= Len(mail[r]) + 1
          /\ pc[y] \notin Waiting \cup {"raised"} => Len(mail[y]) <= Len(mail[r])
      BY DEF IInv, AheadInv
    <3> QED BY <1>1, <1>3, <2>1, <3>1, <3>2
  <2> QED BY <2>2, <2>3
<1> QED BY <1>4, <1>5

-----------------------------------------------------------------------------
(* What the ranks were given, and what they made of it.                     *)

(* The types of one member's state, and the microbatches the steps up to    *)
(* its own and the one it is in have taken.                                 *)
LEMMA OneRank ==
  ASSUME IInv, NEW r \in Members
  PROVE  /\ Types /\ r \in Ranks /\ Accumulation \in Nat \ {0}
         /\ step[r] \in Nat /\ micro[r] \in 0..Accumulation-1
         /\ Used(step[r]) \in Nat /\ Used(step[r] + 1) = Used(step[r]) + Accumulation
         /\ Len(given[r]) \in Nat /\ given[r] \in Seq(Microbatches)
         /\ Len(mail[r]) \in Nat /\ mail[r] \in Seq(Contribution)
<1>1. Types /\ r \in Ranks
  BY MembersAre DEF IInv
<1>2. /\ Accumulation \in Nat \ {0} /\ micro[r] \in 0..Accumulation-1
      /\ Len(given[r]) \in Nat /\ given[r] \in Seq(Microbatches)
      /\ Len(mail[r]) \in Nat /\ mail[r] \in Seq(Contribution)
      /\ step[r] \in Int /\ step[r] \in Nat /\ 0 \in Int /\ 0 <= step[r]
  BY <1>1, RankTypes
<1>3. Used(0) <= Used(step[r]) /\ Used(0) = 0 /\ Used(step[r]) \in Int
  BY <1>2, Rounds
<1>4. Used(step[r] + 1) = Used(step[r]) + Accumulation
  BY <1>2, Rounds
<1> QED BY <1>1, <1>2, <1>3, <1>4

LEMMA GivenNext ==
  ASSUME IInv, NEW r \in Members, Acts(r)
  PROVE  GivenInv'
<1> DEFINE Has(m) ==
      /\ pc[m] \notin InBatch \cup {"agree", "raised"} =>
           Len(given[m]) = Used(step[m]) + micro[m]
      /\ \/ pc[m] \in InBatch
         \/ pc[m] = "agree" /\ mail[m][Len(mail[m])].value # "failed"
         => Len(given[m]) = Used(step[m]) + micro[m] + 1
<1>1. Types /\ r \in Ranks /\ Members \subseteq Ranks /\ Members' = Members
  BY MembersAre, Frame DEF IInv
<1>2. /\ pc \in [Ranks -> Points] /\ step \in [Ranks -> 0..TargetSteps]
      /\ micro \in [Ranks -> 0..Accumulation-1] /\ mail \in [Ranks -> Seq(Contribution)]
      /\ given \in [Ranks -> Seq(Microbatches)]
  BY <1>1 DEF Types, TypeOK
<1>3. /\ step[r] \in Nat /\ micro[r] \in 0..Accumulation-1 /\ Accumulation \in Nat \ {0}
      /\ Used(step[r]) \in Nat /\ Used(step[r] + 1) = Used(step[r]) + Accumulation
      /\ Len(given[r]) \in Nat /\ given[r] \in Seq(Microbatches)
      /\ Len(mail[r]) \in Nat /\ mail[r] \in Seq(Contribution)
  BY OneRank
<1>4. Has(r)
  BY DEF IInv, GivenInv
<1>5. Has(r)'
  <2> USE <1>1, <1>2, <1>3, <1>4 DEF Goto, Enter, InBatch
  <2> HIDE DEF Used
  <2>1. CASE Fetch(r)
    <3>1. /\ pc[r] = "fetch" /\ pc'[r] = "agree" /\ step'[r] = step[r] /\ micro'[r] = micro[r]
          /\ \E b \in Microbatches : given'[r] = Append(given[r], b)
      BY <2>1 DEF Fetch
    <3>2. Len(given'[r]) = Len(given[r]) + 1
      BY <3>1
    <3> QED BY <3>1, <3>2
  <2>2. CASE FetchFails(r)
    <3>1. CASE world = 1
      BY <2>2, <3>1 DEF FetchFails
    <3>2. CASE world # 1
      <4>1. /\ pc'[r] = "agree"
            /\ mail'[r] = Append(mail[r], [kind |-> "agree", value |-> "failed"])
        BY <2>2, <3>2 DEF FetchFails
      <4>2. mail'[r][Len(mail'[r])] = [kind |-> "agree", value |-> "failed"]
        BY <4>1
      <4> QED BY <4>1, <4>2
    <3> QED BY <3>1, <3>2
  <2>3. CASE Agree(r)
    <3>1. /\ pc[r] = "agree" /\ mail'[r] = mail[r] /\ given'[r] = given[r]
          /\ step'[r] = step[r] /\ micro'[r] = micro[r]
          /\ pc'[r] = "raised" \/ pc'[r] = "forward"
          /\ pc'[r] = "forward" => Contributed(r, r) # "failed"
      BY <2>3 DEF Agree
    <3> QED BY <3>1 DEF Contributed
  <2>4. CASE Forward(r)
    <3>1. CASE micro[r] = Accumulation - 1
      BY <2>4, <3>1 DEF Forward
    <3>2. CASE micro[r] # Accumulation - 1
      BY <2>4, <3>2 DEF Forward
    <3> QED BY <3>1, <3>2
  <2>5. CASE ForwardFails(r) \/ TermsFail(r) \/ ReportFails(r) \/ LogFails(r) \/ PeerLost(r)
    BY <2>5 DEF ForwardFails, TermsFail, ReportFails, LogFails, PeerLost
  <2>6. CASE Synchronize(r)
    <3>1. /\ pc[r] = "synchronize" /\ pc'[r] = "normalize" /\ given'[r] = given[r]
          /\ step'[r] = step[r] /\ micro'[r] = micro[r]
      BY <2>6 DEF Synchronize
    <3> QED BY <3>1
  <2>7. CASE Normalize(r)
    <3>1. /\ pc[r] = "normalize" /\ pc'[r] \in {"apply", "raised"} /\ given'[r] = given[r]
          /\ step'[r] = step[r] /\ micro'[r] = micro[r]
      BY <2>7 DEF Normalize
    <3> QED BY <3>1
  <2>8. CASE Apply(r)
    <3>1. /\ pc[r] = "apply" /\ pc'[r] \in {"losses", "raised"} /\ given'[r] = given[r]
          /\ step'[r] = step[r] + 1 /\ micro'[r] = 0
      BY <2>8 DEF Apply
    <3>2. Len(given[r]) = Used(step[r] + 1)
      BY <3>1, GivenFacts
    <3> QED BY <3>1, <3>2
  <2>9. CASE LossesReduced(r) \/ Reported(r) \/ Log(r)
    BY <2>9 DEF LossesReduced, Reported, Log
  <2>10. CASE Report(r)
    BY <2>10 DEF Report
  <2>11. CASE SaveAfterFailure(r)
    BY <2>11 DEF SaveAfterFailure
  <2> QED BY <2>1, <2>2, <2>3, <2>4, <2>5, <2>6, <2>7, <2>8, <2>9, <2>10, <2>11
             DEF Acts, Advance
<1>6. ASSUME NEW m \in Members, m # r
      PROVE  Has(m)'
  <2>1. Has(m)
    BY DEF IInv, GivenInv
  <2>2. m \in Ranks /\ pc'[m] = pc[m] /\ step'[m] = step[m] /\ micro'[m] = micro[m]
        /\ mail'[m] = mail[m] /\ given'[m] = given[m]
    BY <1>1, <1>6, Frame
  <2> QED BY <2>1, <2>2
<1> QED BY <1>1, <1>5, <1>6 DEF GivenInv

LEMMA AccumulatedNext ==
  ASSUME IInv, NEW r \in Members, Acts(r)
  PROVE  AccumulatedInv'
<1> DEFINE Part(m) == (Used(step[m]) + 1)..(Used(step[m]) + micro[m])
           Holds(m) ==
             /\ pc[m] \in Adding =>
                  /\ grad[m].sum = SumOf(Nums(m), Part(m))
                  /\ grad[m].over = 1
                  /\ denom[m] = SumOf(Dens(m), Part(m))
             /\ pc[m] = "synchronize" =>
                  /\ grad[m].sum = LocalNum(m, step[m] + 1)
                  /\ denom[m] = LocalDen(m, step[m] + 1)
<1>1. Types /\ r \in Ranks /\ Members \subseteq Ranks /\ Members' = Members
  BY MembersAre, Frame DEF IInv
<1>2. /\ pc \in [Ranks -> Points] /\ step \in [Ranks -> 0..TargetSteps]
      /\ micro \in [Ranks -> 0..Accumulation-1] /\ grad \in [Ranks -> GradientType]
      /\ given \in [Ranks -> Seq(Microbatches)] /\ denom \in [Ranks -> Nat]
  BY <1>1 DEF Types, TypeOK
<1>3. /\ step[r] \in Nat /\ micro[r] \in 0..Accumulation-1 /\ Accumulation \in Nat \ {0}
      /\ Used(step[r]) \in Nat /\ Used(step[r] + 1) = Used(step[r]) + Accumulation
      /\ Len(given[r]) \in Nat /\ given[r] \in Seq(Microbatches)
  BY OneRank
<1>4. Holds(r)
  BY DEF IInv, AccumulatedInv
<1>5. pc[r] \in Adding => Used(step[r]) + micro[r] <= Len(given[r]) \/ pc[r] = "agree"
  BY <1>3 DEF IInv, GivenInv, Adding, InBatch
<1>6. given'[r] = given[r] \/ \E b : given'[r] = Append(given[r], b)
  BY Posting
<1>7. ASSUME pc[r] \in Adding, pc'[r] \in Adding, step'[r] = step[r], micro'[r] = micro[r],
             grad'[r] = grad[r], denom'[r] = denom[r],
             given'[r] = given[r] \/ pc[r] # "agree"
      PROVE  Holds(r)'
  <2>1. Part(r)' = Part(r)
    BY <1>7
  <2>2. /\ SumOf(Nums(r), Part(r))' = SumOf(Nums(r), Part(r))
        /\ SumOf(Dens(r), Part(r))' = SumOf(Dens(r), Part(r))
    <3>1. CASE given'[r] = given[r]
      <4>1. Nums(r)' = Nums(r) /\ Dens(r)' = Dens(r)
        BY <3>1 DEF Nums, Dens
      <4> QED BY <2>1, <4>1
    <3>2. CASE pc[r] # "agree"
      <4> DEFINE lo == Used(step[r]) + 1
                 hi == Used(step[r]) + micro[r]
      <4>1. lo \in Nat \ {0} /\ hi \in Int /\ hi <= Len(given[r])
        BY <1>3, <1>5, <1>7, <3>2
      <4> HIDE DEF lo, hi
      <4>2. /\ SumOf(Nums(r)', lo..hi) = SumOf(Nums(r), lo..hi)
            /\ SumOf(Dens(r)', lo..hi) = SumOf(Dens(r), lo..hi)
        BY <1>1, <1>6, <4>1, SumsStay
      <4> QED BY <2>1, <4>2 DEF lo, hi
    <3> QED BY <1>7, <3>1, <3>2
  <2>3. pc'[r] # "synchronize"
    BY <1>7 DEF Adding
  <2> QED BY <1>4, <1>7, <2>1, <2>2, <2>3
<1>8. Holds(r)'
  <2>1. CASE pc'[r] \notin Adding \cup {"synchronize"}
    BY <2>1
  <2>2. CASE Fetch(r)
    BY <1>1, <1>2, <1>7, <2>2 DEF Fetch, Goto, Adding
  <2>3. CASE FetchFails(r)
    <3>1. pc'[r] = "raised" \/ pc'[r] = "agree"
      BY <1>1, <1>2, <2>3 DEF FetchFails, Goto
    <3>2. CASE pc'[r] = "raised"
      BY <2>1, <3>2 DEF Adding
    <3>3. CASE pc'[r] = "agree"
      BY <1>1, <1>2, <1>7, <2>3, <3>3 DEF FetchFails, Adding
    <3> QED BY <3>1, <3>2, <3>3
  <2>4. CASE Agree(r)
    <3>1. pc'[r] = "raised" \/ pc'[r] = "forward"
      BY <1>1, <1>2, <2>4 DEF Agree, Goto
    <3>2. CASE pc'[r] = "raised"
      BY <2>1, <3>2 DEF Adding
    <3>3. CASE pc'[r] = "forward"
      BY <1>1, <1>2, <1>7, <2>4, <3>3 DEF Agree, Adding
    <3> QED BY <3>1, <3>2, <3>3
  <2>5. CASE LossesReduced(r) \/ Reported(r) \/ Log(r) \/ Report(r)
    BY <1>1, <1>2, <1>7, <2>5 DEF LossesReduced, Reported, Log, Report, Goto, Adding
  <2>6. CASE Normalize(r) \/ Synchronize(r)
    BY <1>1, <1>2, <2>1, <2>6 DEF Normalize, Synchronize, Goto, Adding
  <2>7. CASE ForwardFails(r) \/ TermsFail(r) \/ ReportFails(r) \/ LogFails(r) \/ PeerLost(r)
             \/ SaveAfterFailure(r)
    BY <1>1, <1>2, <2>1, <2>7
       DEF ForwardFails, TermsFail, ReportFails, LogFails, PeerLost, SaveAfterFailure, Goto,
           Adding
  <2>8. CASE Forward(r)
    <3> DEFINE n == Used(step[r]) + micro[r]
               lo == Used(step[r]) + 1
               b == Last(given[r])
    <3>1. /\ lo \in Nat \ {0} /\ n \in Nat /\ lo <= n + 1 /\ Len(given[r]) = n + 1
          /\ pc[r] \in Adding /\ Part(r) = lo..n
      BY <1>3, <2>8, GivenFacts DEF Forward, InBatch, Adding
    <3>2. /\ SumOf(Nums(r), lo..(n + 1)) = SumOf(Nums(r), lo..n) + b.num
          /\ SumOf(Dens(r), lo..(n + 1)) = SumOf(Dens(r), lo..n) + b.den
          /\ b \in MicrobatchType
      <4> HIDE DEF lo, n
      <4> QED BY <1>1, <3>1, SumsGrow, EngineAssumption
    <3>3. Nums(r)' = Nums(r) /\ Dens(r)' = Dens(r)
      BY <2>8 DEF Forward, Nums, Dens
    <3>4. /\ grad'[r].sum = SumOf(Nums(r), lo..(n + 1)) /\ grad'[r].over = 1
          /\ denom'[r] = SumOf(Dens(r), lo..(n + 1))
          /\ step'[r] = step[r]
      <4>1. grad[r].sum + b.num \in Int /\ (grad[r].overflow \/ b.overflow) \in BOOLEAN
        <5>1. (grad[r].overflow \/ b.overflow) \in BOOLEAN
          BY Zenon
        <5>2. grad[r].sum \in Int
          BY <1>1, <1>2 DEF GradientType
        <5> QED BY <3>2, <5>1, <5>2 DEF MicrobatchType
      <4> DEFINE g == [grad[r] EXCEPT !.sum = @ + b.num, !.overflow = @ \/ b.overflow]
      <4>2. g.sum = grad[r].sum + b.num /\ g.over = grad[r].over
        <5>1. grad[r] \in GradientType
          BY <1>1, <1>2
        <5>2. \A q \in Int, o \in BOOLEAN :
                /\ [grad[r] EXCEPT !.sum = q, !.overflow = o].sum = q
                /\ [grad[r] EXCEPT !.sum = q, !.overflow = o].over = grad[r].over
          BY <5>1, GradientWith, Zenon
        <5> QED BY <4>1, <5>2, Zenon
      <4>3. /\ grad' = [grad EXCEPT ![r] = g] /\ denom' = [denom EXCEPT ![r] = @ + b.den]
            /\ UNCHANGED step
        BY <2>8 DEF Forward
      <4> HIDE DEF g, lo, n, b
      <4>4. grad'[r] = g /\ denom'[r] = denom[r] + b.den /\ step'[r] = step[r]
        BY <1>1, <1>2, <4>3
      <4> QED BY <1>4, <3>1, <3>2, <4>2, <4>4
    <3>5. CASE micro[r] = Accumulation - 1
      <4>1. pc'[r] = "synchronize"
        BY <1>1, <1>2, <2>8, <3>5 DEF Forward, Goto
      <4>2. n + 1 = Used(step[r] + 1) /\ (step[r] + 1) - 1 = step[r]
        BY <1>3, <3>5
      <4>3. /\ LocalNum(r, step[r] + 1) = SumOf(Nums(r), lo..(n + 1))
            /\ LocalDen(r, step[r] + 1) = SumOf(Dens(r), lo..(n + 1))
        BY <4>2 DEF LocalNum, LocalDen, Window
      <4>4. /\ LocalNum(r, step[r] + 1)' = LocalNum(r, step[r] + 1)
            /\ LocalDen(r, step[r] + 1)' = LocalDen(r, step[r] + 1)
        BY <3>3, <3>4 DEF LocalNum, LocalDen
      <4> QED BY <3>4, <4>1, <4>3, <4>4 DEF Adding
    <3>6. CASE micro[r] # Accumulation - 1
      <4>1. pc'[r] = "fetch" /\ micro'[r] = micro[r] + 1
        BY <1>1, <1>2, <2>8, <3>6 DEF Forward, Goto
      <4>2. Part(r)' = lo..(n + 1)
        BY <1>3, <3>4, <4>1
      <4>3. /\ SumOf(Nums(r), Part(r))' = SumOf(Nums(r), lo..(n + 1))
            /\ SumOf(Dens(r), Part(r))' = SumOf(Dens(r), lo..(n + 1))
        BY <3>3, <4>2
      <4> QED BY <3>4, <4>1, <4>3
    <3> QED BY <3>5, <3>6
  <2>9. CASE Apply(r)
    <3>1. CASE pc'[r] = "losses"
      <4>1. /\ grad'[r] = NoGradient /\ denom'[r] = 0 /\ micro'[r] = 0
            /\ step'[r] = step[r] + 1
        BY <1>1, <1>2, <2>9 DEF Apply
      <4>2. Used(step'[r]) \in Nat
        BY <1>3, <4>1
      <4>3. Part(r)' = {}
        BY <4>1, <4>2
      <4>4. SumOf(Nums(r), Part(r))' = 0 /\ SumOf(Dens(r), Part(r))' = 0
        BY <4>3, SumEmpty
      <4> QED BY <3>1, <4>1, <4>4 DEF NoGradient
    <3>2. pc'[r] = "losses" \/ pc'[r] = "raised"
      BY <1>1, <1>2, <2>9 DEF Apply, Goto
    <3> QED BY <2>1, <3>1, <3>2 DEF Adding
  <2> QED BY <2>2, <2>3, <2>4, <2>5, <2>6, <2>7, <2>8, <2>9 DEF Acts, Advance
<1>9. ASSUME NEW m \in Members, m # r
      PROVE  Holds(m)'
  <2>1. Holds(m)
    BY DEF IInv, AccumulatedInv
  <2>2. m \in Ranks /\ pc'[m] = pc[m] /\ step'[m] = step[m] /\ micro'[m] = micro[m]
        /\ grad'[m] = grad[m] /\ denom'[m] = denom[m] /\ given'[m] = given[m]
    BY <1>1, <1>9, Frame
  <2>3. Nums(m)' = Nums(m) /\ Dens(m)' = Dens(m)
    BY <2>2 DEF Nums, Dens
  <2>4. Part(m)' = Part(m)
    BY <2>2
  <2>5. /\ SumOf(Nums(m), Part(m))' = SumOf(Nums(m), Part(m))
        /\ SumOf(Dens(m), Part(m))' = SumOf(Dens(m), Part(m))
        /\ LocalNum(m, step[m] + 1)' = LocalNum(m, step[m] + 1)
        /\ LocalDen(m, step[m] + 1)' = LocalDen(m, step[m] + 1)
    BY <2>2, <2>3, <2>4 DEF LocalNum, LocalDen
  <2> QED BY <2>1, <2>2, <2>5
<1> QED BY <1>1, <1>8, <1>9 DEF AccumulatedInv

-----------------------------------------------------------------------------
(* What the ranks contribute, what the reductions return, and what is       *)
(* applied.                                                                 *)

LEMMA Places ==
  ASSUME NEW s \in Nat \ {0}
  PROVE  /\ SyncAt(s) \in Nat \ {0} /\ NormAt(s) = SyncAt(s) + 1
         /\ KindAt(SyncAt(s)) = "synchronize" /\ KindAt(NormAt(s)) = "normalize"
         /\ s - 1 \in Nat /\ Before(s - 1) \in Nat
         /\ SyncAt(s) = Before(s - 1) + Accumulation + 1
<1>1. s - 1 \in Nat /\ s - 1 \in Int /\ 0 \in Int /\ 0 <= s - 1
  OBVIOUS
<1>2. Before(s - 1) \in Int /\ Before(0) <= Before(s - 1) /\ Before(0) = 0
  BY <1>1, Rounds
<1>3. Accumulation \in Nat \ {0}
  BY Rounds
<1>4. /\ KindAt(Before(s - 1) + Accumulation + 1) = "synchronize"
      /\ KindAt(Before(s - 1) + Accumulation + 2) = "normalize"
  BY <1>1, KindsOfStep
<1> QED BY <1>1, <1>2, <1>3, <1>4 DEF SyncAt, NormAt

(* The step of a rank in a reduction, from the reduction's place.           *)
LEMMA PlaceStep ==
  ASSUME NEW s \in Nat \ {0}, NEW t \in 0..TargetSteps, NEW k \in 0..Accumulation-1, NEW n \in Nat,
         NEW p, Place(p, t, k, n)
  PROVE  /\ p = "synchronize" => n = SyncAt(t + 1)
         /\ p \in {"normalize", "apply"} => n = NormAt(t + 1)
         /\ p = "synchronize" /\ n = SyncAt(s) => s = t + 1
         /\ p = "normalize" /\ n = NormAt(s) => s = t + 1
<1>1. /\ t \in Nat /\ t \in Int /\ t + 1 \in Nat \ {0} /\ (t + 1) - 1 = t
      /\ s - 1 \in Int
  BY EngineAssumption
<1>2. /\ Before(t) \in Int /\ Accumulation \in Nat \ {0} /\ Before(s - 1) \in Int
  BY <1>1, Rounds
<1>3. p = "synchronize" => n = SyncAt(t + 1)
  BY <1>1, <1>2, Offsets DEF Place, SyncAt
<1>4. p \in {"normalize", "apply"} => n = NormAt(t + 1)
  BY <1>1, <1>2, Offsets DEF Place, NormAt
<1>5. SyncAt(s) = SyncAt(t + 1) \/ NormAt(s) = NormAt(t + 1) => s = t + 1
  <2>1. SyncAt(s) = SyncAt(t + 1) \/ NormAt(s) = NormAt(t + 1) => Before(s - 1) = Before(t)
    BY <1>1, <1>2 DEF SyncAt, NormAt
  <2>2. Before(s - 1) = Before(t) => s - 1 <= t /\ t <= s - 1
    <3>1. Before(s - 1) <= Before(t) => s - 1 <= t
      BY <1>1, StepsApart
    <3>2. Before(t) <= Before(s - 1) => t <= s - 1
      BY <1>1, StepsApart
    <3> QED BY <1>2, <3>1, <3>2
  <2>3. s - 1 <= t /\ t <= s - 1 => s = t + 1
    BY <1>1
  <2> QED BY <2>1, <2>2, <2>3
<1> QED BY <1>3, <1>4, <1>5

(* Which actions enter and leave the reductions.                            *)
LEMMA WhichAction ==
  ASSUME Types, NEW r \in Members, Acts(r)
  PROVE  /\ pc'[r] = "synchronize" => Forward(r)
         /\ pc'[r] = "normalize" => Synchronize(r)
         /\ pc'[r] = "apply" => Normalize(r)
         /\ Apply(r) \/ UNCHANGED <<step, update>>
<1>1. r \in Ranks /\ pc \in [Ranks -> Points]
  BY MembersAre DEF Types, TypeOK
<1> USE <1>1 DEF Goto
<1>2. CASE Fetch(r) \/ FetchFails(r) \/ Agree(r)
  BY <1>2 DEF Fetch, FetchFails, Agree
<1>3. CASE Forward(r)
  BY <1>3 DEF Forward
<1>4. CASE Synchronize(r) \/ Normalize(r)
  BY <1>4 DEF Synchronize, Normalize
<1>5. CASE Apply(r)
  BY <1>5 DEF Apply
<1>6. CASE ForwardFails(r) \/ TermsFail(r) \/ ReportFails(r) \/ LogFails(r) \/ PeerLost(r)
  BY <1>6 DEF ForwardFails, TermsFail, ReportFails, LogFails, PeerLost
<1>7. CASE LossesReduced(r) \/ Reported(r) \/ Log(r) \/ Report(r)
  BY <1>7 DEF LossesReduced, Reported, Log, Report
<1>8. CASE SaveAfterFailure(r)
  BY <1>8 DEF SaveAfterFailure
<1> QED BY <1>2, <1>3, <1>4, <1>5, <1>6, <1>7, <1>8 DEF Acts, Advance

LEMMA GivenGrows ==
  ASSUME IInv, NEW r \in Members, Acts(r), NEW m \in Members
  PROVE  /\ given'[m] = given[m] \/ \E b : given'[m] = Append(given[m], b)
         /\ Len(given[m]) \in Nat /\ Len(given'[m]) \in Nat
         /\ Len(given[m]) <= Len(given'[m])
<1>1. given[m] \in Seq(Microbatches) /\ Len(given[m]) \in Nat
  BY OneRank
<1>2. given'[m] = given[m] \/ \E b : given'[m] = Append(given[m], b)
  BY OneRank, Posting, Frame
<1>3. Len(given'[m]) = Len(given[m]) \/ Len(given'[m]) = Len(given[m]) + 1
  <2>1. CASE given'[m] = given[m]
    BY <2>1
  <2>2. ASSUME NEW b, given'[m] = Append(given[m], b)
        PROVE  Len(given'[m]) = Len(given[m]) + 1
    BY <1>1, <2>2
  <2> QED BY <1>2, <2>1, <2>2
<1>4. /\ Len(given[m]) \in Nat /\ Len(given'[m]) \in Nat
      /\ Len(given[m]) <= Len(given'[m])
  BY <1>1, <1>3
<1> QED BY <1>2, <1>4

LEMMA ContributedNext ==
  ASSUME IInv, NEW r \in Members, Acts(r)
  PROVE  ContributedInv'
<1> DEFINE Holds(m, s) ==
      /\ SyncAt(s) <= Len(mail[m]) =>
           /\ Used(s) <= Len(given[m])
           /\ mail[m][SyncAt(s)].value.sum = LocalNum(m, s)
      /\ NormAt(s) <= Len(mail[m]) =>
           mail[m][NormAt(s)].value = LocalDen(m, s)
<1> SUFFICES ASSUME NEW m \in Members, NEW s \in 1..TargetSteps
             PROVE  Holds(m, s)'
  BY MailGrows DEF ContributedInv
<1>1. Holds(m, s)
  BY DEF IInv, ContributedInv
<1>2. s \in Nat \ {0} /\ s \in Int /\ Used(s) \in Int
  <2>1. s \in Nat \ {0} /\ s \in Int
    BY EngineAssumption
  <2> QED BY <2>1, Rounds
<1>3. /\ SyncAt(s) \in Nat \ {0} /\ NormAt(s) = SyncAt(s) + 1
      /\ KindAt(SyncAt(s)) = "synchronize" /\ KindAt(NormAt(s)) = "normalize"
  BY <1>2, Places
<1>4. /\ Types /\ m \in Ranks /\ Len(mail[m]) \in Nat /\ Len(mail'[m]) \in Nat
      /\ Len(mail[m]) <= Len(mail'[m])
      /\ \A n \in 1..Len(mail[m]) : mail'[m][n] = mail[m][n]
  BY MailGrows DEF IInv
<1>5. /\ given'[m] = given[m] \/ \E b : given'[m] = Append(given[m], b)
      /\ Len(given[m]) \in Nat /\ Len(given'[m]) \in Nat /\ Len(given[m]) <= Len(given'[m])
  BY GivenGrows
<1>6. Used(s) <= Len(given[m]) => LocalNum(m, s)' = LocalNum(m, s) /\ LocalDen(m, s)' = LocalDen(m, s)
  BY <1>2, <1>4, <1>5, LocalStays
<1>7. SyncAt(s)' = SyncAt(s) /\ NormAt(s)' = NormAt(s) /\ Used(s)' = Used(s)
  OBVIOUS
<1>8. ASSUME SyncAt(s) <= Len(mail[m])
      PROVE  /\ Used(s) <= Len(given'[m])
             /\ mail'[m][SyncAt(s)].value.sum = LocalNum(m, s)'
  <2>1. Used(s) <= Len(given[m]) /\ mail[m][SyncAt(s)].value.sum = LocalNum(m, s)
    BY <1>1, <1>8
  <2>2. mail'[m][SyncAt(s)] = mail[m][SyncAt(s)]
    BY <1>3, <1>4, <1>8
  <2> QED BY <1>2, <1>5, <1>6, <2>1, <2>2
<1>9. ASSUME NormAt(s) <= Len(mail[m])
      PROVE  mail'[m][NormAt(s)].value = LocalDen(m, s)'
  <2>1. SyncAt(s) <= Len(mail[m])
    BY <1>3, <1>4, <1>9
  <2>2. Used(s) <= Len(given[m]) /\ mail[m][NormAt(s)].value = LocalDen(m, s)
    BY <1>1, <1>9, <2>1
  <2>3. mail'[m][NormAt(s)] = mail[m][NormAt(s)]
    BY <1>3, <1>4, <1>9
  <2> QED BY <1>6, <2>2, <2>3
<1>10. ASSUME NEW n \in Nat, n <= Len(mail'[m]), ~(n <= Len(mail[m]))
       PROVE  /\ m = r /\ n = Len(mail'[r]) /\ Contributes(r) /\ KindAt(n) = pc'[r]
              /\ Place(pc'[r], step'[r], micro'[r], n)
              /\ step'[r] \in 0..TargetSteps /\ micro'[r] \in 0..Accumulation-1
  <2>1. m = r /\ n = Len(mail'[r]) /\ Contributes(r)
    BY <1>4, <1>10, MailGrows
  <2>2. Types' /\ PositionInv' /\ r \in Members'
    BY TypesNext, PositionNext, MailGrows
  <2>3. KindAt(n) = pc'[r]
    BY <2>1, <2>2, WaitingKind DEF Contributes
  <2>4. Place(pc'[r], step'[r], micro'[r], n)
    BY <2>1, <2>2 DEF PositionInv, Place
  <2>5. step'[r] \in 0..TargetSteps /\ micro'[r] \in 0..Accumulation-1
    BY <1>4, <2>1, <2>2 DEF Types, TypeOK
  <2> QED BY <2>1, <2>3, <2>4, <2>5
<1>11. ASSUME SyncAt(s) <= Len(mail'[m]), ~(SyncAt(s) <= Len(mail[m]))
       PROVE  /\ Used(s) <= Len(given'[m])
              /\ mail'[m][SyncAt(s)].value.sum = LocalNum(m, s)'
  <2>1. /\ m = r /\ SyncAt(s) = Len(mail'[r]) /\ Contributes(r) /\ pc'[r] = "synchronize"
        /\ Place(pc'[r], step'[r], micro'[r], SyncAt(s))
        /\ step'[r] \in 0..TargetSteps /\ micro'[r] \in 0..Accumulation-1
    BY <1>3, <1>10, <1>11
  <2>2. s = step'[r] + 1
    BY <1>2, <1>3, <2>1, PlaceStep
  <2>3. Forward(r)
    BY <1>4, <2>1, WhichAction
  <2>4. /\ mail' = [mail EXCEPT ![r] = Append(@, [kind |-> "synchronize", value |-> grad'[r]])]
        /\ given'[r] = given[r] /\ step'[r] = step[r] /\ pc[r] = "forward"
        /\ micro[r] = Accumulation - 1
    <3>1. /\ pc \in [Ranks -> Points] /\ grad \in [Ranks -> GradientType]
      BY <1>4 DEF Types, TypeOK
    <3> DEFINE b == Last(given[r])
               g == [grad[r] EXCEPT !.sum = @ + b.num, !.overflow = @ \/ b.overflow]
    <3>2. /\ grad' = [grad EXCEPT ![r] = g]
          /\ \/ Enter(r, "synchronize", g) /\ micro[r] = Accumulation - 1
             \/ Goto(r, "fetch")
          /\ UNCHANGED <<given, step>> /\ pc[r] = "forward"
      BY <2>3 DEF Forward
    <3> HIDE DEF g
    <3>3. grad'[r] = g
      BY <1>4, <2>1, <3>1, <3>2
    <3>4. Enter(r, "synchronize", g) /\ micro[r] = Accumulation - 1
      BY <1>4, <2>1, <3>1, <3>2 DEF Goto
    <3> QED BY <3>2, <3>3, <3>4 DEF Enter
  <2>5. mail'[r][SyncAt(s)].value = grad'[r]
    <3>1. mail'[r] = Append(mail[r], [kind |-> "synchronize", value |-> grad'[r]])
      BY <1>4, <2>1, <2>4 DEF Types
    <3>2. mail[r] \in Seq(Contribution)
      BY OneRank
    <3>3. mail'[r][Len(mail'[r])] = [kind |-> "synchronize", value |-> grad'[r]]
      BY <3>1, <3>2
    <3> QED BY <2>1, <3>3
  <2>6. grad'[r].sum = LocalNum(r, step[r] + 1)'
    BY <2>1, AccumulatedNext, MailGrows DEF AccumulatedInv
  <2>7. Used(s) <= Len(given'[r])
    <3>1. Len(given[r]) = Used(step[r]) + micro[r] + 1
      BY <2>4, GivenFacts DEF InBatch
    <3>2. Used(step[r] + 1) = Used(step[r]) + Accumulation /\ Used(step[r]) \in Nat
          /\ Accumulation \in Nat
      BY OneRank
    <3> QED BY <2>2, <2>4, <3>1, <3>2
  <2>8. LocalNum(r, step[r] + 1)' = LocalNum(m, s)'
    BY <2>1, <2>2
  <2> QED BY <2>1, <2>5, <2>6, <2>7, <2>8
<1>12. ASSUME NormAt(s) <= Len(mail'[m]), ~(NormAt(s) <= Len(mail[m]))
       PROVE  mail'[m][NormAt(s)].value = LocalDen(m, s)'
  <2>1. /\ m = r /\ NormAt(s) = Len(mail'[r]) /\ Contributes(r) /\ pc'[r] = "normalize"
        /\ Place(pc'[r], step'[r], micro'[r], NormAt(s))
        /\ step'[r] \in 0..TargetSteps /\ micro'[r] \in 0..Accumulation-1
    BY <1>3, <1>10, <1>12
  <2>2. s = step'[r] + 1
    BY <1>2, <1>3, <2>1, PlaceStep
  <2>3. Synchronize(r)
    BY <1>4, <2>1, WhichAction
  <2>4. /\ mail' = [mail EXCEPT ![r] = Append(@, [kind |-> "normalize", value |-> denom[r]])]
        /\ given' = given /\ step' = step /\ pc[r] = "synchronize"
    BY <2>3 DEF Synchronize, Enter
  <2>5. mail'[r][NormAt(s)].value = denom[r]
    <3>1. mail'[r] = Append(mail[r], [kind |-> "normalize", value |-> denom[r]])
      BY <1>4, <2>1, <2>4 DEF Types
    <3>2. mail[r] \in Seq(Contribution)
      BY OneRank
    <3>3. mail'[r][Len(mail'[r])] = [kind |-> "normalize", value |-> denom[r]]
      BY <3>1, <3>2
    <3> QED BY <2>1, <3>3
  <2>6. denom[r] = LocalDen(r, step[r] + 1)
    BY <2>4 DEF IInv, AccumulatedInv
  <2>7. LocalDen(r, s)' = LocalDen(r, s)
    BY <2>4 DEF LocalDen, Dens
  <2> QED BY <2>1, <2>2, <2>4, <2>5, <2>6, <2>7
<1> QED BY <1>7, <1>8, <1>9, <1>11, <1>12

(* The sums of a step that all ranks contributed to stay.                   *)
LEMMA GlobalKept ==
  ASSUME IInv, NEW r \in Members, Acts(r), NEW s \in 1..TargetSteps,
         \A m \in Members : SyncAt(s) <= Len(mail[m])
  PROVE  /\ GlobalNum(s)' = GlobalNum(s) /\ GlobalDen(s)' = GlobalDen(s)
         /\ \A m \in Members : Used(s) <= Len(given[m])
<1>1. s \in Nat \ {0} /\ Types /\ world' = world
  BY Frame, EngineAssumption DEF IInv
<1>2. \A m \in Members : Used(s) <= Len(given[m])
  BY DEF IInv, ContributedInv
<1>3. \A m \in Members : given'[m] = given[m] \/ \E b : given'[m] = Append(given[m], b)
  BY GivenGrows
<1> QED BY <1>1, <1>2, <1>3, GlobalStays

(* All ranks have contributed to a reduction that one of them is past.      *)
LEMMA Reaching ==
  ASSUME IInv, NEW r \in Members
  PROVE  /\ pc[r] \in {"normalize", "apply"} =>
              /\ step[r] + 1 \in 1..TargetSteps
              /\ \A m \in Members : SyncAt(step[r] + 1) <= Len(mail[m])
         /\ pc[r] = "apply" => \A m \in Members : NormAt(step[r] + 1) <= Len(mail[m])
<1>1. /\ Types /\ r \in Ranks /\ step[r] \in 0..TargetSteps /\ TargetSteps \in Nat
      /\ micro[r] \in 0..Accumulation-1 /\ Len(mail[r]) \in Nat
  BY MembersAre, RankTypes DEF IInv
<1>2. Place(pc[r], step[r], micro[r], Len(mail[r]))
  BY DEF IInv, PositionInv, Place
<1>3. step[r] + 1 \in Nat \ {0}
  BY <1>1
<1>4. /\ SyncAt(step[r] + 1) \in Nat \ {0}
      /\ NormAt(step[r] + 1) = SyncAt(step[r] + 1) + 1
  BY <1>3, Places
<1>5. pc[r] \in {"normalize", "apply"} => Len(mail[r]) = NormAt(step[r] + 1)
  BY <1>1, <1>2, <1>3, PlaceStep
<1>6. pc[r] \in {"normalize", "apply"} => step[r] + 1 \in 1..TargetSteps
  <2>1. pc[r] \in {"normalize", "apply"} => step[r] < TargetSteps
    BY DEF IInv, PositionInv, InBatch
  <2> QED BY <1>1, <2>1
<1>7. \A m \in Members : /\ Len(mail[m]) \in Nat
                         /\ Len(mail[r]) <= Len(mail[m]) + 1
                         /\ pc[r] = "apply" => Len(mail[r]) <= Len(mail[m])
  BY OneRank DEF IInv, AheadInv, Waiting
<1> QED BY <1>4, <1>5, <1>6, <1>7

LEMMA ReducedNext ==
  ASSUME IInv, NEW r \in Members, Acts(r)
  PROVE  ReducedInv'
<1> DEFINE Holds(m) ==
      /\ pc[m] = "normalize" =>
           /\ grad[m].sum = GlobalNum(step[m] + 1)
           /\ grad[m].over = world
      /\ pc[m] = "apply" =>
           /\ grad[m].sum = GlobalNum(step[m] + 1) * world
           /\ grad[m].over = world * GlobalDen(step[m] + 1)
           /\ ~grad[m].overflow
<1>1. Types /\ r \in Ranks /\ Members \subseteq Ranks /\ Members' = Members /\ world' = world
  BY MembersAre, Frame DEF IInv
<1>2. /\ pc \in [Ranks -> Points] /\ step \in [Ranks -> 0..TargetSteps]
      /\ grad \in [Ranks -> GradientType] /\ world \in Nat \ {0}
  BY <1>1, MembersAre DEF Types, TypeOK
<1>3. ASSUME NEW m \in Members, m # r
      PROVE  Holds(m)'
  <2>1. Holds(m)
    BY DEF IInv, ReducedInv
  <2>2. /\ m \in Ranks /\ pc'[m] = pc[m] /\ step'[m] = step[m] /\ grad'[m] = grad[m]
    BY <1>1, <1>3, Frame
  <2>3. CASE pc[m] \in {"normalize", "apply"}
    <3>1. /\ step[m] + 1 \in 1..TargetSteps
          /\ \A x \in Members : SyncAt(step[m] + 1) <= Len(mail[x])
      BY <2>3, Reaching
    <3> DEFINE s == step[m] + 1
    <3>2. GlobalNum(s)' = GlobalNum(s) /\ GlobalDen(s)' = GlobalDen(s)
      <4>1. ASSUME NEW q \in 1..TargetSteps, \A x \in Members : SyncAt(q) <= Len(mail[x])
            PROVE  /\ GlobalNum(q)' = GlobalNum(q) /\ GlobalDen(q)' = GlobalDen(q)
        BY <4>1, GlobalKept
      <4>2. PICK q \in 1..TargetSteps : q = step[m] + 1
        BY <3>1
      <4>3. q = step'[m] + 1
        BY <2>2, <4>2
      <4>4. GlobalNum(q)' = GlobalNum(q) /\ GlobalDen(q)' = GlobalDen(q)
        BY <3>1, <4>1, <4>2
      <4> QED BY <4>2, <4>3, <4>4
    <3> QED BY <1>1, <2>1, <2>2, <3>2
  <2>4. CASE pc[m] \notin {"normalize", "apply"}
    BY <2>2, <2>4
  <2> QED BY <2>3, <2>4
<1>4. Holds(r)'
  <2>1. ASSUME NEW q, UNCHANGED given
        PROVE  GlobalNum(q)' = GlobalNum(q) /\ GlobalDen(q)' = GlobalDen(q)
    BY <1>1, <2>1 DEF GlobalNum, GlobalDen, LocalNum, LocalDen, Nums, Dens
  <2>2. CASE pc'[r] = "normalize"
    <3>1. Synchronize(r)
      BY <1>1, <2>2, WhichAction
    <3> DEFINE n == SumOver(r, LAMBDA g : g.sum)
               o == \E m \in Members : Contributed(r, m).overflow
               g == [sum |-> n, over |-> world, overflow |-> o]
    <3>2. n = GlobalNum(step[r] + 1)
      BY <3>1, ReachedSums DEF Synchronize, IInv
    <3>3. grad' = [grad EXCEPT ![r] = g] /\ UNCHANGED <<step, given>>
      BY <3>1 DEF Synchronize
    <3> HIDE DEF n, o
    <3>4. grad'[r] = g
      BY <1>1, <1>2, <3>3
    <3>5. grad'[r].sum = n /\ grad'[r].over = world
      BY <3>4
    <3> QED BY <1>1, <2>1, <2>2, <3>2, <3>3, <3>5
  <2>3. CASE pc'[r] = "apply"
    <3>1. Normalize(r)
      BY <1>1, <2>3, WhichAction
    <3> DEFINE total == SumOver(r, LAMBDA d : d)
               g == [grad[r] EXCEPT !.sum = @ * world, !.over = @ * total]
    <3>2. total = GlobalDen(step[r] + 1)
      BY <3>1, ReachedSums DEF Normalize, IInv
    <3>3. /\ ~grad[r].overflow /\ grad' = [grad EXCEPT ![r] = g]
          /\ UNCHANGED <<step, given>> /\ pc[r] = "normalize"
      BY <1>1, <1>2, <2>3, <3>1 DEF Normalize, Goto
    <3> HIDE DEF total
    <3>4. grad'[r] = g
      <4> HIDE DEF g
      <4> QED BY <1>1, <1>2, <3>3
    <3>5. /\ g.sum = grad[r].sum * world /\ g.over = grad[r].over * total
          /\ g.overflow = grad[r].overflow
      BY <1>1, <1>2, ScaledGradient
    <3>6. grad[r].sum = GlobalNum(step[r] + 1) /\ grad[r].over = world
      BY <3>3 DEF IInv, ReducedInv
    <3> HIDE DEF g
    <3>7. /\ grad'[r].sum = GlobalNum(step[r] + 1) * world
          /\ grad'[r].over = world * GlobalDen(step[r] + 1)
      BY <3>2, <3>4, <3>5, <3>6
    <3>8. ~grad'[r].overflow
      BY <3>3, <3>4, <3>5, Zenon
    <3>9. /\ GlobalNum(step[r] + 1)' = GlobalNum(step[r] + 1)
          /\ GlobalDen(step[r] + 1)' = GlobalDen(step[r] + 1)
      BY <2>1, <3>3
    <3> QED BY <1>1, <2>3, <3>7, <3>8, <3>9
  <2> QED BY <2>2, <2>3
<1> QED BY <1>1, <1>3, <1>4 DEF ReducedInv

LEMMA AppliedNext ==
  ASSUME IInv, NEW r \in Members, Acts(r)
  PROVE  AppliedInv'
<1> DEFINE Has(m, s) ==
      /\ \A x \in Members : NormAt(s) <= Len(mail[x])
      /\ update[m][s].sum = GlobalNum(s) * world
      /\ update[m][s].over = world * GlobalDen(s)
      /\ ~update[m][s].overflow
<1>1. Types /\ r \in Ranks /\ Members \subseteq Ranks /\ Members' = Members /\ world' = world
  BY MembersAre, Frame DEF IInv
<1>2. /\ pc \in [Ranks -> Points] /\ step \in [Ranks -> 0..TargetSteps] /\ TargetSteps \in Nat
      /\ update \in [Ranks -> Seq(GradientType)] /\ world \in Nat \ {0}
  BY <1>1, MembersAre, EngineAssumption DEF Types, TypeOK
<1>3. ASSUME NEW m \in Members, NEW s \in 1..step[m], s \in 1..Len(update'[m]),
             update'[m][s] = update[m][s]
      PROVE  Has(m, s)'
  <2>1. Has(m, s)
    BY DEF IInv, AppliedInv
  <2>2. s \in 1..TargetSteps /\ s \in Nat \ {0}
    BY <1>1, <1>2
  <2>3. SyncAt(s) \in Nat /\ NormAt(s) = SyncAt(s) + 1
    BY <2>2, Places
  <2>4. \A x \in Members : /\ Len(mail[x]) \in Nat /\ Len(mail'[x]) \in Nat
                           /\ Len(mail[x]) <= Len(mail'[x])
    BY MailGrows
  <2>5. \A x \in Members : SyncAt(s) <= Len(mail[x]) /\ NormAt(s) <= Len(mail'[x])
    BY <2>1, <2>3, <2>4
  <2>6. GlobalNum(s)' = GlobalNum(s) /\ GlobalDen(s)' = GlobalDen(s)
    BY <2>2, <2>5, GlobalKept
  <2>7. ~update'[m][s].overflow
    BY <1>3, <2>1, Zenon
  <2> QED BY <1>1, <1>3, <2>1, <2>5, <2>6, <2>7
<1>4. ASSUME NEW m \in Members
      PROVE  Len(update[m]) = step[m] /\ update[m] \in Seq(GradientType) /\ step[m] \in Nat
  BY <1>1, <1>2 DEF IInv, AppliedInv
<1>5. ASSUME NEW m \in Members, update'[m] = update[m], step'[m] = step[m]
      PROVE  Len(update'[m]) = step'[m] /\ \A s \in 1..step'[m] : Has(m, s)'
  <2>1. Len(update'[m]) = step'[m]
    BY <1>4, <1>5
  <2>2. ASSUME NEW s \in 1..step'[m]
        PROVE  Has(m, s)'
    BY <1>3, <1>4, <1>5, <2>1
  <2> QED BY <2>1, <2>2
<1>6. CASE Apply(r)
  <2>1. /\ update' = [update EXCEPT ![r] = Append(@, grad[r])]
        /\ step' = [step EXCEPT ![r] = @ + 1] /\ pc[r] = "apply" /\ UNCHANGED given
    BY <1>6 DEF Apply
  <2>2. update'[r] = Append(update[r], grad[r]) /\ step'[r] = step[r] + 1
    BY <1>1, <1>2, <2>1
  <2>3. /\ Len(update'[r]) = step'[r] /\ update'[r][step[r] + 1] = grad[r]
        /\ \A s \in 1..step[r] : update'[r][s] = update[r][s]
    BY <1>4, <2>2
  <2>4. ASSUME NEW s \in 1..step'[r]
        PROVE  Has(r, s)'
    <3>1. CASE s \in 1..step[r]
      <4>1. s \in 1..Len(update'[r])
        BY <2>3
      <4> QED BY <1>3, <2>3, <3>1, <4>1
    <3>2. CASE s = step[r] + 1
      <4>1. /\ grad[r].sum = GlobalNum(s) * world
            /\ grad[r].over = world * GlobalDen(s)
            /\ ~grad[r].overflow
        BY <2>1, <3>2 DEF IInv, ReducedInv
      <4>2. \A x \in Members : NormAt(s) <= Len(mail[x])
        BY <2>1, <3>2, Reaching
      <4>3. \A x \in Members : /\ Len(mail[x]) \in Nat /\ Len(mail'[x]) \in Nat
                               /\ Len(mail[x]) <= Len(mail'[x])
        BY MailGrows
      <4>4. NormAt(s) \in Int
        BY <1>1, <3>2, <2>2, <1>4, Places
      <4>5. GlobalNum(s)' = GlobalNum(s) /\ GlobalDen(s)' = GlobalDen(s)
        BY <1>1, <2>1 DEF GlobalNum, GlobalDen, LocalNum, LocalDen, Nums, Dens
      <4>6. ~update'[r][s].overflow
        BY <2>3, <3>2, <4>1, Zenon
      <4>7. \A x \in Members : NormAt(s) <= Len(mail'[x])
        BY <4>2, <4>3, <4>4
      <4> QED BY <1>1, <2>3, <3>2, <4>1, <4>5, <4>6, <4>7
    <3> QED BY <1>4, <2>2, <3>1, <3>2
  <2>5. ASSUME NEW m \in Members, m # r
        PROVE  update'[m] = update[m] /\ step'[m] = step[m]
    BY <1>1, <2>5, Frame
  <2> QED BY <1>1, <1>5, <2>3, <2>4, <2>5 DEF AppliedInv
<1>7. CASE UNCHANGED <<step, update>>
  BY <1>1, <1>5, <1>7 DEF AppliedInv
<1> QED BY <1>1, <1>6, <1>7, WhichAction

-----------------------------------------------------------------------------
(* The invariant, and what it says.                                         *)

LEMMA InitInvariant == Init => IInv
<1> SUFFICES ASSUME Init
             PROVE  IInv
  OBVIOUS
<1> USE DEF Init
<1>1. /\ world \in 1..MaxWorld /\ MaxWorld \in Nat \ {0} /\ Accumulation \in Nat \ {0}
      /\ TargetSteps \in Nat /\ MaxFaults \in Nat /\ Members \subseteq Ranks
  BY EngineAssumption DEF Members, Ranks
<1>2. NoGradient \in GradientType
  BY DEF NoGradient, GradientType
<1>3. TypeOK
  <2>1. 0 \in 0..TargetSteps /\ 0 \in 0..Accumulation-1 /\ 0 \in Nat /\ 0 \in 0..MaxFaults
    BY <1>1
  <2>2. pc \in [Ranks -> Points]
    BY DEF Points
  <2>3. <<>> \in Seq(Microbatches) /\ <<>> \in Seq(GradientType)
    OBVIOUS
  <2> HIDE DEF GradientType
  <2> QED BY <1>2, <2>1, <2>2, <2>3 DEF TypeOK
<1>4. Types
  <2>1. <<>> \in Seq(Contribution)
    OBVIOUS
  <2> QED BY <1>3, <2>1 DEF Types
<1>5. \A m \in Members : /\ pc[m] \in {"fetch", "done"} /\ step[m] = 0 /\ micro[m] = 0
                         /\ pc[m] = "fetch" => TargetSteps > 0
                         /\ mail[m] = <<>> /\ given[m] = <<>> /\ update[m] = <<>>
                         /\ Len(mail[m]) = 0 /\ Len(given[m]) = 0 /\ Len(update[m]) = 0
                         /\ grad[m] = NoGradient /\ denom[m] = 0
  BY <1>1
<1> HIDE DEF Init
<1>6. /\ Before(0) = 0 /\ Used(0) = 0
      /\ NormAt(0) <= 0 /\ 0 <= NormAt(1)
  <2>1. Before(0) = 0 /\ Used(0) = 0
    BY Rounds
  <2>2. -1 \in Int /\ (-1) + 1 = 0 /\ 0 - 1 = -1 /\ 1 - 1 = 0 /\ 0 \in Int /\ 1 \in Nat \ {0}
    OBVIOUS
  <2>3. Before((-1) + 1) = Before(-1) + Round /\ Before(-1) \in Int
    BY <2>2, Rounds
  <2>4. Round = Accumulation + 4
    BY Rounds
  <2>5. Before(0) = Before(-1) + Round
    BY <2>2, <2>3
  <2>6. NormAt(0) = Before(-1) + Accumulation + 2
    BY <2>2 DEF NormAt
  <2>7. NormAt(1) = Before(0) + Accumulation + 2
    BY <2>2 DEF NormAt
  <2> QED BY <1>1, <2>1, <2>3, <2>4, <2>5, <2>6, <2>7
<1>7. PositionInv
  <2> SUFFICES ASSUME NEW m \in Members
               PROVE  Place(pc[m], step[m], micro[m], Len(mail[m]))
    BY DEF PositionInv, Place
  <2>1. step[m] + 1 = 1
    BY <1>5
  <2> QED BY <1>5, <1>6, <2>1, Offsets DEF Place, InBatch
<1>8. KindInv /\ FailedInv
  BY <1>5 DEF KindInv, FailedInv
<1>9. AheadInv
  BY <1>5 DEF AheadInv
<1>10. GivenInv
  BY <1>5, <1>6 DEF GivenInv, InBatch
<1>11. AccumulatedInv
  <2> SUFFICES ASSUME NEW m \in Members
               PROVE  /\ grad[m].sum = SumOf(Nums(m), (Used(step[m]) + 1)..(Used(step[m]) + micro[m]))
                      /\ grad[m].over = 1
                      /\ denom[m] = SumOf(Dens(m), (Used(step[m]) + 1)..(Used(step[m]) + micro[m]))
                      /\ pc[m] # "synchronize"
    BY DEF AccumulatedInv
  <2>1. (Used(step[m]) + 1)..(Used(step[m]) + micro[m]) = {}
    BY <1>5, <1>6
  <2>2. grad[m] = NoGradient /\ denom[m] = 0 /\ pc[m] # "synchronize"
    BY <1>5
  <2>3. NoGradient.sum = 0 /\ NoGradient.over = 1
    BY DEF NoGradient
  <2> HIDE DEF NoGradient
  <2> QED BY <2>1, <2>2, <2>3, SumEmpty
<1>12. ContributedInv
  <2> SUFFICES ASSUME NEW m \in Members, NEW s \in 1..TargetSteps
               PROVE  ~(SyncAt(s) <= Len(mail[m])) /\ ~(NormAt(s) <= Len(mail[m]))
    BY DEF ContributedInv
  <2>1. s \in Nat \ {0}
    BY <1>1
  <2>2. SyncAt(s) \in Nat \ {0} /\ NormAt(s) = SyncAt(s) + 1
    BY <2>1, Places
  <2>3. Len(mail[m]) = 0
    BY <1>5
  <2> QED BY <2>2, <2>3
<1>13. ReducedInv
  BY <1>5 DEF ReducedInv
<1>14. AppliedInv
  <2> SUFFICES ASSUME NEW m \in Members
               PROVE  Len(update[m]) = step[m] /\ 1..step[m] = {}
    BY DEF AppliedInv
  <2> QED BY <1>5
<1> QED BY <1>4, <1>7, <1>8, <1>9, <1>10, <1>11, <1>12, <1>13, <1>14 DEF IInv

LEMMA NextInvariant == IInv /\ [Next]_vars => IInv'
<1>1. ASSUME IInv, NEW r \in Members, Acts(r)
      PROVE  IInv'
  BY <1>1, TypesNext, PositionNext, KindNext, AheadNext, FailedNext, GivenNext,
     AccumulatedNext, ContributedNext, ReducedNext, AppliedNext DEF IInv
<1>2. ASSUME IInv, UNCHANGED vars
      PROVE  IInv'
  <2>1. Members' = Members /\ \A m : Nums(m)' = Nums(m) /\ Dens(m)' = Dens(m)
    BY <1>2 DEF vars, Members, Nums, Dens
  <2>2. Types' /\ PositionInv' /\ KindInv' /\ AheadInv' /\ FailedInv' /\ GivenInv'
    BY <1>2, <2>1 DEF vars, IInv, Types, TypeOK, PositionInv, KindInv, AheadInv, FailedInv,
                      GivenInv
  <2>3. AccumulatedInv' /\ ContributedInv'
    BY <1>2, <2>1 DEF vars, IInv, AccumulatedInv, ContributedInv, LocalNum, LocalDen
  <2>4. \A s : GlobalNum(s)' = GlobalNum(s) /\ GlobalDen(s)' = GlobalDen(s)
    BY <2>1 DEF GlobalNum, GlobalDen, LocalNum, LocalDen
  <2>5. ReducedInv' /\ AppliedInv'
    BY <1>2, <2>1, <2>4 DEF vars, IInv, ReducedInv, AppliedInv
  <2> QED BY <2>2, <2>3, <2>5 DEF IInv
<1> QED BY <1>1, <1>2 DEF Next, Acts

(* The invariant of the training loop: where every rank is, told by the     *)
(* number of its collectives, and what the ranks have accumulated,          *)
(* contributed and applied.                                                 *)
THEOREM EngineInvariance == Spec => []IInv
BY InitInvariant, NextInvariant, PTL DEF Spec

(* All variables are well typed; a gradient is never divided by zero, and   *)
(* no rank is in a microbatch or a step that does not exist.                *)
THEOREM EngineTypes == Spec => []TypeOK
<1>1. IInv => TypeOK
  BY DEF IInv, Types
<1> QED BY <1>1, EngineInvariance, PTL

(* The n-th collective of one rank is the n-th of every other, for any      *)
(* number of ranks, microbatches and steps and any failures; and a rank's   *)
(* failure to prepare a batch stops every rank before its next forward.     *)
THEOREM SameCollectives == Spec => []CollectivesMatch
<1>1. IInv => CollectivesMatch
  <2> SUFFICES ASSUME IInv
               PROVE  CollectivesMatch
    OBVIOUS
  <2>1. \A m \in Members : DOMAIN mail[m] = 1..Len(mail[m])
    BY OneRank
  <2> QED BY <2>1 DEF CollectivesMatch, IInv, KindInv, FailedInv
<1> QED BY <1>1, EngineInvariance, PTL

(* All ranks apply the same updates, and none is more than one ahead of     *)
(* another, whichever ranks fail.                                           *)
THEOREM SameUpdates == Spec => []ReplicasAgree
<1>1. IInv => ReplicasAgree
  <2> SUFFICES ASSUME IInv, NEW r \in Members, NEW m \in Members
               PROVE  /\ Len(update[r]) <= Len(update[m]) + 1
                      /\ \A s \in DOMAIN update[r] \cap DOMAIN update[m] :
                           update[r][s] = update[m][s]
    BY DEF ReplicasAgree
  <2>1. ASSUME NEW x \in Members
        PROVE  /\ update[x] \in Seq(GradientType) /\ Len(update[x]) = step[x]
               /\ step[x] \in 0..TargetSteps /\ step[x] \in Int /\ step[x] \in Nat
               /\ DOMAIN update[x] = 1..step[x]
    <3>1. update[x] \in Seq(GradientType) /\ step[x] \in 0..TargetSteps
      BY MembersAre, RankTypes DEF IInv
    <3>2. Len(update[x]) = step[x]
      BY DEF IInv, AppliedInv
    <3> QED BY <3>1, <3>2, EngineAssumption
  <2>2. step[r] <= step[m] + 1
    <3> SUFFICES ASSUME step[r] > 0
                 PROVE  step[r] - 1 <= step[m]
      BY <2>1
    <3>1. step[r] \in 1..step[r] /\ step[r] - 1 \in Int
      BY <2>1
    <3>2. NormAt(step[r]) <= Len(mail[m])
      BY <3>1 DEF IInv, AppliedInv
    <3>3. Len(mail[m]) <= NormAt(step[m] + 1) /\ NormAt(step[m] + 1) = Before(step[m]) + Accumulation + 2
      BY OneRank, RankTypes DEF IInv, PositionInv
    <3>4. Before(step[r] - 1) \in Int /\ Before(step[m]) \in Int /\ Accumulation \in Nat
          /\ Len(mail[m]) \in Nat
      BY <2>1, <3>1, Rounds, OneRank
    <3>5. Before(step[r] - 1) <= Before(step[m])
      BY <3>2, <3>3, <3>4 DEF NormAt
    <3> QED BY <2>1, <3>1, <3>5, StepsApart
  <2>3. ASSUME NEW s \in 1..step[r], s \in 1..step[m]
        PROVE  update[r][s] = update[m][s]
    <3>1. /\ update[r][s] \in GradientType /\ update[m][s] \in GradientType
      BY <2>1, <2>3
    <3>2. /\ update[r][s].sum = update[m][s].sum
          /\ update[r][s].over = update[m][s].over
      BY <2>3 DEF IInv, AppliedInv
    <3>3. ~update[r][s].overflow /\ ~update[m][s].overflow
      BY <2>3 DEF IInv, AppliedInv
    <3>4. update[r][s].overflow = FALSE /\ update[m][s].overflow = FALSE
      <4>1. update[r][s].overflow \in BOOLEAN /\ update[m][s].overflow \in BOOLEAN
        BY <3>1 DEF GradientType
      <4> QED BY <3>3, <4>1, Zenon
    <3> QED BY <3>1, <3>2, <3>4 DEF GradientType
  <2> QED BY <2>1, <2>2, <2>3
<1> QED BY <1>1, EngineInvariance, PTL

(* The sums of UpdateIsGlobalMean, over all microbatches of the s-th step.  *)
LEMMA BatchSums ==
  ASSUME IInv, NEW s \in Nat \ {0}, \A m \in Members : Used(s) <= Len(given[m])
  PROVE  /\ Cardinality(Batch(s)) = world * Accumulation
         /\ MapThenSumSet(LAMBDA b : given[b[1]][b[2]].num, Batch(s)) = GlobalNum(s)
         /\ MapThenSumSet(LAMBDA b : given[b[1]][b[2]].den, Batch(s)) = GlobalDen(s)
<1>1. /\ Types /\ world \in Nat \ {0} /\ IsFiniteSet(Members) /\ Members \subseteq Ranks
      /\ Accumulation \in Nat \ {0}
  BY MembersAre, EngineAssumption DEF IInv
<1>2. /\ Used(s - 1) \in Nat /\ Used(s) = Used(s - 1) + Accumulation
  <2>1. s - 1 \in Int /\ 0 \in Int /\ 0 <= s - 1 /\ (s - 1) + 1 = s
    OBVIOUS
  <2>2. Used((s - 1) + 1) = Used(s - 1) + Accumulation /\ Used(s - 1) \in Int
    BY <2>1, Rounds
  <2>3. Used(0) <= Used(s - 1) /\ Used(0) = 0
    BY <2>1, Rounds
  <2> QED BY <2>1, <2>2, <2>3
<1>3. IsFiniteSet(Window(s)) /\ Cardinality(Window(s)) = Accumulation
  <2>1. Used(s - 1) + 1 \in Int /\ Used(s) \in Int
    BY <1>1, <1>2
  <2>2. IsFiniteSet(Window(s))
    BY <2>1, FS_Interval DEF Window
  <2>3. Cardinality(Window(s)) = Used(s) - (Used(s - 1) + 1) + 1
    BY <1>1, <1>2, <2>1, FS_Interval DEF Window
  <2> QED BY <1>1, <1>2, <2>2, <2>3
<1>4. Cardinality(Members) = world
  <2>1. 0 \in Int /\ world - 1 \in Int /\ 0 <= world - 1 /\ world - 1 - 0 + 1 = world
    BY <1>1
  <2> QED BY <2>1, FS_Interval DEF Members
<1>5. \A m \in Members, i \in Window(s) :
        /\ i \in DOMAIN given[m]
        /\ Nums(m)[i] = given[m][i].num /\ Nums(m)[i] \in Int
        /\ Dens(m)[i] = given[m][i].den /\ Dens(m)[i] \in Int
  <2>1. \A m \in Members : \A i \in Window(s) : i \in 1..Len(given[m])
    BY <1>1, <1>2, OneRank DEF Window
  <2> QED BY <1>1, <2>1, GivenType
<1>6. Batch(s) = Members \X Window(s)
  <2>1. Window(s) = ((s - 1) * Accumulation + 1)..(s * Accumulation)
    BY DEF Window, Used
  <2> QED BY <1>5, <2>1 DEF Batch
<1>7. Cardinality(Batch(s)) = world * Accumulation
  BY <1>1, <1>3, <1>4, <1>6, FS_Product
<1>8. MapThenSumSet(LAMBDA b : given[b[1]][b[2]].num, Batch(s)) = GlobalNum(s)
  <2> DEFINE B == Members \X Window(s)
             v == [b \in B |-> given[b[1]][b[2]].num]
             F(g) == [t \in SUBSET B |->
                        IF t = {} THEN 0
                        ELSE given[(CHOOSE x \in t : TRUE)[1]][(CHOOSE x \in t : TRUE)[2]].num
                               + g[t \ {CHOOSE x \in t : TRUE}]]
             G(g) == [t \in SUBSET B |->
                        IF t = {} THEN 0
                        ELSE v[CHOOSE x \in t : TRUE] + g[t \ {CHOOSE x \in t : TRUE}]]
  <2>1. ASSUME NEW g
        PROVE  F(g) = G(g)
    <3> SUFFICES ASSUME NEW t \in SUBSET B, t # {}
                 PROVE  v[CHOOSE x \in t : TRUE]
                          = given[(CHOOSE x \in t : TRUE)[1]][(CHOOSE x \in t : TRUE)[2]].num
      OBVIOUS
    <3>1. (CHOOSE x \in t : TRUE) \in B
      OBVIOUS
    <3> QED BY <3>1
  <2>2. MapThenSumSet(LAMBDA b : given[b[1]][b[2]].num, B) = (CHOOSE g : g = F(g))[B]
    BY DEF MapThenSumSet, MapThenFoldSet
  <2>3. SumOf(v, B) = (CHOOSE g : g = G(g))[B]
    BY DEF SumOf, MapThenSumSet, MapThenFoldSet
  <2>4. (CHOOSE g : g = F(g)) = (CHOOSE g : g = G(g))
    <3> HIDE DEF F, G
    <3> QED BY <2>1
  <2>5. \A m \in Members, i \in Window(s) : v[<<m, i>>] = Nums(m)[i]
    BY <1>5
  <2> HIDE DEF v
  <2>6. SumOf(v, B) = SumOf([m \in Members |-> SumOf([i \in Window(s) |-> v[<<m, i>>]], Window(s))], Members)
    BY <1>1, <1>3, <1>5, <2>5, SumProduct
  <2>7. \A m \in Members : SumOf([i \in Window(s) |-> v[<<m, i>>]], Window(s)) = LocalNum(m, s)
    <3> SUFFICES ASSUME NEW m \in Members
                 PROVE  SumOf([i \in Window(s) |-> v[<<m, i>>]], Window(s))
                          = SumOf(Nums(m), Window(s))
      BY DEF LocalNum
    <3> DEFINE w == [i \in Window(s) |-> v[<<m, i>>]]
    <3>1. \A i \in Window(s) : w[i] = Nums(m)[i]
      BY <2>5
    <3> HIDE DEF w
    <3>2. SumOf(w, Window(s)) = SumOf(Nums(m), Window(s))
      BY <1>3, <3>1, SumSame
    <3> QED BY <3>2 DEF w
  <2>8. [m \in Members |-> SumOf([i \in Window(s) |-> v[<<m, i>>]], Window(s))]
          = [m \in Members |-> LocalNum(m, s)]
    BY <2>7
  <2> QED BY <1>6, <2>2, <2>3, <2>4, <2>6, <2>8 DEF GlobalNum
<1>9. MapThenSumSet(LAMBDA b : given[b[1]][b[2]].den, Batch(s)) = GlobalDen(s)
  <2> DEFINE B == Members \X Window(s)
             v == [b \in B |-> given[b[1]][b[2]].den]
             F(g) == [t \in SUBSET B |->
                        IF t = {} THEN 0
                        ELSE given[(CHOOSE x \in t : TRUE)[1]][(CHOOSE x \in t : TRUE)[2]].den
                               + g[t \ {CHOOSE x \in t : TRUE}]]
             G(g) == [t \in SUBSET B |->
                        IF t = {} THEN 0
                        ELSE v[CHOOSE x \in t : TRUE] + g[t \ {CHOOSE x \in t : TRUE}]]
  <2>1. ASSUME NEW g
        PROVE  F(g) = G(g)
    <3> SUFFICES ASSUME NEW t \in SUBSET B, t # {}
                 PROVE  v[CHOOSE x \in t : TRUE]
                          = given[(CHOOSE x \in t : TRUE)[1]][(CHOOSE x \in t : TRUE)[2]].den
      OBVIOUS
    <3>1. (CHOOSE x \in t : TRUE) \in B
      OBVIOUS
    <3> QED BY <3>1
  <2>2. MapThenSumSet(LAMBDA b : given[b[1]][b[2]].den, B) = (CHOOSE g : g = F(g))[B]
    BY DEF MapThenSumSet, MapThenFoldSet
  <2>3. SumOf(v, B) = (CHOOSE g : g = G(g))[B]
    BY DEF SumOf, MapThenSumSet, MapThenFoldSet
  <2>4. (CHOOSE g : g = F(g)) = (CHOOSE g : g = G(g))
    <3> HIDE DEF F, G
    <3> QED BY <2>1
  <2>5. \A m \in Members, i \in Window(s) : v[<<m, i>>] = Dens(m)[i]
    BY <1>5
  <2> HIDE DEF v
  <2>6. SumOf(v, B) = SumOf([m \in Members |-> SumOf([i \in Window(s) |-> v[<<m, i>>]], Window(s))], Members)
    BY <1>1, <1>3, <1>5, <2>5, SumProduct
  <2>7. \A m \in Members : SumOf([i \in Window(s) |-> v[<<m, i>>]], Window(s)) = LocalDen(m, s)
    <3> SUFFICES ASSUME NEW m \in Members
                 PROVE  SumOf([i \in Window(s) |-> v[<<m, i>>]], Window(s))
                          = SumOf(Dens(m), Window(s))
      BY DEF LocalDen
    <3> DEFINE w == [i \in Window(s) |-> v[<<m, i>>]]
    <3>1. \A i \in Window(s) : w[i] = Dens(m)[i]
      BY <2>5
    <3> HIDE DEF w
    <3>2. SumOf(w, Window(s)) = SumOf(Dens(m), Window(s))
      BY <1>3, <3>1, SumSame
    <3> QED BY <3>2 DEF w
  <2>8. [m \in Members |-> SumOf([i \in Window(s) |-> v[<<m, i>>]], Window(s))]
          = [m \in Members |-> LocalDen(m, s)]
    BY <2>7
  <2> QED BY <1>6, <2>2, <2>3, <2>4, <2>6, <2>8 DEF GlobalDen
<1> QED BY <1>7, <1>8, <1>9

(* Every update is the sum of the loss gradients of all microbatches of its *)
(* step, divided by the sum of their denominators: for any number of ranks  *)
(* and microbatches, any losses, and whatever failed before.                *)
THEOREM GlobalMean == Spec => []UpdateIsGlobalMean
<1>1. IInv => UpdateIsGlobalMean
  <2> SUFFICES ASSUME IInv, NEW r \in Members, NEW s \in DOMAIN update[r]
               PROVE  LET u   == update[r][s]
                          num == MapThenSumSet(LAMBDA b : given[b[1]][b[2]].num, Batch(s))
                          den == MapThenSumSet(LAMBDA b : given[b[1]][b[2]].den, Batch(s))
                      IN  /\ Cardinality(Batch(s)) = world * Accumulation
                          /\ u.sum * den = num * u.over
                          /\ ~u.overflow
    BY DEF UpdateIsGlobalMean
  <2>1. /\ Types /\ world \in Nat \ {0} /\ Members \subseteq Ranks
    BY MembersAre DEF IInv
  <2>2. s \in 1..step[r] /\ step[r] \in 0..TargetSteps /\ TargetSteps \in Nat
    <3>1. update[r] \in Seq(GradientType) /\ step[r] \in 0..TargetSteps /\ TargetSteps \in Nat
      BY <2>1, RankTypes
    <3>2. Len(update[r]) = step[r]
      BY DEF IInv, AppliedInv
    <3> QED BY <3>1, <3>2
  <2>3. s \in Nat \ {0} /\ s \in 1..TargetSteps
    BY <2>2
  <2>4. /\ \A m \in Members : NormAt(s) <= Len(mail[m]) /\ Len(mail[m]) \in Nat
        /\ update[r][s].sum = GlobalNum(s) * world
        /\ update[r][s].over = world * GlobalDen(s)
        /\ ~update[r][s].overflow
    BY <2>2, OneRank DEF IInv, AppliedInv
  <2>5. \A m \in Members : Used(s) <= Len(given[m])
    <3>1. SyncAt(s) \in Nat /\ NormAt(s) = SyncAt(s) + 1
      BY <2>3, Places
    <3>2. \A m \in Members : SyncAt(s) <= Len(mail[m])
      BY <2>4, <3>1
    <3> QED BY <2>3, <3>2 DEF IInv, ContributedInv
  <2>6. GlobalNum(s) \in Int /\ GlobalDen(s) \in Int
    BY <2>1, <2>3, <2>5, GlobalTypes
  <2>7. \A n, d \in Int, w \in Nat : (n * w) * d = n * (w * d)
    OBVIOUS
  <2>8. (GlobalNum(s) * world) * GlobalDen(s) = GlobalNum(s) * (world * GlobalDen(s))
    BY <2>1, <2>6, <2>7
  <2> QED BY <2>3, <2>4, <2>5, <2>8, BatchSums
<1> QED BY <1>1, EngineInvariance, PTL
=============================================================================
