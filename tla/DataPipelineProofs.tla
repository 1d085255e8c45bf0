------------------------- MODULE DataPipelineProofs -------------------------
(***************************************************************************)
(* For every source, configuration, number of batches and of crashes: the  *)
(* trainer is given the reference batches, StopIteration comes only after  *)
(* the last of them, and every state the loader can save is accepted.      *)
(*                                                                         *)
(* The argument: a stream is, at every step, what reading its first        *)
(* `local` samples leaves of the reference packs once a number of them was *)
(* cut (Follows).  The stream in the iterator, the copies that travel with *)
(* the queued batches, TorchData's snapshot and the saved state are all    *)
(* such streams, for the number of batches that the trainer's history, the *)
(* replay still due and the place in the queue give.                       *)
(***************************************************************************)
EXTENDS DataPipeline, Sums, SequenceTheorems

-----------------------------------------------------------------------------
(* The inductive invariant.  Its parts are said of a configuration s and a  *)
(* source c, which no step changes.                                        *)

LengthIn(c, sample) == c[((sample - 1) % Len(c)) + 1]
TokensIn(c, samples) ==
    Total([i \in DOMAIN samples |-> LengthIn(c, samples[i])], DOMAIN samples)
EndIn(s, c, line) == LineEnds[c][s.newline][line]
StrideIn(s, x) == IF x.sharded THEN s.world ELSE 1
Limited(s, samples) == s.sampleLimit > 0 /\ Len(samples) >= s.sampleLimit

PlaceType == [cursor : Nat, offset : Nat, line : Nat, epoch : Nat]

(* Exactly r records were read by the source at this place.                 *)
AtRecord(s, c, place, r) ==
    /\ place \in PlaceType
    /\ IF s.source = "memory"
       THEN place.cursor = r
       ELSE /\ place.line \in 0 .. Len(c)
            /\ place.offset = EndIn(s, c, place.line)
            /\ r = place.epoch * Len(c) + place.line
            /\ place.line = 0 => place.epoch = 0

(* The pack under construction is what the packer can hold between samples. *)
Holdable(s, c, buffer, tokens) ==
    IF s.packs
    THEN /\ tokens = TokensIn(c, buffer)
         /\ Len(buffer) <= tokens /\ tokens < s.maxLength
         /\ ~Limited(s, buffer)
    ELSE buffer = <<>>

(* A stream whose parts agree with one another.                             *)
Sound(s, c, x) ==
    /\ x \in StreamType
    /\ AtRecord(s, c, x.place, x.local * StrideIn(s, x))
    /\ x.topology => (x.sharded <=> s.world > 1)
    /\ ~x.topology => x = FreshStream
    /\ x.local > 0 => Readable(s, c, x.local)
    /\ Holdable(s, c, x.buffer, x.tokens)
    /\ \A i \in DOMAIN x.buffer :
           s.packs => LengthIn(c, x.buffer[i]) <= s.maxLength

(* These are the reference packs after the first g.                         *)
PacksAfter(s, c, packs, g) ==
    \A i \in 1 .. Len(packs) :
        /\ PackEnds(s, c)[g + i - 1] < PackEnds(s, c)[g + i]
        /\ packs[i] = Pack(s, PackEnds(s, c), g + i)

(* The pack under construction of x holds the samples read after `done`.    *)
Started(s, c, x, done) ==
    /\ x.local = done + Len(x.buffer)
    /\ \A k \in 1 .. Len(x.buffer) : x.buffer[k] = Share(s, done + k)
    /\ s.packs => x.tokens = RunLength(s, c, done + 1, x.local)
    /\ x.exhausted => x.buffer = <<>> /\ ~s.repeat /\ x.local = Len(c)

(* A stream from which the first g reference packs were cut.                *)
Follows(s, c, x, g) ==
    /\ Len(x.ready) <= s.batchSize + 1
    /\ PacksAfter(s, c, x.ready, g)
    /\ Started(s, c, x, PackEnds(s, c)[g + Len(x.ready)])

(* After n batches a finite source has nothing more for the trainer.        *)
EndReached(s, c, n) ==
    /\ ~s.repeat /\ Readable(s, c, Len(c))
    /\ LET next == BatchOf(s, PackEnds(s, c), n + 1)
       IN  next = <<>> \/ (s.dropLast /\ Len(next) < s.batchSize)

(* TorchData's account of a trainer that took n batches.                    *)
Accounts(s, c, u, n) ==
    /\ u \in UpstreamType
    /\ u.behind <= n /\ u.behind < s.snapshotEvery
    /\ Sound(s, c, u.snapshot)
    /\ ~u.finished => Follows(s, c, u.snapshot, (n - u.behind) * s.batchSize)
    /\ u.finished => EndReached(s, c, n)

(* What the iterator's i-th item may be.                                    *)
Produced(s, c, item, i) ==
    /\ item \in ItemType
    /\ item.kind = "batch" =>
           /\ item.batch = BatchOf(s, PackEnds(s, c), i)
           /\ Len(item.batch) <= s.batchSize
           /\ Sound(s, c, item.after)
           /\ Follows(s, c, item.after, i * s.batchSize)
    /\ item.kind = "end" => Sound(s, c, item.after) /\ EndReached(s, c, i - 1)

(* The batches a trajectory was given, and the loader's counts of them.     *)
Given(s, c, d, batches, samples) ==
    /\ d \in Seq(BatchType) /\ Len(d) <= MaxBatches
    /\ \A i \in DOMAIN d : d[i] = BatchOf(s, PackEnds(s, c), i)
    /\ batches = Len(d)
    /\ samples = Total([i \in DOMAIN d |-> Len(d[i])], DOMAIN d)
    /\ samples \in Nat /\ Len(d) <= samples /\ samples <= Len(d) * s.batchSize

LoaderType == [pending : UpstreamType \cup {None}, batches : Nat, samples : Nat,
               exhausted : BOOLEAN]

SavedType == [state : [upstream : UpstreamType, batches : Nat, samples : Nat,
                       exhausted : BOOLEAN],
              delivered : Seq(BatchType)]

(* How many batches may wait in the queue, and how many were taken off it.  *)
Ahead(s) == IF s.prefetch = 0 THEN 1 ELSE s.prefetch
TakenSoFar == Len(delivered) - replay

Configured == corpus \in Corpora /\ setup \in Setups

Controls ==
    /\ iterator \in {"absent", "open", "returned"}
    /\ asking \in BOOLEAN /\ status \in {"running", "failed"}
    /\ replay \in 0 .. setup.snapshotEvery - 1 /\ replay <= Len(delivered)
    /\ replay > 0 => ~loader.exhausted /\ (asking \/ status = "failed")
    /\ asking => ~loader.exhausted /\ Len(delivered) < MaxBatches
    /\ iterator = "absent" =>
           upstream = FreshUpstream /\ replay = 0 /\ queue = <<>>
    /\ iterator # "absent" => loader.pending = None

LoaderInv ==
    /\ loader \in LoaderType /\ upstream \in UpstreamType
    /\ Given(setup, corpus, delivered, loader.batches, loader.samples)
    /\ Accounts(setup, corpus, StateDict.upstream, TakenSoFar)
    /\ loader.exhausted = StateDict.upstream.finished

QueueInv ==
    /\ queue \in Seq(ItemType)
    /\ \A i \in 1 .. Len(queue) :
           /\ Produced(setup, corpus, queue[i], TakenSoFar + i)
           /\ queue[i].kind = "batch" => i <= Ahead(setup)
           /\ i < Len(queue) \/ iterator = "open" => queue[i].kind = "batch"

StreamInv ==
    /\ stream \in StreamType /\ Len(stream.ready) <= setup.batchSize + 1
    /\ iterator = "open" =>
           /\ stream.topology /\ Sound(setup, corpus, stream)
           /\ Follows(setup, corpus, stream,
                      (TakenSoFar + Len(queue)) * setup.batchSize)

SavedInv ==
    saved # None =>
        /\ saved \in SavedType
        /\ Given(setup, corpus, saved.delivered, saved.state.batches,
                 saved.state.samples)
        /\ Accounts(setup, corpus, saved.state.upstream, Len(saved.delivered))
        /\ saved.state.exhausted = saved.state.upstream.finished

IInv == Configured /\ Controls /\ LoaderInv /\ QueueInv /\ StreamInv /\ SavedInv

-----------------------------------------------------------------------------
(* The configuration and the lengths of records.                           *)

Shape(s, c) ==
    /\ s.source \in {"memory", "jsonl"} /\ s.newline \in BOOLEAN
    /\ s.repeat \in BOOLEAN /\ s.packs \in BOOLEAN /\ s.dropLast \in BOOLEAN
    /\ s.world \in Nat \ {0} /\ s.rank \in Nat /\ s.rank < s.world
    /\ s.world > 1 => s.repeat
    /\ s.maxLength \in Nat \ {0} /\ s.sampleLimit \in Nat
    /\ s.batchSize \in Nat \ {0} /\ s.prefetch \in Nat
    /\ s.snapshotEvery \in Nat \ {0}
    /\ c \in Seq(Nat \ {0}) /\ Len(c) \in Nat \ {0}
    /\ MaxBatches \in Nat

LEMMA Shaped ==
  ASSUME NEW s \in Setups, NEW c \in Corpora
  PROVE  Shape(s, c)
<1>1. s \in SetupType /\ s.rank < s.world /\ (s.world > 1 => s.repeat)
  BY DataAssumption
<1>2. /\ s.source \in {"memory", "jsonl"} /\ s.newline \in BOOLEAN
      /\ s.repeat \in BOOLEAN /\ s.packs \in BOOLEAN /\ s.dropLast \in BOOLEAN
      /\ s.world \in Nat \ {0} /\ s.rank \in Nat
      /\ s.maxLength \in Nat \ {0} /\ s.sampleLimit \in Nat
      /\ s.batchSize \in Nat \ {0} /\ s.prefetch \in Nat
      /\ s.snapshotEvery \in Nat \ {0}
  BY <1>1 DEF SetupType
<1>3. c \in Seq(Nat \ {0}) /\ c # <<>>
  BY DataAssumption
<1>4. Len(c) \in Nat \ {0}
  BY <1>3
<1> QED BY <1>1, <1>2, <1>3, <1>4, DataAssumption DEF Shape

LEMMA Modulo ==
  ASSUME NEW a \in Nat, NEW n \in Nat \ {0}
  PROVE  a % n \in 0 .. n - 1
OBVIOUS

LEMMA LengthPositive ==
  ASSUME NEW s, NEW c, Shape(s, c), NEW x \in Nat \ {0}
  PROVE  LengthIn(c, x) \in Nat \ {0}
<1>1. c \in Seq(Nat \ {0}) /\ Len(c) \in Nat \ {0} /\ x - 1 \in Nat
  BY DEF Shape
<1>2. (x - 1) % Len(c) \in 0 .. Len(c) - 1
  BY <1>1, Modulo
<1>3. ((x - 1) % Len(c)) + 1 \in 1 .. Len(c)
  BY <1>1, <1>2
<1> QED BY <1>1, <1>3 DEF LengthIn

LEMMA SharePositive ==
  ASSUME NEW s, NEW c, Shape(s, c), NEW k \in Nat \ {0}
  PROVE  Share(s, k) \in Nat \ {0}
<1>1. s.world \in Nat /\ s.rank \in Nat /\ k - 1 \in Nat
  BY DEF Shape
<1>2. (k - 1) * s.world \in Nat
  BY <1>1
<1> QED BY <1>1, <1>2 DEF Share

LEMMA ShareLengthPositive ==
  ASSUME NEW s, NEW c, Shape(s, c), NEW k \in Nat \ {0}
  PROVE  /\ ShareLength(s, c, k) = LengthIn(c, Share(s, k))
         /\ ShareLength(s, c, k) \in Nat \ {0}
<1>1. ShareLength(s, c, k) = LengthIn(c, Share(s, k))
  BY DEF ShareLength, LengthIn
<1> QED BY <1>1, SharePositive, LengthPositive

-----------------------------------------------------------------------------
(* Sums over intervals.                                                    *)

LEMMA TotalIsSum ==
  ASSUME NEW v, NEW S
  PROVE  Total(v, S) = SumOf(v, S)
BY DEF Total, SumOf

LEMMA IntervalSum ==
  ASSUME NEW v, NEW m \in Int, NEW n \in Int, NEW k \in Int, m <= n + 1, n <= k,
         \A x \in m .. k : v[x] \in Nat \ {0}
  PROVE  /\ Total(v, m .. k) = Total(v, m .. n) + Total(v, n + 1 .. k)
         /\ Total(v, m .. n) \in Nat /\ Total(v, n + 1 .. k) \in Nat
         /\ n < k => Total(v, n + 1 .. k) # 0
<1> DEFINE S == m .. n
           T == n + 1 .. k
<1>1. S \cup T = m .. k /\ S \cap T = {}
  OBVIOUS
<1>2. IsFiniteSet(S) /\ IsFiniteSet(T)
  <2>1. n + 1 \in Int
    OBVIOUS
  <2> QED BY <2>1, FS_Interval
<1>3. \A x \in S \cup T : v[x] \in Nat \ {0}
  BY <1>1
<1>4. n < k => T # {}
  OBVIOUS
<1> HIDE DEF S, T
<1>5. SumOf(v, S \cup T) = SumOf(v, S) + SumOf(v, T)
  <2>1. \A x \in S \cup T : v[x] \in Int
    BY <1>3
  <2> QED BY <1>1, <1>2, <2>1, SumUnion
<1>6. SumOf(v, S) \in Nat
  BY <1>2, <1>3, SumPositive
<1>7. SumOf(v, T) \in Nat /\ (T # {} => SumOf(v, T) # 0)
  BY <1>2, <1>3, SumPositive
<1>8. Total(v, m .. k) = SumOf(v, S \cup T)
  BY <1>1, TotalIsSum
<1>9. Total(v, m .. n) = SumOf(v, S) /\ Total(v, n + 1 .. k) = SumOf(v, T)
  BY TotalIsSum DEF S, T
<1> QED BY <1>4, <1>5, <1>6, <1>7, <1>8, <1>9

LEMMA EmptyTotal ==
  ASSUME NEW v
  PROVE  Total(v, {}) = 0
BY TotalIsSum, SumEmpty

LEMMA SingleTotal ==
  ASSUME NEW v, NEW x, v[x] \in Int
  PROVE  Total(v, {x}) = v[x]
<1>1. IsFiniteSet({x})
  BY FS_Singleton
<1>2. SumOf(v, {x}) = v[x] + SumOf(v, {x} \ {x})
  BY <1>1, SumRemove
<1>3. {x} \ {x} = {}
  OBVIOUS
<1>4. SumOf(v, {x} \ {x}) = 0
  BY <1>3, SumEmpty
<1> QED BY <1>2, <1>4, TotalIsSum

LEMMA NextTotal ==
  ASSUME NEW v, NEW m \in Int, NEW n \in Int, m <= n + 1,
         \A x \in m .. n + 1 : v[x] \in Nat \ {0}
  PROVE  Total(v, m .. n + 1) = Total(v, m .. n) + v[n + 1]
<1>1. n + 1 \in Int /\ n <= n + 1 /\ n + 1 \in m .. n + 1
  OBVIOUS
<1>2. Total(v, m .. n + 1) = Total(v, m .. n) + Total(v, n + 1 .. n + 1)
  <2>1. PICK k \in Int : k = n + 1
    BY <1>1
  <2>2. n <= k /\ \A x \in m .. k : v[x] \in Nat \ {0}
    BY <1>1, <2>1
  <2>3. Total(v, m .. k) = Total(v, m .. n) + Total(v, n + 1 .. k)
    BY <2>2, IntervalSum
  <2> QED BY <2>1, <2>3
<1>3. n + 1 .. n + 1 = {n + 1}
  OBVIOUS
<1>4. v[n + 1] \in Int
  BY <1>1
<1>5. Total(v, {n + 1}) = v[n + 1]
  BY <1>4, SingleTotal
<1> QED BY <1>2, <1>3, <1>5

-----------------------------------------------------------------------------
(* The lines of a file end at increasing offsets, so that an offset gives   *)
(* the line.                                                               *)

LineSize(s, c) ==
    [k \in 1 .. Len(c) |-> c[k] + (IF k < Len(c) \/ s.newline THEN 1 ELSE 0)]

LEMMA LineSizePositive ==
  ASSUME NEW s, NEW c, Shape(s, c), NEW k \in 1 .. Len(c)
  PROVE  LineSize(s, c)[k] \in Nat \ {0}
<1>1. c[k] \in Nat \ {0}
  BY DEF Shape
<1> QED BY <1>1 DEF LineSize

LEMMA LineEndSum ==
  ASSUME NEW s \in Setups, NEW c \in Corpora, NEW n \in 0 .. Len(c)
  PROVE  EndIn(s, c, n) = Total(LineSize(s, c), 1 .. n)
<1>1. s.newline \in BOOLEAN
  BY Shaped DEF Shape
<1> QED BY <1>1 DEF EndIn, LineEnds, LineSize

LEMMA LineEndsIncrease ==
  ASSUME NEW s \in Setups, NEW c \in Corpora,
         NEW m \in 0 .. Len(c), NEW n \in 0 .. Len(c)
  PROVE  /\ EndIn(s, c, n) \in Nat
         /\ m < n => EndIn(s, c, m) < EndIn(s, c, n)
<1>0. Shape(s, c) /\ Len(c) \in Nat
  BY Shaped DEF Shape
<1> DEFINE v == LineSize(s, c)
<1>1. \A k \in 1 .. Len(c) : v[k] \in Nat \ {0}
  BY <1>0, LineSizePositive
<1>2. EndIn(s, c, m) = Total(v, 1 .. m) /\ EndIn(s, c, n) = Total(v, 1 .. n)
  BY LineEndSum
<1> HIDE DEF v
<1>3. EndIn(s, c, n) \in Nat
  <2>1. 1 \in Int /\ n \in Int /\ 1 <= n + 1 /\ n <= n
    BY <1>0
  <2>2. \A x \in 1 .. n : v[x] \in Nat \ {0}
    BY <1>0, <1>1
  <2>3. Total(v, 1 .. n) \in Nat
    BY <2>1, <2>2, IntervalSum
  <2> QED BY <1>2, <2>3
<1>4. ASSUME m < n
      PROVE  EndIn(s, c, m) < EndIn(s, c, n)
  <2>1. 1 \in Int /\ m \in Int /\ n \in Int /\ 1 <= m + 1 /\ m <= n
    BY <1>0, <1>4
  <2>2. \A x \in 1 .. n : v[x] \in Nat \ {0}
    BY <1>0, <1>1
  <2>3. /\ Total(v, 1 .. n) = Total(v, 1 .. m) + Total(v, m + 1 .. n)
        /\ Total(v, 1 .. m) \in Nat /\ Total(v, m + 1 .. n) \in Nat
        /\ m < n => Total(v, m + 1 .. n) # 0
    BY <2>1, <2>2, IntervalSum
  <2> QED BY <1>2, <1>4, <2>3
<1> QED BY <1>3, <1>4

(* _line_number_at_offset finds the line, and only that one.                *)
LEMMA LineFound ==
  ASSUME setup \in Setups, corpus \in Corpora, NEW n \in 0 .. Len(corpus)
  PROVE  /\ LineNumbersAt(EndOf(n)) = {n} /\ Min(LineNumbersAt(EndOf(n))) = n
         /\ EndOf(n) = EndIn(setup, corpus, n) /\ EndOf(n) \in Nat
         /\ EndOf(n) = FileSize <=> n = Len(corpus)
         /\ EndOf(n) < FileSize <=> n < Len(corpus)
<1>0. Len(corpus) \in Nat \ {0}
  BY Shaped DEF Shape
<1>1. \A k : EndOf(k) = EndIn(setup, corpus, k)
  BY DEF EndOf, EndIn
<1>2. \A k \in 0 .. Len(corpus) :
          EndOf(k) \in Nat /\ (k < n => EndOf(k) < EndOf(n))
                           /\ (n < k => EndOf(n) < EndOf(k))
  BY <1>1, LineEndsIncrease
<1>3. EndOf(n) \in Nat
  BY <1>2
<1>4. LineNumbersAt(EndOf(n)) = {n}
  <2>1. \A k \in 0 .. Len(corpus) : EndOf(k) = EndOf(n) => k = n
    BY <1>0, <1>2, <1>3
  <2> QED BY <2>1 DEF LineNumbersAt
<1>5. Min({n}) = n
  <2>1. n <= n
    BY <1>0
  <2> QED BY <2>1 DEF Min
<1>6. Len(corpus) \in 0 .. Len(corpus)
  BY <1>0
<1>7. FileSize \in Nat /\ (n < Len(corpus) => EndOf(n) < FileSize)
  BY <1>2, <1>6 DEF FileSize
<1>8. n = Len(corpus) => EndOf(n) = FileSize
  BY DEF FileSize
<1> QED BY <1>0, <1>1, <1>3, <1>4, <1>5, <1>7, <1>8

-----------------------------------------------------------------------------
(* Reading records.                                                        *)

LEMMA PlaceFacts ==
  ASSUME setup \in Setups, corpus \in Corpora, NEW place, NEW r,
         AtRecord(setup, corpus, place, r)
  PROVE  /\ r \in Nat /\ Position(place) = r
         /\ setup.source # "memory" =>
                /\ place.line \in LineNumbersAt(place.offset)
                /\ place.line # 0 => place.offset # 0
<1>0. Shape(setup, corpus)
  BY Shaped
<1>1. Len(corpus) \in Nat /\ place \in PlaceType
  BY <1>0 DEF Shape, AtRecord
<1>2. place.epoch \in Nat /\ place.cursor \in Nat
  BY <1>1 DEF PlaceType
<1>3. CASE setup.source = "memory"
  BY <1>2, <1>3 DEF AtRecord, Position
<1>4. CASE setup.source # "memory"
  <2>1. /\ place.line \in 0 .. Len(corpus)
        /\ place.offset = EndIn(setup, corpus, place.line)
        /\ r = place.epoch * Len(corpus) + place.line
    BY <1>4 DEF AtRecord
  <2>2. place.offset = EndOf(place.line)
    BY <2>1, LineFound
  <2>3. /\ LineNumbersAt(place.offset) = {place.line}
        /\ Min(LineNumbersAt(place.offset)) = place.line
    BY <2>1, <2>2, LineFound
  <2>4. place.epoch * Len(corpus) \in Nat
    BY <1>1, <1>2
  <2>5. r \in Nat
    BY <2>1, <2>4
  <2>6. place.line # 0 => place.offset # 0
    <3>1. 0 \in 0 .. Len(corpus) /\ (place.line # 0 => 0 < place.line)
      BY <1>1, <2>1
    <3>2. EndIn(setup, corpus, 0) \in Nat
      BY <3>1, LineEndsIncrease
    <3>3. place.line # 0 => EndIn(setup, corpus, 0) < EndIn(setup, corpus, place.line)
      BY <2>1, <3>1, LineEndsIncrease
    <3>4. EndIn(setup, corpus, place.line) \in Nat
      BY <2>1, LineEndsIncrease
    <3> QED BY <2>1, <3>2, <3>3, <3>4
  <2> QED BY <1>4, <2>1, <2>3, <2>5, <2>6 DEF Position
<1> QED BY <1>3, <1>4

LEMMA ReadRecordReads ==
  ASSUME setup \in Setups, corpus \in Corpora, NEW place, NEW r,
         AtRecord(setup, corpus, place, r)
  PROVE  AtRecord(setup, corpus, ReadRecord(place), r + 1)
<1>0. Shape(setup, corpus)
  BY Shaped
<1>1. Len(corpus) \in Nat \ {0} /\ place \in PlaceType
  BY <1>0 DEF Shape, AtRecord
<1>2. place.epoch \in Nat /\ place.cursor \in Nat
  BY <1>1 DEF PlaceType
<1>3. CASE setup.source = "memory"
  <2>1. place.cursor = r
    BY <1>3 DEF AtRecord
  <2>2. ReadRecord(place) = [place EXCEPT !.cursor = @ + 1]
    BY <1>3 DEF ReadRecord
  <2>3. ReadRecord(place) \in PlaceType /\ ReadRecord(place).cursor = r + 1
    BY <1>1, <1>2, <2>1, <2>2 DEF PlaceType
  <2> QED BY <1>3, <2>3 DEF AtRecord
<1>4. CASE setup.source # "memory"
  <2> DEFINE n == place.line
             rolls == place.offset = FileSize
             first == IF rolls THEN 0 ELSE Min(LineNumbersAt(place.offset))
             q == ReadRecord(place)
  <2>1. /\ n \in 0 .. Len(corpus)
        /\ place.offset = EndIn(setup, corpus, n)
        /\ r = place.epoch * Len(corpus) + n
        /\ n = 0 => place.epoch = 0
    BY <1>4 DEF AtRecord
  <2>2. place.offset = EndOf(n)
    BY <2>1, LineFound
  <2>3. (rolls <=> n = Len(corpus)) /\ first = (IF rolls THEN 0 ELSE n)
    BY <2>1, <2>2, LineFound
  <2>4. q = [place EXCEPT !.offset = EndOf(first + 1),
                          !.line   = (IF rolls THEN 0 ELSE @) + 1,
                          !.epoch  = IF rolls THEN @ + 1 ELSE @]
    BY <1>4 DEF ReadRecord, ReadLine
  <2> DEFINE line == first + 1
             epoch == IF rolls THEN place.epoch + 1 ELSE place.epoch
  <2>5. line \in 1 .. Len(corpus) /\ epoch \in Nat /\ line \in 0 .. Len(corpus)
    BY <1>1, <1>2, <2>1, <2>3
  <2>6. EndOf(line) = EndIn(setup, corpus, line) /\ EndOf(line) \in Nat
    BY <2>5, LineFound
  <2>12. /\ line = (IF rolls THEN 0 ELSE place.line) + 1 /\ line = first + 1
        /\ epoch = IF rolls THEN place.epoch + 1 ELSE place.epoch
    BY <2>3
  <2> HIDE DEF q, line, epoch, first, rolls
  <2>7. /\ q = [place EXCEPT !.offset = EndOf(line), !.line = line, !.epoch = epoch]
        /\ line \in Nat
    <3>1. q = [place EXCEPT !.offset = EndOf(line), !.line = line, !.epoch = epoch]
      BY <2>4, <2>12
    <3> QED BY <2>5, <3>1
  <2>8. /\ q \in PlaceType
        /\ q.offset = EndOf(line) /\ q.line = line /\ q.epoch = epoch
    BY <1>1, <2>5, <2>6, <2>7 DEF PlaceType
  <2>9. r + 1 = epoch * Len(corpus) + line
    <3>0. (rolls <=> n = Len(corpus)) /\ (first = IF rolls THEN 0 ELSE n)
      BY <2>3
    <3>1. CASE rolls
      <4>1. epoch = place.epoch + 1 /\ line = 1 /\ n = Len(corpus)
        BY <2>12, <3>0, <3>1
      <4>2. (place.epoch + 1) * Len(corpus) = place.epoch * Len(corpus) + Len(corpus)
        BY <1>1, <1>2
      <4>3. place.epoch * Len(corpus) \in Nat
        BY <1>1, <1>2
      <4> QED BY <1>1, <2>1, <4>1, <4>2, <4>3
    <3>2. CASE ~rolls
      <4>1. epoch = place.epoch /\ line = n + 1
        BY <2>12, <3>0, <3>2
      <4>2. place.epoch * Len(corpus) \in Nat /\ n \in Nat
        BY <1>1, <1>2, <2>1
      <4> QED BY <2>1, <4>1, <4>2
    <3> QED BY <3>1, <3>2
  <2>10. line # 0 /\ line \in 0 .. Len(corpus)
    BY <2>5
  <2>11. AtRecord(setup, corpus, q, r + 1)
    BY <1>4, <2>6, <2>8, <2>9, <2>10 DEF AtRecord
  <2> QED BY <2>11 DEF q
<1> QED BY <1>3, <1>4

(* The recursion of ReadRecords has a solution.                             *)
Readings(place, n) ==
  CHOOSE g : g = [k \in 0 .. n |-> IF k = 0 THEN place ELSE ReadRecord(g[k - 1])]

LEMMA ReadingsExist ==
  ASSUME NEW place, NEW n \in Nat
  PROVE  \A k \in 0 .. n :
           Readings(place, n)[k] =
             IF k = 0 THEN place ELSE ReadRecord(Readings(place, n)[k - 1])
<1> DEFINE Step(g, k) == IF k = 0 THEN place ELSE ReadRecord(g[k - 1])
           Solves(g, m) == \A k \in 0 .. m : g[k] = Step(g, k)
           Further(g) == [k \in Nat |-> Step(g, k)]
           Bad == {m \in Nat : ~\E g : Solves(g, m)}
<1>1. \E g : Solves(g, 0)
  <2> DEFINE g == [k \in Nat |-> place]
  <2>1. Solves(g, 0)
    OBVIOUS
  <2> QED BY <2>1
<1>2. ASSUME NEW m \in Nat, NEW g, Solves(g, m)
      PROVE  Solves(Further(g), m + 1)
  <2> SUFFICES ASSUME NEW k \in 0 .. m + 1
               PROVE  Further(g)[k] = Step(Further(g), k)
    OBVIOUS
  <2>1. CASE k = 0
    BY <2>1
  <2>2. CASE k # 0
    <3>1. k - 1 \in 0 .. m /\ k - 1 \in Nat /\ k \in Nat
      BY <2>2
    <3>2. g[k - 1] = Step(g, k - 1)
      BY <1>2, <3>1
    <3>3. g[k - 1] = Further(g)[k - 1]
      BY <3>1, <3>2
    <3> QED BY <2>2, <3>1, <3>3
  <2> QED BY <2>1, <2>2
<1>3. Bad = {}
  <2> SUFFICES ASSUME Bad # {} PROVE FALSE
    OBVIOUS
  <2>1. PICK m \in Bad : \A l \in Bad : m <= l
    BY SmallestNumber
  <2>2. m \in Nat /\ m # 0
    BY <1>1
  <2>3. m - 1 \in Nat /\ m - 1 \notin Bad
    BY <2>1, <2>2
  <2>4. PICK g : Solves(g, m - 1)
    BY <2>3
  <2>5. Solves(Further(g), (m - 1) + 1)
    <3> HIDE DEF Solves, Further
    <3> QED BY <1>2, <2>3, <2>4
  <2>6. (m - 1) + 1 = m
    BY <2>2
  <2>7. Solves(Further(g), m)
    BY <2>5, <2>6
  <2> QED BY <2>1, <2>7
<1>4. PICK g : Solves(g, n)
  BY <1>3
<1> DEFINE h == [k \in 0 .. n |-> Step(g, k)]
<1>5. \A k \in 0 .. n : h[k] = g[k]
  BY <1>4
<1>6. \A k \in 0 .. n : k # 0 => k - 1 \in 0 .. n
  OBVIOUS
<1>7. \A k \in 0 .. n : Step(g, k) = Step(h, k)
  <2> HIDE DEF h
  <2> QED BY <1>5, <1>6
<1>8. h = [k \in 0 .. n |-> Step(h, k)]
  <2>1. h = [k \in 0 .. n |-> Step(g, k)]
    OBVIOUS
  <2> HIDE DEF h
  <2> QED BY <1>7, <2>1
<1> HIDE DEF h
<1> DEFINE f == Readings(place, n)
<1>9. f = [k \in 0 .. n |-> Step(f, k)]
  BY <1>8 DEF Readings
<1> HIDE DEF f
<1>10. \A k \in 0 .. n : f[k] = Step(f, k)
  BY <1>9
<1> QED BY <1>10 DEF f

LEMMA ReadRecordsRead ==
  ASSUME setup \in Setups, corpus \in Corpora, NEW place, NEW r, NEW n \in Nat,
         AtRecord(setup, corpus, place, r)
  PROVE  AtRecord(setup, corpus, ReadRecords(place, n), r + n)
<1> DEFINE f == Readings(place, n)
           Bad == {k \in Nat : k <= n /\ ~AtRecord(setup, corpus, f[k], r + k)}
<1>0. \A k \in 0 .. n : f[k] = IF k = 0 THEN place ELSE ReadRecord(f[k - 1])
  BY ReadingsExist
<1>1. ReadRecords(place, n) = f[n]
  BY DEF ReadRecords, Readings
<1>2. r \in Nat
  BY PlaceFacts
<1> HIDE DEF f
<1>3. Bad = {}
  <2> SUFFICES ASSUME Bad # {} PROVE FALSE
    OBVIOUS
  <2>1. PICK k \in Bad : \A m \in Bad : k <= m
    BY SmallestNumber
  <2>2. k \in Nat /\ k <= n /\ k \in 0 .. n
    BY <2>1
  <2>3. k # 0
    <3>1. f[0] = place /\ r + 0 = r
      BY <1>0, <1>2
    <3> QED BY <2>1, <3>1
  <2>4. k - 1 \in Nat /\ k - 1 \notin Bad /\ k - 1 <= n
    BY <2>1, <2>2, <2>3
  <2>5. AtRecord(setup, corpus, f[k - 1], r + (k - 1))
    BY <2>4
  <2>6. AtRecord(setup, corpus, ReadRecord(f[k - 1]), (r + (k - 1)) + 1)
    BY <2>5, ReadRecordReads
  <2>7. f[k] = ReadRecord(f[k - 1]) /\ (r + (k - 1)) + 1 = r + k
    BY <1>0, <1>2, <2>2, <2>3
  <2> QED BY <2>1, <2>6, <2>7
<1>4. AtRecord(setup, corpus, f[n], r + n)
  BY <1>3
<1> QED BY <1>1, <1>4

(* RankShardedSource.next_sample, or the next record without it: the k-th   *)
(* sample of this rank.                                                    *)
LEMMA SampleFacts ==
  ASSUME setup \in Setups, corpus \in Corpora, NEW x,
         Sound(setup, corpus, x), x.topology
  PROVE  /\ NextSample(x) = Share(setup, x.local + 1)
         /\ AtRecord(setup, corpus, SampleRead(x).place,
                     (x.local + 1) * StrideIn(setup, x))
         /\ SampleRead(x) = [x EXCEPT !.place = SampleRead(x).place,
                                      !.local = x.local + 1]
         /\ SampleRead(x).place \in PlaceType
<1>0. Shape(setup, corpus) /\ x \in StreamType
  BY Shaped DEF Sound
<1>1. x.local \in Nat /\ (x.sharded <=> setup.world > 1) /\ x.sharded \in BOOLEAN
  BY <1>0 DEF Sound, StreamType
<1>2. setup.world \in Nat \ {0} /\ setup.rank \in Nat /\ setup.rank < setup.world
  BY <1>0 DEF Shape
<1> DEFINE w == StrideIn(setup, x)
           ahead == IF x.sharded THEN setup.rank + 1 ELSE 1
           r == x.local * w
<1>3. w = setup.world /\ w = Stride(x) /\ ahead = setup.rank + 1
  BY <1>1, <1>2 DEF StrideIn, Stride
<1>4. AtRecord(setup, corpus, x.place, r)
  BY DEF Sound
<1>5. r = x.local * setup.world /\ r \in Nat
  BY <1>1, <1>2, <1>3
<1> HIDE DEF r, w, ahead
<1>6. NextSample(x) = Share(setup, x.local + 1)
  <2>1. ahead \in Nat
    BY <1>2, <1>3
  <2>2. AtRecord(setup, corpus, ReadRecords(x.place, ahead), r + ahead)
    BY <1>4, <2>1, ReadRecordsRead
  <2>3. Position(ReadRecords(x.place, ahead)) = r + ahead
    BY <2>2, PlaceFacts
  <2>4. NextSample(x) = r + ahead
    BY <2>3 DEF NextSample, ahead
  <2>5. (x.local + 1) - 1 = x.local
    BY <1>1
  <2>6. Share(setup, x.local + 1) = x.local * setup.world + setup.rank + 1
    BY <2>5 DEF Share
  <2>7. Share(setup, x.local + 1) = r + setup.rank + 1
    BY <1>5, <2>6
  <2>8. r + setup.rank + 1 = r + ahead
    BY <1>2, <1>3, <1>5
  <2> QED BY <2>4, <2>7, <2>8
<1>7. SampleRead(x) = [x EXCEPT !.place = ReadRecords(@, w), !.local = @ + 1]
  BY <1>3 DEF SampleRead
<1>8. SampleRead(x).place = ReadRecords(x.place, w)
  BY <1>0, <1>7 DEF StreamType
<1>9. AtRecord(setup, corpus, SampleRead(x).place, (x.local + 1) * w)
  <2>1. AtRecord(setup, corpus, ReadRecords(x.place, w), r + w)
    BY <1>2, <1>3, <1>4, ReadRecordsRead
  <2>2. (x.local + 1) * w = x.local * w + w
    BY <1>1, <1>2, <1>3
  <2> QED BY <1>8, <2>1, <2>2 DEF r
<1>10. SampleRead(x) = [x EXCEPT !.place = SampleRead(x).place, !.local = x.local + 1]
  BY <1>7, <1>8
<1>11. SampleRead(x).place \in PlaceType
  BY <1>9 DEF AtRecord
<1> QED BY <1>6, <1>9, <1>10, <1>11 DEF w

(* A finite source is unsharded; its place is the number of samples read.   *)
LEMMA FinitePlace ==
  ASSUME setup \in Setups, corpus \in Corpora, NEW x,
         Sound(setup, corpus, x), ~setup.repeat
  PROVE  /\ x.local \in 0 .. Len(corpus)
         /\ setup.source = "memory" => x.place.cursor = x.local
         /\ setup.source # "memory" => x.place.line = x.local /\ x.place.epoch = 0
<1>0. Shape(setup, corpus) /\ x \in StreamType
  BY Shaped DEF Sound
<1>1. x.local \in Nat /\ Len(corpus) \in Nat \ {0}
  BY <1>0 DEF Shape, StreamType
<1>2. x.local \in 0 .. Len(corpus)
  BY <1>1 DEF Sound, Readable
<1>3. StrideIn(setup, x) = 1
  <2>1. setup.world = 1
    BY <1>0 DEF Shape
  <2> QED BY <2>1 DEF StrideIn
<1>4. AtRecord(setup, corpus, x.place, x.local)
  <2>1. x.local * 1 = x.local
    BY <1>1
  <2> QED BY <1>3, <2>1 DEF Sound
<1>5. ASSUME setup.source # "memory"
      PROVE  x.place.line = x.local /\ x.place.epoch = 0
  <2> DEFINE line == x.place.line
             epoch == x.place.epoch
             size == Len(corpus)
  <2>1. /\ line \in 0 .. size /\ epoch \in Nat /\ x.local = epoch * size + line
        /\ line = 0 => epoch = 0
    BY <1>4, <1>5 DEF AtRecord, PlaceType
  <2> HIDE DEF line, epoch, size
  <2>2. size \in Nat \ {0} /\ x.local <= size /\ x.local \in Nat
    BY <1>1, <1>2 DEF size
  <2>3. epoch = 0
    <3>1. CASE line = 0
      BY <2>1, <3>1
    <3>2. CASE line # 0
      <4>1. epoch * size < size
        <5>1. epoch * size \in Nat /\ line \in Nat
          BY <2>1, <2>2
        <5> QED BY <2>1, <2>2, <3>2, <5>1
      <4>2. epoch # 0 => size <= epoch * size
        BY <2>1, <2>2
      <4>3. epoch * size \in Nat
        BY <2>1, <2>2
      <4> QED BY <2>2, <4>1, <4>2, <4>3
    <3> QED BY <3>1, <3>2
  <2>4. epoch * size = 0
    BY <2>2, <2>3
  <2>5. line = x.local
    BY <2>1, <2>2, <2>4
  <2> QED BY <2>3, <2>5 DEF line, epoch
<1> QED BY <1>2, <1>4, <1>5 DEF AtRecord

LEMMA HasNextMeans ==
  ASSUME setup \in Setups, corpus \in Corpora, NEW x, Sound(setup, corpus, x)
  PROVE  HasNext(x) <=> setup.repeat \/ x.local < Len(corpus)
<1>1. CASE setup.repeat
  BY <1>1 DEF HasNext
<1>2. ASSUME ~setup.repeat, setup.source # "memory"
      PROVE  HasNext(x) <=> x.local < Len(corpus)
  <2>1. x.local \in 0 .. Len(corpus) /\ x.place.line = x.local
    BY <1>2, FinitePlace
  <2>2. x.place.offset = EndIn(setup, corpus, x.local)
    BY <1>2, <2>1 DEF Sound, AtRecord
  <2>3. x.place.offset = EndOf(x.local)
    BY <2>1, <2>2, LineFound
  <2>4. x.place.offset < FileSize <=> x.local < Len(corpus)
    BY <2>1, <2>3, LineFound
  <2> QED BY <1>2, <2>4 DEF HasNext
<1>3. ASSUME ~setup.repeat, setup.source = "memory"
      PROVE  HasNext(x) <=> x.local < Len(corpus)
  BY <1>3, FinitePlace DEF HasNext
<1> QED BY <1>1, <1>2, <1>3

(* MemorySource and JsonlSource accept the place of such a stream.          *)
LEMMA PlaceTaken ==
  ASSUME setup \in Setups, corpus \in Corpora, NEW x, Sound(setup, corpus, x)
  PROVE  PlaceAccepted(x.place)
<1>1. CASE setup.source = "memory"
  BY <1>1, FinitePlace DEF PlaceAccepted
<1>2. CASE setup.source # "memory"
  <2> DEFINE r == x.local * StrideIn(setup, x)
  <2>1. AtRecord(setup, corpus, x.place, r)
    BY DEF Sound
  <2> HIDE DEF r
  <2>2. /\ x.place.line \in LineNumbersAt(x.place.offset)
        /\ x.place.line # 0 => x.place.offset # 0
    BY <1>2, <2>1, PlaceFacts
  <2>3. x.place.line = 0 => x.place.epoch = 0
    BY <1>2, <2>1 DEF AtRecord
  <2>4. ~setup.repeat => x.place.epoch = 0
    BY <1>2, FinitePlace
  <2>5. x.place.epoch > 0 => x.place.epoch # 0
    OBVIOUS
  <2> QED BY <1>2, <2>2, <2>3, <2>4, <2>5 DEF PlaceAccepted
<1> QED BY <1>1, <1>2

-----------------------------------------------------------------------------
(* Token sums.                                                             *)

LEMMA RunFacts ==
  ASSUME NEW s, NEW c, Shape(s, c), NEW m \in Nat \ {0}, NEW n \in Nat, m <= n + 1
  PROVE  /\ RunLength(s, c, m, n) \in Nat
         /\ RunLength(s, c, m, n + 1)
              = RunLength(s, c, m, n) + ShareLength(s, c, n + 1)
         /\ \A k \in Nat : n <= k => RunLength(s, c, m, n) <= RunLength(s, c, m, k)
<1> DEFINE v == [k \in Nat |-> ShareLength(s, c, k)]
<1>1. \A k \in Nat \ {0} : v[k] \in Nat \ {0} /\ v[k] = ShareLength(s, c, k)
  BY ShareLengthPositive
<1>2. \A k : RunLength(s, c, m, k) = Total(v, m .. k)
  BY DEF RunLength
<1> HIDE DEF v
<1>3. \A k \in Nat : \A x \in m .. k : v[x] \in Nat \ {0}
  BY <1>1
<1>4. Total(v, m .. n) \in Nat
  <2>1. n <= n /\ m \in Int /\ n \in Int /\ \A x \in m .. n : v[x] \in Nat \ {0}
    BY <1>3
  <2> QED BY <2>1, IntervalSum
<1>5. Total(v, m .. n + 1) = Total(v, m .. n) + v[n + 1]
  <2>1. m \in Int /\ n \in Int /\ \A x \in m .. n + 1 : v[x] \in Nat \ {0}
    BY <1>3
  <2> QED BY <2>1, NextTotal
<1>6. ASSUME NEW k \in Nat, n <= k
      PROVE  Total(v, m .. n) <= Total(v, m .. k)
  <2>1. m \in Int /\ n \in Int /\ k \in Int /\ \A x \in m .. k : v[x] \in Nat \ {0}
    BY <1>3
  <2>2. /\ Total(v, m .. k) = Total(v, m .. n) + Total(v, n + 1 .. k)
        /\ Total(v, m .. n) \in Nat /\ Total(v, n + 1 .. k) \in Nat
    BY <1>6, <2>1, IntervalSum
  <2> QED BY <2>2
<1>7. v[n + 1] = ShareLength(s, c, n + 1)
  BY <1>1
<1> QED BY <1>2, <1>4, <1>5, <1>6, <1>7

LEMMA RunEmpty ==
  ASSUME NEW s, NEW c, NEW m \in Nat
  PROVE  RunLength(s, c, m + 1, m) = 0
<1>1. m + 1 .. m = {}
  OBVIOUS
<1> QED BY <1>1, EmptyTotal DEF RunLength

LEMMA RunSingle ==
  ASSUME NEW s, NEW c, Shape(s, c), NEW m \in Nat
  PROVE  RunLength(s, c, m + 1, m + 1) = ShareLength(s, c, m + 1)
<1>1. m + 1 \in Nat \ {0} /\ m + 1 <= m + 1
  OBVIOUS
<1>2. PICK n \in Nat \ {0} : n = m + 1
  BY <1>1
<1>3. RunLength(s, c, n, m + 1) = RunLength(s, c, n, m) + ShareLength(s, c, m + 1)
  BY <1>2, RunFacts
<1>4. RunLength(s, c, n, m) = 0
  BY <1>2, RunEmpty
<1>5. ShareLength(s, c, m + 1) \in Nat
  BY <1>1, ShareLengthPositive
<1> QED BY <1>2, <1>3, <1>4, <1>5

LEMMA TokensAppend ==
  ASSUME NEW s, NEW c, Shape(s, c), NEW b \in Seq(Nat \ {0}), NEW x \in Nat \ {0}
  PROVE  TokensIn(c, Append(b, x)) = TokensIn(c, b) + LengthIn(c, x)
<1> DEFINE d == Append(b, x)
           n == Len(b)
           v == [i \in DOMAIN b |-> LengthIn(c, b[i])]
           w == [i \in DOMAIN d |-> LengthIn(c, d[i])]
<1>1. /\ n \in Nat /\ DOMAIN b = 1 .. n /\ DOMAIN d = 1 .. n + 1
      /\ d[n + 1] = x /\ \A i \in 1 .. n : d[i] = b[i]
      /\ \A i \in 1 .. n : b[i] \in Nat \ {0}
  OBVIOUS
<1>2. \A i \in 1 .. n + 1 : w[i] = LengthIn(c, d[i]) /\ d[i] \in Nat \ {0}
  BY <1>1
<1>3. \A i \in 1 .. n : v[i] = LengthIn(c, b[i])
  BY <1>1
<1>4. TokensIn(c, d) = Total(w, 1 .. n + 1) /\ TokensIn(c, b) = Total(v, 1 .. n)
  BY <1>1 DEF TokensIn
<1> HIDE DEF d, n, v, w
<1>5. \A i \in 1 .. n + 1 : w[i] \in Nat \ {0}
  BY <1>2, LengthPositive
<1>6. Total(w, 1 .. n + 1) = Total(w, 1 .. n) + w[n + 1]
  <2>1. 1 \in Int /\ n \in Int /\ 1 <= n + 1
    BY <1>1
  <2> QED BY <1>5, <2>1, NextTotal
<1>7. \A i \in 1 .. n : v[i] = w[i]
  BY <1>1, <1>2, <1>3
<1>8. Total(w, 1 .. n) = Total(v, 1 .. n)
  <2>1. IsFiniteSet(1 .. n)
    BY <1>1, FS_Interval
  <2>2. SumOf(v, 1 .. n) = SumOf(w, 1 .. n)
    BY <1>7, <2>1, SumSame
  <2> QED BY <2>2, TotalIsSum
<1>9. w[n + 1] = LengthIn(c, x)
  <2>1. n + 1 \in 1 .. n + 1
    BY <1>1
  <2> QED BY <1>1, <1>2, <2>1
<1>10. TokensIn(c, d) = TokensIn(c, b) + LengthIn(c, x)
  BY <1>4, <1>6, <1>8, <1>9
<1> QED BY <1>10 DEF d

LEMMA TokensFew ==
  ASSUME NEW s, NEW c, Shape(s, c), NEW x \in Nat \ {0}
  PROVE  TokensIn(c, << >>) = 0 /\ TokensIn(c, <<x>>) = LengthIn(c, x)
<1>1. DOMAIN << >> = {}
  OBVIOUS
<1>2. TokensIn(c, << >>) = 0
  BY <1>1, EmptyTotal DEF TokensIn
<1>3. << >> \in Seq(Nat \ {0}) /\ Append(<< >>, x) = <<x>>
  OBVIOUS
<1>4. TokensIn(c, Append(<< >>, x)) = TokensIn(c, << >>) + LengthIn(c, x)
  BY <1>3, TokensAppend
<1>5. LengthIn(c, x) \in Nat
  BY LengthPositive
<1> QED BY <1>2, <1>3, <1>4, <1>5

-----------------------------------------------------------------------------
(* The ends of the packs.                                                  *)

(* The recursion of PackEnds has a solution.                                *)
LEMMA PackEndsStep ==
  ASSUME NEW s, NEW c
  PROVE  /\ PackEnds(s, c)[0] = 0
         /\ \A i \in Nat : PackEnds(s, c)[i + 1] = NextEnd(s, c, PackEnds(s, c)[i])
<1> DEFINE Step(g, i) == IF i = 0 THEN 0 ELSE NextEnd(s, c, g[i - 1])
           Solves(g, n) == \A i \in 0 .. n : g[i] = Step(g, i)
           Further(g) == [i \in Nat |-> Step(g, i)]
           Bad == {n \in Nat : ~\E g : Solves(g, n)}
           Solution(n) == CHOOSE g : Solves(g, n)
           f == [i \in Nat |-> Solution(i)[i]]
<1>1. \E g : Solves(g, 0)
  <2> DEFINE g == [i \in Nat |-> 0]
  <2>1. Solves(g, 0)
    OBVIOUS
  <2> QED BY <2>1
<1>2. ASSUME NEW n \in Nat, NEW g, Solves(g, n)
      PROVE  Solves(Further(g), n + 1)
  <2> SUFFICES ASSUME NEW i \in 0 .. n + 1
               PROVE  Further(g)[i] = Step(Further(g), i)
    OBVIOUS
  <2>1. CASE i = 0
    BY <2>1
  <2>2. CASE i # 0
    <3>1. i - 1 \in 0 .. n /\ i - 1 \in Nat /\ i \in Nat
      BY <2>2
    <3>2. g[i - 1] = Step(g, i - 1)
      BY <1>2, <3>1
    <3>3. g[i - 1] = Further(g)[i - 1]
      BY <3>1, <3>2
    <3> QED BY <2>2, <3>1, <3>3
  <2> QED BY <2>1, <2>2
<1>3. Bad = {}
  <2> SUFFICES ASSUME Bad # {} PROVE FALSE
    OBVIOUS
  <2>1. PICK n \in Bad : \A m \in Bad : n <= m
    BY SmallestNumber
  <2>2. n \in Nat /\ n # 0
    BY <1>1
  <2>3. n - 1 \in Nat /\ n - 1 \notin Bad
    <3>1. n - 1 \in Nat /\ ~(n <= n - 1)
      BY <2>2
    <3> HIDE DEF Bad
    <3> QED BY <2>1, <3>1
  <2>4. PICK g : Solves(g, n - 1)
    BY <2>3
  <2>5. Solves(Further(g), (n - 1) + 1)
    <3> HIDE DEF Solves, Further
    <3> QED BY <1>2, <2>3, <2>4
  <2>6. (n - 1) + 1 = n
    BY <2>2
  <2>7. Solves(Further(g), n)
    BY <2>5, <2>6
  <2> QED BY <2>1, <2>7
(* Two solutions agree as far as both reach.                                *)
<1>4. ASSUME NEW g, NEW h, NEW n \in Nat, Solves(g, n), Solves(h, n)
      PROVE  \A i \in 0 .. n : g[i] = h[i]
  <2> DEFINE Differ == {i \in Nat : i <= n /\ g[i] # h[i]}
  <2>1. ASSUME Differ # {} PROVE FALSE
    <3>1. PICK i \in Differ : \A j \in Differ : i <= j
      BY <2>1, SmallestNumber
    <3>2. i \in 0 .. n /\ g[i] # h[i]
      BY <3>1
    <3>3. g[i] = Step(g, i) /\ h[i] = Step(h, i)
      BY <1>4, <3>2
    <3>4. i # 0
      BY <3>2, <3>3
    <3>5. i - 1 \in Nat /\ i - 1 <= n /\ i - 1 \notin Differ
      BY <3>1, <3>2, <3>4
    <3>6. g[i - 1] = h[i - 1]
      BY <3>5
    <3> QED BY <3>2, <3>3, <3>6
  <2> QED BY <2>1
<1>5. \A n \in Nat : Solves(Solution(n), n)
  <2> TAKE n \in Nat
  <2>1. \E g : Solves(g, n)
    BY <1>3
  <2> HIDE DEF Solves
  <2> QED BY <2>1
<1>6. ASSUME NEW i \in Nat
      PROVE  f[i] = Step(f, i)
  <2>1. f[i] = Solution(i)[i]
    OBVIOUS
  <2>2. i \in 0 .. i
    OBVIOUS
  <2> DEFINE g == Solution(i)
  <2>3. Solves(g, i)
    BY <1>5
  <2>4. f[i] = Step(g, i)
    BY <2>1, <2>2, <2>3
  <2>5. i # 0 => g[i - 1] = f[i - 1]
    <3> SUFFICES ASSUME i # 0 PROVE g[i - 1] = f[i - 1]
      OBVIOUS
    <3>1. i - 1 \in Nat /\ i - 1 \in 0 .. i - 1
      OBVIOUS
    <3> DEFINE h == Solution(i - 1)
    <3>2. Solves(h, i - 1)
      BY <1>5, <3>1
    <3>3. f[i - 1] = h[i - 1]
      BY <3>1
    <3>4. Solves(g, i - 1)
      <4>1. \A j \in 0 .. i - 1 : j \in 0 .. i
        BY <3>1
      <4> HIDE DEF g
      <4> QED BY <2>3, <4>1
    <3> HIDE DEF g, h, Solves
    <3>5. \A j \in 0 .. i - 1 : g[j] = h[j]
      BY <1>4, <3>1, <3>2, <3>4
    <3> QED BY <3>1, <3>3, <3>5
  <2> HIDE DEF g, f
  <2> QED BY <2>4, <2>5
<1>7. f = [i \in Nat |-> Step(f, i)]
  <2>1. f = [i \in Nat |-> f[i]]
    OBVIOUS
  <2> HIDE DEF f
  <2> QED BY <1>6, <2>1
<1> HIDE DEF f
<1> DEFINE e == PackEnds(s, c)
<1>8. e = [i \in Nat |-> Step(e, i)]
  <2>1. e = CHOOSE g : g = [i \in Nat |-> Step(g, i)]
    BY DEF PackEnds
  <2> HIDE DEF e
  <2> QED BY <1>7, <2>1
<1> HIDE DEF e
<1>9. \A i \in Nat : e[i] = Step(e, i)
  BY <1>8
<1>10. \A i \in Nat : i + 1 \in Nat /\ i + 1 # 0 /\ (i + 1) - 1 = i
  OBVIOUS
<1>11. e[0] = 0 /\ \A i \in Nat : e[i + 1] = NextEnd(s, c, e[i])
  BY <1>9, <1>10
<1> QED BY <1>11 DEF e

(* Readable reaches back.                                                  *)
LEMMA ReadableBack ==
  ASSUME NEW s, NEW c, Shape(s, c), NEW k \in Nat, NEW j \in Nat, j <= k,
         Readable(s, c, k)
  PROVE  Readable(s, c, j)
<1>1. 1 .. j \subseteq 1 .. k
  OBVIOUS
<1>2. Len(c) \in Nat
  BY DEF Shape
<1> QED BY <1>1, <1>2 DEF Readable

LEMMA FitsBack ==
  ASSUME NEW s, NEW c, Shape(s, c), NEW m \in Nat \ {0}, NEW k \in Nat, NEW j \in Nat,
         m <= j, j <= k, FitTogether(s, c, m, k)
  PROVE  FitTogether(s, c, m, j)
<1>1. CASE s.packs
  <2>1. RunLength(s, c, m, j) <= RunLength(s, c, m, k) /\ RunLength(s, c, m, j) \in Nat
    BY RunFacts
  <2>2. RunLength(s, c, m, k) \in Nat
    BY RunFacts
  <2>3. s.maxLength \in Nat /\ s.sampleLimit \in Nat
    BY DEF Shape
  <2> QED BY <1>1, <2>1, <2>2, <2>3 DEF FitTogether
<1>2. CASE ~s.packs
  BY <1>2 DEF FitTogether
<1> QED BY <1>1, <1>2

(* One readable sample fits alone.                                         *)
LEMMA FitsAlone ==
  ASSUME NEW s, NEW c, Shape(s, c), NEW m \in Nat, Readable(s, c, m + 1)
  PROVE  FitTogether(s, c, m + 1, m + 1)
<1>1. CASE s.packs
  <2>1. m + 1 \in 1 .. m + 1
    OBVIOUS
  <2>2. ShareLength(s, c, m + 1) <= s.maxLength
    BY <1>1, <2>1 DEF Readable
  <2>3. RunLength(s, c, m + 1, m + 1) <= s.maxLength
    BY <2>2, RunSingle
  <2>4. (m + 1) - (m + 1) = 0
    OBVIOUS
  <2> QED BY <1>1, <2>3, <2>4 DEF FitTogether
<1>2. CASE ~s.packs
  BY <1>2 DEF FitTogether
<1> QED BY <1>1, <1>2

(* A run that cannot be extended is a pack.                                *)
LEMMA RunIsPack ==
  ASSUME NEW s, NEW c, Shape(s, c), NEW e \in Nat, NEW k \in Nat, e < k,
         k <= e + s.maxLength, Readable(s, c, k), FitTogether(s, c, e + 1, k),
         ~(Readable(s, c, k + 1) /\ FitTogether(s, c, e + 1, k + 1))
  PROVE  NextEnd(s, c, e) = k
<1> DEFINE S == {j \in e + 1 .. e + s.maxLength :
                   Readable(s, c, j) /\ FitTogether(s, c, e + 1, j)}
<1>0. s.maxLength \in Nat /\ e + 1 \in Nat \ {0}
  BY DEF Shape
<1>1. k \in S
  BY <1>0
<1>2. ASSUME NEW j \in S
      PROVE  j <= k
  <2> SUFFICES ASSUME ~(j <= k) PROVE FALSE
    OBVIOUS
  <2>1. j \in Nat /\ k + 1 \in Nat /\ k + 1 <= j /\ e + 1 <= k + 1
    BY <1>0
  <2>2. Readable(s, c, j) /\ FitTogether(s, c, e + 1, j)
    OBVIOUS
  <2>3. Readable(s, c, k + 1)
    BY <2>1, <2>2, ReadableBack
  <2>4. FitTogether(s, c, e + 1, k + 1)
    <3>1. PICK m \in Nat \ {0} : m = e + 1
      BY <1>0
    <3>2. FitTogether(s, c, m, k + 1)
      BY <2>1, <2>2, <3>1, FitsBack
    <3> QED BY <3>1, <3>2
  <2> QED BY <2>3, <2>4
<1>3. \A j \in S : j \in Nat
  BY <1>0
<1> HIDE DEF S
<1>4. Max(S) = k
  <2>1. \A j \in S : k >= j
    BY <1>2, <1>3
  <2>2. \A m \in S : (\A j \in S : m >= j) => m = k
    BY <1>1, <1>2, <1>3
  <2> QED BY <1>1, <2>1, <2>2 DEF Max
<1>5. Readable(s, c, e + 1)
  BY <1>0, ReadableBack
<1>6. NextEnd(s, c, e) = Max(S)
  BY <1>5 DEF NextEnd, S
<1> QED BY <1>4, <1>6

LEMMA NextEndFits ==
  ASSUME NEW s, NEW c, Shape(s, c), NEW e \in Nat, Readable(s, c, e + 1)
  PROVE  /\ NextEnd(s, c, e) \in Nat /\ e < NextEnd(s, c, e)
         /\ FitTogether(s, c, e + 1, NextEnd(s, c, e))
<1> DEFINE S == {j \in e + 1 .. e + s.maxLength :
                   Readable(s, c, j) /\ FitTogether(s, c, e + 1, j)}
<1>1. s.maxLength \in Nat \ {0} /\ e + 1 \in Nat
  BY DEF Shape
<1>2. e + 1 \in S
  BY <1>1, FitsAlone
<1>3. \A j \in S : j \in Nat /\ e < j /\ FitTogether(s, c, e + 1, j)
  BY <1>1
<1>4. IsFiniteSet(S)
  <2>1. IsFiniteSet(e + 1 .. e + s.maxLength)
    BY <1>1, FS_Interval
  <2> QED BY <2>1, FS_Subset
<1>5. NextEnd(s, c, e) = Max(S)
  BY DEF NextEnd
<1> HIDE DEF S
<1>6. PICK m \in S : \A j \in S : j <= m
  BY <1>2, <1>3, <1>4, Greatest
<1>7. Max(S) \in S
  <2>1. \A j \in S : m >= j
    BY <1>3, <1>6
  <2> QED BY <2>1 DEF Max
<1> QED BY <1>3, <1>5, <1>7

LEMMA NextEndFacts ==
  ASSUME NEW s, NEW c, Shape(s, c), NEW e \in Nat
  PROVE  /\ NextEnd(s, c, e) \in Nat /\ e <= NextEnd(s, c, e)
         /\ ~Readable(s, c, e + 1) => NextEnd(s, c, e) = e
<1>1. CASE ~Readable(s, c, e + 1)
  BY <1>1 DEF NextEnd
<1>2. CASE Readable(s, c, e + 1)
  BY <1>2, NextEndFits
<1> QED BY <1>1, <1>2

LEMMA EndsFacts ==
  ASSUME NEW s, NEW c, Shape(s, c), NEW i \in Nat
  PROVE  /\ PackEnds(s, c)[i] \in Nat /\ PackEnds(s, c)[i + 1] \in Nat
         /\ PackEnds(s, c)[i] <= PackEnds(s, c)[i + 1]
         /\ ~Readable(s, c, PackEnds(s, c)[i] + 1) =>
                PackEnds(s, c)[i + 1] = PackEnds(s, c)[i]
<1> DEFINE e == PackEnds(s, c)
           Bad == {n \in Nat : e[n] \notin Nat}
<1>1. e[0] = 0 /\ \A n \in Nat : e[n + 1] = NextEnd(s, c, e[n])
  BY PackEndsStep
<1> HIDE DEF e
<1>2. ASSUME Bad # {} PROVE FALSE
  <2>1. PICK n \in Bad : \A m \in Bad : n <= m
    BY <1>2, SmallestNumber
  <2>2. n \in Nat /\ n # 0
    BY <1>1
  <2>3. n - 1 \in Nat /\ n - 1 \notin Bad /\ (n - 1) + 1 = n
    BY <2>1, <2>2
  <2>4. e[n - 1] \in Nat /\ e[n] = NextEnd(s, c, e[n - 1])
    BY <1>1, <2>3
  <2> QED BY <2>1, <2>4, NextEndFacts
<1>3. \A n \in Nat : e[n] \in Nat
  BY <1>2
<1>4. e[i] \in Nat /\ e[i + 1] \in Nat /\ e[i + 1] = NextEnd(s, c, e[i])
  BY <1>1, <1>3
<1>5. e[i] <= e[i + 1] /\ (~Readable(s, c, e[i] + 1) => e[i + 1] = e[i])
  BY <1>4, NextEndFacts
<1> QED BY <1>4, <1>5 DEF e

(* Where no pack can follow, none does.                                    *)
LEMMA NoMorePacks ==
  ASSUME NEW s, NEW c, Shape(s, c), NEW i \in Nat, NEW k \in Nat, i <= k,
         ~Readable(s, c, PackEnds(s, c)[i] + 1)
  PROVE  PackEnds(s, c)[k] = PackEnds(s, c)[i]
<1> DEFINE e == PackEnds(s, c)
           Bad == {n \in Nat : i <= n /\ e[n] # e[i]}
<1> HIDE DEF e
<1>1. ASSUME Bad # {} PROVE FALSE
  <2>1. PICK n \in Bad : \A m \in Bad : n <= m
    BY <1>1, SmallestNumber
  <2>2. n \in Nat /\ i <= n /\ n # i /\ e[n] # e[i]
    BY <2>1
  <2>3. n - 1 \in Nat /\ n - 1 \notin Bad /\ i <= n - 1 /\ (n - 1) + 1 = n
    BY <2>1, <2>2
  <2>4. e[n - 1] = e[i]
    BY <2>3
  <2>5. ~Readable(s, c, e[n - 1] + 1)
    BY <2>4 DEF e
  <2>6. e[(n - 1) + 1] = e[n - 1]
    BY <2>3, <2>5, EndsFacts DEF e
  <2> QED BY <2>2, <2>3, <2>4, <2>6
<1>2. e[k] = e[i]
  BY <1>1
<1> QED BY <1>2 DEF e

-----------------------------------------------------------------------------
(* The packer.                                                             *)

Packs == Seq(Seq(Nat \ {0}))

LEMMA PackAppended ==
  ASSUME NEW s, NEW c, Shape(s, c), NEW ready \in Packs, NEW g \in Nat,
         PacksAfter(s, c, ready, g), NEW b \in Seq(Nat \ {0}), b # << >>,
         NEW d, d = PackEnds(s, c)[g + Len(ready)],
         \A j \in 1 .. Len(b) : b[j] = Share(s, d + j),
         NextEnd(s, c, d) = d + Len(b)
  PROVE  /\ PacksAfter(s, c, Append(ready, b), g)
         /\ PackEnds(s, c)[g + Len(Append(ready, b))] = d + Len(b)
         /\ Append(ready, b) \in Packs /\ Len(Append(ready, b)) = Len(ready) + 1
<1> DEFINE e == PackEnds(s, c)
           n == Len(ready)
           more == Append(ready, b)
<1>1. /\ n \in Nat /\ more \in Packs /\ Len(more) = n + 1 /\ more[n + 1] = b
      /\ \A i \in 1 .. n : more[i] = ready[i]
  BY DEF Packs
<1>2. d \in Nat
  <2>1. g + n \in Nat
    BY <1>1
  <2> QED BY <2>1, EndsFacts
<1>3. Len(b) \in Nat \ {0}
  OBVIOUS
<1>4. e[g + n + 1] = d + Len(b)
  <2>1. g + n \in Nat
    BY <1>1
  <2>2. e[(g + n) + 1] = NextEnd(s, c, e[g + n])
    BY <2>1, PackEndsStep
  <2> QED BY <2>2
<1>5. Pack(s, e, g + (n + 1)) = b
  <2>1. (g + (n + 1)) - 1 = g + n /\ g + (n + 1) = g + n + 1
    BY <1>1
  <2>2. Pack(s, e, g + (n + 1)) = [k \in 1 .. e[g + n + 1] - e[g + n] |-> Share(s, e[g + n] + k)]
    BY <2>1 DEF Pack
  <2>3. e[g + n + 1] - e[g + n] = Len(b)
    BY <1>2, <1>3, <1>4
  <2>4. Pack(s, e, g + (n + 1)) = [k \in 1 .. Len(b) |-> Share(s, d + k)]
    BY <2>2, <2>3
  <2>5. b = [k \in 1 .. Len(b) |-> b[k]]
    OBVIOUS
  <2>6. [k \in 1 .. Len(b) |-> b[k]] = [k \in 1 .. Len(b) |-> Share(s, d + k)]
    OBVIOUS
  <2> QED BY <2>4, <2>5, <2>6
<1> HIDE DEF e, n, more
<1>6. ASSUME NEW i \in 1 .. n + 1
      PROVE  e[g + i - 1] < e[g + i] /\ more[i] = Pack(s, e, g + i)
  <2>1. CASE i \in 1 .. n
    BY <1>1, <2>1 DEF PacksAfter, e, n
  <2>2. CASE i = n + 1
    <3>1. g + i - 1 = g + n /\ g + i = g + n + 1
      BY <1>1, <2>2
    <3>2. e[g + n] = d
      BY DEF e, n
    <3>3. d < d + Len(b)
      BY <1>2, <1>3
    <3> QED BY <1>1, <1>4, <1>5, <2>2, <3>1, <3>2, <3>3
  <2> QED BY <1>1, <2>1, <2>2
<1>7. PacksAfter(s, c, more, g)
  BY <1>1, <1>6 DEF PacksAfter, e
<1>8. g + Len(more) = g + n + 1
  BY <1>1
<1> QED BY <1>1, <1>4, <1>7, <1>8 DEF more, n, e

(* A pack h under construction that may be full, after the packs `ready`;  *)
(* k samples were read.                                                    *)
Building(s, c, g, ready, h, sum, k) ==
    LET d == PackEnds(s, c)[g + Len(ready)]
    IN  /\ ready \in Packs /\ PacksAfter(s, c, ready, g)
        /\ h \in Seq(Nat \ {0}) /\ h # << >>
        /\ k = d + Len(h) /\ Readable(s, c, k)
        /\ \A j \in 1 .. Len(h) : h[j] = Share(s, d + j)
        /\ \A j \in DOMAIN h : LengthIn(c, h[j]) <= s.maxLength
        /\ sum = RunLength(s, c, d + 1, k) /\ sum = TokensIn(c, h)
        /\ Len(h) <= sum /\ sum <= s.maxLength
        /\ s.sampleLimit > 0 => Len(h) <= s.sampleLimit

LEMMA FullIsPack ==
  ASSUME NEW s, NEW c, Shape(s, c), s.packs, NEW g \in Nat, NEW ready, NEW h, NEW sum,
         NEW k, Building(s, c, g, ready, h, sum, k),
         \/ sum = s.maxLength \/ Limited(s, h)
         \/ sum + ShareLength(s, c, k + 1) > s.maxLength
         \/ ~Readable(s, c, k + 1)
  PROVE  NextEnd(s, c, PackEnds(s, c)[g + Len(ready)]) = k
<1> DEFINE d == PackEnds(s, c)[g + Len(ready)]
<1>1. /\ h \in Seq(Nat \ {0}) /\ h # << >> /\ Readable(s, c, k)
      /\ k = d + Len(h) /\ sum = RunLength(s, c, d + 1, k)
      /\ Len(h) <= sum /\ sum <= s.maxLength
      /\ s.sampleLimit > 0 => Len(h) <= s.sampleLimit
  BY DEF Building
<1>2. g + Len(ready) \in Nat
  BY DEF Building, Packs
<1>3. d \in Nat
  BY <1>2, EndsFacts
<1> HIDE DEF d
<1>4. Len(h) \in Nat \ {0} /\ s.maxLength \in Nat /\ s.sampleLimit \in Nat
  BY <1>1 DEF Shape
<1>5. k \in Nat /\ d < k /\ d + 1 \in Nat \ {0} /\ d + 1 <= k + 1
  BY <1>1, <1>3, <1>4
<1>6. sum \in Nat
  BY <1>1, <1>5, RunFacts
<1>7. k <= d + s.maxLength
  BY <1>1, <1>3, <1>4, <1>6
<1>8. k - (d + 1) = Len(h) - 1 /\ (k + 1) - (d + 1) = Len(h)
  BY <1>1, <1>3, <1>4
<1>9. FitTogether(s, c, d + 1, k)
  BY <1>1, <1>4, <1>8 DEF FitTogether
<1>10. ~(Readable(s, c, k + 1) /\ FitTogether(s, c, d + 1, k + 1))
  <2>1. CASE sum = s.maxLength
    <3>1. RunLength(s, c, d + 1, k + 1) = sum + ShareLength(s, c, k + 1)
      BY <1>1, <1>5, RunFacts
    <3>2. ShareLength(s, c, k + 1) \in Nat \ {0}
      BY <1>5, ShareLengthPositive
    <3> QED BY <1>4, <2>1, <3>1, <3>2 DEF FitTogether
  <2>2. CASE Limited(s, h)
    BY <1>4, <1>8, <2>2 DEF Limited, FitTogether
  <2>3. CASE sum + ShareLength(s, c, k + 1) > s.maxLength
    <3>1. RunLength(s, c, d + 1, k + 1) = sum + ShareLength(s, c, k + 1)
      BY <1>1, <1>5, RunFacts
    <3>2. ShareLength(s, c, k + 1) \in Nat \ {0}
      BY <1>5, ShareLengthPositive
    <3> QED BY <1>4, <1>6, <2>3, <3>1, <3>2 DEF FitTogether
  <2>4. CASE ~Readable(s, c, k + 1)
    BY <2>4
  <2> QED BY <2>1, <2>2, <2>3, <2>4
<1>11. NextEnd(s, c, d) = k
  BY <1>1, <1>3, <1>5, <1>7, <1>9, <1>10, RunIsPack
<1> QED BY <1>11 DEF d

(* What a stream keeps between samples is such a pack, when there is one.   *)
LEMMA BufferBuilds ==
  ASSUME NEW s, NEW c, Shape(s, c), s.packs, NEW g \in Nat, NEW x,
         Sound(s, c, x), Follows(s, c, x, g), x.buffer # << >>
  PROVE  Building(s, c, g, x.ready, x.buffer, x.tokens, x.local)
<1> DEFINE d == PackEnds(s, c)[g + Len(x.ready)]
<1>1. /\ x.ready \in Packs /\ x.buffer \in Seq(Nat \ {0})
      /\ x.tokens \in Nat /\ x.local \in Nat
  BY DEF Sound, StreamType, Packs
<1>2. /\ PacksAfter(s, c, x.ready, g) /\ x.local = d + Len(x.buffer)
      /\ \A j \in 1 .. Len(x.buffer) : x.buffer[j] = Share(s, d + j)
      /\ x.tokens = RunLength(s, c, d + 1, x.local)
  BY DEF Follows, Started
<1>3. g + Len(x.ready) \in Nat
  BY <1>1 DEF Packs
<1>4. d \in Nat
  BY <1>3, EndsFacts
<1>5. /\ x.tokens = TokensIn(c, x.buffer) /\ Len(x.buffer) <= x.tokens
      /\ x.tokens < s.maxLength /\ ~Limited(s, x.buffer)
      /\ \A j \in DOMAIN x.buffer : LengthIn(c, x.buffer[j]) <= s.maxLength
  BY DEF Sound, Holdable
<1> HIDE DEF d
<1>6. Len(x.buffer) \in Nat \ {0} /\ s.maxLength \in Nat /\ s.sampleLimit \in Nat
  BY <1>1 DEF Shape
<1>7. x.local > 0
  BY <1>2, <1>4, <1>6
<1>8. Readable(s, c, x.local)
  BY <1>7 DEF Sound
<1>9. s.sampleLimit > 0 => Len(x.buffer) <= s.sampleLimit
  BY <1>5, <1>6 DEF Limited
<1>10. x.tokens <= s.maxLength
  BY <1>1, <1>5, <1>6
<1> QED BY <1>1, <1>2, <1>5, <1>8, <1>9, <1>10 DEF Building, d

(* The sample does not fit: the pack is emitted and the next one begun.     *)
LEMMA SpillBuilds ==
  ASSUME NEW s, NEW c, Shape(s, c), s.packs, NEW g \in Nat, NEW x,
         Sound(s, c, x), Follows(s, c, x, g), x.buffer # << >>,
         Readable(s, c, x.local + 1),
         x.tokens + ShareLength(s, c, x.local + 1) > s.maxLength
  PROVE  /\ Building(s, c, g, Append(x.ready, x.buffer), <<Share(s, x.local + 1)>>,
                     ShareLength(s, c, x.local + 1), x.local + 1)
         /\ Len(Append(x.ready, x.buffer)) = Len(x.ready) + 1
<1> DEFINE d == PackEnds(s, c)[g + Len(x.ready)]
           k == x.local + 1
           more == Append(x.ready, x.buffer)
           h == <<Share(s, k)>>
           n == ShareLength(s, c, k)
<1>1. Building(s, c, g, x.ready, x.buffer, x.tokens, x.local)
  BY BufferBuilds
<1>2. /\ x.ready \in Packs /\ x.buffer \in Seq(Nat \ {0})
      /\ PacksAfter(s, c, x.ready, g) /\ x.local = d + Len(x.buffer)
      /\ \A j \in 1 .. Len(x.buffer) : x.buffer[j] = Share(s, d + j)
  BY <1>1 DEF Building
<1>3. NextEnd(s, c, d) = x.local
  BY <1>1, FullIsPack
<1>4. NextEnd(s, c, d) = d + Len(x.buffer)
  BY <1>2, <1>3
<1>5. /\ PacksAfter(s, c, more, g) /\ more \in Packs /\ Len(more) = Len(x.ready) + 1
      /\ PackEnds(s, c)[g + Len(more)] = d + Len(x.buffer)
  <2> DEFINE r == x.ready
             b == x.buffer
  <2>1. d = PackEnds(s, c)[g + Len(r)]
    OBVIOUS
  <2>2. /\ r \in Packs /\ b \in Seq(Nat \ {0}) /\ b # << >>
        /\ PacksAfter(s, c, r, g) /\ \A j \in 1 .. Len(b) : b[j] = Share(s, d + j)
        /\ NextEnd(s, c, d) = d + Len(b)
    BY <1>2, <1>4
  <2> HIDE DEF d, r, b, more
  <2>3. /\ PacksAfter(s, c, Append(r, b), g) /\ Append(r, b) \in Packs
        /\ PackEnds(s, c)[g + Len(Append(r, b))] = d + Len(b)
        /\ Len(Append(r, b)) = Len(r) + 1
    BY <2>1, <2>2, PackAppended
  <2> QED BY <2>3 DEF more, r, b
<1> HIDE DEF d
<1>6. PackEnds(s, c)[g + Len(more)] = x.local
  BY <1>2, <1>5
<1>7. x.local \in Nat
  BY DEF Sound, StreamType
<1>8. k \in Nat \ {0} /\ k = x.local + 1
  BY <1>7
<1> HIDE DEF k, more
<1>9. Share(s, k) \in Nat \ {0} /\ n = LengthIn(c, Share(s, k)) /\ n \in Nat \ {0}
  BY <1>8, SharePositive, ShareLengthPositive
<1>10. /\ h \in Seq(Nat \ {0}) /\ h # << >> /\ Len(h) = 1 /\ DOMAIN h = {1}
       /\ h[1] = Share(s, k)
  BY <1>9
<1>11. n <= s.maxLength
  <2>1. Readable(s, c, k) /\ k \in 1 .. k
    BY <1>8
  <2> QED BY <2>1 DEF Readable
<1>12. n = RunLength(s, c, x.local + 1, k) /\ n = TokensIn(c, h)
  <2>1. RunLength(s, c, x.local + 1, x.local + 1) = ShareLength(s, c, x.local + 1)
    BY <1>7, RunSingle
  <2>2. TokensIn(c, <<Share(s, k)>>) = LengthIn(c, Share(s, k))
    BY <1>9, TokensFew
  <2> QED BY <1>8, <1>9, <2>1, <2>2
<1>13. s.sampleLimit \in Nat
  BY DEF Shape
<1> HIDE DEF h, n
<1>14. \A j \in 1 .. Len(h) : h[j] = Share(s, x.local + j)
  BY <1>8, <1>10
<1>15. /\ k = x.local + Len(h) /\ Len(h) <= n
       /\ s.sampleLimit > 0 => Len(h) <= s.sampleLimit
       /\ \A j \in DOMAIN h : LengthIn(c, h[j]) <= s.maxLength
  BY <1>8, <1>9, <1>10, <1>11, <1>13
<1>16. Readable(s, c, k)
  BY <1>8
<1>17. Building(s, c, g, more, h, n, k)
  BY <1>5, <1>6, <1>10, <1>11, <1>12, <1>14, <1>15, <1>16 DEF Building
<1> QED BY <1>5, <1>17 DEF h, n, k, more

(* The sample fits: it joins the pack under construction.                   *)
LEMMA JoinBuilds ==
  ASSUME NEW s, NEW c, Shape(s, c), s.packs, NEW g \in Nat, NEW x,
         Sound(s, c, x), Follows(s, c, x, g),
         Readable(s, c, x.local + 1),
         x.tokens + ShareLength(s, c, x.local + 1) <= s.maxLength \/ x.buffer = << >>
  PROVE  Building(s, c, g, x.ready, Append(x.buffer, Share(s, x.local + 1)),
                  x.tokens + ShareLength(s, c, x.local + 1), x.local + 1)
<1> DEFINE d == PackEnds(s, c)[g + Len(x.ready)]
           b == x.buffer
           k == x.local + 1
           h == Append(b, Share(s, k))
           n == ShareLength(s, c, k)
<1>1. /\ x.ready \in Packs /\ b \in Seq(Nat \ {0})
      /\ x.tokens \in Nat /\ x.local \in Nat
  BY DEF Sound, StreamType, Packs
<1>2. /\ PacksAfter(s, c, x.ready, g) /\ x.local = d + Len(b)
      /\ \A j \in 1 .. Len(b) : b[j] = Share(s, d + j)
      /\ x.tokens = RunLength(s, c, d + 1, x.local)
  BY DEF Follows, Started
<1>3. g + Len(x.ready) \in Nat
  BY <1>1 DEF Packs
<1>4. d \in Nat
  BY <1>3, EndsFacts
<1>5. /\ x.tokens = TokensIn(c, b) /\ Len(b) <= x.tokens
      /\ ~Limited(s, b)
      /\ \A j \in DOMAIN b : LengthIn(c, b[j]) <= s.maxLength
  BY DEF Sound, Holdable
<1>6. k \in Nat \ {0} /\ k = x.local + 1 /\ Readable(s, c, k)
  BY <1>1
<1> HIDE DEF d, k, b
<1>7. Share(s, k) \in Nat \ {0} /\ n = LengthIn(c, Share(s, k)) /\ n \in Nat \ {0}
  BY <1>6, SharePositive, ShareLengthPositive
<1>8. Len(b) \in Nat /\ s.maxLength \in Nat /\ s.sampleLimit \in Nat
  BY <1>1 DEF Shape
<1>9. n <= s.maxLength
  <2>1. k \in 1 .. k
    BY <1>6
  <2> QED BY <1>6, <2>1 DEF Readable
<1>10. x.tokens + n <= s.maxLength
  <2>1. CASE x.buffer = << >>
    <3>1. x.tokens = 0
      BY <1>5, <1>7, <2>1, TokensFew DEF b
    <3> QED BY <1>7, <1>9, <3>1
  <2>2. CASE x.buffer # << >>
    BY <2>2 DEF k
  <2> QED BY <2>1, <2>2
<1>11. TokensIn(c, h) = x.tokens + n
  BY <1>1, <1>5, <1>7, TokensAppend
<1>12. RunLength(s, c, d + 1, k) = x.tokens + n
  <2>1. d + 1 \in Nat \ {0} /\ d + 1 <= x.local + 1
    BY <1>1, <1>2, <1>4, <1>8
  <2>2. RunLength(s, c, d + 1, x.local + 1)
          = RunLength(s, c, d + 1, x.local) + ShareLength(s, c, x.local + 1)
    BY <1>1, <2>1, RunFacts
  <2> QED BY <1>2, <1>6, <2>2
<1>13. /\ h \in Seq(Nat \ {0}) /\ h # << >> /\ Len(h) = Len(b) + 1
       /\ h[Len(b) + 1] = Share(s, k) /\ \A j \in 1 .. Len(b) : h[j] = b[j]
       /\ DOMAIN h = 1 .. Len(b) + 1 /\ DOMAIN b = 1 .. Len(b)
  BY <1>1, <1>7
<1> HIDE DEF h, n
<1>14. k = d + (Len(b) + 1)
  BY <1>2, <1>4, <1>6, <1>8
<1>15. ASSUME NEW j \in 1 .. Len(b) + 1
       PROVE  h[j] = Share(s, d + j) /\ LengthIn(c, h[j]) <= s.maxLength
  <2>1. CASE j \in 1 .. Len(b)
    BY <1>2, <1>5, <1>13, <2>1
  <2>2. CASE j = Len(b) + 1
    BY <1>7, <1>9, <1>13, <1>14, <2>2
  <2> QED BY <1>8, <2>1, <2>2
<1>16. Len(h) <= x.tokens + n
  BY <1>1, <1>5, <1>7, <1>8, <1>13
<1>17. s.sampleLimit > 0 => Len(h) <= s.sampleLimit
  BY <1>5, <1>8, <1>13 DEF Limited
<1>18. k = d + Len(h)
  BY <1>13, <1>14
<1>19. \A j \in 1 .. Len(h) : h[j] = Share(s, d + j)
  BY <1>13, <1>15
<1>20. \A j \in DOMAIN h : LengthIn(c, h[j]) <= s.maxLength
  BY <1>13, <1>15
<1>21. Building(s, c, g, x.ready, h, x.tokens + n, k)
  BY <1>1, <1>2, <1>6, <1>10, <1>11, <1>12, <1>13, <1>16, <1>17, <1>18, <1>19, <1>20
     DEF Building, d
<1> QED BY <1>21 DEF h, n, k, b

(* What is left of such a pack: emitted when it is full.                    *)
Settled(s, c, g, ready, b, t, k) ==
    LET d == PackEnds(s, c)[g + Len(ready)]
    IN  /\ ready \in Packs /\ PacksAfter(s, c, ready, g)
        /\ b \in Seq(Nat \ {0}) /\ t \in Nat
        /\ Holdable(s, c, b, t)
        /\ \A j \in DOMAIN b : s.packs => LengthIn(c, b[j]) <= s.maxLength
        /\ k = d + Len(b)
        /\ \A j \in 1 .. Len(b) : b[j] = Share(s, d + j)
        /\ s.packs => t = RunLength(s, c, d + 1, k)

LEMMA EmptyHeld ==
  ASSUME NEW s, NEW c, Shape(s, c)
  PROVE  Holdable(s, c, << >>, 0) /\ Len(<< >>) = 0
<1>1. Len(<< >>) = 0 /\ s.maxLength \in Nat \ {0} /\ s.sampleLimit \in Nat
  BY DEF Shape
<1>2. TokensIn(c, << >>) = 0
  BY TokensFew, 1 \in Nat \ {0}
<1> QED BY <1>1, <1>2 DEF Holdable, Limited

LEMMA Emit ==
  ASSUME NEW s, NEW c, Shape(s, c), NEW g \in Nat, NEW ready \in Packs,
         PacksAfter(s, c, ready, g), NEW h \in Seq(Nat \ {0}), h # << >>, NEW k,
         k = PackEnds(s, c)[g + Len(ready)] + Len(h),
         \A j \in 1 .. Len(h) : h[j] = Share(s, PackEnds(s, c)[g + Len(ready)] + j),
         NextEnd(s, c, PackEnds(s, c)[g + Len(ready)]) = k
  PROVE  /\ Settled(s, c, g, Append(ready, h), << >>, 0, k)
         /\ Len(Append(ready, h)) = Len(ready) + 1
<1> DEFINE d == PackEnds(s, c)[g + Len(ready)]
           more == Append(ready, h)
<1>0. g + Len(ready) \in Nat
  BY DEF Packs
<1>1. d \in Nat /\ k \in Nat
  <2>1. Len(h) \in Nat /\ k = d + Len(h)
    OBVIOUS
  <2>2. d \in Nat
    BY <1>0, EndsFacts
  <2> HIDE DEF d
  <2> QED BY <2>1, <2>2
<1>2. /\ d = PackEnds(s, c)[g + Len(ready)] /\ NextEnd(s, c, d) = d + Len(h)
      /\ \A j \in 1 .. Len(h) : h[j] = Share(s, d + j)
  OBVIOUS
<1>3. k = d + Len(h)
  OBVIOUS
<1> HIDE DEF d
<1>4. /\ PacksAfter(s, c, Append(ready, h), g) /\ Append(ready, h) \in Packs
      /\ PackEnds(s, c)[g + Len(Append(ready, h))] = d + Len(h)
      /\ Len(Append(ready, h)) = Len(ready) + 1
  BY <1>2, PackAppended
<1> HIDE DEF more
<1>5. PacksAfter(s, c, more, g) /\ more \in Packs /\ PackEnds(s, c)[g + Len(more)] = k
  BY <1>3, <1>4 DEF more
<1>6. RunLength(s, c, k + 1, k) = 0
  BY <1>1, RunEmpty
<1>7. Holdable(s, c, << >>, 0) /\ Len(<< >>) = 0 /\ k = k + 0 /\ 0 \in Nat
  BY <1>1, EmptyHeld
<1>8. << >> \in Seq(Nat \ {0}) /\ DOMAIN << >> = {} /\ 1 .. 0 = {}
  OBVIOUS
<1>9. Settled(s, c, g, more, << >>, 0, k)
  BY <1>5, <1>6, <1>7, <1>8 DEF Settled
<1> QED BY <1>4, <1>9 DEF more

Full(s, h, sum) == sum = s.maxLength \/ Limited(s, h)

LEMMA BuildingSettles ==
  ASSUME NEW s, NEW c, Shape(s, c), s.packs, NEW g \in Nat, NEW ready, NEW h, NEW sum,
         NEW k, Building(s, c, g, ready, h, sum, k)
  PROVE  /\ Full(s, h, sum) => /\ Settled(s, c, g, Append(ready, h), << >>, 0, k)
                               /\ Len(Append(ready, h)) = Len(ready) + 1
         /\ ~Full(s, h, sum) => Settled(s, c, g, ready, h, sum, k)
<1>1. /\ ready \in Packs /\ PacksAfter(s, c, ready, g)
      /\ h \in Seq(Nat \ {0}) /\ h # << >>
      /\ k = PackEnds(s, c)[g + Len(ready)] + Len(h)
      /\ \A j \in 1 .. Len(h) : h[j] = Share(s, PackEnds(s, c)[g + Len(ready)] + j)
  BY DEF Building
<1>2. ASSUME Full(s, h, sum)
      PROVE  /\ Settled(s, c, g, Append(ready, h), << >>, 0, k)
             /\ Len(Append(ready, h)) = Len(ready) + 1
  <2>1. NextEnd(s, c, PackEnds(s, c)[g + Len(ready)]) = k
    BY <1>2, FullIsPack DEF Full
  <2> QED BY <1>1, <2>1, Emit
<1>3. ASSUME ~Full(s, h, sum)
      PROVE  Settled(s, c, g, ready, h, sum, k)
  <2>1. /\ sum = RunLength(s, c, PackEnds(s, c)[g + Len(ready)] + 1, k)
        /\ sum = TokensIn(c, h) /\ Len(h) <= sum /\ sum <= s.maxLength
        /\ \A j \in DOMAIN h : LengthIn(c, h[j]) <= s.maxLength
        /\ Readable(s, c, k)
    BY DEF Building
  <2>2. PackEnds(s, c)[g + Len(ready)] \in Nat /\ k \in Nat
    <3> DEFINE d == PackEnds(s, c)[g + Len(ready)]
    <3>1. g + Len(ready) \in Nat /\ Len(h) \in Nat /\ k = d + Len(h)
      BY <1>1 DEF Packs
    <3>2. d \in Nat
      BY <3>1, EndsFacts
    <3> HIDE DEF d
    <3>3. d \in Nat /\ k \in Nat
      BY <3>1, <3>2
    <3> QED BY <3>3 DEF d
  <2>3. sum \in Nat
    <3> DEFINE d == PackEnds(s, c)[g + Len(ready)]
    <3>1. d + 1 \in Nat \ {0} /\ d + 1 <= k + 1 /\ k \in Nat
      <4>1. Len(h) \in Nat /\ k = d + Len(h)
        BY <1>1
      <4>2. d \in Nat
        BY <2>2
      <4> HIDE DEF d
      <4> QED BY <4>1, <4>2
    <3> HIDE DEF d
    <3>2. RunLength(s, c, d + 1, k) \in Nat
      BY <3>1, RunFacts
    <3> QED BY <2>1, <3>2 DEF d
  <2>4. sum < s.maxLength /\ ~Limited(s, h)
    <3>1. s.maxLength \in Nat
      BY DEF Shape
    <3> QED BY <1>3, <2>1, <2>3, <3>1 DEF Full
  <2> QED BY <1>1, <2>1, <2>3, <2>4 DEF Settled, Holdable
<1> QED BY <1>2, <1>3

(* A stream with such parts.                                               *)
LEMMA SettledStream ==
  ASSUME NEW s, NEW c, Shape(s, c), NEW g \in Nat, NEW z, z \in StreamType,
         Settled(s, c, g, z.ready, z.buffer, z.tokens, z.local),
         AtRecord(s, c, z.place, z.local * StrideIn(s, z)),
         z.topology, z.sharded <=> s.world > 1,
         z.local > 0 => Readable(s, c, z.local),
         z.exhausted => z.buffer = << >> /\ ~s.repeat /\ z.local = Len(c),
         Len(z.ready) <= s.batchSize + 1
  PROVE  Sound(s, c, z) /\ Follows(s, c, z, g)
<1>1. Sound(s, c, z)
  BY DEF Sound, Settled
<1>2. Started(s, c, z, PackEnds(s, c)[g + Len(z.ready)])
  BY DEF Settled, Started
<1> QED BY <1>1, <1>2 DEF Follows, Settled

LEMMA NextReadable ==
  ASSUME setup \in Setups, corpus \in Corpora, NEW x,
         Sound(setup, corpus, x), x.topology, HasNext(x), Acceptable(NextSample(x))
  PROVE  /\ Readable(setup, corpus, x.local + 1)
         /\ LengthOf(NextSample(x)) = ShareLength(setup, corpus, x.local + 1)
<1> DEFINE k == x.local + 1
<1>0. Shape(setup, corpus) /\ x.local \in Nat /\ Len(corpus) \in Nat
  BY Shaped DEF Sound, StreamType, Shape
<1>1. NextSample(x) = Share(setup, k)
  BY SampleFacts
<1>2. LengthOf(NextSample(x)) = ShareLength(setup, corpus, k)
  BY <1>1 DEF LengthOf, ShareLength
<1>3. setup.packs => ShareLength(setup, corpus, k) <= setup.maxLength
  BY <1>2 DEF Acceptable
<1>4. setup.repeat \/ k <= Len(corpus)
  BY <1>0, HasNextMeans
<1>5. setup.packs => \A j \in 1 .. k : ShareLength(setup, corpus, j) <= setup.maxLength
  <2> SUFFICES ASSUME setup.packs, NEW j \in 1 .. k
               PROVE  ShareLength(setup, corpus, j) <= setup.maxLength
    OBVIOUS
  <2>1. CASE j = k
    BY <1>3, <2>1
  <2>2. CASE j # k
    <3>1. x.local > 0 /\ j \in 1 .. x.local
      BY <1>0, <2>2
    <3>2. Readable(setup, corpus, x.local)
      BY <3>1 DEF Sound
    <3> QED BY <3>1, <3>2 DEF Readable
  <2> QED BY <2>1, <2>2
<1> QED BY <1>2, <1>4, <1>5 DEF Readable

LEMMA AddedStream ==
  ASSUME setup \in Setups, corpus \in Corpora, NEW g \in Nat, NEW x,
         Sound(setup, corpus, x), x.topology, ~x.exhausted,
         Readable(setup, corpus, x.local + 1),
         NEW ready, NEW b, NEW t,
         Settled(setup, corpus, g, ready, b, t, x.local + 1),
         Len(ready) <= setup.batchSize + 1, NEW z,
         z = [SampleRead(x) EXCEPT !.buffer = b, !.tokens = t, !.ready = ready]
  PROVE  Sound(setup, corpus, z) /\ Follows(setup, corpus, z, g) /\ z.topology
<1>0. Shape(setup, corpus) /\ x \in StreamType
  BY Shaped DEF Sound
<1>1. /\ SampleRead(x) = [x EXCEPT !.place = SampleRead(x).place,
                                   !.local = x.local + 1]
      /\ SampleRead(x).place \in PlaceType
      /\ AtRecord(setup, corpus, SampleRead(x).place,
                  (x.local + 1) * StrideIn(setup, x))
  BY SampleFacts
<1> DEFINE q == SampleRead(x).place
           k == x.local + 1
<1>2. z = [[x EXCEPT !.place = q, !.local = k]
             EXCEPT !.buffer = b, !.tokens = t, !.ready = ready]
  BY <1>1
<1>3. q \in [cursor : Nat, offset : Nat, line : Nat, epoch : Nat] /\ k \in Nat
  BY <1>0, <1>1 DEF PlaceType, StreamType
<1>4. b \in Seq(Nat \ {0}) /\ t \in Nat /\ ready \in Seq(Seq(Nat \ {0}))
  BY DEF Settled, Packs
<1> HIDE DEF q, k
<1>5. /\ z \in StreamType
      /\ z.place = q /\ z.local = k /\ z.buffer = b /\ z.tokens = t /\ z.ready = ready
      /\ z.topology = x.topology /\ z.sharded = x.sharded
      /\ z.exhausted = x.exhausted
  BY <1>0, <1>2, <1>3, <1>4 DEF StreamType
<1>6. StrideIn(setup, z) = StrideIn(setup, x)
  BY <1>5 DEF StrideIn
<1>7. AtRecord(setup, corpus, z.place, z.local * StrideIn(setup, z))
  BY <1>1, <1>5, <1>6 DEF q, k
<1>8. x.sharded <=> setup.world > 1
  BY DEF Sound
<1>9. Settled(setup, corpus, g, z.ready, z.buffer, z.tokens, z.local)
  BY <1>5 DEF k
<1>10. Readable(setup, corpus, z.local)
  BY <1>5 DEF k
<1> QED BY <1>0, <1>5, <1>7, <1>8, <1>9, <1>10, SettledStream

(* What SequencePacker.add emits and keeps of a sample v of n tokens.        *)
Spills(s, x, n) == x.buffer # << >> /\ x.tokens + n > s.maxLength
Kept(s, x, n) == IF Spills(s, x, n) THEN Append(x.ready, x.buffer) ELSE x.ready
Held(s, x, n, v) == IF Spills(s, x, n) THEN <<v>> ELSE Append(x.buffer, v)
HeldSum(s, x, n) == IF Spills(s, x, n) THEN n ELSE x.tokens + n

LEMMA HeldBuilds ==
  ASSUME NEW s, NEW c, Shape(s, c), s.packs, NEW g \in Nat, NEW x,
         Sound(s, c, x), Follows(s, c, x, g),
         NEW k, k = x.local + 1, Readable(s, c, k),
         NEW v, v = Share(s, k), NEW n, n = ShareLength(s, c, k)
  PROVE  /\ Building(s, c, g, Kept(s, x, n), Held(s, x, n, v), HeldSum(s, x, n), k)
         /\ Len(Kept(s, x, n)) \in Nat /\ Len(Kept(s, x, n)) <= Len(x.ready) + 1
<1>1. x.ready \in Packs /\ x.tokens \in Nat /\ x.local \in Nat /\ s.maxLength \in Nat
  BY DEF Sound, StreamType, Packs, Shape
<1>2. Len(x.ready) \in Nat
  BY <1>1 DEF Packs
<1>3. n \in Nat
  <2>1. k \in Nat \ {0}
    BY <1>1
  <2> QED BY <2>1, ShareLengthPositive
<1>4. CASE Spills(s, x, n)
  <2>1. /\ Building(s, c, g, Append(x.ready, x.buffer), <<Share(s, x.local + 1)>>,
                    ShareLength(s, c, x.local + 1), x.local + 1)
        /\ Len(Append(x.ready, x.buffer)) = Len(x.ready) + 1
    <3>1. x.buffer # << >> /\ x.tokens + ShareLength(s, c, x.local + 1) > s.maxLength
      BY <1>4 DEF Spills
    <3> QED BY <3>1, SpillBuilds
  <2>2. /\ Kept(s, x, n) = Append(x.ready, x.buffer)
        /\ Held(s, x, n, v) = <<Share(s, x.local + 1)>>
        /\ HeldSum(s, x, n) = ShareLength(s, c, x.local + 1)
    BY <1>4 DEF Kept, Held, HeldSum
  <2>3. Building(s, c, g, Kept(s, x, n), Held(s, x, n, v), HeldSum(s, x, n), k)
    BY <2>1, <2>2
  <2>4. Len(Kept(s, x, n)) = Len(x.ready) + 1
    BY <2>1, <2>2
  <2> QED BY <1>2, <2>3, <2>4
<1>5. CASE ~Spills(s, x, n)
  <2>1. Building(s, c, g, x.ready, Append(x.buffer, Share(s, x.local + 1)),
                 x.tokens + ShareLength(s, c, x.local + 1), x.local + 1)
    <3>1. x.tokens + n <= s.maxLength \/ x.buffer = << >>
      BY <1>1, <1>3, <1>5 DEF Spills
    <3> QED BY <3>1, JoinBuilds
  <2>2. /\ Kept(s, x, n) = x.ready
        /\ Held(s, x, n, v) = Append(x.buffer, Share(s, x.local + 1))
        /\ HeldSum(s, x, n) = x.tokens + ShareLength(s, c, x.local + 1)
    BY <1>5 DEF Kept, Held, HeldSum
  <2>3. Building(s, c, g, Kept(s, x, n), Held(s, x, n, v), HeldSum(s, x, n), k)
    BY <2>1, <2>2
  <2> QED BY <1>2, <2>2, <2>3
<1> QED BY <1>4, <1>5

(* What NoPacker.add emits.                                                *)
Alone(h, v) == h \in Seq(Nat \ {0}) /\ h # << >> /\ Len(h) = 1 /\ h[1] = v

LEMMA NoPackerParts ==
  ASSUME NEW s, NEW c, Shape(s, c), ~s.packs, NEW g \in Nat, NEW r \in Packs,
         PacksAfter(s, c, r, g), NEW k, k = PackEnds(s, c)[g + Len(r)] + 1,
         Readable(s, c, k), NEW h, Alone(h, Share(s, k))
  PROVE  /\ Settled(s, c, g, Append(r, h), << >>, 0, k)
         /\ Len(Append(r, h)) = Len(r) + 1
<1> DEFINE d == PackEnds(s, c)[g + Len(r)]
<1>1. g + Len(r) \in Nat
  BY DEF Packs
<1>2. d \in Nat
  BY <1>1, EndsFacts
<1>3. k = d + 1 /\ d = PackEnds(s, c)[g + Len(r)]
  OBVIOUS
<1> HIDE DEF d
<1>4. NextEnd(s, c, d) = k
  <2>1. k = d + 1 /\ k \in Nat /\ d < k
    BY <1>2, <1>3
  <2>2. k <= d + s.maxLength
    <3>1. s.maxLength \in Nat \ {0}
      BY DEF Shape
    <3> QED BY <1>2, <2>1, <3>1
  <2>3. FitTogether(s, c, d + 1, k) /\ ~FitTogether(s, c, d + 1, k + 1)
    BY <1>2, <2>1 DEF FitTogether
  <2> QED BY <1>2, <2>1, <2>2, <2>3, RunIsPack
<1>5. /\ h \in Seq(Nat \ {0}) /\ h # << >>
      /\ k = d + Len(h) /\ \A j \in 1 .. Len(h) : h[j] = Share(s, d + j)
  BY <1>2, <1>3 DEF Alone
<1>6. /\ k = PackEnds(s, c)[g + Len(r)] + Len(h)
      /\ NextEnd(s, c, PackEnds(s, c)[g + Len(r)]) = k
      /\ \A j \in 1 .. Len(h) : h[j] = Share(s, PackEnds(s, c)[g + Len(r)] + j)
  BY <1>3, <1>4, <1>5
<1> QED BY <1>5, <1>6, Emit

(* SequencePacker.add and NoPacker.add.                                    *)
LEMMA AddFacts ==
  ASSUME setup \in Setups, corpus \in Corpora, NEW g \in Nat, NEW x,
         Sound(setup, corpus, x), Follows(setup, corpus, x, g), x.topology,
         Filling(x), HasNext(x), Acceptable(NextSample(x)),
         NEW z, z = Add(SampleRead(x), NextSample(x))
  PROVE  Sound(setup, corpus, z) /\ Follows(setup, corpus, z, g) /\ z.topology
<1>0. Shape(setup, corpus) /\ x \in StreamType
  BY Shaped DEF Sound
<1> DEFINE y == SampleRead(x)
           k == x.local + 1
<1>1. /\ Readable(setup, corpus, k)
      /\ LengthOf(NextSample(x)) = ShareLength(setup, corpus, k)
  BY NextReadable
<1>2. NextSample(x) = Share(setup, k)
  BY SampleFacts
<1>3. Len(x.ready) < setup.batchSize /\ ~x.exhausted
  BY DEF Filling
<1>4. y = [x EXCEPT !.place = y.place, !.local = k]
  BY SampleFacts
<1>5. y.buffer = x.buffer /\ y.tokens = x.tokens /\ y.ready = x.ready
  BY <1>0, <1>4 DEF StreamType
<1>6. y \in StreamType
  <2>1. y.place \in [cursor : Nat, offset : Nat, line : Nat, epoch : Nat]
    BY SampleFacts DEF PlaceType
  <2>2. k \in Nat
    BY <1>0 DEF StreamType
  <2> HIDE DEF y, k
  <2> QED BY <1>0, <1>4, <2>1, <2>2 DEF StreamType
<1> HIDE DEF y, k
<1>7. PICK sample : sample = NextSample(x)
  OBVIOUS
<1>8. PICK n : n = LengthOf(sample)
  OBVIOUS
<1>9. PICK r, b : r = y.ready /\ b = y.buffer
  OBVIOUS
<1>10. r = x.ready /\ b = x.buffer /\ x.tokens = y.tokens
  BY <1>5, <1>9
<1>11. sample = Share(setup, k) /\ n = ShareLength(setup, corpus, k)
  BY <1>1, <1>2, <1>7, <1>8
<1>12. CASE setup.packs
  <2>1. PICK kept, held, sum : /\ kept = Kept(setup, x, n)
                               /\ held = Held(setup, x, n, sample)
                               /\ sum = HeldSum(setup, x, n)
    OBVIOUS
  <2>2. /\ Building(setup, corpus, g, kept, held, sum, k)
        /\ Len(kept) \in Nat /\ Len(kept) <= Len(x.ready) + 1
    BY <1>0, <1>1, <1>11, <1>12, <2>1, HeldBuilds DEF k
  <2>3. z = IF Full(setup, held, sum)
            THEN [y EXCEPT !.buffer = << >>, !.tokens = 0, !.ready = Append(kept, held)]
            ELSE [y EXCEPT !.buffer = held, !.tokens = sum, !.ready = kept]
    <3>1. Spills(setup, x, n) <=> y.buffer # << >> /\ y.tokens + n > setup.maxLength
      BY <1>9, <1>10 DEF Spills
    <3>2. /\ held = IF Spills(setup, x, n) THEN <<sample>> ELSE Append(y.buffer, sample)
          /\ sum = IF Spills(setup, x, n) THEN n ELSE y.tokens + n
          /\ kept = IF Spills(setup, x, n) THEN Append(y.ready, y.buffer) ELSE y.ready
      BY <1>9, <1>10, <2>1 DEF Kept, Held, HeldSum
    <3>3. Full(setup, held, sum) <=> sum = setup.maxLength \/ AtLimit(held)
      BY DEF Full, Limited, AtLimit
    <3>4. z = [y EXCEPT !.buffer = IF Full(setup, held, sum) THEN << >> ELSE held,
                        !.tokens = IF Full(setup, held, sum) THEN 0 ELSE sum,
                        !.ready = IF Full(setup, held, sum) THEN Append(kept, held) ELSE kept]
      BY <1>7, <1>8, <1>12, <3>1, <3>2, <3>3 DEF Add, y
    <3> QED BY <3>4
  <2>4. Len(x.ready) \in Nat /\ setup.batchSize \in Nat
    BY <1>0 DEF Shape, StreamType
  <2>5. CASE Full(setup, held, sum)
    <3>1. PICK more, none : more = Append(kept, held) /\ none = << >>
      OBVIOUS
    <3>2. /\ Settled(setup, corpus, g, more, none, 0, k)
          /\ Len(more) = Len(kept) + 1
      BY <1>0, <1>12, <2>2, <2>5, <3>1, BuildingSettles
    <3>3. Len(more) <= setup.batchSize + 1
      BY <1>3, <2>2, <2>4, <3>2
    <3>4. z = [y EXCEPT !.buffer = none, !.tokens = 0, !.ready = more]
      BY <2>3, <2>5, <3>1
    <3> QED BY <1>1, <1>3, <3>2, <3>3, <3>4, AddedStream DEF k, y
  <2>6. CASE ~Full(setup, held, sum)
    <3>1. Settled(setup, corpus, g, kept, held, sum, k)
      BY <1>0, <1>12, <2>2, <2>6, BuildingSettles
    <3>2. Len(kept) <= setup.batchSize + 1
      BY <1>3, <2>2, <2>4
    <3>3. z = [y EXCEPT !.buffer = held, !.tokens = sum, !.ready = kept]
      BY <2>3, <2>6
    <3> QED BY <1>1, <1>3, <3>1, <3>2, <3>3, AddedStream DEF k, y
  <2> QED BY <2>5, <2>6
<1>13. CASE ~setup.packs
  <2>0. PICK h : h = <<sample>>
    OBVIOUS
  <2>1. PICK ready : ready = Append(r, h)
    OBVIOUS
  <2>2. /\ Settled(setup, corpus, g, ready, x.buffer, x.tokens, k)
        /\ Len(ready) <= setup.batchSize + 1
    <3>1. k \in Nat \ {0} /\ x.tokens \in Nat /\ x.local \in Nat
      BY <1>0 DEF k, StreamType
    <3>2. sample \in Nat \ {0}
      BY <1>0, <1>11, <3>1, SharePositive
    <3>3. Alone(h, Share(setup, k))
      BY <1>11, <2>0, <3>2 DEF Alone
    <3>4. r \in Packs /\ PacksAfter(setup, corpus, r, g)
      BY <1>0, <1>10 DEF Follows, StreamType, Packs
    <3>5. Len(r) \in Nat /\ setup.batchSize \in Nat /\ g + Len(r) \in Nat
      BY <1>0, <3>4 DEF Packs, Shape
    <3>6. PackEnds(setup, corpus)[g + Len(r)] \in Nat
      BY <1>0, <3>5, EndsFacts
    <3>7. x.buffer = << >> /\ Len(<< >>) = 0
      BY <1>13 DEF Sound, Holdable
    <3>8. x.local = PackEnds(setup, corpus)[g + Len(r)] + Len(x.buffer)
      BY <1>10 DEF Follows, Started
    <3>9. k = PackEnds(setup, corpus)[g + Len(r)] + 1
      BY <3>6, <3>7, <3>8 DEF k
    <3>10. /\ Settled(setup, corpus, g, ready, << >>, 0, k)
           /\ Len(ready) = Len(r) + 1
      BY <1>0, <1>1, <1>13, <2>1, <3>3, <3>4, <3>9, NoPackerParts
    <3>11. Settled(setup, corpus, g, ready, x.buffer, x.tokens, k)
      BY <1>13, <3>1, <3>7, <3>10 DEF Settled, Holdable
    <3>12. Len(ready) <= setup.batchSize + 1
      BY <1>3, <1>10, <3>5, <3>10
    <3> QED BY <3>11, <3>12
  <2>3. z = [y EXCEPT !.ready = ready]
    BY <1>7, <1>9, <1>13, <2>0, <2>1 DEF Add, y
  <2>4. PICK b2, t2 : b2 = x.buffer /\ t2 = x.tokens
    OBVIOUS
  <2>5. b2 = y.buffer /\ t2 = y.tokens
    BY <1>9, <1>10, <2>4
  <2>6. z = [y EXCEPT !.buffer = b2, !.tokens = t2, !.ready = ready]
    BY <1>6, <2>3, <2>5 DEF StreamType
  <2> QED BY <1>1, <1>3, <2>2, <2>4, <2>6, AddedStream DEF k, y
<1> QED BY <1>12, <1>13

(* SequencePacker.flush and NoPacker.flush, at the end of a finite source.   *)
LEMMA SoundSettled ==
  ASSUME NEW s, NEW c, NEW g, NEW x, Sound(s, c, x), Follows(s, c, x, g)
  PROVE  Settled(s, c, g, x.ready, x.buffer, x.tokens, x.local)
<1>1. /\ x.ready \in Packs /\ x.buffer \in Seq(Nat \ {0}) /\ x.tokens \in Nat
      /\ Holdable(s, c, x.buffer, x.tokens)
      /\ \A j \in DOMAIN x.buffer : s.packs => LengthIn(c, x.buffer[j]) <= s.maxLength
  BY DEF Sound, StreamType, Packs
<1>2. PacksAfter(s, c, x.ready, g) /\ Started(s, c, x, PackEnds(s, c)[g + Len(x.ready)])
  BY DEF Follows
<1> QED BY <1>1, <1>2 DEF Settled, Started

Repack(w, r, b, t) == [w EXCEPT !.ready = r, !.buffer = b, !.tokens = t]

Repacking(z, w, r, b, t) ==
    /\ z.exhausted = w.exhausted /\ z.place = w.place
    /\ z.local = w.local /\ z.sharded = w.sharded /\ z.topology = w.topology
    /\ z.buffer = b /\ z.tokens = t /\ z.ready = r

LEMMA Repacked ==
  ASSUME NEW w \in StreamType, NEW r \in Seq(Seq(Nat \ {0})), NEW b \in Seq(Nat \ {0}),
         NEW t \in Nat, NEW z, z = Repack(w, r, b, t)
  PROVE  z \in StreamType /\ Repacking(z, w, r, b, t)
BY DEF Repack, Repacking, StreamType

LEMMA FlushFacts ==
  ASSUME setup \in Setups, corpus \in Corpora, NEW g \in Nat, NEW x,
         Sound(setup, corpus, x), Follows(setup, corpus, x, g), x.topology,
         Filling(x), ~HasNext(x),
         NEW z, z = Flush([x EXCEPT !.exhausted = TRUE])
  PROVE  Sound(setup, corpus, z) /\ Follows(setup, corpus, z, g) /\ z.topology
<1>0. Shape(setup, corpus) /\ x \in StreamType
  BY Shaped DEF Sound
<1>1. x.local \in Nat /\ Len(corpus) \in Nat /\ setup.repeat \in BOOLEAN
  BY <1>0 DEF StreamType, Shape
<1>2. ~setup.repeat /\ ~(x.local < Len(corpus))
  BY HasNextMeans
<1>3. x.local = Len(corpus)
  <2>1. x.local \in 0 .. Len(corpus)
    BY <1>2, FinitePlace
  <2> QED BY <1>1, <1>2, <2>1
<1>4. Len(x.ready) \in Nat /\ setup.batchSize \in Nat /\ Len(x.ready) < setup.batchSize
  <2>1. x.ready \in Seq(Seq(Nat \ {0}))
    BY <1>0 DEF StreamType
  <2>2. setup.batchSize \in Nat
    BY <1>0 DEF Shape
  <2> QED BY <2>1, <2>2 DEF Filling
<1>5. AtRecord(setup, corpus, x.place, x.local * StrideIn(setup, x))
  BY DEF Sound
<1>6. x.sharded <=> setup.world > 1
  BY DEF Sound
<1>7. x.local > 0 => Readable(setup, corpus, x.local)
  BY DEF Sound
<1>8. PICK w : w = [x EXCEPT !.exhausted = TRUE]
  OBVIOUS
<1>9. /\ w \in StreamType /\ w.exhausted /\ w.place = x.place /\ w.local = x.local
      /\ w.sharded = x.sharded /\ w.topology = x.topology /\ w.buffer = x.buffer
      /\ w.tokens = x.tokens /\ w.ready = x.ready
  BY <1>0, <1>8 DEF StreamType
<1>10. CASE x.buffer = << >>
  <2>1. z = w
    BY <1>8, <1>9, <1>10 DEF Flush
  <2>2. Settled(setup, corpus, g, z.ready, z.buffer, z.tokens, z.local)
    BY <1>9, <2>1, SoundSettled
  <2>3. StrideIn(setup, z) = StrideIn(setup, x)
    BY <1>9, <2>1 DEF StrideIn
  <2>4. AtRecord(setup, corpus, z.place, z.local * StrideIn(setup, z))
    BY <1>5, <1>9, <2>1, <2>3
  <2>5. Len(z.ready) <= setup.batchSize + 1
    BY <1>4, <1>9, <2>1
  <2>6. /\ z \in StreamType /\ z.topology /\ (z.sharded <=> setup.world > 1)
        /\ (z.local > 0 => Readable(setup, corpus, z.local))
        /\ z.buffer = << >> /\ ~setup.repeat /\ z.local = Len(corpus)
    BY <1>2, <1>3, <1>6, <1>7, <1>9, <1>10, <2>1
  <2> QED BY <1>0, <2>2, <2>4, <2>5, <2>6, SettledStream
<1>11. CASE x.buffer # << >>
  <2>1. PICK more : more = Append(x.ready, x.buffer)
    OBVIOUS
  <2>2. setup.packs
    BY <1>11 DEF Sound, Holdable
  <2>3. Building(setup, corpus, g, x.ready, x.buffer, x.tokens, x.local)
    BY <1>0, <1>11, <2>2, BufferBuilds
  <2>4. ~Readable(setup, corpus, x.local + 1)
    BY <1>1, <1>2, <1>3 DEF Readable
  <2>5. NextEnd(setup, corpus, PackEnds(setup, corpus)[g + Len(x.ready)]) = x.local
    BY <1>0, <2>2, <2>3, <2>4, FullIsPack
  <2>6. PICK r, b, k : r = x.ready /\ b = x.buffer /\ k = x.local
    OBVIOUS
  <2>7. /\ r \in Packs /\ PacksAfter(setup, corpus, r, g)
        /\ b \in Seq(Nat \ {0}) /\ b # << >>
        /\ k = PackEnds(setup, corpus)[g + Len(r)] + Len(b)
        /\ \A j \in 1 .. Len(b) : b[j] = Share(setup, PackEnds(setup, corpus)[g + Len(r)] + j)
    BY <2>3, <2>6 DEF Building
  <2>8. NextEnd(setup, corpus, PackEnds(setup, corpus)[g + Len(r)]) = k
    BY <2>5, <2>6
  <2>9. more = Append(r, b)
    BY <2>1, <2>6
  <2>10. /\ Settled(setup, corpus, g, Append(r, b), << >>, 0, k)
         /\ Len(Append(r, b)) = Len(r) + 1
    BY <1>0, <2>7, <2>8, Emit
  <2>11. z = [w EXCEPT !.ready = more, !.buffer = << >>, !.tokens = 0]
    BY <1>8, <1>9, <1>11, <2>1 DEF Flush
  <2>12. /\ z \in StreamType /\ z.exhausted /\ z.place = w.place /\ z.local = w.local
         /\ z.sharded = w.sharded /\ z.topology = w.topology /\ z.buffer = << >>
         /\ z.tokens = 0 /\ z.ready = more
    <3>1. more \in Seq(Seq(Nat \ {0}))
      BY <2>9, <2>10 DEF Settled, Packs
    <3>2. PICK none : none = << >>
      OBVIOUS
    <3>3. none \in Seq(Nat \ {0})
      BY <3>2
    <3>4. z = Repack(w, more, none, 0)
      BY <2>11, <3>2 DEF Repack
    <3>5. w \in StreamType /\ 0 \in Nat
      BY <1>9
    <3>6. z \in StreamType /\ Repacking(z, w, more, none, 0)
      BY <3>1, <3>3, <3>4, <3>5, Repacked
    <3>7. w.exhausted
      BY <1>9
    <3> QED BY <3>2, <3>6, <3>7 DEF Repacking
  <2>13. Settled(setup, corpus, g, more, << >>, 0, k)
    BY <2>9, <2>10
  <2>14. Settled(setup, corpus, g, z.ready, z.buffer, z.tokens, z.local)
    BY <1>9, <2>6, <2>12, <2>13
  <2>15. StrideIn(setup, z) = StrideIn(setup, x)
    BY <1>9, <2>12 DEF StrideIn
  <2>16. AtRecord(setup, corpus, z.place, z.local * StrideIn(setup, z))
    BY <1>5, <1>9, <2>12, <2>15
  <2>17. Len(z.ready) <= setup.batchSize + 1
    <3>1. Len(more) = Len(x.ready) + 1
      BY <2>6, <2>9, <2>10
    <3> QED BY <1>4, <2>12, <3>1
  <2>18. /\ z.topology /\ (z.sharded <=> setup.world > 1)
         /\ (z.local > 0 => Readable(setup, corpus, z.local))
         /\ z.buffer = << >> /\ ~setup.repeat /\ z.local = Len(corpus)
    BY <1>2, <1>3, <1>6, <1>7, <1>9, <2>12
  <2> QED BY <1>0, <2>12, <2>14, <2>16, <2>17, <2>18, SettledStream
<1> QED BY <1>10, <1>11

-----------------------------------------------------------------------------
(* Batches.                                                                *)

LEMMA CountTo ==
  ASSUME NEW n \in Nat
  PROVE  Cardinality(1 .. n) = n
<1>1. Cardinality(1 .. n) = IF 1 > n THEN 0 ELSE n - 1 + 1
  BY FS_Interval
<1> QED BY <1>1

(* The ready queue of x is cut after n packs: a batch, or all that is left.  *)
CutAfter(s, x, n) ==
    /\ n \in Nat /\ Len(x.ready) \in Nat /\ n <= Len(x.ready) /\ n <= s.batchSize
    /\ n < s.batchSize => x.exhausted /\ n = Len(x.ready)

LEMMA NoPacksLeft ==
  ASSUME NEW s, NEW c, Shape(s, c), NEW g \in Nat, NEW x,
         Sound(s, c, x), Follows(s, c, x, g), x.exhausted
  PROVE  \A k \in Nat : g + Len(x.ready) <= k =>
             PackEnds(s, c)[k] = PackEnds(s, c)[g + Len(x.ready)]
<1> DEFINE e == PackEnds(s, c)
           L == Len(x.ready)
<1>1. L \in Nat
  BY DEF Sound, StreamType
<1>2. e[g + L] = Len(c) /\ ~s.repeat
  <2>1. /\ x.local = e[g + L] + Len(x.buffer)
        /\ x.buffer = << >> /\ ~s.repeat /\ x.local = Len(c)
    BY DEF Follows, Started
  <2>2. e[g + L] \in Nat /\ Len(<< >>) = 0
    <3>1. g + L \in Nat
      BY <1>1
    <3> HIDE DEF L
    <3> QED BY <3>1, EndsFacts
  <2> HIDE DEF e, L
  <2> QED BY <2>1, <2>2
<1> HIDE DEF e, L
<1>3. g + L \in Nat /\ Len(c) \in Nat
  BY <1>1 DEF Shape
<1>4. ~Readable(s, c, e[g + L] + 1)
  BY <1>2, <1>3 DEF Readable
<1>5. \A k \in Nat : g + L <= k => e[k] = e[g + L]
  BY <1>3, <1>4, NoMorePacks DEF e
<1> QED BY <1>5 DEF e, L

LEMMA PacksInBatch ==
  ASSUME NEW s, NEW c, Shape(s, c), NEW g \in Nat, NEW x,
         Sound(s, c, x), Follows(s, c, x, g), NEW n, CutAfter(s, x, n)
  PROVE  {j \in 1 .. s.batchSize :
             PackEnds(s, c)[g + j - 1] < PackEnds(s, c)[g + j]} = 1 .. n
<1> DEFINE e == PackEnds(s, c)
           L == Len(x.ready)
<1>1. s.batchSize \in Nat \ {0}
  BY DEF Shape
<1>2. \A i \in 1 .. L : e[g + i - 1] < e[g + i]
  BY DEF Follows, PacksAfter
<1>3. n \in Nat /\ L \in Nat /\ n <= L /\ n <= s.batchSize
  BY DEF CutAfter
<1>4. n < s.batchSize => n = L /\ \A k \in Nat : g + L <= k => e[k] = e[g + L]
  BY NoPacksLeft DEF CutAfter
<1>5. e[g + L] \in Nat
  <2>1. g + L \in Nat
    BY <1>3
  <2> HIDE DEF L
  <2> QED BY <2>1, EndsFacts
<1> HIDE DEF e, L
<1>6. ASSUME NEW j \in 1 .. n
      PROVE  j \in 1 .. s.batchSize /\ e[g + j - 1] < e[g + j]
  <2>1. j \in 1 .. L /\ j \in 1 .. s.batchSize
    BY <1>1, <1>3
  <2> QED BY <1>2, <2>1
<1>7. ASSUME NEW j \in 1 .. s.batchSize, e[g + j - 1] < e[g + j]
      PROVE  j \in 1 .. n
  <2>1. SUFFICES ASSUME j > n
                 PROVE  FALSE
    BY <1>1, <1>3
  <2>2. n < s.batchSize
    BY <1>1, <1>3, <2>1
  <2>3. /\ g + j - 1 \in Nat /\ g + j \in Nat
        /\ g + L <= g + j - 1 /\ g + L <= g + j
    BY <1>1, <1>3, <1>4, <2>1, <2>2
  <2>4. e[g + j - 1] = e[g + L] /\ e[g + j] = e[g + L]
    BY <1>4, <2>2, <2>3
  <2> QED BY <1>5, <1>7, <2>4
<1>8. {j \in 1 .. s.batchSize : e[g + j - 1] < e[g + j]} = 1 .. n
  BY <1>6, <1>7
<1> QED BY <1>8 DEF e

BatchAfter(s, e, g) ==
    LET more == {j \in 1 .. s.batchSize : e[g + j - 1] < e[g + j]}
    IN  [j \in 1 .. Cardinality(more) |-> Pack(s, e, g + j)]

LEMMA BatchIsPacks ==
  ASSUME NEW s, NEW c, Shape(s, c), NEW m \in Nat, NEW x, Sound(s, c, x),
         Follows(s, c, x, m * s.batchSize), NEW n, CutAfter(s, x, n)
  PROVE  BatchOf(s, PackEnds(s, c), m + 1)
              = [j \in 1 .. n |-> Pack(s, PackEnds(s, c), m * s.batchSize + j)]
<1> DEFINE e == PackEnds(s, c)
<1>1. s.batchSize \in Nat /\ n \in Nat
  BY DEF Shape, CutAfter
<1>2. PICK g : g = m * s.batchSize
  OBVIOUS
<1>3. g \in Nat /\ (m + 1 - 1) * s.batchSize = g
  BY <1>1, <1>2
<1>4. BatchOf(s, e, m + 1) = BatchAfter(s, e, g)
  <2>1. BatchOf(s, e, m + 1) = BatchAfter(s, e, (m + 1 - 1) * s.batchSize)
    BY DEF BatchOf, BatchAfter
  <2> HIDE DEF e
  <2> QED BY <1>3, <2>1
<1>5. Follows(s, c, x, g)
  BY <1>2
<1>6. {j \in 1 .. s.batchSize : e[g + j - 1] < e[g + j]} = 1 .. n
  BY <1>3, <1>5, PacksInBatch
<1>7. Cardinality(1 .. n) = n
  BY <1>1, CountTo
<1> HIDE DEF e
<1>8. BatchAfter(s, e, g) = [j \in 1 .. n |-> Pack(s, e, g + j)]
  BY <1>6, <1>7 DEF BatchAfter
<1>9. BatchOf(s, e, m + 1) = [j \in 1 .. n |-> Pack(s, e, m * s.batchSize + j)]
  BY <1>2, <1>4, <1>8
<1> QED BY <1>9 DEF e

LEMMA PackNotEmpty ==
  ASSUME NEW s, NEW c, Shape(s, c), NEW i \in Nat \ {0},
         PackEnds(s, c)[i - 1] < PackEnds(s, c)[i]
  PROVE  Pack(s, PackEnds(s, c), i) \in Seq(Nat \ {0}) \ {<< >>}
<1> DEFINE e == PackEnds(s, c)
           p == Pack(s, e, i)
<1>1. i - 1 \in Nat
  OBVIOUS
<1>2. e[i - 1] \in Nat /\ e[i] \in Nat /\ e[i - 1] < e[i]
  BY <1>1, EndsFacts
<1> HIDE DEF e
<1>3. PICK z : z = e[i] - e[i - 1]
  OBVIOUS
<1>4. z \in Nat /\ 1 \in 1 .. z
  BY <1>2, <1>3
<1>5. \A k \in 1 .. z : Share(s, e[i - 1] + k) \in Nat \ {0}
  <2> SUFFICES ASSUME NEW k \in 1 .. z
               PROVE  Share(s, e[i - 1] + k) \in Nat \ {0}
    OBVIOUS
  <2>1. e[i - 1] + k \in Nat \ {0}
    BY <1>2, <1>4
  <2> QED BY <2>1, SharePositive
<1>6. p = [k \in 1 .. z |-> Share(s, e[i - 1] + k)]
  BY <1>3 DEF Pack
<1> HIDE DEF p
<1>7. p \in Seq(Nat \ {0}) /\ Len(p) = z
  BY <1>4, <1>5, <1>6
<1>8. p # << >>
  BY <1>4, <1>7
<1> QED BY <1>7, <1>8 DEF p, e

(* What is left when n packs are cut.                                      *)
LEMMA RestFollows ==
  ASSUME NEW s, NEW c, Shape(s, c), NEW g \in Nat, NEW x,
         Sound(s, c, x), Follows(s, c, x, g), NEW n, CutAfter(s, x, n), NEW z,
         z = [x EXCEPT !.ready = SubSeq(x.ready, n + 1, Len(x.ready))], x.topology
  PROVE  Sound(s, c, z) /\ Follows(s, c, z, g + s.batchSize) /\ z.topology
<1> DEFINE e == PackEnds(s, c)
           L == Len(x.ready)
<1>0. PICK y : y = SubSeq(x.ready, n + 1, L)
  OBVIOUS
<1>1. n \in Nat /\ L \in Nat /\ n <= L /\ n <= s.batchSize /\ s.batchSize \in Nat
  BY DEF CutAfter, Shape
<1>2. x \in StreamType /\ x.ready \in Seq(Seq(Nat \ {0}))
  BY DEF Sound, StreamType
<1>3. /\ y \in Seq(Seq(Nat \ {0})) /\ Len(y) = L - n
      /\ \A i \in 1 .. L - n : y[i] = x.ready[n + i]
  <2>1. ASSUME NEW r \in Seq(Seq(Nat \ {0})), NEW k \in Nat, k <= Len(r)
        PROVE  /\ SubSeq(r, k + 1, Len(r)) \in Seq(Seq(Nat \ {0}))
               /\ Len(SubSeq(r, k + 1, Len(r))) = Len(r) - k
               /\ \A i \in 1 .. Len(r) - k : SubSeq(r, k + 1, Len(r))[i] = r[k + i]
    BY <2>1
  <2> QED BY <1>0, <1>1, <1>2, <2>1
<1>4. /\ z \in StreamType /\ z.ready = y /\ z.place = x.place /\ z.local = x.local
      /\ z.sharded = x.sharded /\ z.topology = x.topology /\ z.buffer = x.buffer
      /\ z.tokens = x.tokens /\ z.exhausted = x.exhausted
  BY <1>0, <1>2, <1>3 DEF StreamType
<1>5. StrideIn(s, z) = StrideIn(s, x)
  BY <1>4 DEF StrideIn
<1>6. Sound(s, c, z) /\ z.topology
  BY <1>4, <1>5 DEF Sound
<1>7. \A i \in 1 .. L : e[g + i - 1] < e[g + i] /\ x.ready[i] = Pack(s, e, g + i)
  BY DEF Follows, PacksAfter
<1>8. Started(s, c, x, e[g + L]) /\ Len(x.ready) <= s.batchSize + 1
  BY DEF Follows
<1>9. n < s.batchSize => n = L /\ \A k \in Nat : g + L <= k => e[k] = e[g + L]
  BY NoPacksLeft DEF CutAfter
<1> HIDE DEF e, L
<1>10. PacksAfter(s, c, y, g + s.batchSize)
  <2> SUFFICES ASSUME NEW i \in 1 .. L - n
               PROVE  /\ e[g + s.batchSize + i - 1] < e[g + s.batchSize + i]
                      /\ y[i] = Pack(s, e, g + s.batchSize + i)
    BY <1>3 DEF PacksAfter, e
  <2>1. n = s.batchSize
    BY <1>1, <1>9
  <2>2. n + i \in 1 .. L
    BY <1>1
  <2>3. /\ g + s.batchSize + i = g + (n + i)
        /\ g + s.batchSize + i - 1 = g + (n + i) - 1
    BY <1>1, <2>1
  <2> QED BY <1>3, <1>7, <2>2, <2>3
<1>11. e[g + s.batchSize + (L - n)] = e[g + L]
  <2>1. CASE n = s.batchSize
    <3>1. g + s.batchSize + (L - n) = g + L
      BY <1>1, <2>1
    <3> QED BY <3>1
  <2>2. CASE n < s.batchSize
    <3>1. g + s.batchSize + (L - n) \in Nat /\ g + L <= g + s.batchSize + (L - n)
      BY <1>1, <1>9, <2>2
    <3> QED BY <1>9, <2>2, <3>1
  <2> QED BY <1>1, <2>1, <2>2
<1>12. Started(s, c, z, e[g + L])
  BY <1>4, <1>8 DEF Started
<1>13. Started(s, c, z, PackEnds(s, c)[g + s.batchSize + Len(z.ready)])
  <2>1. g + s.batchSize + Len(z.ready) = g + s.batchSize + (L - n)
    BY <1>3, <1>4
  <2> QED BY <1>11, <1>12, <2>1 DEF e
<1>14. Len(z.ready) <= s.batchSize + 1
  BY <1>1, <1>3, <1>4, <1>8 DEF L
<1>15. PacksAfter(s, c, z.ready, g + s.batchSize)
  BY <1>4, <1>10
<1> QED BY <1>6, <1>13, <1>14, <1>15 DEF Follows

LEMMA ReadyPacks ==
  ASSUME NEW s, NEW c, Shape(s, c), NEW g \in Nat, NEW x,
         Sound(s, c, x), Follows(s, c, x, g)
  PROVE  \A j \in 1 .. Len(x.ready) :
             /\ x.ready[j] = Pack(s, PackEnds(s, c), g + j)
             /\ x.ready[j] \in Seq(Nat \ {0}) \ {<< >>}
<1>1. ASSUME NEW j \in 1 .. Len(x.ready)
      PROVE  /\ x.ready[j] = Pack(s, PackEnds(s, c), g + j)
             /\ x.ready[j] \in Seq(Nat \ {0}) \ {<< >>}
  <2>1. x.ready[j] = Pack(s, PackEnds(s, c), g + j)
    BY DEF Follows, PacksAfter
  <2>2. PackEnds(s, c)[g + j - 1] < PackEnds(s, c)[g + j]
    BY DEF Follows, PacksAfter
  <2>3. g + j \in Nat \ {0}
    <3>1. Len(x.ready) \in Nat
      BY DEF Sound, StreamType
    <3> QED BY <3>1
  <2>4. Pack(s, PackEnds(s, c), g + j) \in Seq(Nat \ {0}) \ {<< >>}
    BY <2>2, <2>3, PackNotEmpty
  <2> QED BY <2>1, <2>4
<1> QED BY <1>1

CanCut(s, x) == x.ready # << >> /\ (Len(x.ready) < s.batchSize => x.exhausted)
CutSize(s, x) == IF Len(x.ready) < s.batchSize THEN Len(x.ready) ELSE s.batchSize
CutFront(x, n) == SubSeq(x.ready, 1, n)
CutRest(x, n) == [x EXCEPT !.ready = SubSeq(x.ready, n + 1, Len(x.ready))]

LEMMA CutFacts ==
  ASSUME NEW s, NEW c, Shape(s, c), NEW m \in Nat, NEW x,
         Sound(s, c, x), Follows(s, c, x, m * s.batchSize), x.topology, CanCut(s, x),
         NEW n, n = CutSize(s, x), NEW z, z = CutRest(x, n),
         NEW batch, batch = CutFront(x, n)
  PROVE  /\ batch = BatchOf(s, PackEnds(s, c), m + 1) /\ batch \in BatchType
         /\ Len(batch) <= s.batchSize
         /\ Sound(s, c, z) /\ Follows(s, c, z, (m + 1) * s.batchSize) /\ z.topology
<1>1. s.batchSize \in Nat \ {0} /\ x.ready \in Seq(Seq(Nat \ {0}))
  BY DEF Shape, Sound, StreamType
<1>2. CutAfter(s, x, n) /\ n # 0
  <2>1. Len(x.ready) \in Nat /\ Len(x.ready) # 0
    BY <1>1 DEF CanCut
  <2> QED BY <1>1, <2>1 DEF CutAfter, CanCut, CutSize
<1>3. PICK g : g = m * s.batchSize
  OBVIOUS
<1>4. g \in Nat /\ g + s.batchSize = (m + 1) * s.batchSize
  BY <1>1, <1>3
<1>5. Follows(s, c, x, g)
  BY <1>3
<1>6. Sound(s, c, z) /\ Follows(s, c, z, g + s.batchSize) /\ z.topology
  BY <1>2, <1>4, <1>5, RestFollows DEF CutRest
<1>7. BatchOf(s, PackEnds(s, c), m + 1)
        = [j \in 1 .. n |-> Pack(s, PackEnds(s, c), g + j)]
  BY <1>2, <1>3, BatchIsPacks
<1>8. \A j \in 1 .. n : /\ x.ready[j] = Pack(s, PackEnds(s, c), g + j)
                         /\ x.ready[j] \in Seq(Nat \ {0}) \ {<< >>}
  <2>1. \A j \in 1 .. Len(x.ready) :
            /\ x.ready[j] = Pack(s, PackEnds(s, c), g + j)
            /\ x.ready[j] \in Seq(Nat \ {0}) \ {<< >>}
    BY <1>4, <1>5, ReadyPacks
  <2>2. \A j \in 1 .. n : j \in 1 .. Len(x.ready)
    BY <1>2 DEF CutAfter
  <2> QED BY <2>1, <2>2
<1>9. PICK r : r = x.ready
  OBVIOUS
<1>10. /\ batch = [j \in 1 .. n |-> r[j]] /\ n \in Nat /\ n <= Len(r) /\ n <= s.batchSize
  BY <1>1, <1>2, <1>9 DEF CutAfter, CutFront
<1>11. batch = [j \in 1 .. n |-> Pack(s, PackEnds(s, c), g + j)]
  BY <1>8, <1>9, <1>10
<1>12. batch \in Seq(Seq(Nat \ {0}) \ {<< >>}) /\ Len(batch) = n
  BY <1>8, <1>9, <1>10
<1>13. batch # << >>
  BY <1>2, <1>12
<1> QED BY <1>4, <1>6, <1>7, <1>10, <1>11, <1>12, <1>13 DEF BatchType

LEMMA NoPacks ==
  ASSUME NEW n, n = 0, NEW s, NEW e, NEW g, NEW b,
         b = [j \in 1 .. n |-> Pack(s, e, g + j)]
  PROVE  b = << >>
OBVIOUS

CanFinish(s, x) ==
    x.exhausted /\ Len(x.ready) < s.batchSize /\ (x.ready = << >> \/ s.dropLast)
Emptied(x) == [x EXCEPT !.dropped = x.dropped + Len(x.ready), !.ready = << >>]

LEMMA FinishFacts ==
  ASSUME NEW s, NEW c, Shape(s, c), NEW m \in Nat, NEW x,
         Sound(s, c, x), Follows(s, c, x, m * s.batchSize), x.topology,
         CanFinish(s, x), NEW z, z = Emptied(x)
  PROVE  /\ Sound(s, c, z) /\ z.topology /\ z.ready = << >>
         /\ EndReached(s, c, m)
<1>1. s.batchSize \in Nat \ {0} /\ x.ready \in Seq(Seq(Nat \ {0})) /\ x.dropped \in Nat
  BY DEF Shape, Sound, StreamType
<1>2. Len(x.ready) \in Nat
  BY <1>1
<1>3. CutAfter(s, x, Len(x.ready))
  BY <1>1, <1>2 DEF CutAfter, CanFinish
<1>4. PICK n : n = Len(x.ready)
  OBVIOUS
<1>5. BatchOf(s, PackEnds(s, c), m + 1)
        = [j \in 1 .. n |-> Pack(s, PackEnds(s, c), m * s.batchSize + j)]
  BY <1>3, <1>4, BatchIsPacks
<1>6. Len(BatchOf(s, PackEnds(s, c), m + 1)) = n
  BY <1>2, <1>4, <1>5
<1>7. x.ready = << >> => BatchOf(s, PackEnds(s, c), m + 1) = << >>
  <2> SUFFICES ASSUME x.ready = << >>
               PROVE  BatchOf(s, PackEnds(s, c), m + 1) = << >>
    OBVIOUS
  <2>1. n = 0
    BY <1>4
  <2> QED BY <1>5, <2>1, NoPacks
<1>8. ~s.repeat /\ Readable(s, c, Len(c))
  <2>1. ~s.repeat /\ x.local = Len(c)
    BY DEF Follows, Started, CanFinish
  <2>2. x.local > 0
    BY <2>1 DEF Shape
  <2> QED BY <2>1, <2>2 DEF Sound
<1>9. EndReached(s, c, m)
  BY <1>4, <1>6, <1>7, <1>8 DEF EndReached, CanFinish
<1>10. PICK none, d : none = << >> /\ d = x.dropped + Len(x.ready)
  OBVIOUS
<1>11. none \in Seq(Seq(Nat \ {0})) /\ d \in Nat
  BY <1>1, <1>2, <1>10
<1>12. z = [x EXCEPT !.dropped = d, !.ready = none]
  BY <1>10 DEF Emptied
<1>13. x \in StreamType
  BY DEF Sound
<1>14. /\ z \in StreamType /\ z.ready = none /\ z.place = x.place /\ z.local = x.local
       /\ z.sharded = x.sharded /\ z.topology = x.topology /\ z.buffer = x.buffer
       /\ z.tokens = x.tokens
  BY <1>11, <1>12, <1>13 DEF StreamType
<1>15. StrideIn(s, z) = StrideIn(s, x)
  BY <1>14 DEF StrideIn
<1>16. Sound(s, c, z)
  BY <1>14, <1>15 DEF Sound
<1> QED BY <1>9, <1>10, <1>14, <1>16

-----------------------------------------------------------------------------
(* Fresh and restored streams.                                             *)

LEMMA FreshPlace ==
  ASSUME NEW s \in Setups, NEW c \in Corpora
  PROVE  AtRecord(s, c, FirstPlace, 0)
<1>1. FirstPlace \in PlaceType
  BY DEF FirstPlace, PlaceType
<1>2. FirstPlace.cursor = 0 /\ FirstPlace.offset = 0 /\ FirstPlace.line = 0 /\ FirstPlace.epoch = 0
  BY DEF FirstPlace
<1>3. Len(c) \in Nat /\ 0 \in 0 .. Len(c)
  BY Shaped DEF Shape
<1>4. EndIn(s, c, 0) = Total(LineSize(s, c), 1 .. 0)
  BY <1>3, LineEndSum
<1>5. 1 .. 0 = {}
  OBVIOUS
<1>6. EndIn(s, c, 0) = 0
  BY <1>4, <1>5, EmptyTotal
<1>7. 0 = 0 * Len(c) + 0
  BY <1>3
<1> QED BY <1>1, <1>2, <1>3, <1>6, <1>7 DEF AtRecord

\* A stream that has read nothing, before or after its source was sharded.
Untouched(s, x) ==
    /\ x \in StreamType /\ x.place = FirstPlace /\ x.local = 0
    /\ x.buffer = << >> /\ x.tokens = 0 /\ x.ready = << >> /\ ~x.exhausted
    /\ x.topology => (x.sharded <=> s.world > 1)
    /\ ~x.topology => x = FreshStream

LEMMA UntouchedFollows ==
  ASSUME NEW s \in Setups, NEW c \in Corpora, NEW x, Untouched(s, x)
  PROVE  Sound(s, c, x) /\ Follows(s, c, x, 0)
<1>0. Shape(s, c)
  BY Shaped
<1>1. s.world \in Nat /\ s.batchSize \in Nat
  BY <1>0 DEF Shape
<1>2. x.local * StrideIn(s, x) = 0
  <2>1. StrideIn(s, x) \in Nat
    BY <1>1 DEF StrideIn
  <2>2. x.local = 0
    BY DEF Untouched
  <2> QED BY <2>1, <2>2
<1>3. AtRecord(s, c, x.place, x.local * StrideIn(s, x))
  BY <1>2, FreshPlace DEF Untouched
<1>4. Holdable(s, c, x.buffer, x.tokens) /\ Len(<< >>) = 0
  BY <1>0, EmptyHeld DEF Untouched
<1>5. Sound(s, c, x)
  <2>1. ~(x.local > 0)
    BY DEF Untouched
  <2>2. DOMAIN x.buffer = {}
    BY DEF Untouched
  <2> QED BY <1>3, <1>4, <2>1, <2>2 DEF Sound, Untouched
<1>6. PackEnds(s, c)[0] = 0
  BY PackEndsStep
<1>7. RunLength(s, c, 0 + 1, 0) = 0
  BY RunEmpty
<1>8. Started(s, c, x, 0)
  <2>1. x.local = 0 + Len(x.buffer) /\ Len(x.buffer) = 0
    BY <1>4 DEF Untouched
  <2>2. \A k \in 1 .. Len(x.buffer) : FALSE
    BY <2>1
  <2>3. x.tokens = RunLength(s, c, 0 + 1, x.local)
    BY <1>7 DEF Untouched
  <2>4. ~x.exhausted
    BY DEF Untouched
  <2> QED BY <2>1, <2>2, <2>3, <2>4 DEF Started
<1>9. Len(x.ready) = 0
  BY <1>4 DEF Untouched
<1>10. PacksAfter(s, c, x.ready, 0)
  <2>1. \A i \in 1 .. Len(x.ready) : FALSE
    BY <1>9
  <2> QED BY <2>1 DEF PacksAfter
<1>11. PackEnds(s, c)[0 + Len(x.ready)] = 0
  BY <1>6, <1>9
<1>12. Started(s, c, x, PackEnds(s, c)[0 + Len(x.ready)])
  BY <1>8, <1>11
<1>13. Len(x.ready) <= s.batchSize + 1
  BY <1>1, <1>9
<1> QED BY <1>5, <1>10, <1>12, <1>13 DEF Follows

LEMMA FreshUntouched ==
  ASSUME NEW s
  PROVE  Untouched(s, FreshStream) /\ ~FreshStream.topology /\ ~FreshStream.sharded
<1>1. FirstPlace \in [cursor : Nat, offset : Nat, line : Nat, epoch : Nat]
  BY DEF FirstPlace
<1>2. PICK p : p = FirstPlace
  OBVIOUS
<1>3. PICK none : none = << >>
  OBVIOUS
<1>4. none \in Seq(Nat \ {0}) /\ none \in Seq(Seq(Nat \ {0}))
  BY <1>3
<1>5. FreshStream =
        [place |-> p, local |-> 0, sharded |-> FALSE, topology |-> FALSE,
         buffer |-> none, tokens |-> 0, ready |-> none, exhausted |-> FALSE,
         dropped |-> 0]
  BY <1>2, <1>3 DEF FreshStream
<1>6. FreshStream \in StreamType
  BY <1>1, <1>2, <1>4, <1>5 DEF StreamType
<1>7. /\ FreshStream.place = p /\ FreshStream.local = 0
      /\ FreshStream.buffer = none /\ FreshStream.tokens = 0 /\ FreshStream.ready = none
      /\ ~FreshStream.exhausted /\ ~FreshStream.topology /\ ~FreshStream.sharded
  BY <1>5
<1> QED BY <1>2, <1>3, <1>6, <1>7 DEF Untouched

\* The stream an iterator starts with.
LEMMA OpenedStream ==
  ASSUME setup \in Setups, corpus \in Corpora, NEW x, Sound(setup, corpus, x),
         NEW z, z = [Shard(x) EXCEPT !.topology = TRUE]
  PROVE  /\ Sound(setup, corpus, z) /\ z.topology
         /\ \A g \in Nat : Follows(setup, corpus, x, g) => Follows(setup, corpus, z, g)
         /\ Len(z.ready) = Len(x.ready)
<1>0. x \in StreamType
  BY DEF Sound
<1>1. PICK b : b = (x.sharded \/ setup.world > 1)
  OBVIOUS
<1>2. /\ z \in StreamType /\ z.place = x.place /\ z.local = x.local /\ z.buffer = x.buffer
      /\ z.tokens = x.tokens /\ z.ready = x.ready /\ z.exhausted = x.exhausted
      /\ z.topology /\ (z.sharded <=> x.sharded \/ setup.world > 1)
  <2>1. z = [[x EXCEPT !.sharded = x.sharded \/ setup.world > 1] EXCEPT !.topology = TRUE]
    BY DEF Shard
  <2>2. (x.sharded \/ setup.world > 1) \in BOOLEAN
    OBVIOUS
  <2> QED BY <1>0, <2>1, <2>2 DEF StreamType
<1>3. \A g \in Nat : Follows(setup, corpus, x, g) => Follows(setup, corpus, z, g)
  BY <1>2 DEF Follows, Started
<1>4. Sound(setup, corpus, z)
  <2>1. CASE x.topology
    <3>1. z.sharded <=> x.sharded
      BY <1>2, <2>1 DEF Sound
    <3>2. StrideIn(setup, z) = StrideIn(setup, x)
      BY <3>1 DEF StrideIn
    <3>3. z.sharded <=> setup.world > 1
      BY <2>1, <3>1 DEF Sound
    <3> QED BY <1>2, <3>2, <3>3 DEF Sound
  <2>2. CASE ~x.topology
    <3>1. x = FreshStream
      BY <2>2 DEF Sound
    <3>2. Untouched(setup, x) /\ ~x.sharded
      BY <3>1, FreshUntouched
    <3>3. z.sharded <=> setup.world > 1
      BY <1>2, <3>2
    <3>4. Untouched(setup, z)
      BY <1>2, <3>2, <3>3 DEF Untouched
    <3> QED BY <3>4, UntouchedFollows
  <2> QED BY <2>1, <2>2
<1> QED BY <1>2, <1>3, <1>4

\* The stream's validators accept it.
LEMMA StreamAccepted ==
  ASSUME setup \in Setups, corpus \in Corpora, NEW x, Sound(setup, corpus, x)
  PROVE  StreamAccepts(x)
<1>1. PlaceAccepted(x.place)
  BY PlaceTaken
<1>2. x.sharded = Prepared(x).sharded
  <2>1. FreshStream \in StreamType /\ ~FreshStream.sharded
    BY FreshUntouched DEF Untouched
  <2>2. x.sharded \in BOOLEAN
    BY DEF Sound, StreamType
  <2>3. CASE x.topology
    <3>1. x.sharded <=> setup.world > 1
      BY <2>3 DEF Sound
    <3>2. Shard(FreshStream).sharded = (FreshStream.sharded \/ setup.world > 1)
      BY <2>1 DEF Shard, StreamType
    <3>3. Prepared(x).sharded = (FreshStream.sharded \/ setup.world > 1)
      BY <2>3, <3>2 DEF Prepared
    <3> QED BY <2>1, <2>2, <3>1, <3>3
  <2>4. CASE ~x.topology
    <3>1. x = FreshStream
      BY <2>4 DEF Sound
    <3> QED BY <2>4, <3>1 DEF Prepared
  <2> QED BY <2>3, <2>4
<1>3. PackerAccepts(x)
  <2>1. Holdable(setup, corpus, x.buffer, x.tokens)
    BY DEF Sound
  <2>2. setup.packs => \A i \in DOMAIN x.buffer : LengthOf(x.buffer[i]) <= setup.maxLength
    BY DEF Sound, LengthOf, LengthIn
  <2>3. TokensOf(x.buffer) = TokensIn(corpus, x.buffer)
    BY DEF TokensOf, TokensIn, LengthOf, LengthIn
  <2>4. AtLimit(x.buffer) <=> Limited(setup, x.buffer)
    BY DEF AtLimit, Limited
  <2> QED BY <2>1, <2>2, <2>3, <2>4 DEF PackerAccepts, Holdable
<1> QED BY <1>1, <1>2, <1>3 DEF StreamAccepts, SourceAccepts

-----------------------------------------------------------------------------
(* What was delivered, and the loader's counts of it.                      *)

Sizes(d) == [i \in DOMAIN d |-> Len(d[i])]

LEMMA BatchSize ==
  ASSUME NEW b \in BatchType
  PROVE  Len(b) \in Nat \ {0}
BY DEF BatchType

LEMMA GivenNothing ==
  ASSUME NEW s, NEW c, Shape(s, c)
  PROVE  Given(s, c, << >>, 0, 0)
<1>1. /\ << >> \in Seq(BatchType) /\ Len(<< >>) = 0 /\ DOMAIN << >> = {}
      /\ MaxBatches \in Nat /\ s.batchSize \in Nat
  BY DEF Shape
<1>2. Total([i \in DOMAIN << >> |-> Len(<< >>[i])], DOMAIN << >>) = 0
  BY <1>1, EmptyTotal
<1>3. 0 * s.batchSize = 0
  BY <1>1
<1> QED BY <1>1, <1>2, <1>3 DEF Given

LEMMA GivenNext ==
  ASSUME NEW s, NEW c, Shape(s, c), NEW d, NEW n, NEW k, Given(s, c, d, n, k),
         Len(d) < MaxBatches, NEW b \in BatchType, Len(b) <= s.batchSize,
         b = BatchOf(s, PackEnds(s, c), Len(d) + 1)
  PROVE  Given(s, c, Append(d, b), n + 1, k + Len(b))
<1> DEFINE m == Len(d)
           w == Append(d, b)
           v == [i \in DOMAIN d |-> Len(d[i])]
           u == [i \in DOMAIN w |-> Len(w[i])]
<1>1. /\ d \in Seq(BatchType) /\ m \in Nat /\ n = m /\ DOMAIN d = 1 .. m
      /\ \A i \in 1 .. m : d[i] = BatchOf(s, PackEnds(s, c), i) /\ d[i] \in BatchType
      /\ k = Total(v, 1 .. m) /\ k \in Nat /\ m <= k /\ k <= m * s.batchSize
  BY DEF Given
<1>2. /\ w \in Seq(BatchType) /\ Len(w) = m + 1 /\ DOMAIN w = 1 .. m + 1
      /\ w[m + 1] = b /\ \A i \in 1 .. m : w[i] = d[i]
  BY <1>1
<1>3. s.batchSize \in Nat /\ MaxBatches \in Nat /\ Len(b) \in Nat \ {0} /\ m < MaxBatches
  BY BatchSize DEF Shape
<1>4. b = BatchOf(s, PackEnds(s, c), m + 1)
  OBVIOUS
<1>5. /\ \A i \in 1 .. m + 1 : u[i] = Len(w[i])
      /\ \A i \in 1 .. m : v[i] = Len(d[i])
  BY <1>1, <1>2
<1>6. Given(s, c, w, n + 1, k + Len(b)) <=>
        /\ w \in Seq(BatchType) /\ Len(w) <= MaxBatches
        /\ \A i \in 1 .. m + 1 : w[i] = BatchOf(s, PackEnds(s, c), i)
        /\ n + 1 = Len(w)
        /\ k + Len(b) = Total(u, 1 .. m + 1)
        /\ k + Len(b) \in Nat /\ Len(w) <= k + Len(b)
        /\ k + Len(b) <= Len(w) * s.batchSize
  BY <1>2 DEF Given
<1> HIDE DEF m, w, v, u
<1>7. \A i \in 1 .. m + 1 : w[i] \in BatchType /\ w[i] = BatchOf(s, PackEnds(s, c), i)
  BY <1>1, <1>2, <1>4
<1>8. \A i \in 1 .. m + 1 : u[i] \in Nat \ {0}
  BY <1>5, <1>7, BatchSize
<1>9. Total(u, 1 .. m + 1) = Total(u, 1 .. m) + u[m + 1]
  <2>1. 1 \in Int /\ m \in Int /\ 1 <= m + 1
    BY <1>1
  <2> QED BY <1>8, <2>1, NextTotal
<1>10. Total(u, 1 .. m) = Total(v, 1 .. m)
  <2>1. IsFiniteSet(1 .. m)
    BY <1>1, FS_Interval
  <2>2. \A i \in 1 .. m : u[i] = v[i]
    BY <1>1, <1>2, <1>5
  <2>3. SumOf(u, 1 .. m) = SumOf(v, 1 .. m)
    BY <2>1, <2>2, SumSame
  <2> QED BY <2>3, TotalIsSum
<1>11. u[m + 1] = Len(b)
  <2>1. m + 1 \in 1 .. m + 1
    BY <1>1
  <2> QED BY <1>2, <1>5, <2>1
<1>12. k + Len(b) = Total(u, 1 .. m + 1)
  BY <1>1, <1>9, <1>10, <1>11
<1>13. /\ k + Len(b) \in Nat /\ Len(w) <= k + Len(b) /\ Len(w) <= MaxBatches
       /\ n + 1 = Len(w)
  BY <1>1, <1>2, <1>3
<1>14. k + Len(b) <= Len(w) * s.batchSize
  <2>1. PICK p : p = m * s.batchSize
    OBVIOUS
  <2>2. p \in Nat /\ (m + 1) * s.batchSize = p + s.batchSize
    BY <1>1, <1>3, <2>1
  <2>3. k + Len(b) <= p + s.batchSize
    BY <1>1, <1>3, <2>1, <2>2
  <2> QED BY <1>2, <2>2, <2>3
<1> QED BY <1>2, <1>6, <1>7, <1>12, <1>13, <1>14 DEF w

\* StatefulBatchLoader's validator accepts such counts.
LEMMA CountsAccepted ==
  ASSUME setup \in Setups, corpus \in Corpora, NEW d, NEW t,
         Given(setup, corpus, d, t.batches, t.samples),
         t.exhausted = t.upstream.finished
  PROVE  LoaderAccepts(t)
<1>1. /\ t.batches = Len(d) /\ Len(d) \in Nat /\ t.samples \in Nat
      /\ Len(d) <= t.samples /\ t.samples <= Len(d) * setup.batchSize
  BY DEF Given
<1>2. setup.batchSize \in Nat
  BY Shaped DEF Shape
<1>3. PICK n, k : n = t.batches /\ k = t.samples
  OBVIOUS
<1>4. n \in Nat /\ k \in Nat /\ n <= k /\ k <= n * setup.batchSize
  BY <1>1, <1>3
<1>5. n = 0 => k = 0
  BY <1>2, <1>4
<1>6. k = 0 => n = 0
  BY <1>4
<1> QED BY <1>3, <1>4, <1>5, <1>6 DEF LoaderAccepts

(* TorchData's account of one more batch.                                  *)
LEMMA OpenAccount ==
  ASSUME NEW s, NEW c, NEW t \in UpstreamType, NEW n \in Nat, NEW k \in Nat,
         t.behind = k, k <= n, k < s.snapshotEvery, ~t.finished,
         Sound(s, c, t.snapshot), Follows(s, c, t.snapshot, (n - k) * s.batchSize)
  PROVE  Accounts(s, c, t, n)
BY DEF Accounts

Closed(u, a) == [u EXCEPT !.snapshot = a, !.behind = 0, !.finished = TRUE]

LEMMA ClosedAccount ==
  ASSUME NEW u \in UpstreamType, NEW a \in StreamType, NEW t, t = Closed(u, a)
  PROVE  t \in UpstreamType /\ t.snapshot = a /\ t.behind = 0 /\ t.finished
BY DEF Closed, UpstreamType

LEMMA TakenFacts ==
  ASSUME NEW s, NEW c, Shape(s, c), s = setup, NEW n \in Nat, NEW item,
         Accounts(s, c, upstream, n), ~upstream.finished,
         Produced(s, c, item, n + 1), item.kind = "batch"
  PROVE  Accounts(s, c, Taken(item), n + 1) /\ ~Taken(item).finished
<1>1. /\ Sound(s, c, item.after) /\ Follows(s, c, item.after, (n + 1) * s.batchSize)
  BY DEF Produced
<1>2. item.after \in StreamType
  BY <1>1 DEF Sound
<1>3. PICK a : a = item.after
  OBVIOUS
<1>4. PICK u : u = upstream
  OBVIOUS
<1>5. /\ u \in UpstreamType /\ u.behind <= n /\ u.behind < s.snapshotEvery
      /\ Sound(s, c, u.snapshot) /\ ~u.finished
      /\ Follows(s, c, u.snapshot, (n - u.behind) * s.batchSize)
  BY <1>4 DEF Accounts
<1>6. u.behind \in Nat /\ s.snapshotEvery \in Nat \ {0}
  BY <1>5 DEF UpstreamType, Shape
<1>7. CASE setup.prefetch = 0 \/ upstream.behind + 1 >= setup.snapshotEvery
  <2>1. PICK t : t = Taken(item)
    OBVIOUS
  <2>2. t = [u EXCEPT !.snapshot = a, !.behind = 0]
    BY <1>3, <1>4, <1>7, <2>1 DEF Taken
  <2>3. t \in UpstreamType /\ t.snapshot = a /\ t.behind = 0 /\ ~t.finished
    BY <1>2, <1>3, <1>5, <2>2 DEF UpstreamType
  <2>4. 0 <= n + 1 /\ 0 < s.snapshotEvery /\ n + 1 - 0 = n + 1 /\ n + 1 \in Nat
    BY <1>6
  <2>6. Follows(s, c, t.snapshot, (n + 1 - 0) * s.batchSize)
    BY <1>1, <1>3, <2>3, <2>4
  <2>7. Sound(s, c, t.snapshot)
    BY <1>1, <1>3, <2>3
  <2>8. Accounts(s, c, t, n + 1)
    BY <2>3, <2>4, <2>6, <2>7, OpenAccount
  <2> QED BY <2>1, <2>3, <2>8
<1>8. CASE ~(setup.prefetch = 0 \/ upstream.behind + 1 >= setup.snapshotEvery)
  <2>1. PICK t : t = Taken(item)
    OBVIOUS
  <2>2. PICK k : k = u.behind + 1
    OBVIOUS
  <2>3. k \in Nat /\ k <= n + 1 /\ k < s.snapshotEvery /\ n + 1 - k = n - u.behind
    BY <1>4, <1>5, <1>6, <1>8, <2>2
  <2>4. t = [u EXCEPT !.behind = k]
    BY <1>4, <1>8, <2>1, <2>2 DEF Taken
  <2>5. t \in UpstreamType /\ t.snapshot = u.snapshot /\ t.behind = k /\ ~t.finished
    BY <1>5, <2>3, <2>4 DEF UpstreamType
  <2>6. Follows(s, c, t.snapshot, (n + 1 - k) * s.batchSize)
    BY <1>5, <2>3, <2>5
  <2>7. Sound(s, c, t.snapshot)
    BY <1>5, <2>5
  <2>8. t \in UpstreamType /\ ~t.finished /\ t.behind = k /\ n + 1 \in Nat
    BY <2>5
  <2>9. Accounts(s, c, t, n + 1)
    BY <2>3, <2>6, <2>7, <2>8, OpenAccount
  <2> QED BY <2>1, <2>5, <2>9
<1> QED BY <1>7, <1>8

\* ... and of the end.
LEMMA EndTaken ==
  ASSUME NEW s, NEW c, Shape(s, c), NEW n \in Nat, NEW item, NEW u,
         Accounts(s, c, u, n), Produced(s, c, item, n + 1), item.kind = "end",
         NEW t, t = Closed(u, item.after)
  PROVE  Accounts(s, c, t, n) /\ t.finished
<1>1. Sound(s, c, item.after) /\ EndReached(s, c, n)
  <2>1. n + 1 - 1 = n
    OBVIOUS
  <2>2. Sound(s, c, item.after) /\ EndReached(s, c, n + 1 - 1)
    BY DEF Produced
  <2> QED BY <2>1, <2>2
<1>2. PICK a : a = item.after
  OBVIOUS
<1>3. a \in StreamType /\ u \in UpstreamType /\ s.snapshotEvery \in Nat \ {0}
  BY <1>1, <1>2 DEF Sound, Accounts, Shape
<1>4. t = Closed(u, a)
  BY <1>2
<1>5. t \in UpstreamType /\ t.snapshot = a /\ t.behind = 0 /\ t.finished
  BY <1>3, <1>4, ClosedAccount
<1>6. t.behind <= n /\ t.behind < s.snapshotEvery
  BY <1>3, <1>5
<1>7. Sound(s, c, t.snapshot)
  BY <1>1, <1>2, <1>5
<1> QED BY <1>1, <1>5, <1>6, <1>7 DEF Accounts

-----------------------------------------------------------------------------
(* The invariant is preserved, one lemma for each action.                  *)

LEMMA Unchanged ==
  ASSUME IInv, UNCHANGED vars
  PROVE  IInv'
<1> USE DEF vars
<1>1. Configured' /\ Controls'
  BY DEF IInv, Configured, Controls
<1>2. LoaderInv'
  BY DEF IInv, LoaderInv, StateDict, TakenSoFar
<1>3. QueueInv'
  BY DEF IInv, QueueInv, TakenSoFar
<1>4. StreamInv'
  BY DEF IInv, StreamInv, TakenSoFar
<1>5. SavedInv'
  BY DEF IInv, SavedInv
<1> QED BY <1>1, <1>2, <1>3, <1>4, <1>5 DEF IInv

LEMMA SavedKept ==
  ASSUME SavedInv, UNCHANGED <<corpus, setup, saved>>
  PROVE  SavedInv'
BY DEF SavedInv

LEMMA LoaderKept ==
  ASSUME LoaderInv, UNCHANGED <<corpus, setup, upstream, replay, loader, delivered>>
  PROVE  LoaderInv'
BY DEF LoaderInv, StateDict, TakenSoFar

LEMMA QueueKept ==
  ASSUME QueueInv, UNCHANGED <<corpus, setup, iterator, queue, replay, delivered>>
  PROVE  QueueInv'
BY DEF QueueInv, TakenSoFar

LEMMA StreamKept ==
  ASSUME StreamInv, UNCHANGED <<corpus, setup, iterator, stream, queue, replay, delivered>>
  PROVE  StreamInv'
BY DEF StreamInv, TakenSoFar

LEMMA RequestStep ==
  ASSUME IInv, Request
  PROVE  IInv'
<1>1. Configured' /\ Controls'
  BY DEF IInv, Configured, Controls, Request
<1>2. LoaderInv' /\ QueueInv' /\ StreamInv' /\ SavedInv'
  BY LoaderKept, QueueKept, StreamKept, SavedKept DEF IInv, Request
<1> QED BY <1>1, <1>2 DEF IInv

LEMMA SaveStep ==
  ASSUME IInv, Save
  PROVE  IInv'
<1>1. Configured' /\ Controls'
  BY DEF IInv, Configured, Controls, Save, Process
<1>2. LoaderInv' /\ QueueInv' /\ StreamInv'
  BY LoaderKept, QueueKept, StreamKept DEF IInv, Save, Process
<1>3. SavedInv'
  <2>1. PICK d : d = StateDict
    OBVIOUS
  <2>2. PICK n : n = [state |-> d, delivered |-> delivered]
    OBVIOUS
  <2>3. saved' = n /\ setup' = setup /\ corpus' = corpus
    BY <2>1, <2>2 DEF Save
  <2>4. n.state = d /\ n.delivered = delivered
    BY <2>2
  <2>5. /\ d.batches = loader.batches /\ d.samples = loader.samples
        /\ d.exhausted = loader.exhausted
        /\ d.upstream = IF loader.pending = None THEN upstream ELSE loader.pending
    BY <2>1 DEF StateDict
  <2>6. replay = 0
    BY DEF IInv, Controls, Save
  <2>7. /\ Given(setup, corpus, delivered, d.batches, d.samples)
        /\ Accounts(setup, corpus, d.upstream, Len(delivered) - 0)
        /\ d.exhausted = d.upstream.finished
    BY <2>1, <2>5, <2>6 DEF IInv, LoaderInv, TakenSoFar
  <2>8. Len(delivered) \in Nat /\ delivered \in Seq(BatchType)
    BY <2>7 DEF Given
  <2>9. Accounts(setup, corpus, d.upstream, Len(delivered))
    BY <2>7, <2>8
  <2>10. n \in SavedType
    <3>1. d.upstream \in UpstreamType
      BY <2>7 DEF Accounts
    <3>2. /\ loader.batches \in Nat /\ loader.samples \in Nat
          /\ loader.exhausted \in BOOLEAN
      BY DEF IInv, LoaderInv, LoaderType
    <3>3. PICK u, b, k, e : /\ u = d.upstream /\ b = loader.batches
                            /\ k = loader.samples /\ e = loader.exhausted
      OBVIOUS
    <3>4. d = [upstream |-> u, batches |-> b, samples |-> k, exhausted |-> e]
      BY <2>1, <2>5, <3>3 DEF StateDict
    <3> QED BY <2>2, <2>8, <3>1, <3>2, <3>3, <3>4 DEF SavedType
  <2> QED BY <2>3, <2>4, <2>7, <2>9, <2>10 DEF SavedInv
<1> QED BY <1>1, <1>2, <1>3 DEF IInv

(* What holds while the iterator produces.                                 *)
LEMMA TakenNatural ==
  ASSUME IInv
  PROVE  /\ TakenSoFar \in Nat /\ Len(queue) \in Nat /\ Len(delivered) \in Nat
         /\ replay \in Nat /\ TakenSoFar = Len(delivered) - replay
         /\ setup \in Setups /\ corpus \in Corpora /\ Shape(setup, corpus)
         /\ setup.batchSize \in Nat \ {0} /\ setup.snapshotEvery \in Nat \ {0}
<1>1. setup \in Setups /\ corpus \in Corpora
  BY DEF IInv, Configured
<1>2. Shape(setup, corpus)
  BY <1>1, Shaped
<1>3. setup.batchSize \in Nat \ {0} /\ setup.snapshotEvery \in Nat \ {0}
  BY <1>2 DEF Shape
<1>4. queue \in Seq(ItemType)
  BY DEF IInv, QueueInv
<1>5. delivered \in Seq(BatchType)
  BY DEF IInv, LoaderInv, Given
<1>6. replay \in 0 .. setup.snapshotEvery - 1 /\ replay <= Len(delivered)
  BY DEF IInv, Controls
<1> QED BY <1>1, <1>2, <1>3, <1>4, <1>5, <1>6 DEF TakenSoFar

LEMMA WorkingFacts ==
  ASSUME IInv, Working
  PROVE  /\ iterator = "open" /\ Len(queue) + 1 <= Ahead(setup)
         /\ stream.topology /\ Sound(setup, corpus, stream)
         /\ Follows(setup, corpus, stream, (TakenSoFar + Len(queue)) * setup.batchSize)
         /\ (TakenSoFar + Len(queue)) * setup.batchSize \in Nat
<1>1. iterator = "open"
  BY DEF Working
<1>2. Len(queue) + 1 <= Ahead(setup)
  <2>1. CASE setup.prefetch = 0
    <3>1. Len(queue) = 0
      BY <2>1 DEF Working
    <3> QED BY <2>1, <3>1 DEF Ahead
  <2>2. CASE setup.prefetch # 0
    <3>1. Len(queue) < setup.prefetch
      BY <2>2 DEF Working
    <3>2. setup.prefetch \in Nat /\ Len(queue) \in Nat
      BY TakenNatural DEF Shape
    <3> QED BY <2>2, <3>1, <3>2 DEF Ahead
  <2> QED BY <2>1, <2>2
<1>3. /\ stream.topology /\ Sound(setup, corpus, stream)
      /\ Follows(setup, corpus, stream, (TakenSoFar + Len(queue)) * setup.batchSize)
  BY <1>1 DEF IInv, StreamInv
<1>4. (TakenSoFar + Len(queue)) * setup.batchSize \in Nat
  <2>1. TakenSoFar + Len(queue) \in Nat /\ setup.batchSize \in Nat
    BY TakenNatural
  <2> HIDE DEF TakenSoFar
  <2> QED BY <2>1
<1> QED BY <1>1, <1>2, <1>3, <1>4

\* One more item was produced.
LEMMA QueueExtended ==
  ASSUME IInv, NEW item, queue' = Append(queue, item), iterator = "open",
         UNCHANGED <<corpus, setup, replay, delivered>>,
         Produced(setup, corpus, item, TakenSoFar + (Len(queue) + 1)),
         item.kind = "batch" => Len(queue) + 1 <= Ahead(setup),
         iterator' = "open" => item.kind = "batch"
  PROVE  QueueInv' /\ Len(queue') = Len(queue) + 1
<1> DEFINE n == Len(queue)
           q == Append(queue, item)
<1>1. queue \in Seq(ItemType) /\ n \in Nat /\ item \in ItemType
  BY DEF IInv, QueueInv, Produced
<1>2. /\ q \in Seq(ItemType) /\ Len(q) = n + 1 /\ q[n + 1] = item
      /\ \A i \in 1 .. n : q[i] = queue[i]
  BY <1>1
<1>3. \A i \in 1 .. n : /\ Produced(setup, corpus, queue[i], TakenSoFar + i)
                        /\ queue[i].kind = "batch" => i <= Ahead(setup)
                        /\ queue[i].kind = "batch"
  BY DEF IInv, QueueInv
<1>4. /\ Produced(setup, corpus, item, TakenSoFar + (n + 1))
      /\ item.kind = "batch" => n + 1 <= Ahead(setup)
  OBVIOUS
<1> HIDE DEF n, q
<1>5. ASSUME NEW i \in 1 .. n + 1
      PROVE  /\ Produced(setup, corpus, q[i], TakenSoFar + i)
             /\ q[i].kind = "batch" => i <= Ahead(setup)
             /\ i < n + 1 \/ iterator' = "open" => q[i].kind = "batch"
  <2>1. CASE i \in 1 .. n
    <3>1. q[i] = queue[i]
      BY <1>2, <2>1
    <3> QED BY <1>3, <2>1, <3>1
  <2>2. CASE i = n + 1
    <3>1. q[i] = item /\ ~(i < n + 1)
      BY <1>1, <1>2, <2>2
    <3> QED BY <1>4, <2>2, <3>1
  <2> QED BY <1>1, <2>1, <2>2
<1>6. TakenSoFar' = TakenSoFar
  BY DEF TakenSoFar
<1>7. queue' = q /\ setup' = setup /\ corpus' = corpus
  BY DEF q
<1>8. QueueInv'
  <2> HIDE DEF TakenSoFar
  <2>1. queue' \in Seq(ItemType)
    BY <1>2, <1>7
  <2>2. Len(queue') = n + 1
    BY <1>2, <1>7
  <2>3. \A i \in 1 .. Len(queue') :
           /\ Produced(setup', corpus', queue'[i], TakenSoFar' + i)
           /\ queue'[i].kind = "batch" => i <= Ahead(setup')
           /\ i < Len(queue') \/ iterator' = "open" => queue'[i].kind = "batch"
    BY <1>5, <1>6, <1>7, <2>2
  <2> QED BY <2>1, <2>3 DEF QueueInv
<1> QED BY <1>2, <1>7, <1>8 DEF n

\* The stream moved.
LEMMA StreamMoved ==
  ASSUME IInv, NEW z, stream' = z, setup' = setup, corpus' = corpus,
         Sound(setup, corpus, z), z.topology, Len(z.ready) <= setup.batchSize + 1,
         iterator' = "open" => Follows(setup, corpus, z,
                                (TakenSoFar' + Len(queue')) * setup.batchSize)
  PROVE  StreamInv'
<1>1. z \in StreamType
  BY DEF Sound
<1> QED BY <1>1 DEF StreamInv

\* The trainer's side is left alone.
LEMMA TrainerKept ==
  ASSUME IInv, StreamOnly, iterator = "open", iterator' \in {"open", "returned"}
  PROVE  Configured' /\ Controls' /\ LoaderInv' /\ SavedInv' /\ TakenSoFar' = TakenSoFar
<1>1. Configured' /\ Controls'
  BY DEF IInv, Configured, Controls, StreamOnly
<1>2. LoaderInv' /\ SavedInv'
  BY LoaderKept, SavedKept DEF IInv, StreamOnly
<1>3. TakenSoFar' = TakenSoFar
  BY DEF TakenSoFar, StreamOnly
<1> QED BY <1>1, <1>2, <1>3

LEMMA ReadSampleStep ==
  ASSUME IInv, ReadSample
  PROVE  IInv'
<1>1. /\ Working /\ Filling(stream) /\ HasNext(stream) /\ Acceptable(NextSample(stream))
      /\ stream' = Add(SampleRead(stream), NextSample(stream))
      /\ UNCHANGED <<iterator, queue>> /\ StreamOnly
  BY DEF ReadSample
<1>2. PICK z : z = Add(SampleRead(stream), NextSample(stream))
  OBVIOUS
<1>3. PICK g : g = (TakenSoFar + Len(queue)) * setup.batchSize
  OBVIOUS
<1>4. /\ g \in Nat /\ iterator = "open" /\ stream.topology
      /\ Sound(setup, corpus, stream) /\ Follows(setup, corpus, stream, g)
  BY <1>1, <1>3, WorkingFacts
<1>5. setup \in Setups /\ corpus \in Corpora
  BY TakenNatural
<1>6. Sound(setup, corpus, z) /\ Follows(setup, corpus, z, g) /\ z.topology
  BY <1>1, <1>2, <1>4, <1>5, AddFacts
<1>7. Configured' /\ Controls' /\ LoaderInv' /\ SavedInv' /\ TakenSoFar' = TakenSoFar
  BY <1>1, <1>4, TrainerKept
<1>8. QueueInv'
  BY <1>1, QueueKept DEF IInv, StreamOnly
<1>9. StreamInv'
  <2>1. stream' = z /\ setup' = setup /\ corpus' = corpus /\ queue' = queue
    BY <1>1, <1>2 DEF StreamOnly
  <2>2. Follows(setup, corpus, z, (TakenSoFar' + Len(queue')) * setup.batchSize)
    <3> HIDE DEF TakenSoFar
    <3> QED BY <1>3, <1>6, <1>7, <2>1
  <2>3. Len(z.ready) <= setup.batchSize + 1
    BY <1>6 DEF Follows
  <2> QED BY <1>6, <2>1, <2>2, <2>3, StreamMoved
<1> QED BY <1>7, <1>8, <1>9 DEF IInv

LEMMA ReachEndStep ==
  ASSUME IInv, ReachEnd
  PROVE  IInv'
<1>1. /\ Working /\ Filling(stream) /\ ~HasNext(stream)
      /\ stream' = Flush([stream EXCEPT !.exhausted = TRUE])
      /\ UNCHANGED <<iterator, queue>> /\ StreamOnly
  BY DEF ReachEnd
<1>2. PICK z : z = Flush([stream EXCEPT !.exhausted = TRUE])
  OBVIOUS
<1>3. PICK g : g = (TakenSoFar + Len(queue)) * setup.batchSize
  OBVIOUS
<1>4. /\ g \in Nat /\ iterator = "open" /\ stream.topology
      /\ Sound(setup, corpus, stream) /\ Follows(setup, corpus, stream, g)
  BY <1>1, <1>3, WorkingFacts
<1>5. setup \in Setups /\ corpus \in Corpora
  BY TakenNatural
<1>6. Sound(setup, corpus, z) /\ Follows(setup, corpus, z, g) /\ z.topology
  BY <1>1, <1>2, <1>4, <1>5, FlushFacts
<1>7. Configured' /\ Controls' /\ LoaderInv' /\ SavedInv' /\ TakenSoFar' = TakenSoFar
  BY <1>1, <1>4, TrainerKept
<1>8. QueueInv'
  BY <1>1, QueueKept DEF IInv, StreamOnly
<1>9. StreamInv'
  <2>1. stream' = z /\ setup' = setup /\ corpus' = corpus /\ queue' = queue
    BY <1>1, <1>2 DEF StreamOnly
  <2>2. Follows(setup, corpus, z, (TakenSoFar' + Len(queue')) * setup.batchSize)
    <3> HIDE DEF TakenSoFar
    <3> QED BY <1>3, <1>6, <1>7, <2>1
  <2>3. Len(z.ready) <= setup.batchSize + 1
    BY <1>6 DEF Follows
  <2> QED BY <1>6, <2>1, <2>2, <2>3, StreamMoved
<1> QED BY <1>7, <1>8, <1>9 DEF IInv

LEMMA RejectSampleStep ==
  ASSUME IInv, RejectSample
  PROVE  IInv'
<1>1. /\ Working /\ stream' = SampleRead(stream) /\ Filling(stream)
      /\ queue' = Append(queue, [kind |-> "error"]) /\ iterator' = "returned"
      /\ StreamOnly
  BY DEF RejectSample
<1>2. iterator = "open" /\ stream.topology /\ Sound(setup, corpus, stream)
  BY <1>1, WorkingFacts
<1>3. setup \in Setups /\ corpus \in Corpora
  BY TakenNatural
<1>4. Configured' /\ Controls' /\ LoaderInv' /\ SavedInv' /\ TakenSoFar' = TakenSoFar
  BY <1>1, <1>2, TrainerKept
<1>5. QueueInv'
  <2>1. PICK item : item = [kind |-> "error"]
    OBVIOUS
  <2>2. item \in ItemType /\ item.kind = "error"
    BY <2>1 DEF ItemType
  <2>3. \A i : Produced(setup, corpus, item, i)
    BY <2>2 DEF Produced
  <2>4. UNCHANGED <<corpus, setup, replay, delivered>>
    BY <1>1 DEF StreamOnly
  <2>5. item.kind # "batch" /\ iterator' # "open"
    BY <1>1, <2>2
  <2> QED BY <1>1, <1>2, <2>1, <2>3, <2>4, <2>5, QueueExtended
<1>6. StreamInv'
  <2>1. PICK z, p, k : z = SampleRead(stream) /\ p = z.place /\ k = stream.local + 1
    OBVIOUS
  <2>2. z = [stream EXCEPT !.place = p, !.local = k] /\ p \in PlaceType
    BY <1>2, <1>3, <2>1, SampleFacts
  <2>3. stream \in StreamType
    BY <1>2 DEF Sound
  <2>4. k \in Nat
    BY <2>1, <2>3 DEF StreamType
  <2>5. z \in StreamType /\ z.ready = stream.ready
    BY <2>2, <2>3, <2>4 DEF StreamType, PlaceType
  <2>6. stream' = z /\ setup' = setup /\ iterator' # "open"
    BY <1>1, <2>1 DEF StreamOnly
  <2>7. Len(stream.ready) <= setup.batchSize + 1
    BY DEF IInv, StreamInv
  <2> QED BY <2>5, <2>6, <2>7 DEF StreamInv
<1> QED BY <1>4, <1>5, <1>6 DEF IInv

LEMMA NotFilling ==
  ASSUME IInv, Working, ~Filling(stream)
  PROVE  /\ Len(stream.ready) < setup.batchSize => stream.exhausted
         /\ stream.ready # << >> => CanCut(setup, stream)
<1>1. stream \in StreamType
  BY WorkingFacts DEF Sound
<1> QED BY <1>1 DEF Filling, StreamType, CanCut

LEMMA CutBatchStep ==
  ASSUME IInv, CutBatch
  PROVE  IInv'
<1>1. PICK n : n = CutSize(setup, stream)
  OBVIOUS
<1>2. PICK z : z = CutRest(stream, n)
  OBVIOUS
<1>3. PICK batch : batch = CutFront(stream, n)
  OBVIOUS
<1>4. PICK item : item = [kind |-> "batch", batch |-> batch, after |-> z]
  OBVIOUS
<1>5. /\ Working /\ ~Filling(stream) /\ stream.ready # << >>
      /\ stream' = z /\ queue' = Append(queue, item)
      /\ iterator' = iterator /\ StreamOnly
  BY <1>1, <1>2, <1>3, <1>4 DEF CutBatch, CutSize, CutRest, CutFront
<1>6. PICK m : m = TakenSoFar + Len(queue)
  OBVIOUS
<1>7. /\ iterator = "open" /\ Len(queue) + 1 <= Ahead(setup) /\ stream.topology
      /\ Sound(setup, corpus, stream)
      /\ Follows(setup, corpus, stream, m * setup.batchSize)
  BY <1>5, <1>6, WorkingFacts
<1>8. /\ Shape(setup, corpus) /\ m \in Nat /\ m + 1 = TakenSoFar + (Len(queue) + 1)
      /\ setup.batchSize \in Nat
  <2>1. TakenSoFar \in Nat /\ Len(queue) \in Nat
    BY TakenNatural
  <2> HIDE DEF TakenSoFar
  <2>2. m \in Nat /\ m + 1 = TakenSoFar + (Len(queue) + 1)
    BY <1>6, <2>1
  <2> QED BY <2>2, TakenNatural
<1>9. CanCut(setup, stream)
  BY <1>5, NotFilling
<1>10. /\ batch = BatchOf(setup, PackEnds(setup, corpus), m + 1) /\ batch \in BatchType
       /\ Len(batch) <= setup.batchSize
       /\ Sound(setup, corpus, z) /\ Follows(setup, corpus, z, (m + 1) * setup.batchSize)
       /\ z.topology
  BY <1>1, <1>2, <1>3, <1>7, <1>8, <1>9, CutFacts
<1>11. Configured' /\ Controls' /\ LoaderInv' /\ SavedInv' /\ TakenSoFar' = TakenSoFar
  BY <1>5, <1>7, TrainerKept
<1>12. item \in ItemType /\ item.kind = "batch" /\ item.batch = batch /\ item.after = z
  <2>1. z \in StreamType
    BY <1>10 DEF Sound
  <2> QED BY <1>4, <1>10, <2>1 DEF ItemType
<1>13. Produced(setup, corpus, item, m + 1)
  BY <1>10, <1>12 DEF Produced
<1>14. QueueInv' /\ Len(queue') = Len(queue) + 1
  <2>1. Produced(setup, corpus, item, TakenSoFar + (Len(queue) + 1))
    BY <1>8, <1>13
  <2>2. UNCHANGED <<corpus, setup, replay, delivered>>
    BY <1>5 DEF StreamOnly
  <2> QED BY <1>5, <1>7, <1>12, <2>1, <2>2, QueueExtended
<1>15. StreamInv'
  <2>1. setup' = setup /\ corpus' = corpus
    BY <1>5 DEF StreamOnly
  <2>2. TakenSoFar' + Len(queue') = m + 1
    BY <1>8, <1>11, <1>14
  <2>3. Follows(setup, corpus, z, (TakenSoFar' + Len(queue')) * setup.batchSize)
    BY <1>10, <2>2
  <2>4. Len(z.ready) <= setup.batchSize + 1
    BY <1>10 DEF Follows
  <2> QED BY <1>5, <1>10, <2>1, <2>3, <2>4, StreamMoved
<1> QED BY <1>11, <1>14, <1>15 DEF IInv

LEMMA FinishStep ==
  ASSUME IInv, Finish
  PROVE  IInv'
<1>1. PICK z : z = Emptied(stream)
  OBVIOUS
<1>2. PICK item : item = [kind |-> "end", after |-> z]
  OBVIOUS
<1>3. /\ Working /\ ~Filling(stream) /\ Len(stream.ready) < setup.batchSize
      /\ stream.ready = << >> \/ setup.dropLast
      /\ stream' = z /\ queue' = Append(queue, item)
      /\ iterator' = "returned" /\ StreamOnly
  BY <1>1, <1>2 DEF Finish, Emptied
<1>4. PICK m : m = TakenSoFar + Len(queue)
  OBVIOUS
<1>5. /\ iterator = "open" /\ stream.topology /\ Sound(setup, corpus, stream)
      /\ Follows(setup, corpus, stream, m * setup.batchSize)
  BY <1>3, <1>4, WorkingFacts
<1>6. /\ Shape(setup, corpus) /\ m \in Nat /\ setup.batchSize \in Nat
      /\ TakenSoFar + (Len(queue) + 1) - 1 = m
  <2>1. TakenSoFar \in Nat /\ Len(queue) \in Nat
    BY TakenNatural
  <2> HIDE DEF TakenSoFar
  <2>2. m \in Nat /\ TakenSoFar + (Len(queue) + 1) - 1 = m
    BY <1>4, <2>1
  <2> QED BY <2>2, TakenNatural
<1>7. CanFinish(setup, stream)
  BY <1>3, NotFilling DEF CanFinish
<1>8. Sound(setup, corpus, z) /\ z.topology /\ z.ready = << >> /\ EndReached(setup, corpus, m)
  BY <1>1, <1>5, <1>6, <1>7, FinishFacts
<1>9. Configured' /\ Controls' /\ LoaderInv' /\ SavedInv' /\ TakenSoFar' = TakenSoFar
  BY <1>3, <1>5, TrainerKept
<1>10. item \in ItemType /\ item.kind = "end" /\ item.after = z
  <2>1. z \in StreamType
    BY <1>8 DEF Sound
  <2> QED BY <1>2, <2>1 DEF ItemType
<1>11. Produced(setup, corpus, item, TakenSoFar + (Len(queue) + 1))
  <2>1. PICK i : i = TakenSoFar + (Len(queue) + 1)
    OBVIOUS
  <2>2. EndReached(setup, corpus, i - 1)
    <3>1. i - 1 = m
      <4>1. TakenSoFar \in Nat /\ Len(queue) \in Nat
        BY TakenNatural
      <4> HIDE DEF TakenSoFar
      <4> QED BY <1>4, <2>1, <4>1
    <3>2. EndReached(setup, corpus, m)
      BY <1>8
    <3> QED BY <3>1, <3>2
  <2>3. item.kind # "batch" /\ Sound(setup, corpus, item.after)
    BY <1>8, <1>10
  <2>4. Produced(setup, corpus, item, i)
    BY <1>10, <2>2, <2>3 DEF Produced
  <2> QED BY <2>1, <2>4
<1>12. QueueInv'
  <2>1. UNCHANGED <<corpus, setup, replay, delivered>>
    BY <1>3 DEF StreamOnly
  <2>2. item.kind # "batch" /\ iterator' # "open"
    BY <1>3, <1>10
  <2> QED BY <1>3, <1>5, <1>11, <2>1, <2>2, QueueExtended
<1>13. StreamInv'
  <2>1. setup' = setup /\ corpus' = corpus /\ iterator' # "open"
    BY <1>3 DEF StreamOnly
  <2>2. Len(z.ready) <= setup.batchSize + 1
    <3>1. Len(z.ready) = 0
      BY <1>8
    <3> QED BY <1>6, <3>1
  <2> QED BY <1>3, <1>8, <2>1, <2>2, StreamMoved
<1> QED BY <1>9, <1>12, <1>13 DEF IInv

(* A worker that is lost, a crash, and a resume.                           *)

LEMMA WorkerLostStep ==
  ASSUME IInv, WorkerLost
  PROVE  IInv'
<1>1. PICK kept \in 0 .. Len(queue) :
             queue' = Append(SubSeq(queue, 1, kept), [kind |-> "error"])
  BY DEF WorkerLost
<1>2. /\ iterator = "open" /\ iterator' = "returned"
      /\ UNCHANGED <<corpus, setup, stream, upstream, replay, loader, asking,
                     status, saved, delivered>>
  BY DEF WorkerLost
<1>3. Configured' /\ Controls' /\ LoaderInv' /\ SavedInv' /\ TakenSoFar' = TakenSoFar
  <2>2. Configured' /\ Controls'
    BY <1>2 DEF IInv, Configured, Controls
  <2>3. LoaderInv' /\ SavedInv'
    BY <1>2, LoaderKept, SavedKept DEF IInv
  <2> QED BY <1>2, <2>2, <2>3 DEF TakenSoFar
<1>4. StreamInv'
  BY <1>2 DEF IInv, StreamInv
<1>5. QueueInv'
  <2>1. PICK item, q : item = [kind |-> "error"] /\ q = Append(SubSeq(queue, 1, kept), item)
    OBVIOUS
  <2>2. item \in ItemType /\ item.kind = "error"
    BY <2>1 DEF ItemType
  <2>3. \A i : Produced(setup, corpus, item, i)
    BY <2>2 DEF Produced
  <2>4. queue \in Seq(ItemType)
    BY DEF IInv, QueueInv
  <2>5. /\ kept \in Nat /\ q \in Seq(ItemType) /\ Len(q) = kept + 1 /\ q[kept + 1] = item
        /\ \A i \in 1 .. kept : i \in 1 .. Len(queue) /\ q[i] = queue[i]
    <3>1. kept \in Nat /\ kept <= Len(queue) /\ Len(queue) \in Nat
      BY <1>1, <2>4
    <3>2. PICK p : p = SubSeq(queue, 1, kept)
      OBVIOUS
    <3>3. /\ p \in Seq(ItemType) /\ Len(p) = kept
          /\ \A i \in 1 .. kept : i \in 1 .. Len(queue) /\ p[i] = queue[i]
      BY <2>4, <3>1, <3>2
    <3>4. q = Append(p, item)
      BY <2>1, <3>2
    <3> QED BY <2>2, <3>1, <3>3, <3>4
  <2>6. \A i \in 1 .. Len(queue) : /\ Produced(setup, corpus, queue[i], TakenSoFar + i)
                                   /\ queue[i].kind = "batch" => i <= Ahead(setup)
                                   /\ queue[i].kind = "batch"
    BY <1>2 DEF IInv, QueueInv
  <2>7. queue' = q
    BY <1>1, <2>1
  <2>8. ASSUME NEW i \in 1 .. kept + 1
        PROVE  /\ Produced(setup, corpus, q[i], TakenSoFar + i)
               /\ q[i].kind = "batch" => i <= Ahead(setup)
               /\ i < kept + 1 => q[i].kind = "batch"
    <3> HIDE DEF TakenSoFar
    <3>1. CASE i \in 1 .. kept
      <4>1. q[i] = queue[i] /\ i \in 1 .. Len(queue)
        BY <2>5, <3>1
      <4> QED BY <2>6, <4>1
    <3>2. CASE i = kept + 1
      <4>1. q[i] = item /\ ~(i < kept + 1)
        BY <2>5, <3>2
      <4> QED BY <2>2, <2>3, <4>1
    <3> QED BY <2>5, <3>1, <3>2
  <2> HIDE DEF TakenSoFar
  <2>9. /\ Len(queue') = kept + 1 /\ setup' = setup /\ corpus' = corpus
        /\ iterator' # "open"
    BY <1>2, <2>5, <2>7
  <2>10. \A i \in 1 .. Len(queue') :
           /\ Produced(setup', corpus', queue'[i], TakenSoFar' + i)
           /\ queue'[i].kind = "batch" => i <= Ahead(setup')
           /\ i < Len(queue') \/ iterator' = "open" => queue'[i].kind = "batch"
    BY <1>3, <2>7, <2>8, <2>9
  <2> QED BY <2>5, <2>7, <2>10 DEF QueueInv
<1> QED BY <1>3, <1>4, <1>5 DEF IInv

LEMMA FreshAccount ==
  ASSUME setup \in Setups, corpus \in Corpora
  PROVE  /\ Accounts(setup, corpus, FreshUpstream, 0) /\ ~FreshUpstream.finished
         /\ FreshUpstream \in UpstreamType /\ FreshStream \in StreamType
         /\ FreshUpstream.finished = FALSE
<1>1. /\ Sound(setup, corpus, FreshStream) /\ Follows(setup, corpus, FreshStream, 0)
      /\ FreshStream \in StreamType
  BY FreshUntouched, UntouchedFollows DEF Untouched
<1>2. PICK f : f = FreshStream
  OBVIOUS
<1>3. FreshUpstream = [snapshot |-> f, behind |-> 0, finished |-> FALSE]
  BY <1>2 DEF FreshUpstream
<1>4. /\ FreshUpstream \in UpstreamType /\ FreshUpstream.snapshot = f
      /\ FreshUpstream.behind = 0 /\ ~FreshUpstream.finished
      /\ FreshUpstream.finished = FALSE
  BY <1>1, <1>2, <1>3 DEF UpstreamType
<1>5. 0 <= 0 /\ 0 < setup.snapshotEvery /\ (0 - 0) * setup.batchSize = 0 /\ 0 \in Nat
  BY Shaped DEF Shape
<1>6. Follows(setup, corpus, f, (0 - 0) * setup.batchSize)
  BY <1>1, <1>2, <1>5
<1>7. Accounts(setup, corpus, FreshUpstream, 0)
  BY <1>1, <1>2, <1>4, <1>5, <1>6, OpenAccount
<1> QED BY <1>1, <1>4, <1>7

LEMMA NotNone ==
  ASSUME NEW u \in UpstreamType
  PROVE  u # None
<1>1. DOMAIN u = {"snapshot", "behind", "finished"}
  BY DEF UpstreamType
<1>2. DOMAIN None = {"absent"}
  BY DEF None
<1> QED BY <1>1, <1>2

LEMMA FreshLoaderIs ==
  /\ FreshLoader.pending = None /\ FreshLoader.batches = 0 /\ FreshLoader.samples = 0
  /\ FreshLoader.exhausted = FALSE
  /\ FreshLoader \in LoaderType
<1>1. PICK none : none = None
  OBVIOUS
<1>2. FreshLoader = [pending |-> none, batches |-> 0, samples |-> 0, exhausted |-> FALSE]
  BY <1>1 DEF FreshLoader
<1> QED BY <1>1, <1>2 DEF LoaderType

\* A fresh process satisfies the invariant.
FreshTrainer ==
    setup \in Setups /\ corpus \in Corpora /\ FreshProcess /\ delivered = << >>

ProcessInv == Configured /\ Controls /\ LoaderInv /\ QueueInv /\ StreamInv

LEMMA FreshInv == FreshTrainer => ProcessInv
<1> SUFFICES ASSUME setup \in Setups, corpus \in Corpora, FreshProcess,
                    delivered = << >>
             PROVE  Configured /\ Controls /\ LoaderInv /\ QueueInv /\ StreamInv
  BY DEF FreshTrainer, ProcessInv
<1>1. Shape(setup, corpus) /\ setup.snapshotEvery \in Nat \ {0} /\ setup.batchSize \in Nat
  BY Shaped DEF Shape
<1>2. /\ iterator = "absent" /\ stream = FreshStream /\ queue = << >>
      /\ upstream = FreshUpstream /\ replay = 0
      /\ loader = FreshLoader /\ asking = FALSE /\ status = "running"
  BY DEF FreshProcess
<1>3. Len(delivered) = 0 /\ Len(queue) = 0
  BY <1>2
<1>4. Configured
  BY DEF Configured
<1>5. Controls
  <2>1. replay \in 0 .. setup.snapshotEvery - 1 /\ replay <= Len(delivered) /\ ~(replay > 0)
    BY <1>1, <1>2, <1>3
  <2> QED BY <1>2, <2>1 DEF Controls
<1>6. TakenSoFar = 0
  BY <1>2, <1>3 DEF TakenSoFar
<1>7. /\ StateDict.upstream = FreshUpstream /\ loader \in LoaderType
      /\ loader.batches = 0 /\ loader.samples = 0 /\ loader.exhausted = FALSE
  BY <1>2, FreshLoaderIs DEF StateDict
<1>8. Given(setup, corpus, delivered, loader.batches, loader.samples)
  <2>1. Given(setup, corpus, << >>, 0, 0)
    BY <1>1, GivenNothing
  <2>2. PICK none : none = << >>
    OBVIOUS
  <2> QED BY <1>7, <2>1
<1>9. LoaderInv
  <2>1. /\ Accounts(setup, corpus, StateDict.upstream, TakenSoFar)
        /\ upstream \in UpstreamType
        /\ loader.exhausted = StateDict.upstream.finished
    BY <1>2, <1>6, <1>7, FreshAccount
  <2> QED BY <1>7, <1>8, <2>1 DEF LoaderInv
<1>10. QueueInv
  <2>1. queue \in Seq(ItemType)
    BY <1>2
  <2>2. \A i \in 1 .. Len(queue) : FALSE
    BY <1>3
  <2> QED BY <2>1, <2>2 DEF QueueInv
<1>11. StreamInv
  <2>1. FreshStream \in StreamType /\ Len(FreshStream.ready) = 0
    BY FreshUntouched DEF Untouched
  <2>2. iterator # "open" /\ Len(stream.ready) <= setup.batchSize + 1
    BY <1>1, <1>2, <2>1
  <2> QED BY <1>2, <2>1, <2>2 DEF StreamInv
<1> QED BY <1>4, <1>5, <1>9, <1>10, <1>11

LEMMA InitInv ==
  ASSUME Init
  PROVE  IInv
<1>1. SavedInv
  BY DEF Init, SavedInv
<1>2. Configured /\ Controls /\ LoaderInv /\ QueueInv /\ StreamInv
  BY FreshInv DEF Init, FreshTrainer, ProcessInv
<1> QED BY <1>1, <1>2 DEF IInv

LEMMA CrashStep ==
  ASSUME IInv, Crash
  PROVE  IInv'
<1>1. SavedInv'
  BY SavedKept DEF IInv, Crash
<1>2. setup' \in Setups /\ corpus' \in Corpora
  BY DEF IInv, Configured, Crash
<1>3. FreshTrainer'
  BY <1>2 DEF Crash, FreshProcess, FreshTrainer
<1>4. ProcessInv'
  BY <1>3, FreshInv, PTL
<1> QED BY <1>1, <1>4 DEF IInv, ProcessInv

LEMMA ResumeStep ==
  ASSUME IInv, Resume
  PROVE  IInv'
<1>1. /\ saved # None /\ FreshProcess
      /\ UNCHANGED <<corpus, setup, iterator, stream, queue, upstream, replay,
                     asking, saved, crashes>>
  BY DEF Resume
<1>2. PICK t : t = saved.state
  OBVIOUS
<1>3. /\ saved \in SavedType
      /\ Given(setup, corpus, saved.delivered, t.batches, t.samples)
      /\ Accounts(setup, corpus, t.upstream, Len(saved.delivered))
      /\ t.exhausted = t.upstream.finished
  BY <1>1, <1>2 DEF IInv, SavedInv
<1>4. LoaderAccepts(t)
  BY <1>3, CountsAccepted, TakenNatural
<1>5. PICK u, b, k, e : u = t.upstream /\ b = t.batches /\ k = t.samples /\ e = t.exhausted
  OBVIOUS
<1>6. /\ loader' = [pending |-> u, batches |-> b, samples |-> k, exhausted |-> e]
      /\ delivered' = saved.delivered /\ status' = status
  BY <1>2, <1>4, <1>5 DEF Resume
<1>7. PICK d : d = saved.delivered
  OBVIOUS
<1>8. /\ u \in UpstreamType /\ b \in Nat /\ k \in Nat /\ e \in BOOLEAN
      /\ d \in Seq(BatchType) /\ Len(d) \in Nat
  <2>1. t \in [upstream : UpstreamType, batches : Nat, samples : Nat,
               exhausted : BOOLEAN]
    BY <1>2, <1>3 DEF SavedType
  <2>2. d \in Seq(BatchType)
    BY <1>3, <1>7 DEF Given
  <2> QED BY <1>5, <2>1, <2>2
<1>9. /\ loader'.pending = u /\ loader'.batches = b /\ loader'.samples = k
      /\ loader'.exhausted = e /\ loader' \in LoaderType
  BY <1>6, <1>8 DEF LoaderType
<1>10. /\ iterator = "absent" /\ stream = FreshStream /\ queue = << >>
       /\ upstream = FreshUpstream /\ replay = 0 /\ asking = FALSE
       /\ status = "running" /\ Len(queue) = 0
  BY <1>1 DEF FreshProcess
<1>11. TakenSoFar' = Len(d)
  BY <1>1, <1>6, <1>7, <1>8, <1>10 DEF TakenSoFar
<1>12. Configured' /\ SavedInv'
  BY <1>1, SavedKept DEF IInv, Configured
<1>13. Controls'
  <2>1. setup.snapshotEvery \in Nat \ {0}
    BY TakenNatural
  <2>2. replay' \in 0 .. setup'.snapshotEvery - 1 /\ replay' <= Len(delivered')
        /\ ~(replay' > 0)
    BY <1>1, <1>6, <1>7, <1>8, <1>10, <2>1
  <2> QED BY <1>1, <1>6, <1>10, <2>2 DEF Controls
<1>14. LoaderInv'
  <2>1. StateDict'.upstream = u
    BY <1>8, <1>9, NotNone DEF StateDict
  <2>2. Given(setup', corpus', delivered', loader'.batches, loader'.samples)
    BY <1>1, <1>3, <1>5, <1>6, <1>9
  <2>3. Accounts(setup', corpus', StateDict'.upstream, TakenSoFar')
    BY <1>1, <1>3, <1>5, <1>7, <1>11, <2>1
  <2>4. loader'.exhausted = StateDict'.upstream.finished
    BY <1>3, <1>5, <1>9, <2>1
  <2>5. upstream' \in UpstreamType
    BY <1>1 DEF IInv, LoaderInv
  <2> QED BY <1>9, <2>2, <2>3, <2>4, <2>5 DEF LoaderInv
<1>15. QueueInv'
  <2>1. queue' \in Seq(ItemType)
    BY <1>1, <1>10
  <2>2. \A i \in 1 .. Len(queue') : FALSE
    BY <1>1, <1>10
  <2> QED BY <2>1, <2>2 DEF QueueInv
<1>16. StreamInv'
  <2>1. iterator' # "open" /\ stream' = stream /\ setup' = setup
    BY <1>1, <1>10
  <2>2. stream \in StreamType /\ Len(stream.ready) <= setup.batchSize + 1
    BY DEF IInv, StreamInv
  <2> QED BY <2>1, <2>2 DEF StreamInv
<1> QED BY <1>12, <1>13, <1>14, <1>15, <1>16 DEF IInv

\* What the trainer's account is while it asks.
LEMMA AskingFacts ==
  ASSUME IInv, asking
  PROVE  /\ ~StateDict.upstream.finished /\ Len(delivered) < MaxBatches
         /\ Accounts(setup, corpus, StateDict.upstream, TakenSoFar)
         /\ iterator # "absent" => StateDict.upstream = upstream /\ loader.pending = None
<1>1. ~loader.exhausted /\ Len(delivered) < MaxBatches
  BY DEF IInv, Controls
<1>2. /\ loader.exhausted = StateDict.upstream.finished
      /\ Accounts(setup, corpus, StateDict.upstream, TakenSoFar)
  BY DEF IInv, LoaderInv
<1>3. iterator # "absent" => loader.pending = None
  BY DEF IInv, Controls
<1>4. loader.pending = None => StateDict.upstream = upstream
  BY DEF StateDict
<1> QED BY <1>1, <1>2, <1>3, <1>4

LEMMA EnsureIteratorStep ==
  ASSUME IInv, EnsureIterator
  PROVE  IInv'
<1>1. asking /\ iterator = "absent" /\ UNCHANGED <<corpus, setup, queue, saved, delivered>>
  BY DEF EnsureIterator
<1>2. upstream = FreshUpstream /\ replay = 0 /\ queue = << >> /\ Len(queue) = 0
  BY <1>1 DEF IInv, Controls
<1>3. PICK p : p = IF loader.pending = None THEN FreshUpstream ELSE loader.pending
  OBVIOUS
<1>4. StateDict.upstream = p
  BY <1>2, <1>3 DEF StateDict
<1>5. PICK n : n = Len(delivered)
  OBVIOUS
<1>6. /\ setup \in Setups /\ corpus \in Corpora /\ n \in Nat /\ TakenSoFar = n
      /\ setup.batchSize \in Nat /\ setup.snapshotEvery \in Nat \ {0}
  BY <1>2, <1>5, TakenNatural DEF TakenSoFar
<1>7. ~p.finished /\ Accounts(setup, corpus, p, n) /\ n < MaxBatches
  BY <1>1, <1>4, <1>5, <1>6, AskingFacts
<1>8. PICK x, k : x = p.snapshot /\ k = p.behind
  OBVIOUS
<1>9. /\ p \in UpstreamType /\ k <= n /\ k < setup.snapshotEvery /\ k \in Nat
      /\ Sound(setup, corpus, x) /\ Follows(setup, corpus, x, (n - k) * setup.batchSize)
      /\ x \in StreamType
  BY <1>7, <1>8 DEF Accounts, UpstreamType
<1>10. StreamAccepts(x)
  BY <1>6, <1>9, StreamAccepted
<1>11. PICK z : z = [Shard(x) EXCEPT !.topology = TRUE]
  OBVIOUS
<1>12. PICK v : v = [p EXCEPT !.behind = 0]
  OBVIOUS
<1>13. /\ iterator' = "open" /\ stream' = z /\ upstream' = v /\ replay' = k
       /\ loader' = [loader EXCEPT !.pending = None]
       /\ asking' = asking /\ status' = status
  BY <1>3, <1>7, <1>8, <1>10, <1>11, <1>12 DEF EnsureIterator
<1>14. PICK g : g = (n - k) * setup.batchSize
  OBVIOUS
<1>15. /\ g \in Nat /\ n - k \in Nat
  <2>1. n - k \in Nat
    BY <1>6, <1>9
  <2> QED BY <1>6, <1>14, <2>1
<1>16. /\ Sound(setup, corpus, z) /\ z.topology /\ Follows(setup, corpus, z, g)
  BY <1>6, <1>9, <1>11, <1>14, <1>15, OpenedStream
<1>17. /\ v \in UpstreamType /\ v.snapshot = x /\ v.behind = 0 /\ ~v.finished
       /\ v.finished = p.finished
  BY <1>7, <1>8, <1>9, <1>12 DEF UpstreamType
<1>18. Accounts(setup, corpus, v, n - k)
  <2>1. 0 <= n - k /\ 0 < setup.snapshotEvery /\ (n - k) - 0 = n - k /\ 0 \in Nat
    BY <1>6, <1>15
  <2>2. PICK m : m = n - k
    OBVIOUS
  <2>3. m \in Nat /\ 0 <= m /\ 0 < setup.snapshotEvery /\ m - 0 = m /\ 0 \in Nat
    BY <1>15, <2>1, <2>2
  <2>4. Follows(setup, corpus, x, (m - 0) * setup.batchSize)
    BY <1>9, <2>2, <2>3
  <2>5. Sound(setup, corpus, v.snapshot) /\ Follows(setup, corpus, v.snapshot, (m - 0) * setup.batchSize)
    BY <1>9, <1>17, <2>4
  <2>6. Accounts(setup, corpus, v, m)
    BY <1>17, <2>3, <2>5, OpenAccount
  <2> QED BY <2>2, <2>6
<1>19. TakenSoFar' = n - k
  BY <1>1, <1>5, <1>13 DEF TakenSoFar
<1>20. loader \in LoaderType /\ loader.exhausted = p.finished
  BY <1>4 DEF IInv, LoaderInv
<1>21. PICK none : none = None
  OBVIOUS
<1>22. /\ loader'.pending = none /\ loader'.batches = loader.batches
       /\ loader'.samples = loader.samples /\ loader'.exhausted = loader.exhausted
       /\ loader' \in LoaderType
  <2>1. loader' = [loader EXCEPT !.pending = none]
    BY <1>13, <1>21
  <2> QED BY <1>20, <1>21, <2>1 DEF LoaderType
<1>23. Configured' /\ SavedInv'
  BY <1>1, SavedKept DEF IInv, Configured
<1>24. Controls'
  <2>1. replay' \in 0 .. setup'.snapshotEvery - 1 /\ replay' <= Len(delivered')
    BY <1>1, <1>5, <1>6, <1>9, <1>13
  <2>2. /\ asking' /\ asking' \in BOOLEAN /\ status' \in {"running", "failed"}
        /\ ~loader'.exhausted /\ Len(delivered') < MaxBatches
        /\ loader'.pending = None /\ iterator' = "open"
    BY <1>1, <1>5, <1>7, <1>13, <1>20, <1>21, <1>22 DEF IInv, Controls
  <2> QED BY <2>1, <2>2 DEF Controls
<1>25. LoaderInv'
  <2>1. StateDict'.upstream = v
    BY <1>13, <1>21, <1>22 DEF StateDict
  <2>2. Given(setup', corpus', delivered', loader'.batches, loader'.samples)
    BY <1>1, <1>22 DEF IInv, LoaderInv
  <2>3. Accounts(setup', corpus', StateDict'.upstream, TakenSoFar')
    BY <1>1, <1>18, <1>19, <2>1
  <2>4. loader'.exhausted = StateDict'.upstream.finished
    BY <1>17, <1>20, <1>22, <2>1
  <2>5. upstream' \in UpstreamType
    BY <1>13, <1>17
  <2> QED BY <1>22, <2>2, <2>3, <2>4, <2>5 DEF LoaderInv
<1>26. QueueInv'
  <2>1. queue' \in Seq(ItemType)
    BY <1>1, <1>2
  <2>2. \A i \in 1 .. Len(queue') : FALSE
    BY <1>1, <1>2
  <2> QED BY <2>1, <2>2 DEF QueueInv
<1>27. StreamInv'
  <2>1. TakenSoFar' + Len(queue') = n - k
    BY <1>1, <1>2, <1>15, <1>19
  <2>2. Follows(setup, corpus, z, (TakenSoFar' + Len(queue')) * setup.batchSize)
    BY <1>14, <1>16, <2>1
  <2>3. Len(z.ready) <= setup.batchSize + 1
    BY <1>16 DEF Follows
  <2>4. stream' = z /\ setup' = setup /\ corpus' = corpus
    BY <1>1, <1>13
  <2> QED BY <1>16, <2>2, <2>3, <2>4, StreamMoved
<1> QED BY <1>23, <1>24, <1>25, <1>26, <1>27 DEF IInv

\* The first item of the queue, when the trainer takes it.
LEMMA HeadFacts ==
  ASSUME IInv, queue # << >>, NEW item, item = Head(queue)
  PROVE  /\ Produced(setup, corpus, item, TakenSoFar + 1) /\ item \in ItemType
         /\ iterator # "absent"
         /\ item.kind # "batch" => iterator # "open"
<1>1. /\ queue \in Seq(ItemType) /\ Len(queue) \in Nat /\ 1 \in 1 .. Len(queue)
      /\ item = queue[1]
  BY DEF IInv, QueueInv
<1>2. /\ Produced(setup, corpus, queue[1], TakenSoFar + 1)
      /\ 1 < Len(queue) \/ iterator = "open" => queue[1].kind = "batch"
  BY <1>1 DEF IInv, QueueInv
<1>3. iterator # "absent"
  BY DEF IInv, Controls
<1>4. item \in ItemType
  BY <1>1
<1> QED BY <1>1, <1>2, <1>3, <1>4

\* A batch was taken off the queue.
LEMMA QueueTaken ==
  ASSUME IInv, queue # << >>, queue' = Tail(queue), TakenSoFar' = TakenSoFar + 1,
         UNCHANGED <<corpus, setup, iterator, stream>>
  PROVE  QueueInv' /\ StreamInv'
<1> DEFINE n == Len(queue)
           q == Tail(queue)
           k == TakenSoFar
<1>1. queue \in Seq(ItemType) /\ n \in Nat \ {0}
  BY DEF IInv, QueueInv
<1>2. q \in Seq(ItemType) /\ Len(q) = n - 1 /\ \A i \in 1 .. n - 1 : q[i] = queue[i + 1]
  BY <1>1
<1>3. \A i \in 1 .. n : /\ Produced(setup, corpus, queue[i], k + i)
                        /\ queue[i].kind = "batch" => i <= Ahead(setup)
                        /\ i < n \/ iterator = "open" => queue[i].kind = "batch"
  BY DEF IInv, QueueInv
<1>4. k \in Nat /\ Ahead(setup) \in Nat
  BY TakenNatural DEF Ahead, Shape
<1>5. queue' = q /\ TakenSoFar' = k + 1
  OBVIOUS
<1> HIDE DEF n, q, k
<1>6. ASSUME NEW i \in 1 .. n - 1
      PROVE  /\ Produced(setup, corpus, q[i], k + 1 + i)
             /\ q[i].kind = "batch" => i <= Ahead(setup)
             /\ i < n - 1 \/ iterator = "open" => q[i].kind = "batch"
  <2>1. PICK j : j = i + 1
    OBVIOUS
  <2>2. j \in 1 .. n /\ i <= j /\ k + 1 + i = k + j /\ i \in Nat /\ (i < n - 1 => j < n)
    BY <1>1, <1>4, <2>1
  <2>3. q[i] = queue[j]
    BY <1>2, <2>1
  <2>4. Produced(setup, corpus, queue[j], k + j)
    BY <1>3, <2>2
  <2>5. queue[j].kind = "batch" => j <= Ahead(setup)
    BY <1>3, <2>2
  <2>6. i < n - 1 \/ iterator = "open" => queue[j].kind = "batch"
    BY <1>3, <2>2
  <2>7. j <= Ahead(setup) => i <= Ahead(setup)
    BY <1>1, <1>4, <2>2
  <2>8. Produced(setup, corpus, q[i], k + 1 + i)
    BY <2>2, <2>3, <2>4
  <2> QED BY <2>3, <2>5, <2>6, <2>7, <2>8
<1>7. Len(queue') = n - 1 /\ setup' = setup /\ corpus' = corpus /\ iterator' = iterator
  BY <1>2, <1>5
<1>8. \A i \in 1 .. Len(queue') :
           /\ Produced(setup', corpus', queue'[i], TakenSoFar' + i)
           /\ queue'[i].kind = "batch" => i <= Ahead(setup')
           /\ i < Len(queue') \/ iterator' = "open" => queue'[i].kind = "batch"
  BY <1>5, <1>6, <1>7
<1>9. QueueInv'
  BY <1>2, <1>5, <1>8 DEF QueueInv
<1>10. TakenSoFar' + Len(queue') = k + n
  BY <1>1, <1>4, <1>5, <1>7
<1>11. StreamInv'
  <2>1. stream' = stream
    OBVIOUS
  <2> USE DEF k, n
  <2> QED BY <1>7, <1>10, <2>1 DEF IInv, StreamInv
<1> QED BY <1>9, <1>11

LEMMA ReplayStep ==
  ASSUME IInv, Replay
  PROVE  IInv'
<1>1. PICK item : item = Head(queue)
  OBVIOUS
<1>2. /\ asking /\ replay > 0 /\ queue # << >> /\ item.kind = "batch"
      /\ queue' = Tail(queue) /\ upstream' = Taken(item) /\ replay' = replay - 1
      /\ UNCHANGED <<corpus, setup, iterator, stream, loader, asking, status,
                     saved, delivered>>
  BY <1>1 DEF Replay
<1>3. /\ Produced(setup, corpus, item, TakenSoFar + 1) /\ iterator # "absent"
  BY <1>1, <1>2, HeadFacts
<1>4. /\ TakenSoFar \in Nat /\ Shape(setup, corpus) /\ replay \in Nat
      /\ Len(delivered) \in Nat /\ setup.snapshotEvery \in Nat \ {0}
      /\ TakenSoFar = Len(delivered) - replay
  BY TakenNatural
<1>5. /\ ~upstream.finished /\ Accounts(setup, corpus, upstream, TakenSoFar)
      /\ loader.pending = None /\ StateDict.upstream = upstream
  BY <1>2, <1>3, AskingFacts
<1>6. Accounts(setup, corpus, Taken(item), TakenSoFar + 1) /\ ~Taken(item).finished
  <2> HIDE DEF TakenSoFar
  <2>1. PICK s : s = setup
    OBVIOUS
  <2>2. Accounts(s, corpus, Taken(item), TakenSoFar + 1) /\ ~Taken(item).finished
    BY <1>2, <1>3, <1>4, <1>5, <2>1, TakenFacts
  <2> QED BY <2>1, <2>2
<1>7. TakenSoFar' = TakenSoFar + 1
  BY <1>2, <1>4 DEF TakenSoFar
<1>8. QueueInv' /\ StreamInv'
  BY <1>2, <1>7, QueueTaken
<1>9. Configured' /\ SavedInv'
  BY <1>2, SavedKept DEF IInv, Configured
<1>10. Controls'
  <2>1. replay' \in 0 .. setup'.snapshotEvery - 1 /\ replay' <= Len(delivered')
    <3>1. replay \in 0 .. setup.snapshotEvery - 1 /\ replay <= Len(delivered)
      BY DEF IInv, Controls
    <3> QED BY <1>2, <1>4, <3>1
  <2> QED BY <1>2, <1>3, <2>1 DEF IInv, Controls
<1>11. LoaderInv'
  <2>1. PICK u : u = Taken(item)
    OBVIOUS
  <2>2. upstream' = u /\ loader' = loader /\ setup' = setup /\ corpus' = corpus
        /\ delivered' = delivered
    BY <1>2, <2>1
  <2>3. StateDict'.upstream = u
    BY <1>5, <2>2 DEF StateDict
  <2>4. Accounts(setup', corpus', StateDict'.upstream, TakenSoFar')
    BY <1>6, <1>7, <2>1, <2>2, <2>3
  <2>5. u \in UpstreamType /\ ~u.finished
    BY <1>6, <2>1 DEF Accounts
  <2>6. u.finished \in BOOLEAN
    BY <2>5 DEF UpstreamType
  <2>7. loader.exhausted = upstream.finished /\ loader \in LoaderType
    BY <1>5 DEF IInv, LoaderInv
  <2>8. upstream \in UpstreamType
    BY DEF IInv, LoaderInv
  <2>9. loader.exhausted = u.finished
    BY <1>5, <2>5, <2>6, <2>7, <2>8 DEF UpstreamType
  <2>10. Given(setup', corpus', delivered', loader'.batches, loader'.samples)
    BY <2>2 DEF IInv, LoaderInv
  <2> QED BY <2>2, <2>3, <2>4, <2>5, <2>7, <2>9, <2>10 DEF LoaderInv
<1> QED BY <1>8, <1>9, <1>10, <1>11 DEF IInv

LEMMA DeliverStep ==
  ASSUME IInv, Deliver
  PROVE  IInv'
<1>1. PICK item : item = Head(queue)
  OBVIOUS
<1>2. PICK b : b = item.batch
  OBVIOUS
<1>3. /\ asking /\ replay = 0 /\ queue # << >> /\ item.kind = "batch"
      /\ queue' = Tail(queue) /\ upstream' = Taken(item)
      /\ delivered' = Append(delivered, b) /\ asking' = FALSE
      /\ UNCHANGED <<corpus, setup, iterator, stream, replay, status, saved>>
  BY <1>1, <1>2 DEF Deliver
<1>4. /\ Produced(setup, corpus, item, TakenSoFar + 1) /\ iterator # "absent"
      /\ item \in ItemType
  BY <1>1, <1>3, HeadFacts
<1>5. PICK n : n = Len(delivered)
  OBVIOUS
<1>6. /\ n \in Nat /\ TakenSoFar = n /\ Shape(setup, corpus)
      /\ setup.snapshotEvery \in Nat \ {0} /\ delivered \in Seq(BatchType)
  BY <1>3, <1>5, TakenNatural DEF TakenSoFar, IInv, LoaderInv, Given
<1>7. /\ ~upstream.finished /\ Accounts(setup, corpus, upstream, n)
      /\ loader.pending = None /\ n < MaxBatches
  BY <1>3, <1>4, <1>5, <1>6, AskingFacts
<1>8. /\ b = BatchOf(setup, PackEnds(setup, corpus), n + 1)
      /\ Len(b) <= setup.batchSize
  BY <1>2, <1>3, <1>4, <1>6 DEF Produced
<1>9. b \in BatchType
  BY <1>2, <1>3, <1>4 DEF ItemType
<1>10. Accounts(setup, corpus, Taken(item), n + 1) /\ ~Taken(item).finished
  <2>1. PICK s : s = setup
    OBVIOUS
  <2>2. Produced(s, corpus, item, n + 1)
    BY <1>4, <1>6, <2>1
  <2>3. Accounts(s, corpus, Taken(item), n + 1) /\ ~Taken(item).finished
    BY <1>3, <1>6, <1>7, <2>1, <2>2, TakenFacts
  <2> QED BY <2>1, <2>3
<1>11. Len(delivered') = n + 1
  BY <1>3, <1>5, <1>6, <1>9
<1>12. TakenSoFar' = TakenSoFar + 1 /\ TakenSoFar' = n + 1
  BY <1>3, <1>6, <1>11 DEF TakenSoFar
<1>13. QueueInv' /\ StreamInv'
  BY <1>3, <1>12, QueueTaken
<1>14. Configured' /\ SavedInv'
  BY <1>3, SavedKept DEF IInv, Configured
<1>15. PICK m, k : m = loader.batches + 1 /\ k = loader.samples + Len(b)
  OBVIOUS
<1>16. loader' = [loader EXCEPT !.batches = m, !.samples = k]
  BY <1>1, <1>2, <1>15 DEF Deliver
<1>17. /\ loader \in LoaderType /\ loader.exhausted = upstream.finished
       /\ Given(setup, corpus, delivered, loader.batches, loader.samples)
       /\ upstream \in UpstreamType
  <2>1. StateDict.upstream = upstream
    BY <1>7 DEF StateDict
  <2> QED BY <2>1 DEF IInv, LoaderInv
<1>18. loader.batches \in Nat /\ loader.samples \in Nat /\ Len(b) \in Nat
  BY <1>9, <1>17, BatchSize DEF LoaderType
<1>19. m \in Nat /\ k \in Nat
  BY <1>15, <1>18
<1>20. PICK old : old = loader
  OBVIOUS
<1>21. /\ loader'.batches = m /\ loader'.samples = k /\ loader'.pending = old.pending
       /\ loader'.exhausted = old.exhausted /\ loader' \in LoaderType
  BY <1>16, <1>17, <1>19, <1>20 DEF LoaderType
<1>22. Given(setup, corpus, Append(delivered, b), m, k)
  BY <1>5, <1>6, <1>7, <1>8, <1>9, <1>15, <1>17, GivenNext
<1>23. Controls'
  <2>1. replay' \in 0 .. setup'.snapshotEvery - 1 /\ replay' <= Len(delivered')
        /\ ~(replay' > 0)
    BY <1>3, <1>6, <1>11
  <2> QED BY <1>3, <1>4, <1>7, <1>20, <1>21, <2>1 DEF IInv, Controls
<1>24. LoaderInv'
  <2>1. PICK u : u = Taken(item)
    OBVIOUS
  <2>2. upstream' = u /\ loader'.pending = None
    BY <1>3, <1>7, <1>20, <1>21, <2>1
  <2>3. StateDict'.upstream = u
    BY <2>2 DEF StateDict
  <2>4. Accounts(setup', corpus', StateDict'.upstream, TakenSoFar')
    BY <1>3, <1>10, <1>12, <2>1, <2>3
  <2>5. u \in UpstreamType /\ ~u.finished
    BY <1>10, <2>1 DEF Accounts
  <2>6. old.exhausted = u.finished
    BY <1>7, <1>17, <1>20, <2>5 DEF UpstreamType, LoaderType
  <2>7. Given(setup', corpus', delivered', loader'.batches, loader'.samples)
    BY <1>3, <1>21, <1>22
  <2> QED BY <1>21, <2>2, <2>3, <2>4, <2>5, <2>6, <2>7 DEF LoaderInv
<1> QED BY <1>13, <1>14, <1>23, <1>24 DEF IInv

LEMMA DeliverEndStep ==
  ASSUME IInv, DeliverEnd
  PROVE  IInv'
<1>1. PICK item : item = Head(queue)
  OBVIOUS
<1>2. /\ asking /\ replay = 0 /\ queue # << >> /\ item.kind = "end"
      /\ queue' = << >> /\ upstream' = Closed(upstream, item.after)
      /\ asking' = FALSE
      /\ UNCHANGED <<corpus, setup, iterator, stream, replay, status, saved,
                     delivered>>
  BY <1>1 DEF DeliverEnd, Closed
<1>3. /\ Produced(setup, corpus, item, TakenSoFar + 1) /\ iterator # "absent"
      /\ iterator # "open"
  BY <1>1, <1>2, HeadFacts
<1>4. /\ TakenSoFar \in Nat /\ Shape(setup, corpus)
      /\ setup.snapshotEvery \in Nat \ {0} /\ Len(delivered) \in Nat
  BY TakenNatural
<1>5. Accounts(setup, corpus, upstream, TakenSoFar) /\ loader.pending = None
  BY <1>2, <1>3, AskingFacts
<1>6. PICK u : u = Closed(upstream, item.after)
  OBVIOUS
<1>7. Accounts(setup, corpus, u, TakenSoFar) /\ u.finished
  <2> HIDE DEF TakenSoFar
  <2> QED BY <1>2, <1>3, <1>4, <1>5, <1>6, EndTaken
<1>8. TakenSoFar' = TakenSoFar
  BY <1>2 DEF TakenSoFar
<1>9. Configured' /\ SavedInv'
  BY <1>2, SavedKept DEF IInv, Configured
<1>10. PICK old : old = loader
  OBVIOUS
<1>11. loader' = [old EXCEPT !.exhausted = TRUE] /\ old \in LoaderType
  BY <1>10 DEF DeliverEnd, IInv, LoaderInv
<1>12. /\ loader'.batches = old.batches /\ loader'.samples = old.samples
       /\ loader'.pending = old.pending /\ loader'.exhausted /\ loader' \in LoaderType
       /\ loader'.exhausted = TRUE
  BY <1>11 DEF LoaderType
<1>13. Controls'
  <2>1. replay' \in 0 .. setup'.snapshotEvery - 1 /\ replay' <= Len(delivered')
        /\ ~(replay' > 0)
    BY <1>2, <1>4
  <2> QED BY <1>2, <1>3, <1>5, <1>10, <1>12, <2>1 DEF IInv, Controls
<1>14. LoaderInv'
  <2>1. upstream' = u /\ loader'.pending = None
    BY <1>2, <1>5, <1>6, <1>10, <1>12
  <2>2. StateDict'.upstream = u
    BY <2>1 DEF StateDict
  <2>3. Accounts(setup', corpus', StateDict'.upstream, TakenSoFar')
    BY <1>2, <1>7, <1>8, <2>2
  <2>4. u \in UpstreamType
    BY <1>7 DEF Accounts
  <2>5. u.finished = TRUE
    BY <1>7, <2>4 DEF UpstreamType
  <2>6. Given(setup', corpus', delivered', loader'.batches, loader'.samples)
    BY <1>2, <1>10, <1>12 DEF IInv, LoaderInv
  <2> QED BY <1>12, <2>1, <2>2, <2>3, <2>4, <2>5, <2>6 DEF LoaderInv
<1>15. QueueInv'
  <2>1. queue' \in Seq(ItemType) /\ Len(queue') = 0
    BY <1>2
  <2>2. \A i \in 1 .. Len(queue') : FALSE
    BY <2>1
  <2> QED BY <2>1, <2>2 DEF QueueInv
<1>16. StreamInv'
  <2>1. stream' = stream /\ setup' = setup /\ iterator' # "open"
    BY <1>2, <1>3
  <2>2. stream \in StreamType /\ Len(stream.ready) <= setup.batchSize + 1
    BY DEF IInv, StreamInv
  <2> QED BY <2>1, <2>2 DEF StreamInv
<1> QED BY <1>9, <1>13, <1>14, <1>15, <1>16 DEF IInv

LEMMA DeliverErrorStep ==
  ASSUME IInv, DeliverError
  PROVE  IInv'
<1>1. Configured' /\ Controls'
  BY DEF IInv, Configured, Controls, DeliverError
<1>2. LoaderInv' /\ QueueInv' /\ StreamInv' /\ SavedInv'
  BY LoaderKept, QueueKept, StreamKept, SavedKept DEF IInv, DeliverError
<1> QED BY <1>1, <1>2 DEF IInv

(* The invariant holds at the start and after every step.                  *)
LEMMA NextStep ==
  ASSUME IInv, [Next]_vars
  PROVE  IInv'
<1>1. CASE ReadSample
  BY <1>1, ReadSampleStep
<1>2. CASE RejectSample
  BY <1>2, RejectSampleStep
<1>3. CASE ReachEnd
  BY <1>3, ReachEndStep
<1>4. CASE CutBatch
  BY <1>4, CutBatchStep
<1>5. CASE Finish
  BY <1>5, FinishStep
<1>6. CASE EnsureIterator
  BY <1>6, EnsureIteratorStep
<1>7. CASE Replay
  BY <1>7, ReplayStep
<1>8. CASE Deliver
  BY <1>8, DeliverStep
<1>9. CASE DeliverEnd
  BY <1>9, DeliverEndStep
<1>10. CASE DeliverError
  BY <1>10, DeliverErrorStep
<1>11. CASE Request
  BY <1>11, RequestStep
<1>12. CASE Save
  BY <1>12, SaveStep
<1>13. CASE WorkerLost
  BY <1>13, WorkerLostStep
<1>14. CASE Crash
  BY <1>14, CrashStep
<1>15. CASE Resume
  BY <1>15, ResumeStep
<1>16. CASE UNCHANGED vars
  BY <1>16, Unchanged
<1> QED BY <1>1, <1>2, <1>3, <1>4, <1>5, <1>6, <1>7, <1>8, <1>9, <1>10, <1>11,
           <1>12, <1>13, <1>14, <1>15, <1>16 DEF Next, Stream, Trainer

LEMMA Invariance == Spec => []IInv
<1>1. Init => IInv
  BY InitInv
<1>2. IInv /\ [Next]_vars => IInv'
  BY NextStep
<1> QED BY <1>1, <1>2, PTL DEF Spec

-----------------------------------------------------------------------------
(* What the invariant says of the properties.                              *)

LEMMA IndexWithin ==
  ASSUME NEW m \in Nat, NEW n \in Nat, m <= n
  PROVE  1 .. m \subseteq 1 .. n
OBVIOUS

LEMMA PackSame ==
  ASSUME NEW s, NEW e, NEW f, NEW i, e[i] = f[i], e[i - 1] = f[i - 1]
  PROVE  Pack(s, e, i) = Pack(s, f, i)
BY DEF Pack

(* A batch depends on the ends of its own packs alone.                      *)
LEMMA BatchSame ==
  ASSUME NEW s, s.batchSize \in Nat, NEW e, NEW f, NEW g \in Nat,
         \A k \in 0 .. s.batchSize : e[g + k] = f[g + k]
  PROVE  BatchAfter(s, e, g) = BatchAfter(s, f, g)
<1>1. \A j \in 1 .. s.batchSize : e[g + j - 1] = f[g + j - 1] /\ e[g + j] = f[g + j]
  <2>1. TAKE j \in 1 .. s.batchSize
  <2>2. j \in 0 .. s.batchSize /\ j - 1 \in 0 .. s.batchSize /\ g + (j - 1) = g + j - 1
    OBVIOUS
  <2>3. e[g + j] = f[g + j] /\ e[g + (j - 1)] = f[g + (j - 1)]
    BY <2>2
  <2> QED BY <2>2, <2>3
<1>2. PICK more : more = {j \in 1 .. s.batchSize : e[g + j - 1] < e[g + j]}
  OBVIOUS
<1>3. more = {j \in 1 .. s.batchSize : f[g + j - 1] < f[g + j]}
  BY <1>1, <1>2
<1>4. Cardinality(more) \in Nat /\ Cardinality(more) <= s.batchSize
  <2>1. IsFiniteSet(1 .. s.batchSize) /\ Cardinality(1 .. s.batchSize) = s.batchSize
    BY FS_Interval, CountTo
  <2>2. more \subseteq 1 .. s.batchSize
    BY <1>2
  <2>3. IsFiniteSet(more) /\ Cardinality(more) <= Cardinality(1 .. s.batchSize)
    BY <2>1, <2>2, FS_Subset
  <2> QED BY <2>1, <2>3, FS_CardinalityType
<1>5. ASSUME NEW j \in 1 .. Cardinality(more)
      PROVE  Pack(s, e, g + j) = Pack(s, f, g + j)
  <2>1. j \in 1 .. s.batchSize
    BY <1>4, IndexWithin
  <2>2. PICK h : h = g + j
    OBVIOUS
  <2>3. e[h] = f[h] /\ e[h - 1] = f[h - 1]
    BY <1>1, <2>1, <2>2
  <2>4. Pack(s, e, h) = Pack(s, f, h)
    BY <2>3, PackSame
  <2> QED BY <2>2, <2>4
<1>6. BatchAfter(s, e, g) = [j \in 1 .. Cardinality(more) |-> Pack(s, e, g + j)]
  BY <1>2 DEF BatchAfter
<1>7. BatchAfter(s, f, g) = [j \in 1 .. Cardinality(more) |-> Pack(s, f, g + j)]
  BY <1>3 DEF BatchAfter
<1> QED BY <1>5, <1>6, <1>7

LEMMA ReferenceIs ==
  ASSUME setup \in Setups, corpus \in Corpora, NEW i \in 1 .. MaxBatches + 1
  PROVE  ReferenceBatch(i) = BatchOf(setup, PackEnds(setup, corpus), i)
<1>1. PICK b, m : b = setup.batchSize /\ m = MaxBatches + 1
  OBVIOUS
<1>2. b \in Nat /\ m \in Nat /\ i \in 1 .. m /\ i - 1 \in Nat
  BY <1>1, Shaped DEF Shape
<1>3. ASSUME NEW k \in 0 .. b
      PROVE  (i - 1) * b + k \in 0 .. m * b
  <2>1. PICK p, q : p = (i - 1) * b /\ q = (m - i) * b
    OBVIOUS
  <2>2. m - i \in Nat
    BY <1>2
  <2>3. p \in Nat /\ q \in Nat
    BY <1>2, <2>1, <2>2
  <2>4. m * b = p + b + q
    BY <1>2, <2>1, <2>2
  <2>5. p + k \in 0 .. p + b + q
    BY <1>2, <1>3, <2>3
  <2> QED BY <2>1, <2>4, <2>5
<1>4. ASSUME NEW n \in 0 .. m * b
      PROVE  Ends[setup][corpus][n] = PackEnds(setup, corpus)[n]
  BY <1>1 DEF Ends
<1>5. \A k \in 0 .. b : Ends[setup][corpus][(i - 1) * b + k]
                          = PackEnds(setup, corpus)[(i - 1) * b + k]
  BY <1>3, <1>4
<1>6. (i - 1) * b \in Nat
  BY <1>2
<1>7. PICK e, f, g : /\ e = Ends[setup][corpus] /\ f = PackEnds(setup, corpus)
                     /\ g = (i - 1) * b
  OBVIOUS
<1>8. /\ BatchOf(setup, e, i) = BatchAfter(setup, e, g)
      /\ BatchOf(setup, f, i) = BatchAfter(setup, f, g)
  BY <1>1, <1>7 DEF BatchOf, BatchAfter
<1>9. g \in Nat /\ setup.batchSize \in Nat /\ \A k \in 0 .. setup.batchSize : e[g + k] = f[g + k]
  BY <1>1, <1>2, <1>5, <1>6, <1>7
<1>10. BatchAfter(setup, e, g) = BatchAfter(setup, f, g)
  BY <1>9, BatchSame
<1> QED BY <1>7, <1>8, <1>10 DEF ReferenceBatch

LEMMA TypesHold ==
  ASSUME IInv
  PROVE  TypeOK
<1>1. /\ iterator \in {"absent", "open", "returned"} /\ asking \in BOOLEAN
      /\ status \in {"running", "failed"} /\ replay \in 0 .. setup.snapshotEvery - 1
  BY DEF IInv, Controls
<1>2. /\ stream \in StreamType /\ Len(stream.ready) <= setup.batchSize + 1
      /\ queue \in Seq(ItemType) /\ upstream \in UpstreamType
      /\ loader.pending \in UpstreamType \cup {None}
  BY DEF IInv, StreamInv, QueueInv, LoaderInv, LoaderType
<1>3. /\ delivered \in Seq(BatchType) /\ Len(delivered) <= MaxBatches
      /\ loader.batches = Len(delivered)
  BY DEF IInv, LoaderInv, Given
<1>4. loader.batches \in 0 .. MaxBatches
  <2>1. MaxBatches \in Nat /\ Len(delivered) \in Nat
    BY <1>3, DataAssumption
  <2> QED BY <1>3, <2>1
<1>5. PICK waiting : waiting = {i \in DOMAIN queue : queue[i].kind = "batch"}
  OBVIOUS
<1>6. Ahead(setup) \in Nat
  BY TakenNatural DEF Ahead, Shape
<1>7. waiting \subseteq 1 .. Ahead(setup)
  <2>1. DOMAIN queue = 1 .. Len(queue) /\ Len(queue) \in Nat
    BY <1>2
  <2>2. \A i \in 1 .. Len(queue) : queue[i].kind = "batch" => i <= Ahead(setup)
    BY DEF IInv, QueueInv
  <2> QED BY <1>5, <1>6, <2>1, <2>2
<1>8. Cardinality(waiting) <= Ahead(setup)
  <2>1. IsFiniteSet(1 .. Ahead(setup)) /\ Cardinality(1 .. Ahead(setup)) = Ahead(setup)
    BY <1>6, FS_Interval, CountTo
  <2> QED BY <1>7, <2>1, FS_Subset
<1>9. Cardinality({i \in DOMAIN queue : queue[i].kind = "batch"})
          <= IF setup.prefetch = 0 THEN 1 ELSE setup.prefetch
  BY <1>5, <1>8 DEF Ahead
<1> QED BY <1>1, <1>2, <1>3, <1>4, <1>9 DEF TypeOK

LEMMA ReferenceDelivered ==
  ASSUME IInv
  PROVE  DeliversReference
<1>1. setup \in Setups /\ corpus \in Corpora
  BY DEF IInv, Configured
<1>2. /\ delivered \in Seq(BatchType) /\ Len(delivered) <= MaxBatches
      /\ \A i \in DOMAIN delivered :
             delivered[i] = BatchOf(setup, PackEnds(setup, corpus), i)
      /\ loader.batches = Len(delivered)
      /\ loader.samples = Total([i \in DOMAIN delivered |-> Len(delivered[i])],
                                DOMAIN delivered)
  BY DEF IInv, LoaderInv, Given
<1>3. ASSUME NEW i \in DOMAIN delivered
      PROVE  delivered[i] = ReferenceBatch(i)
  <2>1. i \in 1 .. MaxBatches + 1
    <3>1. i \in 1 .. Len(delivered) /\ Len(delivered) \in Nat /\ MaxBatches \in Nat
      BY <1>2, DataAssumption
    <3> QED BY <1>2, <3>1
  <2> QED BY <1>1, <1>2, <2>1, ReferenceIs
<1> QED BY <1>2, <1>3 DEF DeliversReference

LEMMA EndFacts ==
  ASSUME IInv, loader.exhausted
  PROVE  EndReached(setup, corpus, Len(delivered))
<1>1. StateDict.upstream.finished /\ Accounts(setup, corpus, StateDict.upstream, TakenSoFar)
  BY DEF IInv, LoaderInv
<1>2. TakenSoFar = Len(delivered)
  <2>1. ~(replay > 0)
    BY DEF IInv, Controls
  <2> QED BY <2>1, TakenNatural
<1> QED BY <1>1, <1>2 DEF Accounts

LEMMA EndComplete ==
  ASSUME IInv
  PROVE  EndIsComplete
<1>1. setup \in Setups /\ corpus \in Corpora
  BY DEF IInv, Configured
<1>2. Len(delivered) + 1 \in 1 .. MaxBatches + 1
  <2>1. delivered \in Seq(BatchType) /\ Len(delivered) <= MaxBatches
    BY DEF IInv, LoaderInv, Given
  <2>2. MaxBatches \in Nat
    BY DataAssumption
  <2> QED BY <2>1, <2>2
<1>3. PICK next : next = ReferenceBatch(Len(delivered) + 1)
  OBVIOUS
<1>4. next = BatchOf(setup, PackEnds(setup, corpus), Len(delivered) + 1)
  BY <1>1, <1>2, <1>3, ReferenceIs
<1> QED BY <1>3, <1>4, EndFacts DEF EndReached, EndIsComplete

LEMMA StateAccepted ==
  ASSUME IInv
  PROVE  SavedStateAccepted
<1>1. setup \in Setups /\ corpus \in Corpora
  BY DEF IInv, Configured
<1>2. PICK t : t = StateDict
  OBVIOUS
<1>3. /\ t.batches = loader.batches /\ t.samples = loader.samples
      /\ t.exhausted = loader.exhausted
  BY <1>2 DEF StateDict
<1>4. /\ Given(setup, corpus, delivered, t.batches, t.samples)
      /\ Accounts(setup, corpus, t.upstream, TakenSoFar)
      /\ t.exhausted = t.upstream.finished
  BY <1>2, <1>3 DEF IInv, LoaderInv
<1>5. LoaderAccepts(t)
  BY <1>1, <1>4, CountsAccepted
<1>6. StreamAccepts(t.upstream.snapshot)
  BY <1>1, <1>4, StreamAccepted DEF Accounts
<1> QED BY <1>2, <1>5, <1>6 DEF SavedStateAccepted

-----------------------------------------------------------------------------
(* What the reference batches are: every sample of the rank's share, once.  *)

LEMMA ProductGap ==
  ASSUME NEW a \in Nat, NEW b \in Nat, a < b, NEW w \in Nat
  PROVE  a * w + w <= b * w
<1>1. PICK d \in Nat : b = a + 1 + d
  <2>1. b - (a + 1) \in Nat /\ b = a + 1 + (b - (a + 1))
    OBVIOUS
  <2> QED BY <2>1
<1>2. PICK x, y : x = a * w /\ y = d * w
  OBVIOUS
<1>3. x \in Nat /\ y \in Nat /\ b * w = x + w + y
  BY <1>1, <1>2
<1> QED BY <1>2, <1>3

(* A number is in one place of one row of a table of width w.              *)
LEMMA OnePlace ==
  ASSUME NEW w \in Nat \ {0}, NEW a \in Nat, NEW b \in Nat,
         NEW r \in 0 .. w - 1, NEW q \in 0 .. w - 1, a * w + r = b * w + q
  PROVE  a = b /\ r = q
<1>1. PICK x, y : x = a * w /\ y = b * w
  OBVIOUS
<1>2. x \in Nat /\ y \in Nat /\ x + r = y + q
  BY <1>1
<1>3. ~(a < b)
  <2> SUFFICES ASSUME a < b PROVE FALSE
    OBVIOUS
  <2>1. x + w <= y
    BY <1>1, ProductGap
  <2> QED BY <1>2, <2>1
<1>4. ~(b < a)
  <2> SUFFICES ASSUME b < a PROVE FALSE
    OBVIOUS
  <2>1. y + w <= x
    BY <1>1, ProductGap
  <2> QED BY <1>2, <2>1
<1>5. a = b
  BY <1>3, <1>4
<1> QED BY <1>1, <1>2, <1>5

LEMMA SomePlace ==
  ASSUME NEW w \in Nat \ {0}, NEW n \in Nat
  PROVE  \E a \in Nat, r \in 0 .. w - 1 : n = a * w + r
<1> DEFINE Placed(m) == \E a \in Nat, r \in 0 .. w - 1 : m = a * w + r
           Bad == {m \in Nat : ~Placed(m)}
<1>1. Placed(0)
  <2>1. 0 \in Nat /\ 0 \in 0 .. w - 1 /\ 0 = 0 * w + 0
    OBVIOUS
  <2> QED BY <2>1
<1>2. ASSUME NEW m \in Nat, Placed(m)
      PROVE  Placed(m + 1)
  <2>1. PICK a \in Nat, r \in 0 .. w - 1 : m = a * w + r
    BY <1>2
  <2>2. PICK x : x = a * w
    OBVIOUS
  <2>3. x \in Nat /\ m = x + r /\ (a + 1) * w = x + w
    BY <2>1, <2>2
  <2>4. CASE r < w - 1
    <3>1. r + 1 \in 0 .. w - 1 /\ m + 1 = x + (r + 1)
      BY <2>3, <2>4
    <3> QED BY <2>2, <3>1
  <2>5. CASE ~(r < w - 1)
    <3>1. 0 \in 0 .. w - 1 /\ m + 1 = (x + w) + 0 /\ a + 1 \in Nat
      BY <2>3, <2>5
    <3>2. m + 1 = (a + 1) * w + 0
      BY <2>3, <3>1
    <3> QED BY <3>1, <3>2
  <2> QED BY <2>4, <2>5
<1> HIDE DEF Placed
<1>3. ASSUME Bad # {} PROVE FALSE
  <2>1. PICK m \in Bad : \A k \in Bad : m <= k
    BY <1>3, SmallestNumber
  <2>2. m \in Nat /\ m # 0 /\ ~Placed(m)
    BY <1>1
  <2>3. m - 1 \in Nat /\ ~(m <= m - 1) /\ (m - 1) + 1 = m
    BY <2>2
  <2>4. Placed(m - 1)
    BY <2>1, <2>3
  <2>5. Placed((m - 1) + 1)
    BY <1>2, <2>3, <2>4
  <2> QED BY <2>2, <2>3, <2>5
<1>4. Placed(n)
  BY <1>3
<1> QED BY <1>4 DEF Placed

LEMMA ShareOnce ==
  ASSUME NEW s, NEW t, s.world \in Nat \ {0}, t.world = s.world,
         s.rank \in 0 .. s.world - 1, t.rank \in 0 .. s.world - 1,
         NEW k \in Nat \ {0}, NEW l \in Nat \ {0}, Share(s, k) = Share(t, l)
  PROVE  s.rank = t.rank /\ k = l
<1>1. PICK w, r, q, a, b : /\ w = s.world /\ r = s.rank /\ q = t.rank
                           /\ a = k - 1 /\ b = l - 1
  OBVIOUS
<1>2. /\ w \in Nat \ {0} /\ r \in 0 .. w - 1 /\ q \in 0 .. w - 1
      /\ a \in Nat /\ b \in Nat
  BY <1>1
<1>3. a * w + r + 1 = b * w + q + 1
  BY <1>1 DEF Share
<1>4. a * w + r = b * w + q
  <2>1. PICK x, y : x = a * w /\ y = b * w
    OBVIOUS
  <2>2. x \in Nat /\ y \in Nat /\ x + r + 1 = y + q + 1
    BY <1>2, <1>3, <2>1
  <2>3. x + r = y + q
    BY <1>2, <2>2
  <2> QED BY <2>1, <2>3
<1>5. a = b /\ r = q
  BY <1>2, <1>4, OnePlace
<1> QED BY <1>1, <1>5

LEMMA ShareGrows ==
  ASSUME NEW s, NEW c, Shape(s, c), NEW k \in Nat \ {0}, NEW l \in Nat \ {0},
         Share(s, k) < Share(s, l)
  PROVE  k < l
<1>1. PICK w, r, a, b : w = s.world /\ r = s.rank /\ a = k - 1 /\ b = l - 1
  OBVIOUS
<1>2. w \in Nat \ {0} /\ r \in Nat /\ a \in Nat /\ b \in Nat
  BY <1>1 DEF Shape
<1>3. PICK x, y : x = a * w /\ y = b * w
  OBVIOUS
<1>4. x \in Nat /\ y \in Nat /\ x + r + 1 < y + r + 1
  BY <1>1, <1>2, <1>3 DEF Share
<1>5. ~(b < a) /\ a # b
  <2>1. a # b
    BY <1>3, <1>4, <1>2
  <2>2. b < a => y + w <= x
    BY <1>2, <1>3, ProductGap
  <2> QED BY <1>2, <1>4, <2>1, <2>2
<1>6. a < b
  BY <1>2, <1>5
<1> QED BY <1>1, <1>6

LEMMA EndsIncrease ==
  ASSUME NEW s, NEW c, Shape(s, c), NEW i \in Nat, NEW k \in Nat, i <= k
  PROVE  /\ PackEnds(s, c)[i] \in Nat /\ PackEnds(s, c)[k] \in Nat
         /\ PackEnds(s, c)[i] <= PackEnds(s, c)[k]
<1> DEFINE e == PackEnds(s, c)
           Bad == {n \in Nat : i <= n /\ ~(e[i] <= e[n])}
<1>1. \A n \in Nat : e[n] \in Nat /\ e[n] <= e[n + 1]
  BY EndsFacts
<1> HIDE DEF e
<1>2. ASSUME Bad # {} PROVE FALSE
  <2>1. PICK n \in Bad : \A m \in Bad : n <= m
    BY <1>2, SmallestNumber
  <2>2. n \in Nat /\ i <= n /\ n # i
    BY <1>1, <2>1
  <2>3. n - 1 \in Nat /\ n - 1 \notin Bad /\ i <= n - 1 /\ (n - 1) + 1 = n
    BY <2>1, <2>2
  <2>4. e[i] <= e[n - 1] /\ e[n - 1] <= e[n]
    BY <1>1, <2>3
  <2>5. e[i] \in Nat /\ e[n] \in Nat /\ e[n - 1] \in Nat
    BY <1>1, <2>3
  <2>6. e[i] <= e[n]
    BY <2>4, <2>5
  <2> QED BY <2>1, <2>6
<1>3. e[i] <= e[k]
  BY <1>2
<1> QED BY <1>1, <1>3 DEF e

(* After a pack that ends where it starts there are no others.              *)
LEMMA EndsStall ==
  ASSUME NEW s, NEW c, Shape(s, c), NEW i \in Nat, NEW k \in Nat, i <= k,
         PackEnds(s, c)[i + 1] = PackEnds(s, c)[i]
  PROVE  PackEnds(s, c)[k] = PackEnds(s, c)[i]
<1> DEFINE e == PackEnds(s, c)
           Bad == {n \in Nat : i <= n /\ e[n] # e[i]}
<1>1. \A n \in Nat : e[n + 1] = NextEnd(s, c, e[n])
  BY PackEndsStep
<1>2. e[i + 1] = e[i]
  OBVIOUS
<1> HIDE DEF e
<1>3. ASSUME Bad # {} PROVE FALSE
  <2>1. PICK n \in Bad : \A m \in Bad : n <= m
    BY <1>3, SmallestNumber
  <2>2. n \in Nat /\ i <= n /\ n # i
    BY <2>1
  <2>3. n - 1 \in Nat /\ n - 1 \notin Bad /\ i <= n - 1 /\ (n - 1) + 1 = n
    BY <2>1, <2>2
  <2>4. e[n - 1] = e[i]
    BY <2>3
  <2>5. e[n] = NextEnd(s, c, e[i]) /\ e[i] = NextEnd(s, c, e[i])
    BY <1>1, <1>2, <2>3, <2>4
  <2> QED BY <2>1, <2>5
<1>4. e[k] = e[i]
  BY <1>3
<1> QED BY <1>4 DEF e

LEMMA PacksBefore ==
  ASSUME NEW s, NEW c, Shape(s, c), NEW p \in Nat \ {0},
         PackEnds(s, c)[p - 1] < PackEnds(s, c)[p], NEW q \in 1 .. p
  PROVE  PackEnds(s, c)[q - 1] < PackEnds(s, c)[q]
<1> DEFINE e == PackEnds(s, c)
<1>1. q - 1 \in Nat /\ p - 1 \in Nat /\ q - 1 <= p - 1 /\ q - 1 <= p
      /\ (q - 1) + 1 = q /\ q - 1 <= q /\ q \in Nat
  OBVIOUS
<1>2. e[q] = e[q - 1] => e[p] = e[q - 1] /\ e[p - 1] = e[q - 1]
  BY <1>1, EndsStall
<1>3. e[q - 1] \in Nat /\ e[q] \in Nat /\ e[q - 1] <= e[q]
  BY <1>1, EndsIncrease
<1>4. e[p - 1] < e[p] /\ e[p] \in Nat /\ e[p - 1] \in Nat
  BY <1>1, EndsIncrease
<1> HIDE DEF e
<1>5. e[q - 1] < e[q]
  BY <1>2, <1>3, <1>4
<1> QED BY <1>5 DEF e

(* The a-th sample of the p-th pack.                                       *)
Sample(s, e, p, a) == Share(s, e[p - 1] + a)
Within(e, p, a) == a \in Nat \ {0} /\ e[p - 1] + a <= e[p]

LEMMA SampleOfPack ==
  ASSUME NEW s, NEW c, Shape(s, c), NEW p \in Nat \ {0}
  PROVE  LET e == PackEnds(s, c)
         IN  /\ \A a : a \in DOMAIN Pack(s, e, p) <=> Within(e, p, a)
             /\ \A a \in DOMAIN Pack(s, e, p) : Pack(s, e, p)[a] = Sample(s, e, p, a)
             /\ Len(Pack(s, e, p)) = e[p] - e[p - 1]
<1> DEFINE e == PackEnds(s, c)
<1>1. p - 1 \in Nat /\ p - 1 <= p
  OBVIOUS
<1>2. e[p - 1] \in Nat /\ e[p] \in Nat /\ e[p - 1] <= e[p]
  BY <1>1, EndsIncrease
<1> HIDE DEF e
<1>3. PICK n, f : n = e[p] - e[p - 1] /\ f = e[p - 1]
  OBVIOUS
<1>4. n \in Nat /\ f \in Nat /\ e[p] = f + n
  BY <1>2, <1>3
<1>5. Pack(s, e, p) = [k \in 1 .. n |-> Share(s, f + k)]
  BY <1>3 DEF Pack
<1>6. \A a : a \in 1 .. n <=> Within(e, p, a)
  BY <1>3, <1>4 DEF Within
<1>7. \A a \in 1 .. n : Pack(s, e, p)[a] = Sample(s, e, p, a)
  BY <1>3, <1>5 DEF Sample
<1>8. DOMAIN Pack(s, e, p) = 1 .. n
  BY <1>5
<1>9. Len(Pack(s, e, p)) = n
  BY <1>4, <1>8
<1> QED BY <1>3, <1>6, <1>7, <1>8, <1>9 DEF e

LEMMA SampleNumbers ==
  ASSUME NEW s, NEW c, Shape(s, c), NEW p \in Nat \ {0}, NEW a, Within(PackEnds(s, c), p, a)
  PROVE  /\ PackEnds(s, c)[p - 1] + a \in Nat \ {0} /\ PackEnds(s, c)[p - 1] \in Nat
         /\ PackEnds(s, c)[p - 1] < PackEnds(s, c)[p] /\ PackEnds(s, c)[p] \in Nat
<1>1. p - 1 \in Nat /\ p - 1 <= p
  OBVIOUS
<1>2. PackEnds(s, c)[p - 1] \in Nat /\ PackEnds(s, c)[p] \in Nat
  BY <1>1, EndsIncrease
<1> QED BY <1>2 DEF Within

LEMMA SameSample ==
  ASSUME NEW s, NEW c, Shape(s, c), NEW p \in Nat \ {0}, NEW q \in Nat \ {0},
         NEW a, NEW b, Within(PackEnds(s, c), p, a), Within(PackEnds(s, c), q, b),
         Sample(s, PackEnds(s, c), p, a) = Sample(s, PackEnds(s, c), q, b)
  PROVE  p = q /\ a = b
<1> DEFINE e == PackEnds(s, c)
<1>1. /\ e[p - 1] + a \in Nat \ {0} /\ e[p - 1] \in Nat /\ e[p] \in Nat
      /\ e[q - 1] + b \in Nat \ {0} /\ e[q - 1] \in Nat /\ e[q] \in Nat
  BY SampleNumbers
<1>2. /\ a \in Nat \ {0} /\ b \in Nat \ {0}
      /\ e[p - 1] + a <= e[p] /\ e[q - 1] + b <= e[q]
  BY DEF Within
<1>3. s.world \in Nat \ {0} /\ s.rank \in 0 .. s.world - 1
  BY DEF Shape
<1>4. e[p - 1] + a = e[q - 1] + b
  BY <1>1, <1>3, ShareOnce DEF Sample
<1>5. p < q => e[p] <= e[q - 1]
  <2>1. p < q => p <= q - 1 /\ q - 1 \in Nat
    OBVIOUS
  <2> QED BY <2>1, EndsIncrease
<1>6. q < p => e[q] <= e[p - 1]
  <2>1. q < p => q <= p - 1 /\ p - 1 \in Nat
    OBVIOUS
  <2> QED BY <2>1, EndsIncrease
<1> HIDE DEF e
<1>7. ~(p < q) /\ ~(q < p)
  BY <1>1, <1>2, <1>4, <1>5, <1>6
<1>8. p = q
  BY <1>7
<1>9. a = b
  BY <1>1, <1>2, <1>4, <1>8
<1> QED BY <1>8, <1>9

LEMMA EarlierPack ==
  ASSUME NEW s, NEW c, Shape(s, c), NEW p \in Nat, NEW k \in Nat \ {0},
         k <= PackEnds(s, c)[p]
  PROVE  \E q \in 1 .. p, b \in Nat \ {0} :
             /\ Within(PackEnds(s, c), q, b)
             /\ Sample(s, PackEnds(s, c), q, b) = Share(s, k)
<1> DEFINE e == PackEnds(s, c)
           Reaching == {n \in Nat : k <= e[n]}
<1>1. e[0] = 0 /\ \A n \in Nat : e[n] \in Nat
  BY PackEndsStep, EndsFacts
<1>2. p \in Reaching
  OBVIOUS
<1> HIDE DEF e
<1>3. PICK q \in Reaching : \A n \in Reaching : q <= n
  BY <1>2, SmallestNumber
<1>4. q \in Nat /\ k <= e[q] /\ q # 0 /\ q <= p
  BY <1>1, <1>2, <1>3
<1>5. q - 1 \in Nat /\ q - 1 \notin Reaching /\ q \in 1 .. p
  BY <1>3, <1>4
<1>6. e[q - 1] < k /\ e[q - 1] \in Nat
  BY <1>1, <1>5
<1>7. PICK b : b = k - e[q - 1]
  OBVIOUS
<1>8. b \in Nat \ {0} /\ e[q - 1] + b = k
  BY <1>6, <1>7
<1>9. Within(e, q, b) /\ Sample(s, e, q, b) = Share(s, k)
  BY <1>4, <1>8 DEF Within, Sample
<1> QED BY <1>5, <1>8, <1>9 DEF e

(* The tokens of a run of samples, counted in the pack and in the share.    *)
LEMMA RunTokens ==
  ASSUME NEW s, NEW c, Shape(s, c), NEW f \in Nat, NEW n \in Nat
  PROVE  TokensIn(c, [k \in 1 .. n |-> Share(s, f + k)]) = RunLength(s, c, f + 1, f + n)
<1> DEFINE Of(m) == [k \in 1 .. m |-> Share(s, f + k)]
           Bad == {m \in Nat : TokensIn(c, Of(m)) # RunLength(s, c, f + 1, f + m)}
<1>1. Of(0) = << >>
  OBVIOUS
<1>2. TokensIn(c, Of(0)) = RunLength(s, c, f + 1, f + 0)
  <2>1. TokensIn(c, << >>) = 0
    <3>1. 1 \in Nat \ {0}
      OBVIOUS
    <3> QED BY <3>1, TokensFew
  <2>2. RunLength(s, c, f + 1, f) = 0 /\ f + 0 = f
    BY RunEmpty
  <2> QED BY <1>1, <2>1, <2>2
<1>3. ASSUME NEW m \in Nat
      PROVE  /\ Of(m) \in Seq(Nat \ {0}) /\ Share(s, f + (m + 1)) \in Nat \ {0}
             /\ Of(m + 1) = Append(Of(m), Share(s, f + (m + 1)))
  <2>1. \A k \in 1 .. m + 1 : Share(s, f + k) \in Nat \ {0}
    <3>1. \A k \in 1 .. m + 1 : f + k \in Nat \ {0}
      OBVIOUS
    <3> QED BY <3>1, SharePositive
  <2>2. PICK v : v = [k \in 1 .. m + 1 |-> Share(s, f + k)]
    OBVIOUS
  <2>3. \A k \in 1 .. m + 1 : v[k] = Share(s, f + k)
    BY <2>2
  <2>4. Of(m) = [k \in 1 .. m |-> v[k]]
    BY <2>3
  <2>5. \A k \in 1 .. m + 1 : v[k] \in Nat \ {0}
    BY <2>1, <2>3
  <2>6. [k \in 1 .. m |-> v[k]] \in Seq(Nat \ {0}) /\ Len([k \in 1 .. m |-> v[k]]) = m
    BY <2>5
  <2>7. v = Append([k \in 1 .. m |-> v[k]], v[m + 1])
    <3>1. DOMAIN v = 1 .. m + 1
      BY <2>2
    <3> QED BY <2>2, <2>5, <2>6, <3>1
  <2>8. m + 1 \in 1 .. m + 1 /\ v[m + 1] = Share(s, f + (m + 1))
    BY <2>3
  <2> QED BY <2>1, <2>2, <2>4, <2>6, <2>7, <2>8
<1>4. ASSUME NEW m \in Nat, TokensIn(c, Of(m)) = RunLength(s, c, f + 1, f + m)
      PROVE  TokensIn(c, Of(m + 1)) = RunLength(s, c, f + 1, f + (m + 1))
  <2>1. PICK x, z : x = Share(s, f + (m + 1)) /\ z = f + m
    OBVIOUS
  <2>2. z \in Nat /\ f + 1 \in Nat \ {0} /\ f + 1 <= z + 1 /\ f + (m + 1) = z + 1
    BY <2>1
  <2>3. RunLength(s, c, f + 1, z + 1) = RunLength(s, c, f + 1, z) + ShareLength(s, c, z + 1)
    BY <2>2, RunFacts
  <2>4. ShareLength(s, c, z + 1) = LengthIn(c, x)
    BY <2>1, <2>2, ShareLengthPositive
  <2> HIDE DEF Of
  <2>5. TokensIn(c, Of(m + 1)) = TokensIn(c, Of(m)) + LengthIn(c, x)
    BY <1>3, <2>1, TokensAppend
  <2> QED BY <1>4, <2>1, <2>2, <2>3, <2>4, <2>5
<1> HIDE DEF Of
<1>5. ASSUME Bad # {} PROVE FALSE
  <2>1. PICK m \in Bad : \A k \in Bad : m <= k
    BY <1>5, SmallestNumber
  <2>2. m \in Nat /\ m # 0
    BY <1>2, <2>1
  <2>3. m - 1 \in Nat /\ m - 1 \notin Bad /\ (m - 1) + 1 = m
    BY <2>1, <2>2
  <2>4. TokensIn(c, Of((m - 1) + 1)) = RunLength(s, c, f + 1, f + ((m - 1) + 1))
    BY <1>4, <2>3
  <2> QED BY <2>1, <2>3, <2>4
<1>6. TokensIn(c, Of(n)) = RunLength(s, c, f + 1, f + n)
  BY <1>5
<1> QED BY <1>6 DEF Of

LEMMA PackFits ==
  ASSUME NEW s, NEW c, Shape(s, c), NEW p \in Nat \ {0},
         PackEnds(s, c)[p - 1] < PackEnds(s, c)[p], s.packs
  PROVE  /\ TokensIn(c, Pack(s, PackEnds(s, c), p)) <= s.maxLength
         /\ s.sampleLimit > 0 => Len(Pack(s, PackEnds(s, c), p)) <= s.sampleLimit
<1> DEFINE e == PackEnds(s, c)
<1>1. p - 1 \in Nat /\ p - 1 <= p /\ (p - 1) + 1 = p
  OBVIOUS
<1>2. /\ e[p - 1] \in Nat /\ e[p] \in Nat /\ e[p] = NextEnd(s, c, e[p - 1])
      /\ e[p - 1] < e[p]
  BY <1>1, EndsIncrease, PackEndsStep
<1>3. Len(Pack(s, e, p)) = e[p] - e[p - 1]
  BY SampleOfPack
<1> HIDE DEF e
<1>4. PICK f, n : f = e[p - 1] /\ n = e[p] - e[p - 1]
  OBVIOUS
<1>5. f \in Nat /\ n \in Nat \ {0} /\ NextEnd(s, c, f) = f + n
  BY <1>2, <1>4
<1>6. FitTogether(s, c, f + 1, f + n)
  <2>1. NextEnd(s, c, f) # f
    BY <1>5
  <2> QED BY <1>5, <2>1, NextEndFacts, NextEndFits
<1>7. Pack(s, e, p) = [k \in 1 .. n |-> Share(s, f + k)]
  BY <1>4 DEF Pack
<1>8. TokensIn(c, Pack(s, e, p)) = RunLength(s, c, f + 1, f + n)
  BY <1>5, <1>7, RunTokens
<1>9. /\ s.sampleLimit > 0 => (f + n) - (f + 1) < s.sampleLimit
      /\ RunLength(s, c, f + 1, f + n) <= s.maxLength
  BY <1>6 DEF FitTogether
<1>10. s.sampleLimit \in Nat
  BY DEF Shape
<1>11. s.sampleLimit > 0 => n <= s.sampleLimit
  BY <1>5, <1>9, <1>10
<1> QED BY <1>3, <1>4, <1>8, <1>9, <1>11 DEF e

(* The packs of the batch after the first g that hold a sample.             *)
Filled(s, e, g) == {j \in 1 .. s.batchSize : e[g + j - 1] < e[g + j]}

LEMMA FilledFacts ==
  ASSUME NEW s, NEW e, NEW g, s.batchSize \in Nat
  PROVE  /\ Cardinality(Filled(s, e, g)) \in 0 .. s.batchSize
         /\ BatchAfter(s, e, g)
              = [j \in 1 .. Cardinality(Filled(s, e, g)) |-> Pack(s, e, g + j)]
<1>1. IsFiniteSet(1 .. s.batchSize) /\ Cardinality(1 .. s.batchSize) = s.batchSize
  BY FS_Interval, CountTo
<1>2. Filled(s, e, g) \subseteq 1 .. s.batchSize
  BY DEF Filled
<1>3. /\ IsFiniteSet(Filled(s, e, g))
      /\ Cardinality(Filled(s, e, g)) <= Cardinality(1 .. s.batchSize)
  BY <1>1, <1>2, FS_Subset
<1>4. Cardinality(Filled(s, e, g)) \in Nat
  BY <1>3, FS_CardinalityType
<1>5. Cardinality(Filled(s, e, g)) \in 0 .. s.batchSize
  BY <1>1, <1>3, <1>4
<1> QED BY <1>5 DEF BatchAfter, Filled

(* The place of a pack among the packs, from its place in a batch.          *)
Number(s, i, j) == (i - 1) * s.batchSize + j

LEMMA NumberFacts ==
  ASSUME NEW s, NEW c, Shape(s, c), NEW i \in Nat \ {0}, NEW j \in 1 .. s.batchSize
  PROVE  /\ Number(s, i, j) \in Nat \ {0}
         /\ \A m \in Nat \ {0}, n \in 1 .. s.batchSize :
              /\ Number(s, i, j) = Number(s, m, n) => i = m /\ j = n
              /\ Number(s, m, n) <= Number(s, i, j) => m < i \/ (m = i /\ n <= j)
<1>1. PICK w, a, x : w = s.batchSize /\ a = i - 1 /\ x = a * w
  OBVIOUS
<1>2. w \in Nat \ {0} /\ a \in Nat /\ x \in Nat /\ j \in 1 .. w
  BY <1>1 DEF Shape
<1>3. Number(s, i, j) = x + j
  BY <1>1 DEF Number
<1>4. ASSUME NEW m \in Nat \ {0}, NEW n \in 1 .. s.batchSize
      PROVE  /\ Number(s, i, j) = Number(s, m, n) => i = m /\ j = n
             /\ Number(s, m, n) <= Number(s, i, j) => m < i \/ (m = i /\ n <= j)
  <2>1. PICK b, y : b = m - 1 /\ y = b * w
    OBVIOUS
  <2>2. b \in Nat /\ y \in Nat /\ n \in 1 .. w /\ Number(s, m, n) = y + n
    BY <1>1, <1>2, <2>1 DEF Number
  <2>3. a < b => x + w <= y
    BY <1>1, <1>2, <2>1, <2>2, ProductGap
  <2>4. b < a => y + w <= x
    BY <1>1, <1>2, <2>1, <2>2, ProductGap
  <2>5. a = b => x = y
    BY <1>1, <2>1
  <2>6. a < b => x + j < y + n
    BY <1>2, <2>2, <2>3
  <2>7. b < a => y + n < x + j
    BY <1>2, <2>2, <2>4
  <2>8. x + j = y + n => a = b /\ j = n
    BY <1>2, <2>2, <2>5, <2>6, <2>7
  <2>9. ASSUME y + n <= x + j
        PROVE  b < a \/ (b = a /\ n <= j)
    <3>1. ~(a < b)
      BY <1>2, <2>2, <2>6, <2>9
    <3>2. a = b => n <= j
      BY <1>2, <2>2, <2>5, <2>9
    <3>3. b < a \/ b = a
      BY <1>2, <2>2, <3>1
    <3> QED BY <3>2, <3>3
  <2>10. (a = b <=> i = m) /\ (b < a <=> m < i)
    BY <1>1, <2>1
  <2>11. Number(s, i, j) = Number(s, m, n) => i = m /\ j = n
    BY <1>3, <2>2, <2>8, <2>10
  <2>12. ASSUME Number(s, m, n) <= Number(s, i, j)
         PROVE  m < i \/ (m = i /\ n <= j)
    <3>1. y + n <= x + j
      BY <1>3, <2>2, <2>12
    <3>2. b < a \/ (b = a /\ n <= j)
      BY <2>9, <3>1
    <3> QED BY <2>10, <3>2
  <2> QED BY <2>11, <2>12
<1> QED BY <1>2, <1>3, <1>4

LEMMA BatchPacks ==
  ASSUME NEW s, NEW c, Shape(s, c), NEW i \in Nat \ {0}
  PROVE  LET e == PackEnds(s, c)
             b == BatchOf(s, e, i)
         IN  /\ DOMAIN b \subseteq 1 .. s.batchSize
             /\ \A j \in DOMAIN b : /\ b[j] = Pack(s, e, Number(s, i, j))
                                    /\ \A n \in 1 .. j : n \in DOMAIN b
<1> DEFINE e == PackEnds(s, c)
<1>1. PICK g : g = (i - 1) * s.batchSize
  OBVIOUS
<1>2. BatchOf(s, e, i) = BatchAfter(s, e, g)
  BY <1>1 DEF BatchOf, BatchAfter
<1> HIDE DEF e
<1>3. PICK k : k = Cardinality(Filled(s, e, g))
  OBVIOUS
<1>4. s.batchSize \in Nat /\ k \in 0 .. s.batchSize
      /\ BatchAfter(s, e, g) = [j \in 1 .. k |-> Pack(s, e, g + j)]
  BY <1>3, FilledFacts DEF Shape
<1>5. \A j \in 1 .. k : g + j = Number(s, i, j)
  BY <1>1 DEF Number
<1>6. BatchOf(s, e, i) = [j \in 1 .. k |-> Pack(s, e, g + j)]
  BY <1>2, <1>4
<1>7. PICK b : b = BatchOf(s, e, i)
  OBVIOUS
<1>8. DOMAIN b = 1 .. k /\ \A j \in 1 .. k : b[j] = Pack(s, e, Number(s, i, j))
  BY <1>5, <1>6, <1>7
<1>9. \A j \in 1 .. k : \A n \in 1 .. j : n \in 1 .. k
  BY <1>4
<1>10. 1 .. k \subseteq 1 .. s.batchSize
  BY <1>4
<1> QED BY <1>7, <1>8, <1>9, <1>10 DEF e

(* Where a pack that holds a sample is in the batches.                      *)
LEMMA PackInBatch ==
  ASSUME NEW s, NEW c, Shape(s, c), NEW q \in Nat \ {0},
         PackEnds(s, c)[q - 1] < PackEnds(s, c)[q],
         NEW d \in Nat, q <= d * s.batchSize
  PROVE  \E m \in 1 .. d, n \in 1 .. s.batchSize :
             q = Number(s, m, n) /\ n \in DOMAIN BatchOf(s, PackEnds(s, c), m)
<1> DEFINE e == PackEnds(s, c)
<1>1. PICK w : w = s.batchSize
  OBVIOUS
<1>2. w \in Nat \ {0} /\ q - 1 \in Nat
  BY <1>1 DEF Shape
<1>3. PICK z \in Nat, r \in 0 .. w - 1 : q - 1 = z * w + r
  BY <1>2, SomePlace
<1>4. PICK m, n, g : m = z + 1 /\ n = r + 1 /\ g = z * w
  OBVIOUS
<1>5. g \in Nat /\ n \in 1 .. w /\ q = g + n /\ m \in Nat \ {0} /\ m - 1 = z
  <2>1. g \in Nat
    BY <1>2, <1>4
  <2>2. q - 1 = g + r
    BY <1>3, <1>4
  <2>3. n \in 1 .. w /\ m \in Nat \ {0} /\ m - 1 = z
    BY <1>2, <1>3, <1>4
  <2>4. q = g + n
    BY <1>3, <1>4, <2>1, <2>2
  <2> QED BY <2>1, <2>3, <2>4
<1>6. m \in 1 .. d
  <2>1. d < m => d <= z
    BY <1>4, <1>5
  <2>2. d = z => g = d * w
    BY <1>4
  <2>3. d < z => d * w + w <= g
    BY <1>2, <1>4, ProductGap
  <2>4. PICK x : x = d * w
    OBVIOUS
  <2>5. x \in Nat /\ q <= x
    BY <1>1, <1>2, <2>4
  <2>6. ~(d < m)
    BY <1>2, <1>5, <2>1, <2>2, <2>3, <2>4, <2>5
  <2> QED BY <1>5, <2>6
<1>7. \A k \in 1 .. q : e[k - 1] < e[k]
  BY PacksBefore
<1> HIDE DEF e
<1>8. 1 .. n \subseteq Filled(s, e, g)
  <2>1. ASSUME NEW k \in 1 .. n
        PROVE  k \in Filled(s, e, g)
    <3>1. PICK h : h = g + k
      OBVIOUS
    <3>2. h \in 1 .. q /\ h - 1 = g + k - 1 /\ k \in 1 .. w
      BY <1>2, <1>5, <3>1
    <3>3. e[g + k - 1] < e[g + k]
      BY <1>7, <3>1, <3>2
    <3> QED BY <1>1, <3>2, <3>3 DEF Filled
  <2> QED BY <2>1
<1>9. PICK size : size = Cardinality(Filled(s, e, g))
  OBVIOUS
<1>10. /\ size \in 0 .. w
       /\ BatchAfter(s, e, g) = [j \in 1 .. size |-> Pack(s, e, g + j)]
  BY <1>1, <1>2, <1>9, FilledFacts
<1>11. n <= size
  <2>1. IsFiniteSet(Filled(s, e, g))
    <3>1. IsFiniteSet(1 .. w)
      BY <1>2, FS_Interval
    <3> QED BY <1>1, <3>1, FS_Subset DEF Filled
  <2>2. Cardinality(1 .. n) <= size
    BY <1>8, <1>9, <2>1, FS_Subset
  <2>3. Cardinality(1 .. n) = n
    BY <1>5, CountTo
  <2> QED BY <2>2, <2>3
<1>12. BatchOf(s, e, m) = BatchAfter(s, e, g)
  BY <1>1, <1>4, <1>5 DEF BatchOf, BatchAfter
<1>13. n \in DOMAIN BatchOf(s, e, m)
  BY <1>5, <1>10, <1>11, <1>12
<1>14. q = Number(s, m, n)
  BY <1>1, <1>4, <1>5 DEF Number
<1> QED BY <1>1, <1>5, <1>6, <1>13, <1>14 DEF e

(* The properties.  The a-th sample of the j-th pack of the i-th batch.     *)
Placed(i, j, a) ==
    i \in DOMAIN delivered /\ j \in DOMAIN delivered[i] /\ a \in DOMAIN delivered[i][j]

(* No sample reaches the trainer twice, in a batch, a pack or after a resume. *)
EachSampleOnce ==
    \A i, m \in DOMAIN delivered :
        \A j \in DOMAIN delivered[i], n \in DOMAIN delivered[m] :
            \A a \in DOMAIN delivered[i][j], b \in DOMAIN delivered[m][n] :
                delivered[i][j][a] = delivered[m][n][b] => i = m /\ j = n /\ a = b

(* Whatever sample is delivered belongs to the rank's share, and those of the *)
(* share that come before it were delivered too.                            *)
NoSampleSkipped ==
    \A i \in DOMAIN delivered : \A j \in DOMAIN delivered[i] :
        \A a \in DOMAIN delivered[i][j] :
            /\ \E k \in Nat \ {0} : delivered[i][j][a] = Share(setup, k)
            /\ \A k \in Nat \ {0} :
                   Share(setup, k) < delivered[i][j][a] =>
                       \E m \in DOMAIN delivered : \E n \in DOMAIN delivered[m] :
                           \E b \in DOMAIN delivered[m][n] :
                               delivered[m][n][b] = Share(setup, k)

(* When the trainer is told that the source is at its end and no tail is      *)
(* dropped, every record of the source was delivered.                       *)
WholeSourceDelivered ==
    loader.exhausted /\ ~setup.dropLast =>
        \A sample \in 1 .. Len(corpus) :
            \E m \in DOMAIN delivered : \E n \in DOMAIN delivered[m] :
                \E b \in DOMAIN delivered[m][n] : delivered[m][n][b] = sample

(* A delivered pack holds a sample, no more tokens than the maximum length    *)
(* and no more samples than the limit.                                      *)
PacksWithinLimits ==
    setup.packs =>
        \A i \in DOMAIN delivered : \A j \in DOMAIN delivered[i] :
            /\ delivered[i][j] # << >>
            /\ TokensOf(delivered[i][j]) <= setup.maxLength
            /\ setup.sampleLimit > 0 => Len(delivered[i][j]) <= setup.sampleLimit

LEMMA DeliveredPack ==
  ASSUME IInv, NEW i \in DOMAIN delivered, NEW j \in DOMAIN delivered[i]
  PROVE  LET p == Number(setup, i, j)
             e == PackEnds(setup, corpus)
         IN  /\ i \in Nat \ {0} /\ j \in 1 .. setup.batchSize /\ p \in Nat \ {0}
             /\ delivered[i] = BatchOf(setup, e, i)
             /\ delivered[i][j] = Pack(setup, e, p)
             /\ \A n \in 1 .. j : n \in DOMAIN delivered[i]
             /\ e[p - 1] < e[p]
<1> DEFINE p == Number(setup, i, j)
           e == PackEnds(setup, corpus)
<1>1. Shape(setup, corpus)
  BY TakenNatural
<1>2. delivered \in Seq(BatchType) /\ delivered[i] = BatchOf(setup, e, i)
  BY DEF IInv, LoaderInv, Given
<1>3. i \in Nat \ {0} /\ delivered[i] \in BatchType
  BY <1>2
<1>4. /\ j \in 1 .. setup.batchSize /\ delivered[i][j] = Pack(setup, e, p)
      /\ \A n \in 1 .. j : n \in DOMAIN delivered[i]
  BY <1>1, <1>2, <1>3, BatchPacks
<1>5. p \in Nat \ {0}
  BY <1>1, <1>3, <1>4, NumberFacts
<1>6. Len(Pack(setup, e, p)) = e[p] - e[p - 1] /\ Len(Pack(setup, e, p)) > 0
  <2>1. delivered[i][j] \in Seq(Nat \ {0}) /\ delivered[i][j] # << >>
    BY <1>3 DEF BatchType
  <2> QED BY <1>1, <1>4, <1>5, <2>1, SampleOfPack
<1>7. e[p - 1] \in Nat /\ e[p] \in Nat
  <2>1. p - 1 \in Nat /\ p - 1 <= p /\ p \in Nat
    BY <1>5
  <2> QED BY <1>1, <2>1, EndsIncrease
<1> HIDE DEF e, p
<1>8. e[p - 1] < e[p]
  BY <1>6, <1>7
<1> QED BY <1>2, <1>3, <1>4, <1>5, <1>8 DEF e, p

LEMMA DeliveredSample ==
  ASSUME IInv, NEW i, NEW j, NEW a, Placed(i, j, a)
  PROVE  LET p == Number(setup, i, j)
             e == PackEnds(setup, corpus)
         IN  Within(e, p, a) /\ delivered[i][j][a] = Sample(setup, e, p, a)
<1>1. Shape(setup, corpus)
  BY TakenNatural
<1>2. i \in DOMAIN delivered /\ j \in DOMAIN delivered[i] /\ a \in DOMAIN delivered[i][j]
  BY DEF Placed
<1> DEFINE p == Number(setup, i, j)
           e == PackEnds(setup, corpus)
<1>3. p \in Nat \ {0} /\ delivered[i][j] = Pack(setup, e, p)
  BY <1>2, DeliveredPack
<1> QED BY <1>1, <1>2, <1>3, SampleOfPack

LEMMA OnceDelivered ==
  ASSUME IInv
  PROVE  EachSampleOnce
<1> SUFFICES ASSUME NEW i \in DOMAIN delivered, NEW m \in DOMAIN delivered,
                    NEW j \in DOMAIN delivered[i], NEW n \in DOMAIN delivered[m],
                    NEW a \in DOMAIN delivered[i][j], NEW b \in DOMAIN delivered[m][n],
                    delivered[i][j][a] = delivered[m][n][b]
             PROVE  i = m /\ j = n /\ a = b
  BY DEF EachSampleOnce
<1>1. Shape(setup, corpus)
  BY TakenNatural
<1> DEFINE p == Number(setup, i, j)
           q == Number(setup, m, n)
           e == PackEnds(setup, corpus)
<1>2. /\ Within(e, p, a) /\ delivered[i][j][a] = Sample(setup, e, p, a)
      /\ Within(e, q, b) /\ delivered[m][n][b] = Sample(setup, e, q, b)
  <2>1. Placed(i, j, a) /\ Placed(m, n, b)
    BY DEF Placed
  <2> QED BY <2>1, DeliveredSample
<1>3. /\ i \in Nat \ {0} /\ j \in 1 .. setup.batchSize /\ p \in Nat \ {0}
      /\ m \in Nat \ {0} /\ n \in 1 .. setup.batchSize /\ q \in Nat \ {0}
  BY DeliveredPack
<1>4. p = q /\ a = b
  BY <1>1, <1>2, <1>3, SameSample
<1>5. i = m /\ j = n
  BY <1>1, <1>3, <1>4, NumberFacts
<1> QED BY <1>4, <1>5

LEMMA NumberWithin ==
  ASSUME IInv, NEW i \in DOMAIN delivered, NEW j \in DOMAIN delivered[i]
  PROVE  Number(setup, i, j) <= Len(delivered) * setup.batchSize
<1>1. PICK w, d, a : w = setup.batchSize /\ d = Len(delivered) /\ a = i - 1
  OBVIOUS
<1>2. w \in Nat /\ d \in Nat /\ delivered \in Seq(BatchType)
  BY <1>1, TakenNatural DEF IInv, LoaderInv, Given
<1>3. a \in Nat /\ j \in 1 .. w /\ a < d
  <2>1. i \in Nat \ {0} /\ j \in 1 .. setup.batchSize
    BY DeliveredPack
  <2>2. i <= d
    BY <1>1, <1>2
  <2> QED BY <1>1, <1>2, <2>1, <2>2
<1>4. PICK x, y : x = a * w /\ y = d * w
  OBVIOUS
<1>5. x + w <= y /\ x \in Nat /\ y \in Nat
  BY <1>2, <1>3, <1>4, ProductGap
<1>6. Number(setup, i, j) = x + j
  BY <1>1, <1>4 DEF Number
<1>7. x + j <= y
  BY <1>2, <1>3, <1>5
<1> QED BY <1>1, <1>4, <1>6, <1>7

(* The packs of the first batches, as many as were delivered, were delivered. *)
LEMMA PackDelivered ==
  ASSUME IInv, NEW q \in Nat \ {0}, q <= Len(delivered) * setup.batchSize,
         PackEnds(setup, corpus)[q - 1] < PackEnds(setup, corpus)[q]
  PROVE  \E m \in DOMAIN delivered : \E n \in DOMAIN delivered[m] :
             delivered[m][n] = Pack(setup, PackEnds(setup, corpus), q)
<1> DEFINE e == PackEnds(setup, corpus)
<1>1. Shape(setup, corpus) /\ delivered \in Seq(BatchType) /\ Len(delivered) \in Nat
      /\ \A m \in DOMAIN delivered : delivered[m] = BatchOf(setup, e, m)
  BY TakenNatural DEF IInv, LoaderInv, Given
<1>2. PICK m \in 1 .. Len(delivered), n \in 1 .. setup.batchSize :
          q = Number(setup, m, n) /\ n \in DOMAIN BatchOf(setup, e, m)
  BY <1>1, PackInBatch
<1>3. m \in DOMAIN delivered /\ n \in DOMAIN delivered[m]
  BY <1>1, <1>2
<1>4. delivered[m][n] = Pack(setup, e, Number(setup, m, n))
  BY <1>3, DeliveredPack
<1> QED BY <1>2, <1>3, <1>4

(* So were their samples.                                                  *)
LEMMA ShareDelivered ==
  ASSUME IInv, NEW p \in Nat, p <= Len(delivered) * setup.batchSize,
         NEW k \in Nat \ {0}, k <= PackEnds(setup, corpus)[p]
  PROVE  \E m \in DOMAIN delivered : \E n \in DOMAIN delivered[m] :
             \E b \in DOMAIN delivered[m][n] : delivered[m][n][b] = Share(setup, k)
<1> DEFINE e == PackEnds(setup, corpus)
<1>1. Shape(setup, corpus)
  BY TakenNatural
<1>2. PICK q \in 1 .. p, b \in Nat \ {0} :
          Within(e, q, b) /\ Sample(setup, e, q, b) = Share(setup, k)
  BY <1>1, EarlierPack
<1>3. q \in Nat \ {0}
  OBVIOUS
<1>4. e[q - 1] < e[q]
  BY <1>1, <1>2, <1>3, SampleNumbers
<1>5. q <= Len(delivered) * setup.batchSize
  <2>1. PICK x : x = Len(delivered) * setup.batchSize
    OBVIOUS
  <2>2. Len(delivered) \in Nat /\ setup.batchSize \in Nat
    BY TakenNatural
  <2>3. x \in Nat
    BY <2>1, <2>2
  <2> QED BY <2>1, <2>3
<1>6. PICK m \in DOMAIN delivered : \E n \in DOMAIN delivered[m] :
          delivered[m][n] = Pack(setup, e, q)
  BY <1>3, <1>4, <1>5, PackDelivered
<1>7. PICK n \in DOMAIN delivered[m] : delivered[m][n] = Pack(setup, e, q)
  BY <1>6
<1>8. /\ b \in DOMAIN Pack(setup, e, q)
      /\ Pack(setup, e, q)[b] = Sample(setup, e, q, b)
  BY <1>1, <1>2, <1>3, SampleOfPack
<1> QED BY <1>2, <1>7, <1>8

LEMMA NoneSkipped ==
  ASSUME IInv
  PROVE  NoSampleSkipped
<1> SUFFICES ASSUME NEW i \in DOMAIN delivered, NEW j \in DOMAIN delivered[i],
                    NEW a \in DOMAIN delivered[i][j]
             PROVE  /\ \E k \in Nat \ {0} : delivered[i][j][a] = Share(setup, k)
                    /\ \A k \in Nat \ {0} :
                         Share(setup, k) < delivered[i][j][a] =>
                           \E m \in DOMAIN delivered : \E n \in DOMAIN delivered[m] :
                             \E b \in DOMAIN delivered[m][n] :
                                 delivered[m][n][b] = Share(setup, k)
  BY DEF NoSampleSkipped
<1> DEFINE p == Number(setup, i, j)
           e == PackEnds(setup, corpus)
<1>1. Shape(setup, corpus)
  BY TakenNatural
<1>2. p \in Nat \ {0} /\ p \in Nat
  BY DeliveredPack
<1>3. Within(e, p, a) /\ delivered[i][j][a] = Sample(setup, e, p, a)
  <2>1. Placed(i, j, a)
    BY DEF Placed
  <2> QED BY <2>1, DeliveredSample
<1>4. PICK l : l = e[p - 1] + a
  OBVIOUS
<1>5. l \in Nat \ {0} /\ l <= e[p] /\ e[p] \in Nat
  BY <1>1, <1>2, <1>3, <1>4, SampleNumbers DEF Within
<1>6. delivered[i][j][a] = Share(setup, l)
  BY <1>3, <1>4 DEF Sample
<1>7. ASSUME NEW k \in Nat \ {0}, Share(setup, k) < delivered[i][j][a]
      PROVE  \E m \in DOMAIN delivered : \E n \in DOMAIN delivered[m] :
               \E b \in DOMAIN delivered[m][n] : delivered[m][n][b] = Share(setup, k)
  <2>1. k < l
    BY <1>1, <1>5, <1>6, <1>7, ShareGrows
  <2>2. k <= e[p]
    BY <1>5, <2>1
  <2>3. p <= Len(delivered) * setup.batchSize
    BY NumberWithin
  <2> QED BY <1>2, <2>2, <2>3, ShareDelivered
<1> QED BY <1>5, <1>6, <1>7

(* Where a pack ends where it starts, nothing is left to read.               *)
LEMMA NothingLeft ==
  ASSUME NEW s, NEW c, Shape(s, c), NEW i \in Nat,
         PackEnds(s, c)[i + 1] = PackEnds(s, c)[i], Readable(s, c, Len(c))
  PROVE  Len(c) <= PackEnds(s, c)[i]
<1> DEFINE e == PackEnds(s, c)
<1>1. e[i] \in Nat /\ Len(c) \in Nat
  BY EndsFacts DEF Shape
<1>2. e[i + 1] = NextEnd(s, c, e[i])
  BY PackEndsStep
<1> HIDE DEF e
<1>3. PICK f : f = e[i]
  OBVIOUS
<1>4. f \in Nat /\ NextEnd(s, c, f) = f
  BY <1>1, <1>2, <1>3 DEF e
<1>5. ~Readable(s, c, f + 1)
  BY <1>4, NextEndFits
<1>6. ~(f + 1 <= Len(c))
  <2>1. f + 1 \in Nat
    BY <1>4
  <2> QED BY <1>1, <1>5, <2>1, ReadableBack
<1> QED BY <1>1, <1>3, <1>4, <1>6 DEF e

LEMMA EmptyBatch ==
  ASSUME NEW s, NEW c, Shape(s, c), NEW g \in Nat,
         BatchAfter(s, PackEnds(s, c), g) = << >>
  PROVE  PackEnds(s, c)[g + 1] = PackEnds(s, c)[g]
<1> DEFINE e == PackEnds(s, c)
<1>1. e[g] \in Nat /\ e[g + 1] \in Nat /\ e[g] <= e[g + 1]
  BY EndsFacts
<1>2. PICK w : w = s.batchSize
  OBVIOUS
<1>3. w \in Nat \ {0}
  BY <1>2 DEF Shape
<1> HIDE DEF e
<1>4. PICK size : size = Cardinality(Filled(s, e, g))
  OBVIOUS
<1>5. size \in 0 .. w /\ BatchAfter(s, e, g) = [j \in 1 .. size |-> Pack(s, e, g + j)]
  BY <1>2, <1>3, <1>4, FilledFacts
<1>6. size = 0
  <2>1. DOMAIN BatchAfter(s, e, g) = 1 .. size
    BY <1>5
  <2>2. DOMAIN BatchAfter(s, e, g) = {}
    BY DEF e
  <2> QED BY <1>3, <1>5, <2>1, <2>2
<1>7. Filled(s, e, g) = {}
  <2>1. IsFiniteSet(1 .. w)
    BY <1>3, FS_Interval
  <2>2. IsFiniteSet(Filled(s, e, g))
    BY <1>2, <2>1, FS_Subset DEF Filled
  <2> QED BY <1>4, <1>6, <2>2, FS_EmptySet
<1>8. ~(e[g] < e[g + 1])
  <2>1. 1 \in 1 .. w /\ g + 1 - 1 = g
    BY <1>3
  <2> QED BY <1>2, <1>7, <2>1 DEF Filled
<1> QED BY <1>1, <1>8 DEF e

LEMMA AllDelivered ==
  ASSUME IInv
  PROVE  WholeSourceDelivered
<1> SUFFICES ASSUME loader.exhausted, ~setup.dropLast, NEW sample \in 1 .. Len(corpus)
             PROVE  \E m \in DOMAIN delivered : \E n \in DOMAIN delivered[m] :
                      \E b \in DOMAIN delivered[m][n] : delivered[m][n][b] = sample
  BY DEF WholeSourceDelivered
<1> DEFINE e == PackEnds(setup, corpus)
<1>1. /\ Shape(setup, corpus) /\ Len(delivered) \in Nat
      /\ setup.batchSize \in Nat \ {0} /\ Len(corpus) \in Nat \ {0}
  BY TakenNatural DEF Shape
<1>2. EndReached(setup, corpus, Len(delivered))
  BY EndFacts
<1>3. /\ ~setup.repeat /\ Readable(setup, corpus, Len(corpus))
      /\ BatchOf(setup, e, Len(delivered) + 1) = << >>
  BY <1>2 DEF EndReached
<1>4. PICK g : g = Len(delivered) * setup.batchSize
  OBVIOUS
<1>5. g \in Nat
  BY <1>1, <1>4
<1>6. e[g + 1] = e[g]
  <2>1. BatchAfter(setup, e, g) = << >>
    <3>1. Len(delivered) + 1 - 1 = Len(delivered)
      BY <1>1
    <3> QED BY <1>3, <1>4, <3>1 DEF BatchOf, BatchAfter
  <2> QED BY <1>1, <1>5, <2>1, EmptyBatch
<1>7. Len(corpus) <= e[g] /\ e[g] \in Nat
  BY <1>1, <1>3, <1>5, <1>6, NothingLeft, EndsFacts
<1>8. sample \in Nat \ {0} /\ sample <= e[g]
  BY <1>1, <1>7
<1>9. Share(setup, sample) = sample
  <2>1. setup.world = 1 /\ setup.rank = 0
    BY <1>1, <1>3 DEF Shape
  <2> QED BY <1>8, <2>1 DEF Share
<1>10. g <= Len(delivered) * setup.batchSize
  BY <1>4, <1>5
<1> QED BY <1>5, <1>8, <1>9, <1>10, ShareDelivered

LEMMA LimitsKept ==
  ASSUME IInv
  PROVE  PacksWithinLimits
<1> SUFFICES ASSUME setup.packs, NEW i \in DOMAIN delivered, NEW j \in DOMAIN delivered[i]
             PROVE  /\ delivered[i][j] # << >>
                    /\ TokensOf(delivered[i][j]) <= setup.maxLength
                    /\ setup.sampleLimit > 0 => Len(delivered[i][j]) <= setup.sampleLimit
  BY DEF PacksWithinLimits
<1>1. Shape(setup, corpus)
  BY TakenNatural
<1> DEFINE p == Number(setup, i, j)
           e == PackEnds(setup, corpus)
<1>2. p \in Nat \ {0} /\ delivered[i][j] = Pack(setup, e, p) /\ e[p - 1] < e[p]
  BY DeliveredPack
<1>3. /\ TokensIn(corpus, Pack(setup, e, p)) <= setup.maxLength
      /\ setup.sampleLimit > 0 => Len(Pack(setup, e, p)) <= setup.sampleLimit
  BY <1>1, <1>2, PackFits
<1>4. TokensOf(delivered[i][j]) = TokensIn(corpus, delivered[i][j])
  BY DEF TokensOf, TokensIn, LengthOf, LengthIn
<1>5. delivered[i][j] # << >>
  <2>1. delivered \in Seq(BatchType) /\ i \in DOMAIN delivered
    BY DEF IInv, LoaderInv, Given
  <2>2. delivered[i] \in Seq(Seq(Nat \ {0}) \ {<<>>})
    BY <2>1 DEF BatchType
  <2> QED BY <2>2
<1> QED BY <1>2, <1>3, <1>4, <1>5


(* Nothing that is delivered is in the share of another rank.               *)
NothingForeign ==
    \A i \in DOMAIN delivered : \A j \in DOMAIN delivered[i] :
        \A a \in DOMAIN delivered[i][j] : \A other \in Setups : \A k \in Nat \ {0} :
            other.world = setup.world /\ other.rank # setup.rank =>
                delivered[i][j][a] # Share(other, k)

(* Of the samples that come before a delivered one, those that were not       *)
(* delivered are in the share of another rank.                              *)
NoneUnclaimed ==
    \A i \in DOMAIN delivered : \A j \in DOMAIN delivered[i] :
        \A a \in DOMAIN delivered[i][j] : \A sample \in 1 .. delivered[i][j][a] - 1 :
            \/ \E m \in DOMAIN delivered : \E n \in DOMAIN delivered[m] :
                   \E b \in DOMAIN delivered[m][n] : delivered[m][n][b] = sample
            \/ \E rank \in 0 .. setup.world - 1 : \E k \in Nat \ {0} :
                   rank # setup.rank /\ Share([setup EXCEPT !.rank = rank], k) = sample

LEMMA SomeShare ==
  ASSUME NEW s, NEW c, Shape(s, c), NEW sample \in Nat \ {0}
  PROVE  \E a \in Nat, rank \in 0 .. s.world - 1 : sample = a * s.world + rank + 1
<1>1. s.world \in Nat \ {0} /\ sample - 1 \in Nat
  BY DEF Shape
<1>2. PICK a \in Nat, rank \in 0 .. s.world - 1 : sample - 1 = a * s.world + rank
  BY <1>1, SomePlace
<1>3. PICK x : x = a * s.world
  OBVIOUS
<1>4. sample = x + rank + 1
  <2>1. x \in Nat
    BY <1>1, <1>3
  <2> QED BY <1>1, <1>2, <1>3, <2>1
<1> QED BY <1>2, <1>3, <1>4

LEMMA OwnSamples ==
  ASSUME IInv
  PROVE  NothingForeign
<1> SUFFICES ASSUME NEW i \in DOMAIN delivered, NEW j \in DOMAIN delivered[i],
                    NEW a \in DOMAIN delivered[i][j], NEW other \in Setups,
                    NEW k \in Nat \ {0}, other.world = setup.world,
                    delivered[i][j][a] = Share(other, k)
             PROVE  other.rank = setup.rank
  BY DEF NothingForeign
<1>1. /\ setup.world \in Nat \ {0} /\ setup.rank \in 0 .. setup.world - 1
      /\ other.rank \in 0 .. setup.world - 1
  <2>1. Shape(setup, corpus) /\ Shape(other, corpus)
    BY TakenNatural, Shaped
  <2> QED BY <2>1 DEF Shape
<1>2. PICK l \in Nat \ {0} : delivered[i][j][a] = Share(setup, l)
  BY NoneSkipped DEF NoSampleSkipped
<1> QED BY <1>1, <1>2, ShareOnce

LEMMA EarlierClaimed ==
  ASSUME IInv
  PROVE  NoneUnclaimed
<1> SUFFICES ASSUME NEW i \in DOMAIN delivered, NEW j \in DOMAIN delivered[i],
                    NEW a \in DOMAIN delivered[i][j],
                    NEW sample \in 1 .. delivered[i][j][a] - 1
             PROVE  \/ \E m \in DOMAIN delivered : \E n \in DOMAIN delivered[m] :
                         \E b \in DOMAIN delivered[m][n] : delivered[m][n][b] = sample
                    \/ \E rank \in 0 .. setup.world - 1 : \E k \in Nat \ {0} :
                         rank # setup.rank /\ Share([setup EXCEPT !.rank = rank], k) = sample
  BY DEF NoneUnclaimed
<1>1. Shape(setup, corpus) /\ setup \in SetupType
  BY TakenNatural, DataAssumption
<1>2. sample \in Nat \ {0} /\ sample < delivered[i][j][a]
  <2>1. delivered \in Seq(BatchType)
    BY DEF IInv, LoaderInv, Given
  <2>2. delivered[i][j] \in Seq(Nat \ {0})
    BY <2>1 DEF BatchType
  <2>3. delivered[i][j][a] \in Nat
    BY <2>2
  <2> QED BY <2>3
<1>3. PICK turn \in Nat, rank \in 0 .. setup.world - 1 :
          sample = turn * setup.world + rank + 1
  BY <1>1, <1>2, SomeShare
<1>4. PICK t, k : t = [setup EXCEPT !.rank = rank] /\ k = turn + 1
  OBVIOUS
<1>5. /\ t.world = setup.world /\ t.rank = rank
      /\ k \in Nat \ {0} /\ k - 1 = turn
  BY <1>1, <1>4 DEF SetupType
<1>6. Share(t, k) = sample
  BY <1>3, <1>5 DEF Share
<1>7. CASE rank # setup.rank
  BY <1>4, <1>5, <1>6, <1>7
<1>8. CASE rank = setup.rank
  <2>1. Share(setup, k) = sample
    BY <1>5, <1>6, <1>8 DEF Share
  <2>2. Share(setup, k) < delivered[i][j][a]
    BY <1>2, <2>1
  <2>3. \E m \in DOMAIN delivered : \E n \in DOMAIN delivered[m] :
           \E b \in DOMAIN delivered[m][n] : delivered[m][n][b] = Share(setup, k)
    BY <1>5, <2>2, NoneSkipped DEF NoSampleSkipped
  <2> QED BY <2>1, <2>3
<1> QED BY <1>7, <1>8

-----------------------------------------------------------------------------

(* In every reachable state the variables have their types, the ready queue *)
(* of DataPipelineStream holds at most a batch and one pack, the iterator    *)
(* runs at most the prefetch bound ahead of the trainer, and a restored      *)
(* iterator has fewer batches to discard than a snapshot interval.          *)
THEOREM TypeCorrect == Spec => []TypeOK
BY Invariance, TypesHold, PTL

(* Whatever the source, the packer, the sharding, the prefetching, the       *)
(* snapshot interval, the crashes and the resumes: the i-th batch            *)
(* StatefulBatchLoader returns is the i-th reference batch, and its counters *)
(* are those of what was delivered.                                         *)
THEOREM ReferenceAlways == Spec => []DeliversReference
BY Invariance, ReferenceDelivered, PTL

(* StatefulBatchLoader raises StopIteration only when a finite source has    *)
(* nothing left for the trainer but a tail that is dropped.                 *)
THEOREM EndAlwaysComplete == Spec => []EndIsComplete
BY Invariance, EndComplete, PTL

(* The validators of the loader, the stream, the source and the packer       *)
(* accept every state that StatefulBatchLoader.state_dict can return.       *)
THEOREM StateAlwaysAccepted == Spec => []SavedStateAccepted
BY Invariance, StateAccepted, PTL

(* RankShardedSource and the packers hand out no sample twice: whatever was   *)
(* prefetched, discarded, checkpointed or replayed on the way, two places    *)
(* among the batches StatefulBatchLoader returned hold different samples.    *)
THEOREM NoneTwice == Spec => []EachSampleOnce
BY Invariance, OnceDelivered, PTL

(* They lose none: what StatefulBatchLoader returns is of this rank's share,  *)
(* and every earlier sample of the share was returned too, whole packs and   *)
(* spilled samples included.                                                *)
THEOREM NoneLost == Spec => []NoSampleSkipped
BY Invariance, NoneSkipped, PTL

(* A finite source whose tail is kept was delivered to its last record when   *)
(* StatefulBatchLoader raises StopIteration.                                *)
THEOREM NothingLeftAtEnd == Spec => []WholeSourceDelivered
BY Invariance, AllDelivered, PTL

(* No pack of SequencePacker that reaches the trainer is empty, longer than   *)
(* max_length or has more samples than max_samples_per_pack.                *)
THEOREM LimitsAlways == Spec => []PacksWithinLimits
BY Invariance, LimitsKept, PTL

(* RankShardedSource keeps ranks apart: nothing that StatefulBatchLoader       *)
(* returns on one rank is in the share of another, at whatever point of the  *)
(* stream either of them resumed.                                           *)
THEOREM NothingFromOthers == Spec => []NothingForeign
BY Invariance, OwnSamples, PTL

(* And together they lose nothing: a sample that the trainer of one rank has  *)
(* gone past was returned there, or another rank's source reads it.         *)
THEOREM EverySampleClaimed == Spec => []NoneUnclaimed
BY Invariance, EarlierClaimed, PTL

=============================================================================
