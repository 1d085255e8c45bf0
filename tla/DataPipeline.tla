---------------------------- MODULE DataPipeline ----------------------------
(***************************************************************************)
(* One rank's training data path: a repeating or finite source, in memory  *)
(* or in a JSONL file, optionally seen through RankShardedSource; the      *)
(* sequence packer or the "none" packer; the ready queue and the batches   *)
(* cut from it by DataPipelineStream; TorchData's StatefulDataLoader, which *)
(* runs the stream in this process or ahead of the trainer in a worker;    *)
(* and StatefulBatchLoader, which the trainer calls.  The trainer saves    *)
(* the loader between two batches, may crash at any point, and may         *)
(* resume a fresh process from what was saved.                             *)
(*                                                                         *)
(* A sample is its position in the endless read order of the source; its   *)
(* token length is that of the record there.  A pack is the sequence of    *)
(* its samples, a batch the sequence of its packs.                         *)
(***************************************************************************)
EXTENDS Integers, Sequences, FiniteSets, FiniteSetsExt

CONSTANTS
    Corpora,    \* the record-length sequences a source may hold
    Setups,     \* the data configurations to consider, see SetupType
    MaxBatches, \* bound: batches the trainer asks for
    MaxCrashes  \* bound: crashes of the process or its worker in a behaviour

(* The configuration of one run.  sampleLimit 0 is max_samples_per_pack    *)
(* None; prefetch 0 is num_workers 0; snapshotEvery is                     *)
(* snapshot_every_n_steps; newline says whether a file's last line has one. *)
SetupType ==
    [source : {"memory", "jsonl"}, newline : BOOLEAN, repeat : BOOLEAN,
     world : Nat \ {0}, rank : Nat, packs : BOOLEAN,
     maxLength : Nat \ {0}, sampleLimit : Nat, batchSize : Nat \ {0},
     dropLast : BOOLEAN, prefetch : Nat, snapshotEvery : Nat \ {0}]

ASSUME DataAssumption ==
    /\ Corpora \subseteq Seq(Nat \ {0}) \ {<<>>}
    /\ Setups \subseteq SetupType
    /\ \A s \in Setups : s.rank < s.world /\ (s.world > 1 => s.repeat)
    /\ MaxBatches \in Nat /\ MaxCrashes \in Nat

None == [absent |-> TRUE]

VARIABLES
    corpus,    \* the records of this run's source, by token length
    setup,     \* this run's configuration
    iterator,  \* TorchData's iterator: absent, open, or its generator returned
    stream,    \* DataPipelineStream, where the iterator runs it
    queue,     \* what the iterator produced and the trainer has not taken
    upstream,  \* StatefulDataLoader's account of what the trainer has taken
    replay,    \* batches still to be discarded after a restore
    loader,    \* StatefulBatchLoader's own fields
    asking,    \* the trainer is inside next_batch
    status,    \* the trainer: running, or ended by a failure
    saved,     \* the last loader state in a checkpoint, or None
    delivered, \* history: the batches of this trajectory, resumed part included
    crashes

vars == <<corpus, setup, iterator, stream, queue, upstream, replay, loader,
          asking, status, saved, delivered, crashes>>

-----------------------------------------------------------------------------
(* The source.                                                             *)

\* The sum of the numbers v gives for the elements of S.
Total(v, S) == MapThenSumSet(LAMBDA x : v[x], S)

LengthOf(sample) == corpus[((sample - 1) % Len(corpus)) + 1]

\* Where a source is: MemorySource's cursor, or JsonlSource's byte offset, line
\* number and epoch.
FirstPlace == [cursor |-> 0, offset |-> 0, line |-> 0, epoch |-> 0]

\* Where the lines of a file end: each is its text, here as long as its tokens,
\* and a newline, which the last line may lack.
LineEnds ==
    [c \in Corpora |-> [newline \in BOOLEAN |->
        LET size == [k \in 1 .. Len(c) |->
                        c[k] + (IF k < Len(c) \/ newline THEN 1 ELSE 0)]
        IN  [line \in 0 .. Len(c) |-> Total(size, 1 .. line)]]]

EndOf(line) == LineEnds[corpus][setup.newline][line]

FileSize == EndOf(Len(corpus))

\* _line_number_at_offset; empty when the offset is inside a line.
LineNumbersAt(offset) == {n \in 0 .. Len(corpus) : EndOf(n) = offset}

\* next_sample would not raise StopIteration.
HasNext(s) ==
    \/ setup.repeat
    \/ IF setup.source = "memory" THEN s.place.cursor < Len(corpus)
                                  ELSE s.place.offset < FileSize

\* One next_sample: a repeating file is rolled over by the read after its end.
ReadLine(place, rolls) ==
    LET first == IF rolls THEN 0 ELSE Min(LineNumbersAt(place.offset))
    IN  [place EXCEPT !.offset = EndOf(first + 1),
                      !.line   = (IF rolls THEN 0 ELSE @) + 1,
                      !.epoch  = IF rolls THEN @ + 1 ELSE @]

ReadRecord(place) ==
    IF setup.source = "memory" THEN [place EXCEPT !.cursor = @ + 1]
    ELSE ReadLine(place, place.offset = FileSize)

ReadRecords(place, n) ==
    LET after[k \in 0 .. n] == IF k = 0 THEN place ELSE ReadRecord(after[k - 1])
    IN  after[n]

\* The record that was read last, as its position in the read order.
Position(place) ==
    IF setup.source = "memory" THEN place.cursor
    ELSE place.epoch * Len(corpus) + Min(LineNumbersAt(place.offset))

\* A fresh DataPipelineStream: unsharded, nothing read.
FreshStream ==
    [place |-> FirstPlace, local |-> 0, sharded |-> FALSE, topology |-> FALSE,
     buffer |-> <<>>, tokens |-> 0, ready |-> <<>>, exhausted |-> FALSE,
     dropped |-> 0]

\* RankShardedSource.next_sample reads one sample for every rank and keeps its
\* own; without it, the next record.
Stride(s) == IF s.sharded THEN setup.world ELSE 1
NextSample(s) ==
    Position(ReadRecords(s.place, IF s.sharded THEN setup.rank + 1 ELSE 1))
SampleRead(s) ==
    [s EXCEPT !.place = ReadRecords(@, Stride(s)), !.local = @ + 1]

\* DataPipelineStream.shard for a generic source: wrapped once.
Shard(s) == [s EXCEPT !.sharded = @ \/ setup.world > 1]

-----------------------------------------------------------------------------
(* The packers.                                                            *)

TokensOf(samples) ==
    Total([i \in DOMAIN samples |-> LengthOf(samples[i])], DOMAIN samples)

AtLimit(samples) == setup.sampleLimit > 0 /\ Len(samples) >= setup.sampleLimit

\* SequencePacker._length refuses a sample no pack can hold.
Acceptable(sample) == setup.packs => LengthOf(sample) <= setup.maxLength

\* SequencePacker.add and NoPacker.add, with the extension of the ready queue.
\* The pack under construction is emitted when the sample does not fit, and
\* the new one when it is full.
Add(s, sample) ==
    LET n     == LengthOf(sample)
        spill == s.buffer # <<>> /\ s.tokens + n > setup.maxLength
        held  == IF spill THEN <<sample>> ELSE Append(s.buffer, sample)
        sum   == IF spill THEN n ELSE s.tokens + n
        full  == sum = setup.maxLength \/ AtLimit(held)
        kept  == IF spill THEN Append(s.ready, s.buffer) ELSE s.ready
    IN  IF setup.packs
        THEN [s EXCEPT !.buffer = IF full THEN <<>> ELSE held,
                       !.tokens = IF full THEN 0 ELSE sum,
                       !.ready = IF full THEN Append(kept, held) ELSE kept]
        ELSE [s EXCEPT !.ready = Append(@, <<sample>>)]

\* SequencePacker.flush and NoPacker.flush.
Flush(s) ==
    IF s.buffer = <<>> THEN s
    ELSE [s EXCEPT !.ready = Append(@, s.buffer), !.buffer = <<>>, !.tokens = 0]

-----------------------------------------------------------------------------
(* Saved states and their validators.                                      *)

\* SequencePacker.load_state_dict.
PackerAccepts(s) ==
    IF setup.packs
    THEN /\ \A i \in DOMAIN s.buffer : LengthOf(s.buffer[i]) <= setup.maxLength
         /\ s.tokens = TokensOf(s.buffer)
         /\ s.tokens < setup.maxLength
         /\ ~AtLimit(s.buffer)
    ELSE s.buffer = <<>>

\* Mutant of Prepared: the source is not sharded before its state is loaded.
PreparedUnsharded(s) == FreshStream

\* The stream a saved state is loaded into: DataPipelineStream.load_state_dict
\* shards first when the saved stream had been iterated.
Prepared(s) == IF s.topology THEN Shard(FreshStream) ELSE FreshStream

\* MemorySource.load_state_dict and JsonlSource.load_state_dict.
PlaceAccepted(place) ==
    IF setup.source = "memory" THEN setup.repeat \/ place.cursor <= Len(corpus)
    ELSE /\ place.line \in LineNumbersAt(place.offset)
         /\ ~setup.repeat => place.epoch = 0
         /\ ~(setup.repeat /\ place.epoch > 0 /\ place.offset = 0)

\* RankShardedSource.load_state_dict.
SourceAccepts(s) ==
    s.sharded = Prepared(s).sharded /\ PlaceAccepted(s.place)

StreamAccepts(s) == SourceAccepts(s) /\ PackerAccepts(s)

\* StatefulBatchLoader.load_state_dict: its counters bound one another, and
\* its exhaustion agrees with the iterator's.
LoaderAccepts(c) ==
    /\ (c.batches = 0) <=> (c.samples = 0)
    /\ c.batches <= c.samples
    /\ c.samples <= c.batches * setup.batchSize
    /\ c.exhausted = c.upstream.finished

\* StatefulDataLoader's state before anything was taken.
FreshUpstream == [snapshot |-> FreshStream, behind |-> 0, finished |-> FALSE]

FreshLoader ==
    [pending |-> None, batches |-> 0, samples |-> 0, exhausted |-> FALSE]

\* Mutant of StateDict: the state it was restored from is not kept until an
\* iterator exists.
StateDictOfIterator ==
    [upstream  |-> upstream,
     batches   |-> loader.batches,
     samples   |-> loader.samples,
     exhausted |-> loader.exhausted]

\* StatefulBatchLoader.state_dict: the state it was restored from until an
\* iterator exists, then the iterator's own account.
StateDict ==
    [upstream  |-> IF loader.pending = None THEN upstream ELSE loader.pending,
     batches   |-> loader.batches,
     samples   |-> loader.samples,
     exhausted |-> loader.exhausted]

-----------------------------------------------------------------------------
Process == <<iterator, stream, queue, upstream, replay, loader, asking, status>>

FreshProcess ==
    /\ iterator = "absent" /\ stream = FreshStream /\ queue = <<>>
    /\ upstream = FreshUpstream /\ replay = 0
    /\ loader = FreshLoader /\ asking = FALSE /\ status = "running"

Init ==
    /\ corpus \in Corpora
    /\ setup \in Setups
    /\ FreshProcess
    /\ saved = None
    /\ delivered = <<>>
    /\ crashes = 0

(* The trainer's side.                                                     *)

\* StatefulBatchLoader.next_batch is called.  Once the stream is exhausted the
\* call raises StopIteration again and changes nothing.
Request ==
    /\ status = "running" /\ ~asking
    /\ ~loader.exhausted
    /\ Len(delivered) < MaxBatches
    /\ asking' = TRUE
    /\ UNCHANGED <<corpus, setup, iterator, stream, queue, upstream, replay,
                   loader, status, saved, delivered, crashes>>

\* _ensure_iterator: TorchData opens an iterator, loading the pending state
\* into the stream, or from the beginning when there is none or when the
\* pending state belongs to a finished iterator; DataPipelineStream.__iter__
\* then shards the source.  A stream that refuses the state fails the call.
EnsureIterator ==
    /\ asking /\ iterator = "absent"
    /\ LET p       == IF loader.pending = None THEN FreshUpstream ELSE loader.pending
           restart == p.finished
           s       == IF restart THEN FreshStream ELSE p.snapshot
       IN  IF StreamAccepts(s)
           THEN /\ iterator' = "open"
                /\ stream' = [Shard(s) EXCEPT !.topology = TRUE]
                /\ upstream' = IF restart THEN FreshUpstream ELSE [p EXCEPT !.behind = 0]
                /\ replay' = IF restart THEN 0 ELSE p.behind
                /\ loader' = [loader EXCEPT !.pending = None]
                /\ UNCHANGED <<asking, status>>
           ELSE /\ status' = "failed" /\ asking' = FALSE
                /\ UNCHANGED <<iterator, stream, upstream, replay, loader>>
    /\ UNCHANGED <<corpus, setup, queue, saved, delivered, crashes>>

\* StatefulDataLoader's account of one more batch taken: a new snapshot of the
\* stream that cut it, or, between snapshots of a worker, one batch more since
\* the last.
Taken(item) ==
    IF setup.prefetch = 0 \/ upstream.behind + 1 >= setup.snapshotEvery
    THEN [upstream EXCEPT !.snapshot = item.after, !.behind = 0]
    ELSE [upstream EXCEPT !.behind = @ + 1]

\* The restored iterator discards the batches taken after the snapshot.
Replay ==
    /\ asking /\ replay > 0
    /\ queue # <<>> /\ Head(queue).kind = "batch"
    /\ queue' = Tail(queue)
    /\ upstream' = Taken(Head(queue))
    /\ replay' = replay - 1
    /\ UNCHANGED <<corpus, setup, iterator, stream, loader, asking, status,
                   saved, delivered, crashes>>

\* next_batch returns a batch and counts it.
Deliver ==
    /\ asking /\ replay = 0
    /\ queue # <<>> /\ Head(queue).kind = "batch"
    /\ queue' = Tail(queue)
    /\ upstream' = Taken(Head(queue))
    /\ loader' = [loader EXCEPT !.batches = @ + 1,
                                !.samples = @ + Len(Head(queue).batch)]
    /\ delivered' = Append(delivered, Head(queue).batch)
    /\ asking' = FALSE
    /\ UNCHANGED <<corpus, setup, iterator, stream, replay, status, saved, crashes>>

\* next_batch raises StopIteration and the loader stays exhausted.
DeliverEnd ==
    /\ asking /\ replay = 0
    /\ queue # <<>> /\ Head(queue).kind = "end"
    /\ queue' = <<>>
    /\ upstream' = [upstream EXCEPT !.snapshot = Head(queue).after,
                                    !.behind = 0, !.finished = TRUE]
    /\ loader' = [loader EXCEPT !.exhausted = TRUE]
    /\ asking' = FALSE
    /\ UNCHANGED <<corpus, setup, iterator, stream, replay, status, saved,
                   delivered, crashes>>

\* next_batch raises DataLoadingError: training is over.
DeliverError ==
    /\ asking
    /\ queue # <<>> /\ Head(queue).kind = "error"
    /\ status' = "failed" /\ asking' = FALSE
    /\ UNCHANGED <<corpus, setup, iterator, stream, queue, upstream, replay,
                   loader, saved, delivered, crashes>>

\* The trainer checkpoints the loader between two batches.
Save ==
    /\ status = "running" /\ ~asking
    /\ saved' = [state |-> StateDict, delivered |-> delivered]
    /\ UNCHANGED <<corpus, setup, Process, delivered, crashes>>

\* The worker dies, or outlasts the loader's timeout: some of what it had ready
\* is lost, and TorchData raises in the call that misses it.
WorkerLost ==
    /\ setup.prefetch > 0 /\ iterator = "open"
    /\ crashes < MaxCrashes
    /\ crashes' = crashes + 1
    /\ iterator' = "returned"
    /\ \E kept \in 0 .. Len(queue) :
           queue' = Append(SubSeq(queue, 1, kept), [kind |-> "error"])
    /\ UNCHANGED <<corpus, setup, stream, upstream, replay, loader, asking,
                   status, saved, delivered>>

\* The process, its iterator and its worker are gone; a new process starts.
Crash ==
    /\ crashes < MaxCrashes
    /\ crashes' = crashes + 1
    /\ iterator' = "absent" /\ stream' = FreshStream /\ queue' = <<>>
    /\ upstream' = FreshUpstream /\ replay' = 0
    /\ loader' = FreshLoader /\ asking' = FALSE /\ status' = "running"
    /\ delivered' = <<>>
    /\ UNCHANGED <<corpus, setup, saved>>

\* StatefulBatchLoader.load_state_dict in a process that has read nothing.
Resume ==
    /\ saved # None /\ FreshProcess
    /\ IF LoaderAccepts(saved.state)
       THEN /\ loader' = [pending   |-> saved.state.upstream,
                          batches   |-> saved.state.batches,
                          samples   |-> saved.state.samples,
                          exhausted |-> saved.state.exhausted]
            /\ delivered' = saved.delivered
            /\ UNCHANGED status
       ELSE status' = "failed" /\ UNCHANGED <<loader, delivered>>
    /\ UNCHANGED <<corpus, setup, iterator, stream, queue, upstream, replay,
                   asking, saved, crashes>>

-----------------------------------------------------------------------------
(* The stream's side: DataPipelineStream.next_batch, called by its          *)
(* generator in this process while the trainer asks, or in a worker until   *)
(* the prefetch queue is full.                                              *)

\* Mutant of Working: nothing holds a worker back.
WorkingFreely ==
    /\ iterator = "open"
    /\ setup.prefetch = 0 => asking /\ queue = <<>>
    /\ Len(queue) < 4

Working ==
    /\ iterator = "open"
    /\ IF setup.prefetch = 0 THEN asking /\ queue = <<>>
                             ELSE Len(queue) < setup.prefetch

Filling(s) == Len(s.ready) < setup.batchSize /\ ~s.exhausted

StreamOnly ==
    UNCHANGED <<corpus, setup, upstream, replay, loader, asking, status,
                saved, delivered, crashes>>

\* A sample is read, transformed, encoded, annotated and packed.
ReadSample ==
    /\ Working /\ Filling(stream) /\ HasNext(stream)
    /\ \E sample \in {NextSample(stream)}, after \in {SampleRead(stream)} :
           /\ Acceptable(sample)
           /\ stream' = Add(after, sample)
    /\ UNCHANGED <<iterator, queue>> /\ StreamOnly

\* The packer refuses a sample: the generator dies and the error is passed on.
RejectSample ==
    /\ Working /\ Filling(stream) /\ HasNext(stream)
    /\ ~Acceptable(NextSample(stream))
    /\ stream' = SampleRead(stream)
    /\ queue' = Append(queue, [kind |-> "error"])
    /\ iterator' = "returned"
    /\ StreamOnly

\* Mutant of ReachEnd: the pack under construction is not flushed.
ReachEndUnflushed ==
    /\ Working /\ Filling(stream) /\ ~HasNext(stream)
    /\ stream' = [stream EXCEPT !.exhausted = TRUE]
    /\ UNCHANGED <<iterator, queue>> /\ StreamOnly

\* The source raises StopIteration: the packer is flushed.
ReachEnd ==
    /\ Working /\ Filling(stream) /\ ~HasNext(stream)
    /\ stream' = Flush([stream EXCEPT !.exhausted = TRUE])
    /\ UNCHANGED <<iterator, queue>> /\ StreamOnly

\* A batch is cut from the front of the ready queue and collated: a full one,
\* or the shorter tail of an exhausted stream that keeps it.
CutBatch ==
    /\ Working /\ ~Filling(stream)
    /\ stream.ready # <<>>
    /\ Len(stream.ready) < setup.batchSize => ~setup.dropLast
    /\ LET n == IF Len(stream.ready) < setup.batchSize
                THEN Len(stream.ready) ELSE setup.batchSize
           after == [stream EXCEPT !.ready = SubSeq(@, n + 1, Len(@))]
       IN  /\ stream' = after
           /\ queue' = Append(queue, [kind  |-> "batch",
                                      batch |-> SubSeq(stream.ready, 1, n),
                                      after |-> after])
    /\ UNCHANGED iterator /\ StreamOnly

\* Mutant of Finish: a tail that is to be dropped stays.
FinishWhenEmpty ==
    /\ Working /\ ~Filling(stream)
    /\ stream.ready = <<>>
    /\ queue' = Append(queue, [kind |-> "end", after |-> stream])
    /\ iterator' = "returned"
    /\ UNCHANGED stream /\ StreamOnly

\* Nothing is left, or only a tail that is dropped: the generator returns.
Finish ==
    /\ Working /\ ~Filling(stream)
    /\ Len(stream.ready) < setup.batchSize
    /\ stream.ready = <<>> \/ setup.dropLast
    /\ LET after == [stream EXCEPT !.dropped = @ + Len(stream.ready),
                                   !.ready = <<>>]
       IN  /\ stream' = after
           /\ queue' = Append(queue, [kind |-> "end", after |-> after])
    /\ iterator' = "returned"
    /\ StreamOnly

-----------------------------------------------------------------------------
Stream == ReadSample \/ RejectSample \/ ReachEnd \/ CutBatch \/ Finish
Trainer == EnsureIterator \/ Replay \/ Deliver \/ DeliverEnd \/ DeliverError

Next == Stream \/ Trainer \/ Request \/ Save \/ WorkerLost \/ Crash \/ Resume

Spec == Init /\ [][Next]_vars

(* A call of next_batch runs, and a worker that is alive keeps producing;  *)
(* nothing makes the trainer ask, save or resume.                          *)
Fairness == WF_vars(Stream) /\ WF_vars(Trainer)

FairSpec == Spec /\ Fairness

-----------------------------------------------------------------------------
(* What the trainer should be given, said without the packer's buffer: the  *)
(* samples of this rank, cut into the longest runs that fit, in groups of   *)
(* batchSize.  It depends on the configuration s and the source c alone.    *)

\* The k-th sample of this rank, and its length.
Share(s, k) == (k - 1) * s.world + s.rank + 1
ShareLength(s, c, k) == c[((Share(s, k) - 1) % Len(c)) + 1]

\* Samples that can be read: those before the end of a finite source, and
\* before the first that no pack can hold.
Readable(s, c, k) ==
    /\ s.repeat \/ k <= Len(c)
    /\ s.packs => \A j \in 1 .. k : ShareLength(s, c, j) <= s.maxLength

\* The tokens of the samples first .. last.
RunLength(s, c, first, last) ==
    Total([k \in Nat |-> ShareLength(s, c, k)], first .. last)

\* Samples first .. last go into one pack.
FitTogether(s, c, first, last) ==
    IF s.packs
    THEN /\ s.sampleLimit > 0 => last - first < s.sampleLimit
         /\ RunLength(s, c, first, last) <= s.maxLength
    ELSE first = last

\* Where the pack after the first e samples ends: it is as long as fits, a
\* sample having a token at least; where nothing is left, no pack is added.
NextEnd(s, c, e) ==
    IF Readable(s, c, e + 1)
    THEN Max({k \in e + 1 .. e + s.maxLength :
                 Readable(s, c, k) /\ FitTogether(s, c, e + 1, k)})
    ELSE e

\* The number of samples in the first i packs.
PackEnds(s, c) ==
    LET end[i \in Nat] == IF i = 0 THEN 0 ELSE NextEnd(s, c, end[i - 1])
    IN  end

\* As many of them as the properties need.
Ends ==
    [s \in Setups |-> [c \in Corpora |->
        [i \in 0 .. (MaxBatches + 1) * s.batchSize |-> PackEnds(s, c)[i]]]]

Pack(s, e, i) == [k \in 1 .. e[i] - e[i - 1] |-> Share(s, e[i - 1] + k)]

\* The i-th batch: the packs after those of the batches before it, as far as
\* there are any.
BatchOf(s, e, i) ==
    LET done == (i - 1) * s.batchSize
        more == {j \in 1 .. s.batchSize : e[done + j - 1] < e[done + j]}
    IN  [j \in 1 .. Cardinality(more) |-> Pack(s, e, done + j)]

ReferenceBatch(i) == BatchOf(setup, Ends[setup][corpus], i)

-----------------------------------------------------------------------------
(* Properties.                                                             *)

BatchType == Seq(Seq(Nat \ {0}) \ {<<>>}) \ {<<>>}

StreamType ==
    [place : [cursor : Nat, offset : Nat, line : Nat, epoch : Nat], local : Nat,
     sharded : BOOLEAN, topology : BOOLEAN,
     buffer : Seq(Nat \ {0}), tokens : Nat, ready : Seq(Seq(Nat \ {0})),
     exhausted : BOOLEAN, dropped : Nat]

UpstreamType == [snapshot : StreamType, behind : Nat, finished : BOOLEAN]

ItemType ==
    [kind : {"batch"}, batch : BatchType, after : StreamType]
        \cup [kind : {"end"}, after : StreamType]
        \cup [kind : {"error"}]

\* Types of the variables, and the limits of the queues: the ready queue holds
\* at most one batch more than a pack can add, the prefetch queue what the
\* worker may run ahead, and a pack under construction is never full.
TypeOK ==
    /\ iterator \in {"absent", "open", "returned"}
    /\ stream \in StreamType
    /\ queue \in Seq(ItemType)
    /\ upstream \in UpstreamType
    /\ replay \in 0 .. setup.snapshotEvery - 1
    /\ loader.pending \in UpstreamType \cup {None}
    /\ loader.batches \in 0 .. MaxBatches
    /\ asking \in BOOLEAN
    /\ status \in {"running", "failed"}
    /\ delivered \in Seq(BatchType)
    /\ Len(stream.ready) <= setup.batchSize + 1
    /\ Cardinality({i \in DOMAIN queue : queue[i].kind = "batch"})
           <= (IF setup.prefetch = 0 THEN 1 ELSE setup.prefetch)

\* The trainer is given exactly the reference batches, in order, whatever the
\* prefetching, the snapshots, the crashes and the resumes on the way: no
\* sample is lost, repeated or regrouped; and what StatefulBatchLoader counts,
\* also after restoring its counters, is what was delivered.
DeliversReference ==
    /\ \A i \in DOMAIN delivered : delivered[i] = ReferenceBatch(i)
    /\ status = "running" =>
           /\ loader.batches = Len(delivered)
           /\ loader.samples = Total([i \in DOMAIN delivered |-> Len(delivered[i])],
                                     DOMAIN delivered)

\* StopIteration reaches the trainer only when every sample of a finite source
\* was delivered, or all but a tail shorter than a batch that is dropped.
EndIsComplete ==
    loader.exhausted =>
        /\ ~setup.repeat
        /\ LET next == ReferenceBatch(Len(delivered) + 1)
           IN  next = <<>> \/ (setup.dropLast /\ Len(next) < setup.batchSize)

\* Whatever the loader would write to a checkpoint now, a new process accepts:
\* the validators of the loader, the stream, the source and the packer refuse
\* no state this code can save.
SavedStateAccepted ==
    /\ LoaderAccepts(StateDict)
    /\ StreamAccepts(StateDict.upstream.snapshot)

\* A call of next_batch returns, with a batch, StopIteration or an error, even
\* when the worker is stopped by a full queue or lost, or a crash replaces the
\* process.
EveryRequestAnswered == asking ~> ~asking

=============================================================================
