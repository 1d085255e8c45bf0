# TrainOmni in TLA+

TLA+ models of the parts of TrainOmni where state, order and failure matter:
how a data-parallel job takes an optimizer step, what its ranks are given to
train on, and how all of this survives crashes through checkpoints. Paths below
are relative to `src/trainomni/` of the repository. `PROJECT.json` lists the
runs, the lines every definition stands for, the hazards the properties are
aimed at, and the theorems.

## 1. The system

A run is started by `cli` / `api/train.py`. It loads a task and a run
specification (`specs`), resolves modules by id (`core`, `catalog`), checks
their capabilities (`assembly/preflight.py`), builds model, objective and data
stream (`assembly`), writes the run's identity (`artifacts`) and hands
everything to `TrainEngine` on every rank. The engine alternates between the
data stream, the model and objective, the execution backend, and the checkpoint
manager; the ranks talk only through collectives of `ProcessContext`, the ranks
and the past only through files.

| component | state it keeps | operations | talks to | what is hard | correct when |
|---|---|---|---|---|---|
| checkpoint manager (`runtime/checkpoint`) | the `step-*` directories, a staging directory | `save`, `load`, `load_model_only` | all ranks by collectives, the file system, stream, optimizer | a kill between two files, a failure on one rank while others wait, restart with another size | a published name is one snapshot of all ranks; ranks agree on the outcome; only what was saved is resumed |
| process context (`runtime/execution/process.py`) | the process group, injected environment variables | `create`, `close`, `propagate_rank_failure`, `propagate_primary_failure`, `coordinate_primary`, `reduce_float`, `all_gather_metrics` | torch.distributed | every rank must enter the same collectives in the same order; a group may be borrowed from the host | failures are known to all, nobody waits for ever, groups are returned |
| training engine (`runtime/loop`) | `global_step`, `micro_step`, gradients, scaler | construction, `train`, `_optimizer_step`, `save_checkpoint`, `resume`, `close` | everything at run time | failures between collectives and during construction, accumulation, unequal denominators | an update is the mean over the global batch; replicas are equal; checkpoints lie between steps |
| execution backends (`runtime/execution/*_backend*.py`) | optimizer, wrapped model | backward, unscale, normalise, clip, step, zero_grad | torch, DeepSpeed | when gradients are synchronised; parameter objects are replaced | as above; what was selected is what is trained |
| optimization (`runtime/optimization`) | parameter groups, schedule, evidence snapshots | build, `capture_update_snapshot`, `finalize_update_evidence` | engine | evidence that raises after the update | all ranks decide alike |
| batch loader (`runtime/data_loader.py`) | pending state, counters, exhaustion, TorchData's iterator | `next_batch`, `state_dict`, `load_state_dict` | TorchData, workers, stream | a worker ahead of the trainer, a restored state not yet loaded | resumption repeats and loses nothing |
| pipeline stream (`assembly/data_builder.py`) | ready queue, exhaustion, topology, sources and packers | `shard`, `next_batch`, `state_dict`, `load_state_dict` | source, packer, collator | the tail, sharding before loading | as above; the end is complete |
| sources (`modules/data/sources`, `runtime/execution/data.py`) | cursors, epochs, fragments, active children | `next_sample`, `shard`, state | files | rewritten files, unequal shards, exhausted children | each row once, nothing skipped, same draws after a resume |
| packers (`modules/data/packing`) | the pack under construction | `add`, `flush`, state | stream | full exactly, sample limits, flush | no sample is lost or regrouped |
| adapters, transforms, supervision, collation, model I/O | none (per sample) | `apply`, `encode`, `annotate`, `collate` | stream | placeholders, labels, padding and caches must stay with their tokens | each target is predicted from exactly its own past |
| objectives (`modules/objectives`) | teacher cache identities | `plan`, `compute` | engine | which forward passes a batch needs, stale caches, unequal pairs | a loss is made of the targets asked for; a cached value belongs to its token |
| parameters (`modules/parameters`) | none | selection of trainable names | optimizer | overlapping selections, tied parameters | what is asked for is trained, at its rate, and nothing else |
| models, kernels (`modules/model`, `runtime/kernels`) | weights | forward | engine | fusion moves tokens, packed attention separates samples | a token sees its own sample and nothing later |
| evaluation, export (`runtime/evaluation.py`, `api`) | receipts, exported directories | evaluate, export | manager | write-once files | a receipt never changes |
| artifacts (`artifacts`) | run identity, lineage | `materialize_run_identity` | the entry point | several writers | an identity never changes |
| specs, core, catalog, preflight, contracts | none | load, resolve, validate | all | cross-field rules | an accepted run can start |
| observability, devices, CLI | the event file | write, snapshot | engine | a primary-only failure | no rank is stranded |

The hard behaviours, in one list: a rank fails alone between two collectives; a
process is killed between two file operations; a job is restarted from an older
checkpoint or with another size; a data worker runs ahead of what was trained
on; a stream is saved after it was restored but before it was used; a finite
source ends inside a pack or a batch; the dataset changes on disk; children of
a mixture run out; two processes write one file; a group outlives the engine
that borrowed it; packing, padding and fusion move tokens away from their
positions, labels and cached values; a backend replaces the parameters that
were selected. `PROJECT.json` gives each its line.

## 2. Modules

| module | component | abstract state | checked by |
|---|---|---|---|
| `Launch` | process context, backend factory, construction and close of engines, `build_engine`, the end of `train` | environment, group and open engines of every process, where each is, the identity of each engine | `Launch` |
| `Artifacts` | run identity, evaluation receipts, exports, imports | inodes, names, temporary names, checkpoints, staging | `Artifacts` |
| `Checkpoint` | manager.save / load, the collectives they use, the engine's save points, restart | control point, step and contributions of every rank; staging and published directories | `Checkpoint_safety`, `Checkpoint_liveness` |
| `CheckpointStore` | what checkpointing promises, without a protocol | position of every rank; one record per step | refined by `Checkpoint` |
| `CheckpointProofs` | theorems about `Checkpoint`: integrity of what is published, agreement of the ranks, refinement of `CheckpointStore` | | TLAPS |
| `TrainEngine` | `_optimizer_step`, `train`, DDP gradients, rank failures | control point, gradient, denominator, collectives of every rank | `TrainEngine_*` |
| `TrainEngineProofs` | theorems about `TrainEngine` | | TLAPS |
| `DataPipeline` | loader, stream, packers, memory and JSONL sources, rank sharding | place in the source, pack, ready queue, prefetch queue, loader state, last checkpoint | `DataPipeline` |
| `DataPipelineProofs` | theorems about `DataPipeline` | | TLAPS |
| `ColumnarSource` | Parquet and Arrow sources of all workers of a job | rows on disk and as declared, fragments and cursor of every worker | `ColumnarSource` |
| `ColumnarSourceProofs` | theorems about `ColumnarSource` and the greedy assignment | | TLAPS |
| `MixtureSource` | weighted mixture of sources | cursor, counts, active children | `MixtureSource` |
| `MixtureSourceProofs` | theorems about `MixtureSource` | | TLAPS |
| `LaunchProofs` | theorems about `Launch` | | TLAPS |
| `ArtifactsProofs` | theorems about `Artifacts` | | TLAPS |
| `Sums` | lemmas: least numbers and subsets, sums over finite sets | | TLAPS |
| `Rows` | ms-swift adapter, transformers model I/O, causal labels | none: operators | `Forward` |
| `Layout` | sequence and padding-free packers, collators, packed attention inputs | none: operators; `EXTENDS Rows` | `Forward` |
| `Objectives` | plans, shifts, reductions and caches of causal LM, dense KD and DPO | none: operators; `EXTENDS Layout` | `Forward` |
| `Forward` | a sample's way from a row to a loss; the composite model and its fusions | samples left, buffer, ready examples, batch, what every slot has seen | `Forward` |
| `Parameters` | parameter policies, backends, optimizer groups, schedule, evidence, LoRA adapter | parameter objects, groups, the updates of every tensor, adapter, host | `Parameters` |

`MC*` modules only hold the values of constants that a `.cfg` cannot express.
`TrainEngine` starts where `Launch` ends (an open engine on every rank), and
`Checkpoint` abstracts an optimizer step of `TrainEngine` to one action;
`Artifacts` abstracts a save of `Checkpoint` to one action, which
`PublishedIsSnapshot` and `NeverOverwritten` justify; `Forward` takes its
batches as `DataPipeline` cuts them, with contents in place of positions.

### Checkpoint

A rank's training state is the number of steps that produced it, so that "the
files of one snapshot" means "the same number in each file". One action per
phase of `CheckpointManager.save`, in its order: runtime capture and its
all-rank outcome, adapter capture (FSDP2) and its outcome, the gather to rank 0,
the primary's directory check, three payload files, manifest, rename, and the
broadcast of the outcome. Every exception path of the code is an action
(`CaptureRuntimeRaises`, `CaptureAdapterRaises`, `WriteRaises`,
`RefuseOverwrite`, `LoadRaises`, `LoadRejects`). `OptimizerStep` stands for a
whole optimizer step of one rank: it completes only when all ranks have entered
it, because it reduces denominators and gradients over all of them. A collective
is a table of contributions (`posted`); a rank leaves it when all contributions
it needs are there.

The environment kills any process at any point (`Kill`), lets a collective fail
whose member is gone (`PeerLost`, the timeout of the process group), damages
files of published checkpoints while the job is down (`Damage`), and starts the
job again (`Restart`), with any permitted world size and any checkpoint. A fresh
start is possible only without checkpoints, as `api/train.py` 120-127 demands.
What a killed save has in its staging directory stays there through restarts, until
a later save of the step makes its own directory under a fresh name; only `step-*`
entries count when the job is started again.
`Load` includes the digest and world-size checks; the sources' own topology
check happens later, at the first batch (`RestoreStream`), which is why a
one-rank checkpoint passes the manager in a three-rank job and is refused there.

`CheckpointStore` says the same in five actions without collectives, files or
failures: a checkpoint of a step appears at once, whole, when all ranks are at
that step; a job continues from an intact one of its own size. `Checkpoint`
implements it (`ImplementsStore`): the mapping shows a rank's step once its
stream is restored, and of a directory its runtime states and whether it is
undamaged.

`SaveAgreement` has the condition that no process was killed: after a kill, the
primary may have published and died before announcing it, and its peers rightly
fail. An exception, unlike a kill, is always coordinated; that is what the
comments at manager.py 181-185 and process.py 268 promise.

### TrainEngine

A microbatch is the numerator and denominator of its loss; the gradient of a
numerator is the numerator, so gradients are integers over a common denominator
and "the mean over the global batch" can be compared exactly. `mail[r]` is the
sequence of collectives rank r has entered: torch matches collectives by order
alone, so the n-th of one rank meets the n-th of every other. Steps between two
collectives are one action each; every place where the code can raise on one
rank alone is an action that may be taken while `faults < MaxFaults`. The
update evidence (`engine.py` 269-289) has no collective: each rank decides it alone,
from its own parameters. `inert` is what AdamW makes of a step, a function of the
step and of whether the gradient vanishes, and each rank applies it to the gradient
it holds. `EveryRankEnds` therefore also says that in a run without a failure no
rank is ahead of one that has raised: all raise at the same place or none does.
That ranks hold the same gradient when they decide is what the reductions before
it achieve; a model whose last microbatch is not synchronised violates it.

`SavedAtBoundary` is what `manager.py:138` says; run `TrainEngine_boundary`
shows that the counter it is checked with does not imply it
(`PROJECT.json`, findings). `api.train` never saves after a failure, so this
concerns callers of `TrainEngine.save_checkpoint` only.

### DataPipeline

A sample is its position in the read order of the source and has the token
length of its record; a pack is a sequence of samples, a batch a sequence of
packs. The trainer's side is `StatefulBatchLoader.next_batch` step by step; the
producer's side is `DataPipelineStream.next_batch`, one sample at a time, run
inside the trainer's call (`prefetch = 0`) or by a worker that fills a bounded
queue. TorchData is external: it is modelled by what the loader relies on, a
snapshot of the stream per batch or every n batches, fast-forwarding after a
restore, a restart of a finished iterator, and an error when a worker dies or
outlasts its timeout (`WorkerLost`). The source is a record list with a cursor, or
a file with a byte offset, a line number and an epoch, in which a line is as
long as its record and the last line may lack a newline; `LineNumbersAt` counts
lines from the offset as `_line_number_at_offset` does. The reference
(`PackEnds`) cuts the rank's share of the source into the longest runs that fit,
without a buffer, a queue or a state; `DeliversReference` compares every batch
the trainer was ever given with it, and the loader's counters with their number.
`Ends` is a table of as many of these as the properties mention, so that TLC
computes them once.

### ColumnarSource

All workers of all ranks, since sharding is a decision about all of them. The
cursor actions are the branches of `next_record`; `declared` is what the source
counted when it was built, `actual` what is on disk now. `EpochsTogether` and
`SavedStateAccepted` hold while the dataset is `intact`, that is, not rewritten
since the job started: rows past the declared number are emitted before
`next_record` compares the counts (`_columnar.py` 221-228). Comparing `actual`
with `declared` instead would not do: a file that grows and shrinks back leaves
workers with more rows behind them than the source declares.

### MixtureSource

The hash of seed and cursor is an arbitrary function of the cursor, chosen at
the start; TLC considers all of them. `script` remembers what was first emitted
at each cursor, whatever happened to the process later; `Replayable` compares
every later draw with it, and asks that the validator takes every state that can
be saved. A sample whose metadata already holds the key `trainomni.source` is
refused (mixture/module.py 81-85), after the draw was counted: the run fails there,
and one resumed from before it draws the same sample again.

### Launch

A process makes engines one after the other, or one inside another; nested ones
are closed in the opposite order, as `finally` blocks do. `ProcessContext.create`
is five actions, one for each of its ways out: refused (on a device other than the
CPU, also for a local index of another kind), single, on a group the
host already has, on a group of its own of one rank, or at a rendezvous. The
ranks of a world meet there, when DDP wraps the model and at the outcome of the
primary's identity files; `arrived` says who has come to which meeting. A rank
may fail alone at any step (`LocalFailure`) or be killed; who waits for one that
is gone gives up after the group's timeout. `GroupHeld` has one exception, which
is what the code does: an engine whose construction fails after its loader
(engine.py 109-160) has no owner yet and is never closed (`leaked`).

### Artifacts

An output directory with jobs, evaluations, exports and imports that run at once
or after one another. A path is a name for an inode, because a temporary name
follows from the file's own: a second writer truncates the inode that the first
is about to rename. `contended` collects the files that two processes have
written at once; `IdentityHolds` says that a fragment is only published there,
and only while a writer of it is at work, was killed or failed. What
`coordinate_primary` makes of the outcome on other ranks is in `Launch`.

### Rows, Layout, Objectives, Forward

One idea carries all four: the value a model computes at a slot is the set of
what the slot sees, each embedding with its distance. A token, a medium and a
label are who they are, not what they say. Then "the loss is right" can be said
without numbers: it consists of pairs of a context and a target
(`TermsExact`), and a cached value is the context it was computed from
(`SupervisionOfToken`). Rows of the formats the adapter knows become turns with
media, turns become units with placeholders and masks, units become examples,
examples packs and batches, each by the checks of its component in their order;
`refused` is what any of them raises. The setups named sound must never be
refused (`SoundAccepted`); the odd ones have one part that does not fit, and
either are refused or compute exact terms all the same.

The following are facts of the code that the setups avoid or the properties
exclude, and that a reader should know:

* shifted DPO reference log-probs padded to the labels' width are taken for
  unshifted ones (dpo/module.py 274): `SupervisionOfToken` excludes that case
  (`ShiftedAndPadded`), which a setup contains;
* prefix fusion without `position_ids` counts padding on the left, and rows with
  different numbers of modal tokens, into distances: the prefix setups pad right
  and have equal counts;
* left padding without an attention mask trains the first token from padding;
* `pad_to_multiple_of` pads modal positions and not features, so such batches
  are refused;
* with a `modal_token_id`, model I/O gives every row a positions field, an empty one
  when the row has no medium (model_io/transformers/module.py 136-163), and the
  composite model refuses positions without the input they belong to
  (composite/module.py 109-113): text-only rows are refused in every such task.
  `docs/contracts/modal-features.md` 72-74 says that prefix and token-replacement
  fusion pass text through unchanged for an empty set. Token replacement requires
  modal positions, so with this model I/O it never does; prefix fusion does when no
  modal token is configured. `SoundAccepted` makes no claim for such rows, and
  setups of all these kinds are among the odd ones;
* images and videos of one row share the one modal token and its positions field;
  audio of a flat row is dropped without an error (`FlatUnits`);
* a packer with cached supervision is refused at the first pack, not before the
  run; `sample_mean` over packs is a mean over packs.

### Parameters

A tensor is a name; its value is the sequence of rates it was updated with, so
that a missing, double or misplaced update shows. `Applied` are the four
policies on a model whose head is tied to its embedding; `BuildBackend` has what
each backend refuses and, for FSDP2, new objects for every parameter, through
which `remap_selection` must find the selected ones again. `TrainedExactly`
computes from the policy's configuration alone what each tensor must have become.
It includes that a warm-up starts at rate zero: a run with a required evidence
group fails at its first step then, by scheduler.py 14-15 and evidence.py 204, if
evidence is taken at that step; runs combine required groups with schedules that
warm up and evidence at every step or every other. A rate of zero at the end of
a schedule is never used: it is that of the step behind the last.
The adapter is loaded target by target, as the code copies each before it checks
the next; `AdapterExact` says that also a load that was refused halfway has left
only exact targets behind, and that one that was not has loaded all.

## 3. Runs, bounds and what they show

| run | bounds | distinct states | shows |
|---|---|---|---|
| `Checkpoint_safety` | 1 and 3 ranks, 3 steps, saves at 2 and at the end, 3 faults of any kind | 59,221 | safety and refinement. Three ranks give two peers that can disagree; three steps give a periodic and a final save and a resume between them; three faults are enough for a failed or killed save, damage of what an earlier one left, and a failure of the resumed job. |
| `Checkpoint_liveness` | 2 ranks, 3 kills or exceptions | 4,824 | training ends and its last checkpoint exists. |
| `TrainEngine_safety` | 1 and 2 ranks, 2 microbatches of 3 kinds, 2 steps, 1 fault | 293,792 | exact global means. The kinds differ in numerator and denominator, so that a mean of means is wrong; one overflows. The second step shows leftovers of the first. |
| `TrainEngine_failures` | 2 and 3 ranks, 2 steps, 3 faults | 122,312 | replicas, collectives, termination. Three faults in three ranks include independent failures of all of them. |
| `TrainEngine_boundary` | 1 rank, 2 microbatches, 1 fault | stops at the counterexample | the finding. |
| `DataPipeline` | 27 configurations (9 over memory and over files with and without a last newline), 6 corpora, 4 batches, 2 crashes of the process or its worker | 58,461 | packs that overflow, fill exactly and reach their sample limit, kept and dropped tails, an oversized sample, repeating and sharded sources, workers two batches ahead with snapshots at every batch, every other or every third. |
| `ColumnarSource` | up to 3 fragments, 1 or 2 workers in 1 or 2 ranks, 3 reads each, 1 crash, 1 rewrite | 307,516 | three reads pass the end of the only part of `<<2>>` and, with two workers, of both parts of `<<2, 1, 1>>`, so epochs roll over; a rewrite grows, shrinks or empties a fragment. |
| `MixtureSource` | 3 children, every draw sequence of length 4, 1 crash | 331,540 | exhaustion before, after and at the checkpoint, refused samples before and behind it. |
| `Launch` | 1 to 3 ranks, up to 3 engines in a process, nested or in turn, 59 launches, 2 failures or kills | 10,300 | groups borrowed, made and returned; agreement on construction; no rank waits for ever. Two failures let one happen while another is handled. |
| `Artifacts` | 8 scenarios of 2 to 4 processes, 6 identity files, 2 receipts, 1 export destination, 2 checkpoints, 1 kill or failed operation | 3,389,752 | write-once files with two writers, exact evaluation sums, whole exports. Two writers and one kill suffice for every way to publish a fragment. |
| `Forward` | 61 setups of 1 to 3 rows, every order of reading and every batch size given | 1,035 | contexts and targets of every loss. Few states, since a state is a whole batch; the work is in the operators. |
| `Parameters` | 19 policies times 366 runs, up to 3 steps, 2 kinds of batches, 5 models for the adapter | 73,768 | what is trained under every backend, schedule and policy; adapters. |

All runs have `CHECK_DEADLOCK FALSE`: the programs they model
do stop, at the end of training, of the data, or after a failure. That they do
not stop earlier is what the liveness properties say.

### Fairness

* `Checkpoint_liveness`: weak fairness of every process (it runs, and its
  collectives time out when a member is gone: `init_process_group(timeout=...)`,
  process.py 107-118), and of the restart of a stopped job by its operator from
  the newest checkpoint. No fairness on faults; their number is bounded, without
  which no job ever ends. File damage is excluded there: a damaged newest
  checkpoint stops an operator who always resumes the newest.
* `TrainEngine_failures`: weak fairness of every process, for the same reason.
* `Launch`: weak fairness of every process, with the group's timeout as a step of
  a process that waits (process.py 107-118).
* `DataPipeline`, `ColumnarSource`: a call that was made runs, and a live worker
  produces until its queue is full. Nothing makes the trainer call, save or
  resume.

## 4. Proofs

What TLC checks on small instances, TLAPS proves for every value of the
constants: any number of ranks, steps, microbatches, fragments, children and processes, any
source and data configuration, any number of crashes, failures and restarts. The only assumptions are those the
modules state about their constants (`ConstantsAssumption`, `EngineAssumption`,
`LaunchAssumption`, `DataAssumption`, `ColumnarAssumption`, `MixtureAssumption`, and of `Artifacts`
also `ScenariosAssumption` and `NoneAssumption`): sizes are positive numbers,
settings have their fields, a source has records and a record has a token, the ranks of a launch are distinct, a mixture has
finitely many children, a process is of a known kind, receipts have names of their
own, and the files `run` and `manifest` hold the whole configuration (manifest.py
71 and 91-98), so that no two configurations share them. TLC evaluates them in
every run. The inductive invariants were checked with TLC on the instances of
section 3 before they were proved, that of `MixtureSource` excepted, which speaks
of runs of any length; there its consequences are checked.

| module | theorem | proves |
|---|---|---|
| `CheckpointProofs` | `TypeCorrect`, `PublishedIntegrity`, `PublishedIsImmutable` | `TypeOK`, `PublishedIsSnapshot`, `NeverOverwritten` |
| | `SaveReturnsPublished`, `SaveOutcomeAgreed`, `NoPeerIsStranded`, `ResumesSnapshot` | `ReturnedSaveIsPublished`, `SaveAgreement`, `NoStrandedPeer`, `ResumesWhatWasSaved` |
| | `Refinement` | `ImplementsStore` |
| `TrainEngineProofs` | `EngineTypes`, `SameCollectives`, `SameUpdates`, `GlobalMean` | `TypeOK`, `CollectivesMatch`, `ReplicasAgree`, `UpdateIsGlobalMean` |
| `DataPipelineProofs` | `TypeCorrect`, `ReferenceAlways`, `EndAlwaysComplete`, `StateAlwaysAccepted` | `TypeOK`, `DeliversReference`, `EndIsComplete`, `SavedStateAccepted` |
| | `NoneTwice`, `NoneLost`, `NothingLeftAtEnd`, `LimitsAlways` | what the reference batches are: `EachSampleOnce`, `NoSampleSkipped`, `WholeSourceDelivered`, `PacksWithinLimits` |
| | `NothingFromOthers`, `EverySampleClaimed` | what is delivered on one rank is not another's, and what is passed over is: `NothingForeign`, `NoneUnclaimed` |
| `LaunchProofs` | `OpenEnginesHoldTheirGroup`, `RanksAgreeToTrain` | `GroupHeld`, `OpenIsAgreed` |
| `ColumnarSourceProofs` | `CursorsTyped`, `NoRowTwice`, `EpochsComplete`, `EpochsBeginTogether`, `StatesAccepted`, `EveryFragmentAssigned` | `TypeOK`, `EachRowOnce`, `NothingSkipped`, `EpochsTogether`, `SavedStateAccepted`; the assignment is a partition |
| `MixtureSourceProofs` | `SamplesRepeat`, `ChildrenAreDrained` | `Replayable`, `ChildrenDrained` |
| `ArtifactsProofs` | `IdentityAlways`, `EvaluationAlways`, `ExportsAlways`, `NeverRewrites` | `IdentityHolds`, `EvaluationExact`, `ExportsWhole`, `NeverRewritten` |

Every proof has the same outline: `Init => IInv`, one lemma per action (or per
group of actions with the same footprint) for `IInv /\ Action => IInv'`, their
union, and one lemma or step per property for `IInv => Property`.

### Checkpoint

`PublishedIsSnapshot` is not inductive: that the rename publishes a snapshot
depends on what is in staging, that on what the peers sent, that on the step
they captured it at, and that on no peer being a save ahead or behind.
`CheckpointProofs!IInv` is `TypeOK /\ Protocol /\ PublishedIsSnapshot`, where
`Protocol` has one named part per link of this chain: `CaptureInv` (what a rank
captured is of its step), `GatherInv` (what it sent is what it captured),
`OrderInv` (nobody sends before the primary has joined the save), `OutcomeInv`
(the primary announces a save at its end), `WaitingInv` (a peer that has sent
waits for that announcement, or has left), `StagingInv` (staging holds what the
primary's control point says), `SourceInv` (a loading rank has a checkpoint to
load).

What the ranks know of one another needs more (`Agreement`): once a rank has
taken a step, all do, and the slowest is at most one behind (`LiveInv`,
`PaceInv`); contributions come in the order of the collectives and belong to this
incarnation of the job (`PostInv`, `SentInv`); nobody leaves an agreement unless
all have contributed and none a failure (`PassInv`); a failed save holds every
rank at its step (`BrokenInv`), and without a kill nothing else makes a rank fail
after it has trained (`FailInv`); a success is announced after the rename
(`AnnounceInv`); what a rank has loaded is intact (`ResumeInv`).
The refinement uses both: each action is an action of `CheckpointStore` under the
mapping, or leaves the mapped variables alone.

### TrainEngine

All of it rests on counting. Every optimizer step enters the same number of
collectives, so the length of `mail[r]` determines where rank r is
(`PositionInv`) and the kind of each entry (`KindInv`); ranks are at most one
collective apart, and only one that waits is ahead (`AheadInv`); nobody passes
the agreement in which a rank announced a failure (`FailedInv`). From this
follows which contributions meet in a reduction. The rest says what is in them:
the microbatches a rank was given (`GivenInv`), the sums it has accumulated
(`AccumulatedInv`), that it contributes the sums of the step's window
(`ContributedInv`), that a reduction returns the sum over all ranks
(`ReducedInv`), and that this is what is applied (`AppliedInv`).

### Launch

`GroupInv` takes the contexts a process has not closed, the latest first: only
the oldest distributed one can own the group, all distributed ones use the group
that is there, and closing them one after the other leads back to the group and
environment the process was started with. An action puts a context in front,
renames it, or takes it off, and each is a lemma about such lists. `OpenInv` says
that a rank behind the wrapping of an engine knows all ranks have come to it, and
`Announced` that the primary has not yet told of an identity it has still to
write.

### DataPipeline

The reference is a function of the configuration and the source, so the invariant
says where everything that is a state of the stream stands on it. `Sound` relates
the parts of one stream: its place in the source is that of the samples it has
counted (for a file, byte offset, line and epoch agree, which makes
`_line_number_at_offset` find the line again), its token counter is the sum over
its buffer, its buffer is not full. `Follows(x, g)` says that x is what remains of
the reference after its first g packs: the ready queue holds the next ones
(`PacksAfter`), the buffer the samples read since (`Started`). There are five
streams of this kind, and the batches taken give the g of each: the one in the
iterator (`StreamInv`), the copy that travels with each queued batch
(`Produced`), TorchData's snapshot, `behind` batches old (`Accounts`), the state
to be loaded, and the saved one (`SavedInv`). `TakenSoFar`, which is the batches
delivered without those to be replayed, is what counts them all across a restore.

The heart is one lemma on `Add` (`AddFacts`): the packer emits a pack exactly
where the greedy cut of the reference ends, although it looks at one sample at a
time and at a counter. `FlushFacts` is the same for the end of the source, and
`CutFacts` and `FinishFacts` turn packs into batches and tails. `EndReached` is
what `finished` and `exhausted` must imply. Two facts are easily overlooked and
belong to the invariant: nothing is exhausted while batches are due to be
discarded, and only the last item of the queue is not a batch. `SavedStateAccepted` then
holds of any sound stream, since each clause of a validator is a part of `Sound`
or `Given`.

That the trainer is given the reference is worth what the reference is worth, so a
last part says what it is in terms anyone can judge: no sample twice, none of the
rank's share left out before one that was delivered, all records of a finite
source at its end unless a tail is dropped, no pack empty or over its limits, and
nothing delivered that is another rank's, and nothing passed over that is not. Each of them follows
from the invariant and facts about `PackEnds`: the ends increase, stop for good
where they stop once (`EndsStall`), and a pack's number and its place in a batch
determine each other (`NumberFacts`, `PackInBatch`). These properties are defined
in `DataPipelineProofs`.

For the proof, sums over sequences became sums over index sets, as the library's
folds over sequences have no lemmas the provers can use, and the reference a
recursive function of the pack's number.

### ColumnarSource

The greedy assignment is a fold over the fragments, largest first. Along it, parts
stay disjoint, and no part would, without one of its smallest fragments, have more
rows than another: the fragment just dealt goes to a part that has the fewest, and
is no larger than those dealt before (`DealOne`, `DealtFirst`). `Worker` says of
one worker that the count of its records is that of its cursor (`Counted`), that
the place of a record in the stream follows from its epoch, fragment and row
(`Numbered`, which makes records distinct and puts the last one into its epoch by
division), that all rows before the cursor were emitted (`Covered`), and that rows
past the declared ones are of the fragment it is in (`Declared`; the fragment ends
in an error then, and the validator refuses such a cursor).

### MixtureSource

A turn of `next_sample` is a function of the saved state, given weights, children
and draws. So all trajectories, resumed or not, lie on one run (`Reached`), and the
sample of a cursor is a function of the cursor (`EmitsOnce`). `Fits` relates the
counts to the samples drawn: those of a child are its first `at[n]` ones, each
once.

### Artifacts

The difficulty is that a path, a temporary name and an open file may all be the
same inode. `Names` says that an inode is only ever a name of the file it was made
for, and that nothing stands for the inode of a process before that process opens
it; a path and its temporary name are never one inode. Without contention a file has
one writer, and the writer knows what its temporary name stands for (`Alone`).
`Fragments` is the part that two writers need: behind every temporary name is a
process that writes, has written, or was stopped, and if the inode is a fragment, one
other than the process about to rename it. `Identity` gives the content: a job that
has gone past a file has found or left its own content there; jobs at work together
have one configuration; and a job whose configuration is not that of the checkpoints
does not get past the file `run`. `Evaluations` counts the sums batch by batch
(`MetricNext`), `Exporting` follows a checkpoint from load to manifest.

The attempt showed a fault of an earlier version of the model: the arms of a CASE in
`Advance` overlapped, so that a job with files left could have been taken past them.
TLC always takes the first arm, TLA+ does not. The action is an IF now.

### How data is counted

The prover has no induction over data. Where one is needed, over a sum, a fold, a
sort or the length of a run, the proof takes a minimal counterexample instead: a
set of numbers that is not empty has a least member (`SmallestNumber`), a family of
finite sets a minimal one (`SmallestSubset`). In this way `Sums` proves that sums
over finite sets split, and `ColumnarSourceProofs` that a finite set can be sorted
and what the fold of the assignment returns.

### Model-checked only

* Liveness under fairness: `FinishesTraining` and its like need `ENABLED`, which is
  out of the prover's reach.
* `SavedAtBoundary`, which is violated (`PROJECT.json`, findings).
* `Parameters`, whose actions filter and fold sequences of parameters and groups
  (`SelectSeq`, `FoldLeft`, `FlattenSeq`), of which the library has no lemmas but by
  an induction the provers cannot instantiate; and `Forward`, whose properties are
  those of operators on the rows of its setups, so that TLC's evaluation of them
  is the point.

## 5. Abstractions and what is left out

* Tensors, records and texts are numbers or positions; digests are the content
  they are digests of (no collisions).
* Field-by-field validation of saved states is left out where a state this
  program saves cannot fail it; relations between fields (counters, cursors,
  topology, identity) are kept, as `SavedStateAccepted` is about them.
* A file write is one action, as every file is written under a temporary name
  and renamed; in `Artifacts`, where writers meet, it is three. The file system is assumed to keep the order of renames.
* A gather and a broadcast complete for a rank when the contributions it needs
  are there. The failure of a collective itself is its timeout.
* fp16 loss scaling and gradient clipping change the size of an update, not which
  microbatches are in it; they are left out. Of learning rates, `Parameters`
  keeps which group they belong to and whether they are zero.
* `MaxFaults`, `MaxCrashes`, `MaxRewrites`, `MaxBatches`, `MaxReads` and
  `MaxCursor` bound the behaviours TLC explores and have no counterpart in the
  code.

### Not modelled

* `specs`: parsing, defaults and cross-field rules of run and task
  specifications. They are functions of one value that accept or refuse it field
  by field; a model would repeat their lines. Settings that decide behaviour are
  constants of the other modules.
* `core`, `catalog`, and most of `assembly/preflight.py`: lookups in declared
  tables, and digests of files that are taken once.
* `cli`, `scripts`, the validation tools: input and output.
* Construction of pretrained encoders, language models and connectors; reading
  and decoding media; chat templates; generation and text metrics: calls into
  libraries, with checks of types and shapes around them.
* What DeepSpeed does with the parameters it is given, and the round robin of
  several TorchData workers of one rank: code outside the repository, on which
  it relies more than it says.
* The scaler of fp16, loss terms by name, and a step taken after a failed one on
  the same engine: see the notes of the hazards at engine.py 191 and 292.

## 6. Plan

The rest of the model, in order of what it adds:

1. several workers per rank: one state per worker, uneven ends; an abstract
   `BatchStream` that `DataPipeline` and it implement, composed with
   `ColumnarSource`;
2. the step's loss terms by name and the scaler in `TrainEngine`.

Of proofs, `TrainedExactly` of `Parameters` is left: it needs the selection of a
group restated by index sets, as the sums of `DataPipeline` were.
