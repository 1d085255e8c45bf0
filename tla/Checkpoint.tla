----------------------------- MODULE Checkpoint -----------------------------
(***************************************************************************)
(* Saving and resuming checkpoints with CheckpointManager                  *)
(* (runtime/checkpoint/manager.py), driven by the optimizer-step loop of   *)
(* TrainEngine (runtime/loop/engine.py) on every rank of a job, over the   *)
(* process-group collectives of ProcessContext                             *)
(* (runtime/execution/process.py).                                         *)
(*                                                                         *)
(* A rank's training state (parameters, optimizer moments, stream, RNG) is *)
(* abstracted to the number of optimizer steps that produced it.  The      *)
(* payload files of a checkpoint hold such states, and the SHA-256 of a    *)
(* file is represented by the content it is the digest of.                 *)
(*                                                                         *)
(* A process may be killed between any two steps, an operation may raise,  *)
(* a file of a published checkpoint may be damaged while the job is down,  *)
(* and the job may be restarted with another world size.  `faults` counts  *)
(* the first three and is bounded by MaxFaults.                            *)
(***************************************************************************)
EXTENDS Integers

CONSTANTS
  MaxWorld,     \* the largest world size a job is started with
  Worlds,       \* the world sizes a job may be started with
  MaxSteps,     \* RunSpec.max_steps: the step at which training ends
  EverySteps,   \* RunSpec.checkpoint.every_steps
  HasAdapter,   \* whether the execution engine has a state adapter (FSDP2)
  ResumeLatest, \* whether the operator always resumes the newest checkpoint
  FaultKinds,   \* the kinds of faults that may happen
  MaxFaults     \* the bound on faults of any kind

AllFaults == {"kill", "raise", "damage"}

ASSUME ConstantsAssumption ==
  /\ MaxWorld \in Nat \ {0}
  /\ Worlds \subseteq 1..MaxWorld
  /\ Worlds # {}
  /\ MaxSteps \in Nat \ {0}
  /\ EverySteps \in Nat \ {0}
  /\ HasAdapter \in BOOLEAN
  /\ ResumeLatest \in BOOLEAN
  /\ FaultKinds \subseteq AllFaults
  /\ MaxFaults \in Nat

Ranks   == 0..MaxWorld-1
Primary == 0
Steps   == 0..MaxSteps
None    == -1              \* no state, no contribution, no source
State   == Steps \cup {None}

-----------------------------------------------------------------------------
(* The control points of one rank's process.  "training" is the engine's   *)
(* loop between two saves; the points of Writing are the primary's own.    *)

Writing    == {"prepare", "model", "optimizer", "runtime", "manifest", "publish"}
Collective == {"captureSync", "adapterSync", "gatherSync", "outcome"}
Saving     == {"capture", "adapter", "gather", "announce"} \cup Writing \cup Collective
Points     == {"down", "loading", "resumed", "training", "failed"} \cup Saving

VARIABLES
  world,     \* the world size of the current incarnation of the job
  pc,        \* the control point of each rank
  step,      \* TrainEngine.global_step of each rank
  captured,  \* save's local_runtime: the state each rank captured
  posted,    \* posted[c][r]: what rank r contributed to collective c
  staging,   \* the newest staging directory, of this job or left by a killed one
  disk,      \* disk[s]: the published directory root/step-s
  source,    \* the checkpoint this incarnation resumes from, or None
  live,      \* auxiliary: whether each rank has reached the training loop
  killed,    \* whether a process of this incarnation was killed
  faults     \* the number of faults so far

jobVars  == <<world, source, live, killed>>
rankVars == <<pc, step, captured, posted>>
fileVars == <<staging, disk>>
vars     == <<jobVars, rankVars, fileVars, faults>>

Members == 0..world-1

(* What a rank contributes to a collective of the save at one step: whether *)
(* its own work raised, and the state it sends.                             *)
Contribution  == [step : State, failed : BOOLEAN, state : State]
NotPosted     == [step |-> None, failed |-> FALSE, state |-> None]
NothingPosted == [c \in Collective |-> [r \in Ranks |-> NotPosted]]

(* A directory: which files it holds and what is in them.  The manifest     *)
(* pins the step and the digests of the three payload files.                *)
Files          == {"model", "optimizer", "runtime", "manifest"}
RuntimePayload == [world : 0..MaxWorld, states : [Ranks -> State]]
Digests        == [step : State, model : State, optimizer : State,
                   runtime : RuntimePayload]
Directory      == [files : SUBSET Files, damaged : SUBSET Files,
                   model : State, optimizer : State,
                   runtime : RuntimePayload, manifest : Digests]

NoRuntime      == [world |-> 0, states |-> [r \in Ranks |-> None]]
EmptyDirectory == [files |-> {}, damaged |-> {}, model |-> None, optimizer |-> None,
                   runtime |-> NoRuntime,
                   manifest |-> [step |-> None, model |-> None, optimizer |-> None,
                                 runtime |-> NoRuntime]]

(* Fault for Exists: only an intact directory counts as present. *)
ExistsIntact(s) == disk[s].files = Files /\ disk[s].damaged = {}
Exists(s)   == disk[s] # EmptyDirectory
Published   == {s \in Steps : Exists(s)}
Finished(r) == pc[r] \in {"resumed", "training"} /\ step[r] = MaxSteps
Gone(r)     == pc[r] \in {"down", "failed"}

(* train() and _optimizer_step() save at every multiple of every_steps and  *)
(* at the end of training.                                                  *)
SaveDue(s) == s % EverySteps = 0 \/ s = MaxSteps

MayFault(kind) == kind \in FaultKinds /\ faults < MaxFaults
Fault          == faults' = faults + 1

-----------------------------------------------------------------------------
(* The optimizer-step loop.  A step of one rank completes only when every   *)
(* rank has entered it: it reduces denominators and gradients over all.     *)

Entered(q, s) == (pc[q] = "training" /\ step[q] = s) \/ step[q] = s + 1

(* Fault for OptimizerStep: the loop does not stop at max_steps. *)
OptimizerStepUnbounded(r) ==
  /\ pc[r] = "training"
  /\ \A q \in Members : Entered(q, step[r])
  /\ step' = [step EXCEPT ![r] = @ + 1]
  /\ pc' = [pc EXCEPT ![r] = IF SaveDue(step[r] + 1) THEN "capture" ELSE "training"]
  /\ UNCHANGED <<jobVars, captured, posted, fileVars, faults>>

OptimizerStep(r) ==
  /\ pc[r] = "training"
  /\ step[r] < MaxSteps
  /\ \A q \in Members : Entered(q, step[r])
  /\ step' = [step EXCEPT ![r] = @ + 1]
  /\ pc' = [pc EXCEPT ![r] = IF SaveDue(step[r] + 1) THEN "capture" ELSE "training"]
  /\ UNCHANGED <<jobVars, captured, posted, fileVars, faults>>

-----------------------------------------------------------------------------
(* CheckpointManager.save.                                                  *)

Post(r, c, failed, state) ==
  posted' = [posted EXCEPT ![c][r] =
               [step |-> step[r], failed |-> failed, state |-> state]]

Contributed(q, c, s) == posted[c][q].step = s

(* Rank-local runtime capture.  Whatever it raises is kept, and the rank    *)
(* enters the all-rank outcome phase either way.                            *)
CaptureRuntime(r) ==
  /\ pc[r] = "capture"
  /\ captured' = [captured EXCEPT ![r] = step[r]]
  /\ Post(r, "captureSync", FALSE, None)
  /\ pc' = [pc EXCEPT ![r] = "captureSync"]
  /\ UNCHANGED <<jobVars, step, fileVars, faults>>

(* Fault for CaptureRuntimeRaises: the exception escapes at once. *)
CaptureRuntimeEscapes(r) ==
  /\ pc[r] = "capture"
  /\ MayFault("raise") /\ Fault
  /\ pc' = [pc EXCEPT ![r] = "failed"]
  /\ UNCHANGED <<jobVars, step, captured, posted, fileVars>>

CaptureRuntimeRaises(r) ==
  /\ pc[r] = "capture"
  /\ MayFault("raise") /\ Fault
  /\ Post(r, "captureSync", TRUE, None)
  /\ pc' = [pc EXCEPT ![r] = "captureSync"]
  /\ UNCHANGED <<jobVars, step, captured, fileVars>>

(* The state adapter's capture, coordinated in the same way.                *)
CaptureAdapter(r) ==
  /\ pc[r] = "adapter"
  /\ Post(r, "adapterSync", FALSE, None)
  /\ pc' = [pc EXCEPT ![r] = "adapterSync"]
  /\ UNCHANGED <<jobVars, step, captured, fileVars, faults>>

CaptureAdapterRaises(r) ==
  /\ pc[r] = "adapter"
  /\ MayFault("raise") /\ Fault
  /\ Post(r, "adapterSync", TRUE, None)
  /\ pc' = [pc EXCEPT ![r] = "adapterSync"]
  /\ UNCHANGED <<jobVars, step, captured, fileVars>>

AfterCapture(c) == IF c = "captureSync" /\ HasAdapter THEN "adapter" ELSE "gather"

(* ProcessContext.propagate_rank_failure: an all-gather after which every   *)
(* rank raises the same error if any rank's work raised.                    *)
PropagateRankFailure(r, c) ==
  /\ pc[r] = c
  /\ \A q \in Members : Contributed(q, c, step[r])
  /\ pc' = [pc EXCEPT ![r] =
              IF \E q \in Members : posted[c][q].failed THEN "failed" ELSE AfterCapture(c)]
  /\ UNCHANGED <<jobVars, step, captured, posted, fileVars, faults>>

(* Fault for SendRuntime: a peer returns without waiting for the outcome. *)
SendRuntimeAndReturn(r) ==
  /\ pc[r] = "gather"
  /\ Post(r, "gatherSync", FALSE, captured[r])
  /\ pc' = [pc EXCEPT ![r] = IF r = Primary THEN "gatherSync" ELSE "training"]
  /\ UNCHANGED <<jobVars, step, captured, fileVars, faults>>

(* gather_object to rank 0.  A peer sends its captured state and goes on to *)
(* wait for the outcome; the primary waits for every contribution.          *)
SendRuntime(r) ==
  /\ pc[r] = "gather"
  /\ Post(r, "gatherSync", FALSE, captured[r])
  /\ pc' = [pc EXCEPT ![r] = IF r = Primary THEN "gatherSync" ELSE "outcome"]
  /\ UNCHANGED <<jobVars, step, captured, fileVars, faults>>

(* Fault for ReceiveRuntimes: the primary does not wait for its peers. *)
ReceiveRuntimesEarly ==
  /\ pc[Primary] = "gatherSync"
  /\ pc' = [pc EXCEPT ![Primary] = "prepare"]
  /\ UNCHANGED <<jobVars, step, captured, posted, fileVars, faults>>

ReceiveRuntimes ==
  /\ pc[Primary] = "gatherSync"
  /\ \A q \in Members : Contributed(q, "gatherSync", step[Primary])
  /\ pc' = [pc EXCEPT ![Primary] = "prepare"]
  /\ UNCHANGED <<jobVars, step, captured, posted, fileVars, faults>>

(* Fault for AbandonSave: the peers are told that the save succeeded. *)
AbandonSaveSilently ==
  /\ staging' = EmptyDirectory
  /\ Post(Primary, "outcome", FALSE, None)
  /\ pc' = [pc EXCEPT ![Primary] = "failed"]

(* The exception path of the primary's file work: the staging directory is  *)
(* removed, once there is one, and the failure is broadcast before it is    *)
(* raised.                                                                  *)
AbandonSave ==
  /\ staging' = IF pc[Primary] = "prepare" THEN staging ELSE EmptyDirectory
  /\ Post(Primary, "outcome", TRUE, None)
  /\ pc' = [pc EXCEPT ![Primary] = "failed"]

RefuseOverwrite ==
  /\ pc[Primary] \in {"prepare", "publish"}
  /\ Exists(step[Primary])
  /\ AbandonSave
  /\ UNCHANGED <<jobVars, step, captured, disk, faults>>

WriteRaises ==
  /\ pc[Primary] \in Writing
  /\ MayFault("raise") /\ Fault
  /\ AbandonSave
  /\ UNCHANGED <<jobVars, step, captured, disk>>

(* A name of its own, with a fresh uuid, so that no leftover is in the way. *)
PrepareStaging ==
  /\ pc[Primary] = "prepare"
  /\ ~Exists(step[Primary])
  /\ staging' = EmptyDirectory
  /\ pc' = [pc EXCEPT ![Primary] = "model"]
  /\ UNCHANGED <<jobVars, step, captured, posted, disk, faults>>

(* The payload files, one after the other, each complete when it is named.  *)
WriteModel ==
  /\ pc[Primary] = "model"
  /\ staging' = [staging EXCEPT !.files = @ \cup {"model"}, !.model = step[Primary]]
  /\ pc' = [pc EXCEPT ![Primary] = "optimizer"]
  /\ UNCHANGED <<jobVars, step, captured, posted, disk, faults>>

WriteOptimizer ==
  /\ pc[Primary] = "optimizer"
  /\ staging' = [staging EXCEPT !.files = @ \cup {"optimizer"}, !.optimizer = step[Primary]]
  /\ pc' = [pc EXCEPT ![Primary] = "runtime"]
  /\ UNCHANGED <<jobVars, step, captured, posted, disk, faults>>

RankStates ==
  [world  |-> world,
   states |-> [r \in Ranks |-> IF r \in Members THEN posted["gatherSync"][r].state ELSE None]]

WriteRuntime ==
  /\ pc[Primary] = "runtime"
  /\ staging' = [staging EXCEPT !.files = @ \cup {"runtime"}, !.runtime = RankStates]
  /\ pc' = [pc EXCEPT ![Primary] = "manifest"]
  /\ UNCHANGED <<jobVars, step, captured, posted, disk, faults>>

WriteManifest ==
  /\ pc[Primary] = "manifest"
  /\ staging' = [staging EXCEPT
                   !.files = @ \cup {"manifest"},
                   !.manifest = [step |-> step[Primary], model |-> staging.model,
                                 optimizer |-> staging.optimizer,
                                 runtime |-> staging.runtime]]
  /\ pc' = [pc EXCEPT ![Primary] = "publish"]
  /\ UNCHANGED <<jobVars, step, captured, posted, disk, faults>>

(* os.replace(staging, directory): the rename that publishes.               *)
Publish ==
  /\ pc[Primary] = "publish"
  /\ ~Exists(step[Primary])
  /\ disk' = [disk EXCEPT ![step[Primary]] = staging]
  /\ staging' = EmptyDirectory
  /\ pc' = [pc EXCEPT ![Primary] = "announce"]
  /\ UNCHANGED <<jobVars, step, captured, posted, faults>>

(* ProcessContext.propagate_primary_failure: the primary's broadcast, and   *)
(* the peers' receipt of it.                                                *)
AnnounceSuccess ==
  /\ pc[Primary] = "announce"
  /\ Post(Primary, "outcome", FALSE, None)
  /\ pc' = [pc EXCEPT ![Primary] = "training"]
  /\ UNCHANGED <<jobVars, step, captured, fileVars, faults>>

LearnOutcome(r) ==
  /\ pc[r] = "outcome"
  /\ Contributed(Primary, "outcome", step[r])
  /\ pc' = [pc EXCEPT ![r] = IF posted["outcome"][Primary].failed THEN "failed" ELSE "training"]
  /\ UNCHANGED <<jobVars, step, captured, posted, fileVars, faults>>

-----------------------------------------------------------------------------
(* TrainEngine.resume and CheckpointManager.load.                           *)

(* Fault for ManagerAccepts: the optimizer file's digest is not checked. *)
ManagerAcceptsUnchecked(d) ==
  /\ d.files = Files
  /\ "manifest" \notin d.damaged
  /\ "model" \notin d.damaged /\ d.model = d.manifest.model
  /\ "runtime" \notin d.damaged /\ d.runtime = d.manifest.runtime
  /\ d.runtime.world > 1 => d.runtime.world = world

(* _read_manifest, _validate_file and the world-size check of load.         *)
ManagerAccepts(d) ==
  /\ d.files = Files
  /\ "manifest" \notin d.damaged
  /\ "model" \notin d.damaged /\ d.model = d.manifest.model
  /\ "optimizer" \notin d.damaged /\ d.optimizer = d.manifest.optimizer
  /\ "runtime" \notin d.damaged /\ d.runtime = d.manifest.runtime
  /\ d.runtime.world > 1 => d.runtime.world = world

(* resume: the engine takes the step of the manifest, the stream keeps its  *)
(* state pending until the first batch is asked for.                        *)
Load(r) ==
  /\ pc[r] = "loading"
  /\ ManagerAccepts(disk[source])
  /\ step' = [step EXCEPT ![r] = disk[source].manifest.step]
  /\ pc' = [pc EXCEPT ![r] = "resumed"]
  /\ UNCHANGED <<jobVars, captured, posted, fileVars, faults>>

LoadRejects(r) ==
  /\ pc[r] = "loading"
  /\ ~ManagerAccepts(disk[source])
  /\ pc' = [pc EXCEPT ![r] = "failed"]
  /\ UNCHANGED <<jobVars, step, captured, posted, fileVars, faults>>

LoadRaises(r) ==
  /\ pc[r] = "loading"
  /\ MayFault("raise") /\ Fault
  /\ pc' = [pc EXCEPT ![r] = "failed"]
  /\ UNCHANGED <<jobVars, step, captured, posted, fileVars>>

(* Fault for StreamAccepts: the sources do not compare their topology. *)
StreamAcceptsAny(d) == d.runtime.world # 0

(* The first batch creates the loader's iterator, which restores the stream *)
(* state.  The sources validate it: it names the rank and the world size it *)
(* was sharded for.                                                         *)
StreamAccepts(d) == d.runtime.world = world

RestoreStream(r) ==
  /\ pc[r] = "resumed" /\ step[r] < MaxSteps
  /\ pc' = [pc EXCEPT ![r] = IF StreamAccepts(disk[source]) THEN "training" ELSE "failed"]
  /\ live' = [live EXCEPT ![r] = StreamAccepts(disk[source])]
  /\ UNCHANGED <<world, source, killed, step, captured, posted, fileVars, faults>>

-----------------------------------------------------------------------------
(* The environment: the process group, the launcher, the operator and the   *)
(* file system.                                                             *)

(* The staging directory of a killed primary stays behind.                  *)
Kill(r) ==
  /\ r \in Members /\ ~Gone(r) /\ ~Finished(r)
  /\ MayFault("kill") /\ Fault
  /\ pc' = [pc EXCEPT ![r] = "down"]
  /\ killed' = TRUE
  /\ UNCHANGED <<world, source, live, step, captured, posted, fileVars>>

(* A collective that misses a peer raises after the backend's timeout.      *)
PeerLost(r) ==
  /\ pc[r] \in Collective \/ (pc[r] = "training" /\ step[r] < MaxSteps)
  /\ \E q \in Members : Gone(q)
  /\ pc' = [pc EXCEPT ![r] = "failed"]
  /\ UNCHANGED <<jobVars, step, captured, posted, fileVars, faults>>

Stopped == \A r \in Members : Gone(r) \/ Finished(r)

Damage(s, f) ==
  /\ Stopped
  /\ Exists(s) /\ f \in disk[s].files \ disk[s].damaged
  /\ MayFault("damage") /\ Fault
  /\ disk' = [disk EXCEPT ![s].damaged = @ \cup {f}]
  /\ UNCHANGED <<jobVars, rankVars, staging>>

(* Fault for MayResume: a staging directory counts as a checkpoint.         *)
MayResumeCountingStaging(s) ==
  IF Published = {} /\ staging.files = {} THEN s = None
  ELSE /\ s \in Published
       /\ ResumeLatest => \A t \in Published : t <= s

(* train() starts fresh only when the directory holds no step-* entry, and  *)
(* else only with --resume.  A leftover's name starts with a dot.           *)
MayResume(s) ==
  IF Published = {} THEN s = None
  ELSE /\ s \in Published
       /\ ResumeLatest => \A t \in Published : t <= s

Restart(w, s) ==
  /\ Stopped /\ \E r \in Members : ~Finished(r)
  /\ MayResume(s)
  /\ world' = w
  /\ source' = s
  /\ killed' = FALSE
  /\ live' = [r \in Ranks |-> r < w /\ s = None]
  /\ pc' = [r \in Ranks |-> IF r >= w THEN "down"
                            ELSE IF s = None THEN "training" ELSE "loading"]
  /\ step' = [r \in Ranks |-> 0]
  /\ captured' = [r \in Ranks |-> None]
  /\ posted' = NothingPosted
  /\ UNCHANGED <<fileVars, faults>>

-----------------------------------------------------------------------------
Init ==
  /\ world \in Worlds
  /\ source = None
  /\ killed = FALSE
  /\ live = [r \in Ranks |-> r < world]
  /\ pc = [r \in Ranks |-> IF r < world THEN "training" ELSE "down"]
  /\ step = [r \in Ranks |-> 0]
  /\ captured = [r \in Ranks |-> None]
  /\ posted = NothingPosted
  /\ staging = EmptyDirectory
  /\ disk = [s \in Steps |-> EmptyDirectory]
  /\ faults = 0

(* What rank r's process does when nothing goes wrong around it.            *)
RankStep(r) ==
  \/ OptimizerStep(r)
  \/ CaptureRuntime(r)
  \/ CaptureAdapter(r)
  \/ \E c \in {"captureSync", "adapterSync"} : PropagateRankFailure(r, c)
  \/ SendRuntime(r)
  \/ LearnOutcome(r)
  \/ Load(r)
  \/ LoadRejects(r)
  \/ RestoreStream(r)

PrimaryStep ==
  \/ ReceiveRuntimes
  \/ RefuseOverwrite
  \/ PrepareStaging
  \/ WriteModel
  \/ WriteOptimizer
  \/ WriteRuntime
  \/ WriteManifest
  \/ Publish
  \/ AnnounceSuccess

FaultStep ==
  \/ \E r \in Members :
       \/ CaptureRuntimeRaises(r)
       \/ CaptureAdapterRaises(r)
       \/ LoadRaises(r)
       \/ Kill(r)
  \/ WriteRaises
  \/ \E s \in Steps, f \in Files : Damage(s, f)

Next ==
  \/ \E r \in Members : RankStep(r) \/ PeerLost(r)
  \/ PrimaryStep
  \/ FaultStep
  \/ \E w \in Worlds, s \in State : Restart(w, s)

Spec == Init /\ [][Next]_vars

(* Every rank's process keeps running, a collective that misses a peer      *)
(* times out, and a stopped job is started again.                           *)
Fairness ==
  /\ \A r \in Ranks : WF_vars(r \in Members /\ (RankStep(r) \/ PeerLost(r)))
  /\ WF_vars(PrimaryStep)
  /\ WF_vars(\E w \in Worlds, s \in State : Restart(w, s))

FairSpec == Spec /\ Fairness

-----------------------------------------------------------------------------
(* Types of the variables: no rank trains past max_steps, every directory   *)
(* holds files of known steps, and every contribution names its step.       *)
TypeOK ==
  /\ world \in 1..MaxWorld
  /\ pc \in [Ranks -> Points]
  /\ step \in [Ranks -> Steps]
  /\ captured \in [Ranks -> State]
  /\ posted \in [Collective -> [Ranks -> Contribution]]
  /\ staging \in Directory
  /\ disk \in [Steps -> Directory]
  /\ source \in State
  /\ live \in [Ranks -> BOOLEAN]
  /\ killed \in BOOLEAN
  /\ faults \in 0..MaxFaults

(* The directory d is what a save at step s of a job of w ranks should      *)
(* produce: every file of it, each of them and every rank's state of that   *)
(* same step, and a manifest with the digests of exactly those payloads.    *)
Snapshot(d, s, w) ==
  /\ d.files = Files
  /\ d.model = s /\ d.optimizer = s
  /\ d.runtime = [world |-> w, states |-> [r \in Ranks |-> IF r < w THEN s ELSE None]]
  /\ d.manifest = [step |-> s, model |-> d.model, optimizer |-> d.optimizer,
                   runtime |-> d.runtime]

(* Whatever crashes, failures and restarts happened, a directory that       *)
(* carries a step's name holds one consistent snapshot of all ranks at that *)
(* step: no partial directory is ever visible under a published name.       *)
PublishedIsSnapshot ==
  \A s \in Published : \E w \in Worlds : Snapshot(disk[s], s, w)

(* A save that returns on any rank has published its checkpoint: no rank    *)
(* trains past a save point of this incarnation before the rename is done.  *)
ReturnedSaveIsPublished ==
  \A r \in Members : \A s \in Steps :
    /\ SaveDue(s) /\ source < s /\ 0 < s
    /\ s < step[r] \/ (s = step[r] /\ pc[r] = "training")
    => Exists(s)

(* Ranks agree on the outcome of a save while no process is killed: if one  *)
(* rank raised at a step it reached by training, no other rank went on from *)
(* that step ("complete a rank-zero operation without stranding peers").    *)
SaveAgreement ==
  ~killed =>
    \A q, r \in Members :
      /\ pc[q] = "failed" /\ live[q] /\ 0 < step[q] /\ source < step[q]
      => /\ step[r] <= step[q]
         /\ step[r] = step[q] => pc[r] # "training"

(* A rank-local or primary failure during a save never leaves a peer in a   *)
(* collective the failed rank will not join: without a kill, a rank that    *)
(* raised has contributed to the collective its peer waits in.              *)
NoStrandedPeer ==
  ~killed =>
    \A q, r \in Members :
      /\ pc[q] = "failed"
      /\ pc[r] \in Collective
      /\ pc[r] = "outcome" => q = Primary
      => Contributed(q, pc[r], step[r])

(* A rank only resumes a coherent state: the parameters, the optimizer      *)
(* state and its own runtime state it continues from were saved together,   *)
(* at the step it resumes at, by a job of the same world size.              *)
ResumesWhatWasSaved ==
  [][\A r \in Ranks :
       pc[r] = "resumed" /\ pc'[r] = "training"
         => /\ Snapshot(disk[source], step[r], world)
            /\ disk[source].damaged = {}]_vars

(* A published checkpoint is never replaced, removed or changed by the      *)
(* program: only damage from outside touches it.                            *)
NeverOverwritten ==
  [][\A s \in Steps :
       disk[s] # EmptyDirectory
         => [disk'[s] EXCEPT !.damaged = {}] = [disk[s] EXCEPT !.damaged = {}]]_vars

(* A job that is resumed from its newest checkpoint after each failure      *)
(* reaches the end of training and saves the final checkpoint: no leftover  *)
(* of an interrupted save stands in the way.                                *)
FinishesTraining == <>(Exists(MaxSteps) /\ \A r \in Members : Finished(r))

-----------------------------------------------------------------------------
(* The protocol implements the abstract checkpoint store.  A rank has no    *)
(* position while it has not restored its stream, a checkpoint is intact    *)
(* when no file of it is damaged, and everything between the capture and    *)
(* the rename is invisible.                                                 *)
AbstractPosition ==
  [r \in Ranks |-> IF live[r] THEN step[r] ELSE None]

AbstractStore ==
  [s \in Steps |-> [world  |-> disk[s].runtime.world,
                    states |-> disk[s].runtime.states,
                    intact |-> disk[s].damaged = {}]]

Store == INSTANCE CheckpointStore WITH
           at <- AbstractPosition, origin <- source, store <- AbstractStore

(* Every save, crash, failure, restart and resume is a step of the abstract *)
(* store: checkpoints appear atomically and record one position of all      *)
(* ranks, and a job only continues from an intact one of its own size.      *)
ImplementsStore == Store!StoreSpec
=============================================================================
