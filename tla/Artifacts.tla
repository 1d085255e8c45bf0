----------------------------- MODULE Artifacts -----------------------------
(***************************************************************************)
(* What the processes of a run leave under its output directory besides    *)
(* checkpoints: the identity files of artifacts/manifest.py, the receipts  *)
(* of api/evaluate.py, the directories of modules/export, and how training *)
(* (api/train.py), evaluation, export and the loading of an export use     *)
(* them.                                                                   *)
(*                                                                         *)
(* A scenario is a set of processes that share one output directory.  Each *)
(* runs once, at any time, may be killed between any two steps, and any    *)
(* file operation of it may raise.  The world of a training job is its     *)
(* primary: coordinate_primary gives the other ranks the primary's outcome.*)
(*                                                                         *)
(* Identity files and receipts are written to a temporary file whose name  *)
(* follows from the file's own, so two writers of one file share it.  A    *)
(* file is therefore a name for an inode: open() truncates the inode a     *)
(* temporary name already has, os.replace moves the name only.             *)
(***************************************************************************)
EXTENDS Integers, Sequences, SequencesExt

CONSTANTS
  None,        \* no inode, no checkpoint, no directory
  Scenarios,   \* the sets of processes that may share the directory
  Receipts,    \* the names of evaluation receipts
  Places,      \* the destinations of exports
  Shared,      \* the identity files that follow from the task alone
  TaskOf,      \* the task of each configuration
  MaxStep,     \* the last checkpoint a training job publishes
  MaxFaults    \* the bound on kills and failed file operations

IdentityFiles == <<"task", "run", "modules", "parameters", "manifest">>
WriteOnce     == {IdentityFiles[i] : i \in 1..Len(IdentityFiles)} \cup Receipts
Files         == WriteOnce \cup {"location"}

ASSUME ConstantsAssumption ==
  /\ Receipts \cap {"task", "run", "modules", "parameters", "manifest", "location"} = {}
  /\ Shared \subseteq {"task", "modules", "parameters"}
  /\ MaxStep \in Nat \ {0}
  /\ MaxFaults \in Nat

(* An evaluated batch: its samples, and the sums of its terms.             *)
Batches == [samples : Nat, num : Int, den : Nat, named : BOOLEAN]

ASSUME ScenariosAssumption ==
  \A s \in Scenarios : \A p \in DOMAIN s :
    /\ s[p].kind \in {"train", "evaluate", "export", "import"}
    /\ s[p].kind = "evaluate" => /\ s[p].receipt \in Receipts
                                /\ s[p].asked \in Nat
                                /\ s[p].data \in Seq(Batches)
    /\ s[p].kind \in {"export", "import"} => s[p].place \in Places

DamagedPayload == [step |-> 0, config |-> None]

Checkpoints == [step : 1..MaxStep, config : UNION {{s[p].config : p \in DOMAIN s} : s \in Scenarios}]
Directories == [payload : Checkpoints \cup {None, DamagedPayload}, digest : Checkpoints \cup {None}]

ASSUME NoneAssumption ==
  /\ None \notin UNION {(DOMAIN s) \X Files : s \in Scenarios}
  /\ None \notin Checkpoints \cup {DamagedPayload} \cup Directories

VARIABLES
  plan,       \* the scenario: what each process was asked to do
  at,         \* the control point of each process
  todo,       \* the files a process has still to write
  handle,     \* the inode behind the temporary file a process has opened
  path,       \* path[f]: the inode the file's name stands for
  temp,       \* temp[f]: the inode its temporary name stands for
  text,       \* the content of each inode
  steps,      \* the published checkpoints: step and configuration
  loaded,     \* the checkpoint or artifact a process has loaded
  totals,     \* the accumulators of an evaluation
  staging,    \* the staging directory of an export
  exports,    \* the published directory of each destination
  contended,  \* auxiliary: the files two writers were replacing at once
  faults      \* the number of faults so far

fileVars == <<todo, handle, path, temp, text, contended>>
vars == <<plan, at, fileVars, steps, loaded, totals, staging, exports, faults>>

Procs  == DOMAIN plan
Config(p) == plan[p].config
Ended  == {"done", "failed", "killed"}
Inodes == (DOMAIN plan) \X Files

Partial    == <<>>                                  \* a truncated file
Metrics(t) == <<t.samples, t.num, t.den>>

Content(f, config) == IF f \in Shared THEN <<TaskOf[config]>> ELSE <<config>>

(* What process p wants file f to hold: the resolved configuration, or the *)
(* metrics of its evaluation.  Configurations of one task share some files. *)
Wanted(p, f) ==
  IF f \in Receipts THEN Metrics(totals[p]) ELSE Content(f, Config(p))

Holds(f, content) == path[f] # None /\ text[path[f]] = content

-----------------------------------------------------------------------------
(* Helpers: a process moves on, or raises.                                 *)

Goto(p, point) == at' = [at EXCEPT ![p] = point]
Raise(p)       == Goto(p, "failed")

(* materialize_run_identity goes to the next file, then training starts; an *)
(* evaluation has one file.                                                 *)
Advance(p) ==
  /\ todo' = [todo EXCEPT ![p] = Tail(@)]
  /\ Goto(p, IF Len(todo[p]) > 1 THEN "check"
             ELSE IF plan[p].kind = "train" THEN "start" ELSE "done")

Window == {"recheck", "open", "write", "replace"}
Writing(f) == {p \in Procs : at[p] \in Window /\ Head(todo[p]) = f}

Enter(p, f) == contended' = IF Writing(f) \ {p} = {} THEN contended ELSE contended \cup {f}

-----------------------------------------------------------------------------
(* Training: identity, then the directory check, then checkpoints.         *)

(* Jobs that share a directory at the same time have one configuration (a   *)
(* job launched twice), and what reads checkpoints starts when there is one. *)
Begin(p) ==
  /\ at[p] = "idle"
  /\ \A q \in Procs : (plan[q].kind = "train" /\ plan[p].kind = "train"
                        /\ at[q] \notin {"idle"} \cup Ended)
                      => Config(q) = Config(p)
  /\ plan[p].kind = "train" \/ steps # {}
  /\ Goto(p, CASE plan[p].kind = "train"  -> "check"
               [] plan[p].kind = "import" -> "import"
               [] OTHER                   -> "load")
  /\ todo' = [todo EXCEPT ![p] = CASE plan[p].kind = "train" -> Append(IdentityFiles, "location")
                                   [] plan[p].kind = "evaluate" -> <<plan[p].receipt>>
                                   [] OTHER -> <<>>]
  /\ UNCHANGED <<plan, handle, path, temp, text, contended, steps, loaded, totals,
                 staging, exports, faults>>

(* train() starts afresh only in a directory without checkpoints, and      *)
(* resumes only a checkpoint of its own run.                               *)
MayTrain(p) ==
  IF plan[p].resume THEN \E c \in steps : c.config = Config(p) ELSE steps = {}

StartTraining(p) ==
  /\ at[p] = "start"
  /\ Goto(p, IF MayTrain(p) THEN "training" ELSE "failed")
  /\ loaded' = [loaded EXCEPT ![p] =
        IF plan[p].resume /\ MayTrain(p)
        THEN CHOOSE c \in steps : \A d \in steps : d.step <= c.step ELSE @]
  /\ UNCHANGED <<plan, fileVars, steps, totals, staging, exports, faults>>

(* CheckpointManager.save: published whole, and never over another one.    *)
SaveCheckpoint(p) ==
  /\ at[p] = "training"
  /\ LET next == IF loaded[p] = None THEN 1 ELSE loaded[p].step + 1
         made == [step |-> next, config |-> Config(p)]
     IN  IF next > MaxStep \/ \E c \in steps : c.step = next
         THEN /\ Goto(p, IF next > MaxStep THEN "done" ELSE "failed")
              /\ UNCHANGED <<steps, loaded>>
         ELSE /\ steps' = steps \cup {made}
              /\ loaded' = [loaded EXCEPT ![p] = made]
              /\ UNCHANGED at
  /\ UNCHANGED <<plan, fileVars, totals, staging, exports, faults>>

-----------------------------------------------------------------------------
(* Writing one file: _write_exact, _write_physical_location, and the       *)
(* receipt of evaluate(), which looks for the file twice.                  *)

\* Mutant of CheckFile: an identity file that differs is refreshed, as
\* run-location.json is.
CheckFileRefreshes(p) ==
  /\ at[p] = "check"
  /\ LET f == Head(todo[p]) IN
     IF Holds(f, Wanted(p, f))
     THEN Advance(p) /\ UNCHANGED contended
     ELSE Goto(p, "open") /\ Enter(p, f) /\ UNCHANGED todo
  /\ UNCHANGED <<plan, handle, path, temp, text, steps, loaded, totals, staging, exports,
                 faults>>

\* A file that is there and holds what is wanted is left alone; one that
\* differs is an error, except for the location.
CheckFile(p) ==
  /\ at[p] = "check"
  /\ LET f == Head(todo[p]) IN
     \/ /\ path[f] = None \/ (f = "location" /\ ~Holds(f, Wanted(p, f)))
        /\ Goto(p, IF f \in Receipts THEN "recheck" ELSE "open")
        /\ Enter(p, f)
        /\ UNCHANGED todo
     \/ /\ Holds(f, Wanted(p, f))
        /\ Advance(p)
        /\ UNCHANGED contended
     \/ /\ path[f] # None /\ f # "location" /\ ~Holds(f, Wanted(p, f))
        /\ Raise(p)
        /\ UNCHANGED <<todo, contended>>
  /\ UNCHANGED <<plan, handle, path, temp, text, steps, loaded, totals, staging, exports,
                 faults>>

\* evaluate() asks again whether the receipt is there before it writes one.
RecheckReceipt(p) ==
  /\ at[p] = "recheck"
  /\ IF path[Head(todo[p])] = None
     THEN Goto(p, "open") /\ UNCHANGED todo
     ELSE Advance(p)
  /\ UNCHANGED <<plan, handle, path, temp, text, contended, steps, loaded, totals, staging,
                 exports, faults>>

\* Mutant of OpenTemp: the file itself is opened instead of a temporary one.
OpenTempInPlace(p) ==
  /\ at[p] = "open"
  /\ LET f == Head(todo[p])
         inode == IF path[f] = None THEN <<p, f>> ELSE path[f]
     IN  /\ handle' = [handle EXCEPT ![p] = inode]
         /\ path' = [path EXCEPT ![f] = inode]
         /\ temp' = [temp EXCEPT ![f] = inode]
         /\ text' = [text EXCEPT ![inode] = Partial]
  /\ Goto(p, "write")
  /\ UNCHANGED <<plan, todo, contended, steps, loaded, totals, staging, exports, faults>>

\* write_text opens the temporary name: a new inode, or the one another writer
\* has left or is writing, truncated.
OpenTemp(p) ==
  /\ at[p] = "open"
  /\ LET f == Head(todo[p])
         inode == IF temp[f] = None THEN <<p, f>> ELSE temp[f]
     IN  /\ handle' = [handle EXCEPT ![p] = inode]
         /\ temp' = [temp EXCEPT ![f] = inode]
         /\ text' = [text EXCEPT ![inode] = Partial]
  /\ Goto(p, "write")
  /\ UNCHANGED <<plan, todo, path, contended, steps, loaded, totals, staging, exports, faults>>

(* Two writers write the same inode from its start: what is left is the    *)
(* later text, followed by the end of the earlier one if that was longer.  *)
WriteTemp(p) ==
  /\ at[p] = "write"
  /\ LET old == text[handle[p]]
         new == Wanted(p, Head(todo[p]))
     IN  \E left \in IF old \in {Partial, new} THEN {new} ELSE {new, Partial} :
           text' = [text EXCEPT ![handle[p]] = left]
  /\ Goto(p, "replace")
  /\ UNCHANGED <<plan, todo, handle, path, temp, contended, steps, loaded, totals, staging,
                 exports, faults>>

ReplaceFile(p) ==
  /\ at[p] = "replace"
  /\ LET f == Head(todo[p]) IN
     IF temp[f] = None
     THEN Raise(p) /\ UNCHANGED <<todo, path, temp>>
     ELSE /\ path' = [path EXCEPT ![f] = temp[f]]
          /\ temp' = [temp EXCEPT ![f] = None]
          /\ Advance(p)
  /\ UNCHANGED <<plan, handle, text, contended, steps, loaded, totals, staging, exports,
                 faults>>

-----------------------------------------------------------------------------
(* load_model_checkpoint, for evaluation and export: the manifest must name *)
(* the task, but any run.                                                   *)

Readable(p) == {c \in steps : TaskOf[c.config] = TaskOf[Config(p)]}

LoadModel(p) ==
  /\ at[p] = "load"
  /\ \/ \E c \in Readable(p) :
          /\ loaded' = [loaded EXCEPT ![p] = c]
          /\ Goto(p, IF plan[p].kind = "evaluate" THEN "batch" ELSE "target")
     \/ /\ Readable(p) = {}
        /\ Raise(p) /\ UNCHANGED loaded
  /\ UNCHANGED <<plan, fileVars, steps, totals, staging, exports, faults>>

-----------------------------------------------------------------------------
(* evaluate_batches with the loss and task_metrics evaluators.             *)

\* Mutant of Accumulate: batches are averaged, each counted once.
AccumulateMeans(t, b) ==
  [samples |-> t.samples + b.samples,
   num |-> t.num + (IF b.den = 0 THEN 0 ELSE b.num \div b.den), den |-> t.den + 1,
   batches |-> t.batches + 1]

\* Each evaluator adds the numerator and the denominator of the batch to its
\* totals, and divides once at the end.
Accumulate(t, b) ==
  [samples |-> t.samples + b.samples, num |-> t.num + b.num, den |-> t.den + b.den,
   batches |-> t.batches + 1]

EvaluateBatch(p) ==
  /\ at[p] = "batch"
  /\ totals[p].batches < plan[p].asked
  /\ IF totals[p].batches < Len(plan[p].data) /\ plan[p].data[totals[p].batches + 1].named
     THEN /\ totals' = [totals EXCEPT ![p] = Accumulate(@, plan[p].data[@.batches + 1])]
          /\ UNCHANGED at
     ELSE Raise(p) /\ UNCHANGED totals       \* the stream ended, or a term is missing
  /\ UNCHANGED <<plan, fileVars, steps, loaded, staging, exports, faults>>

ComputeMetrics(p) ==
  /\ at[p] = "batch"
  /\ totals[p].batches = plan[p].asked
  /\ Goto(p, IF totals[p].den > 0 /\ plan[p].namesDiffer THEN "check" ELSE "failed")
  /\ UNCHANGED <<plan, fileVars, steps, loaded, totals, staging, exports, faults>>

-----------------------------------------------------------------------------
(* An exporter: refuse an existing destination, fill a staging directory   *)
(* of its own, then move it.  The transformers exporter takes the digest   *)
(* of the whole directory before it adds the manifest, the others that of  *)
(* the one payload file.                                                   *)

CheckTarget(p) ==
  /\ at[p] = "target"
  /\ IF exports[plan[p].place] = None
     THEN /\ staging' = [staging EXCEPT ![p] = [payload |-> None, digest |-> None]]
          /\ Goto(p, "payload")
     ELSE Raise(p) /\ UNCHANGED staging
  /\ UNCHANGED <<plan, fileVars, steps, loaded, totals, exports, faults>>

WritePayload(p) ==
  /\ at[p] = "payload"
  /\ staging' = [staging EXCEPT ![p] = [payload |-> loaded[p], digest |-> None]]
  /\ Goto(p, "describe")
  /\ UNCHANGED <<plan, fileVars, steps, loaded, totals, exports, faults>>

WriteExportManifest(p) ==
  /\ at[p] = "describe"
  /\ LET made == staging[p].payload
     IN  staging' = [staging EXCEPT ![p] = [payload |-> made, digest |-> made]]
  /\ Goto(p, "publish")
  /\ UNCHANGED <<plan, fileVars, steps, loaded, totals, exports, faults>>

(* os.replace refuses to move a directory over one that is not empty.      *)
PublishExport(p) ==
  /\ at[p] = "publish"
  /\ IF exports[plan[p].place] = None
     THEN /\ exports' = [exports EXCEPT ![plan[p].place] = staging[p]]
          /\ Goto(p, "done")
     ELSE Raise(p) /\ UNCHANGED exports
  /\ staging' = [staging EXCEPT ![p] = None]
  /\ UNCHANGED <<plan, fileVars, steps, loaded, totals, faults>>

Intact(d) == exports[d] # None /\ exports[d].digest = exports[d].payload

\* Mutant of ImportArtifact: the digest of an artifact is not compared.
ImportArtifactUnchecked(p) ==
  /\ at[p] = "import"
  /\ IF exports[plan[p].place] # None
     THEN /\ loaded' = [loaded EXCEPT ![p] = exports[plan[p].place].payload]
          /\ Goto(p, "done")
     ELSE Raise(p) /\ UNCHANGED loaded
  /\ UNCHANGED <<plan, fileVars, steps, totals, staging, exports, faults>>

\* load_safetensors_artifact: a missing manifest or a digest that differs from
\* the payload is refused.
ImportArtifact(p) ==
  /\ at[p] = "import"
  /\ IF Intact(plan[p].place)
     THEN /\ loaded' = [loaded EXCEPT ![p] = exports[plan[p].place].payload]
          /\ Goto(p, "done")
     ELSE Raise(p) /\ UNCHANGED loaded
  /\ UNCHANGED <<plan, fileVars, steps, totals, staging, exports, faults>>

-----------------------------------------------------------------------------
(* Faults.                                                                 *)

Fault == faults < MaxFaults /\ faults' = faults + 1

Kill(p) ==
  /\ Fault
  /\ at[p] \notin Ended \cup {"idle"}
  /\ Goto(p, "killed")
  /\ UNCHANGED <<plan, fileVars, steps, loaded, totals, staging, exports>>

(* A file operation raises.  An exporter removes its staging directory.    *)
OperationRaises(p) ==
  /\ Fault
  /\ at[p] \in {"check", "open", "write", "replace", "load", "payload", "describe", "publish"}
  /\ Raise(p)
  /\ staging' = [staging EXCEPT ![p] = None]
  /\ UNCHANGED <<plan, fileVars, steps, loaded, totals, exports>>

(* The payload of a published export is damaged.                           *)
Damage ==
  /\ Fault
  /\ \E d \in Places :
       /\ exports[d] # None
       /\ exports' = [exports EXCEPT ![d] = [payload |-> DamagedPayload,
                                             digest |-> exports[d].digest]]
  /\ UNCHANGED <<plan, at, fileVars, steps, loaded, totals, staging>>

-----------------------------------------------------------------------------
NoTotals == [samples |-> 0, num |-> 0, den |-> 0, batches |-> 0]

Init ==
  /\ plan \in Scenarios
  /\ at = [p \in DOMAIN plan |-> "idle"]
  /\ todo = [p \in DOMAIN plan |-> <<>>]
  /\ handle = [p \in DOMAIN plan |-> None]
  /\ path = [f \in Files |-> None]
  /\ temp = [f \in Files |-> None]
  /\ text = [i \in Inodes |-> Partial]
  /\ steps = {}
  /\ loaded = [p \in DOMAIN plan |-> None]
  /\ totals = [p \in DOMAIN plan |-> NoTotals]
  /\ staging = [p \in DOMAIN plan |-> None]
  /\ exports = [d \in Places |-> None]
  /\ contended = {}
  /\ faults = 0

Step(p) ==
  \/ Begin(p) \/ StartTraining(p) \/ SaveCheckpoint(p)
  \/ CheckFile(p) \/ RecheckReceipt(p) \/ OpenTemp(p) \/ WriteTemp(p) \/ ReplaceFile(p)
  \/ LoadModel(p) \/ EvaluateBatch(p) \/ ComputeMetrics(p)
  \/ CheckTarget(p) \/ WritePayload(p) \/ WriteExportManifest(p) \/ PublishExport(p)
  \/ ImportArtifact(p)

Next ==
  \/ \E p \in Procs : Step(p) \/ Kill(p) \/ OperationRaises(p)
  \/ Damage

Spec == Init /\ [][Next]_vars
-----------------------------------------------------------------------------
(* Properties.                                                             *)

(* The files under resolved/ are those of every checkpoint beside them, and *)
(* no published file is a fragment, whoever was killed on the way: the      *)
(* order of _write_exact (temporary file, text, rename) and of train()      *)
(* (identity before the first checkpoint).  Two writers of one file at once *)
(* share its temporary name; then a fragment may be published, but only     *)
(* while one of them is writing, or when one was killed or failed.          *)
IdentityHolds ==
  /\ \A f \in Files : path[f] # None /\ text[path[f]] = Partial =>
       /\ f \in contended
       /\ \E p \in Procs : /\ handle[p] = path[f]
                           /\ at[p] \in {"write", "replace", "killed", "failed"}
  /\ \A c \in steps, f \in Files \ Receipts :
       /\ path[f] # None
       /\ text[path[f]] \in {Partial, Content(f, c.config)}

(* A receipt that evaluate() returned holds the sums over all batches it   *)
(* was asked for, and their samples: the metric is the mean over the       *)
(* evaluated terms, not a mean of means of batches.                        *)
Total(numbers, n) == MapThenSumSet(LAMBDA i : numbers[i], 1..n)

Metric(data, n) == <<Total([i \in DOMAIN data |-> data[i].samples], n),
                     Total([i \in DOMAIN data |-> data[i].num], n),
                     Total([i \in DOMAIN data |-> data[i].den], n)>>

EvaluationExact ==
  \A p \in Procs : plan[p].kind = "evaluate" /\ at[p] = "done" =>
    /\ plan[p].asked <= Len(plan[p].data)
    /\ plan[p].receipt \notin contended =>
         Holds(plan[p].receipt, Metric(plan[p].data, plan[p].asked))

(* A published export is complete and is one checkpoint of the task, what  *)
(* an import accepts is such a checkpoint, and only a killed export leaves *)
(* a staging directory behind.                                             *)
ExportsWhole ==
  /\ \A d \in Places : exports[d] # None => exports[d].digest \in steps
  /\ \A p \in Procs :
       /\ plan[p].kind = "import" /\ at[p] = "done" => loaded[p] \in steps
       /\ at[p] \in {"done", "failed"} => staging[p] = None

(* An identity file, a receipt and an export never change once published;  *)
(* the file of a relocated run, run-location.json, may.                    *)
NeverRewritten ==
  [][/\ \A f \in WriteOnce \ contended' :
          path[f] # None => path'[f] = path[f] /\ text'[path[f]] = text[path[f]]
     /\ \A d \in Places :
          exports[d] # None => exports'[d] # None /\ exports'[d].digest = exports[d].digest]_vars
=============================================================================
