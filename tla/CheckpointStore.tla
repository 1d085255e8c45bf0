-------------------------- MODULE CheckpointStore ---------------------------
(***************************************************************************)
(* What checkpointing promises to a training job, without the protocol     *)
(* that provides it.  Training positions advance rank by rank but never    *)
(* drift apart by more than one step.  A checkpoint of a step appears at   *)
(* once, whole, when every rank of the job is at that step, and records    *)
(* exactly that position of every rank.  It is written once.  A restarted  *)
(* job continues either from the beginning, if there is no checkpoint, or, *)
(* rank by rank, from one intact checkpoint of a job of its own size.      *)
(***************************************************************************)
EXTENDS Integers

CONSTANTS MaxWorld, Worlds, MaxSteps

Ranks  == 0..MaxWorld-1
Steps  == 0..MaxSteps
None   == -1

VARIABLES
  world,    \* the size of the job
  at,       \* the training position of each rank; None when it has none yet
  origin,   \* the checkpoint the job continues from, or None
  store     \* store[s]: the checkpoint of step s

storeVars == <<world, at, origin, store>>

Members == 0..world-1

NoCheckpoint == [world |-> 0, states |-> [r \in Ranks |-> None], intact |-> TRUE]

(* The checkpoint of a job of w ranks, all of them at step s. *)
CheckpointOf(w, s) ==
  [world |-> w, states |-> [r \in Ranks |-> IF r < w THEN s ELSE None], intact |-> TRUE]

Saved == {s \in Steps : store[s] # NoCheckpoint}

StoreInit ==
  /\ world \in Worlds
  /\ at = [r \in Ranks |-> IF r < world THEN 0 ELSE None]
  /\ origin = None
  /\ store = [s \in Steps |-> NoCheckpoint]

Train(r) ==
  /\ at[r] # None /\ at[r] < MaxSteps
  /\ \A q \in Members : at[q] \in {at[r], at[r] + 1}
  /\ at' = [at EXCEPT ![r] = @ + 1]
  /\ UNCHANGED <<world, origin, store>>

SaveStep(s) ==
  /\ s \notin Saved
  /\ \A r \in Members : at[r] = s
  /\ store' = [store EXCEPT ![s] = CheckpointOf(world, s)]
  /\ UNCHANGED <<world, at, origin>>

Spoil(s) ==
  /\ s \in Saved
  /\ store' = [store EXCEPT ![s].intact = FALSE]
  /\ UNCHANGED <<world, at, origin>>

StartOver(w) ==
  /\ Saved = {}
  /\ world' = w
  /\ origin' = None
  /\ at' = [r \in Ranks |-> IF r < w THEN 0 ELSE None]
  /\ UNCHANGED store

StartFrom(w, s) ==
  /\ s \in Saved
  /\ world' = w
  /\ origin' = s
  /\ at' = [r \in Ranks |-> None]
  /\ UNCHANGED store

(* A rank continues from the checkpoint the job was started from.           *)
Continue(r) ==
  /\ at[r] = None /\ origin # None
  /\ store[origin] = CheckpointOf(world, origin)
  /\ at' = [at EXCEPT ![r] = store[origin].states[r]]
  /\ UNCHANGED <<world, origin, store>>

StoreNext ==
  \/ \E r \in Members : Train(r) \/ Continue(r)
  \/ \E s \in Steps : SaveStep(s) \/ Spoil(s)
  \/ \E w \in Worlds : StartOver(w) \/ \E s \in Steps : StartFrom(w, s)

StoreSpec == StoreInit /\ [][StoreNext]_storeVars
=============================================================================
