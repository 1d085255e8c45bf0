-------------------------- MODULE CheckpointProofs --------------------------
(***************************************************************************)
(* For every number of ranks, steps, save intervals and faults: the type   *)
(* correctness of Checkpoint, the integrity of everything it publishes,    *)
(* what its ranks agree on, and that it implements CheckpointStore.        *)
(***************************************************************************)
EXTENDS Checkpoint, TLAPS

(* A rank past the runtime outcome phase holds the state of its own step.   *)
CaptureInv ==
  \A r \in Ranks :
    /\ pc[r] = "captureSync" => posted["captureSync"][r].failed \/ captured[r] = step[r]
    /\ pc[r] \in {"adapter", "adapterSync", "gather"} => captured[r] = step[r]

(* What a rank sent to the primary is the state of the step it sent it at.  *)
GatherInv ==
  \A r \in Ranks :
    posted["gatherSync"][r].step # None
      => posted["gatherSync"][r].state = posted["gatherSync"][r].step

(* No rank sends its state before the primary has joined the same save.     *)
OrderInv ==
  /\ posted["captureSync"][Primary].step <= step[Primary]
  /\ pc[Primary] \in {"loading", "resumed"} => posted["captureSync"][Primary].step = None
  /\ \A r \in Ranks :
       /\ posted["gatherSync"][r].step <= posted["captureSync"][Primary].step
       /\ pc[r] \in {"adapter", "adapterSync", "gather"}
            => step[r] <= posted["captureSync"][Primary].step

(* The primary announces the outcome of a save once, at its end.            *)
OutcomeInv ==
  /\ posted["outcome"][Primary].step <= step[Primary]
  /\ pc[Primary] \in Saving => posted["outcome"][Primary].step < step[Primary]
  /\ pc[Primary] \in {"loading", "resumed"} => posted["outcome"][Primary].step = None

(* A peer that sent its state for the primary's current save waits for the  *)
(* outcome of it, or has left.                                              *)
WaitingInv ==
  \A r \in Members \ {Primary} :
    /\ posted["gatherSync"][r].step = step[Primary]
    /\ posted["outcome"][Primary].step # step[Primary]
    => pc[r] \in {"outcome", "failed", "down"} /\ step[r] = step[Primary]

(* The primary writes only what every member sent for the current save, and *)
(* the staging directory holds what its control point says.                 *)
StagingInv ==
  /\ pc[Primary] \in Writing =>
       \A r \in Members : posted["gatherSync"][r].step = step[Primary]
  /\ pc[Primary] = "model" => staging.files = {} /\ staging.damaged = {}
  /\ pc[Primary] = "optimizer" =>
       staging.files = {"model"} /\ staging.damaged = {} /\ staging.model = step[Primary]
  /\ pc[Primary] = "runtime" =>
       /\ staging.files = {"model", "optimizer"} /\ staging.damaged = {}
       /\ staging.model = step[Primary] /\ staging.optimizer = step[Primary]
  /\ pc[Primary] = "manifest" =>
       /\ staging.files = {"model", "optimizer", "runtime"} /\ staging.damaged = {}
       /\ staging.model = step[Primary] /\ staging.optimizer = step[Primary]
       /\ staging.runtime = [world |-> world,
            states |-> [r \in Ranks |-> IF r < world THEN step[Primary] ELSE None]]
  /\ pc[Primary] = "publish" =>
       Snapshot(staging, step[Primary], world) /\ staging.damaged = {}

SourceInv == \A r \in Ranks : pc[r] = "loading" => source \in Steps

Protocol ==
  /\ world \in Worlds
  /\ CaptureInv
  /\ GatherInv
  /\ OrderInv
  /\ OutcomeInv
  /\ WaitingInv
  /\ StagingInv
  /\ SourceInv

IInv == TypeOK /\ Protocol /\ PublishedIsSnapshot

-----------------------------------------------------------------------------
(* The primary is a member, members are ranks, and no step is None.         *)
LEMMA RankFacts ==
  ASSUME TypeOK
  PROVE  /\ Primary \in Ranks /\ Primary \in Members
         /\ Members \subseteq Ranks
         /\ \A r \in Ranks : r \in Members <=> r < world
         /\ Steps \subseteq State /\ None \in State /\ None \notin Steps
  BY ConstantsAssumption DEF TypeOK, Primary, Ranks, Members, Steps, State, None

(* The empty directory and the empty contributions have their types.        *)
LEMMA EmptyTypes ==
  /\ EmptyDirectory \in Directory
  /\ NothingPosted \in [Collective -> [Ranks -> Contribution]]
  /\ NotPosted \in Contribution
  BY ConstantsAssumption
  DEF EmptyDirectory, Directory, NoRuntime, RuntimePayload, Digests, State, Steps, None,
      NothingPosted, NotPosted, Contribution

(* A contribution changes one entry of `posted`.                            *)
LEMMA PostEffect ==
  ASSUME TypeOK, NEW r \in Ranks, NEW c \in Collective, NEW failed \in BOOLEAN,
         NEW state \in State, Post(r, c, failed, state)
  PROVE  /\ posted' \in [Collective -> [Ranks -> Contribution]]
         /\ posted'[c][r] = [step |-> step[r], failed |-> failed, state |-> state]
         /\ \A d \in Collective, q \in Ranks :
              d # c \/ q # r => posted'[d][q] = posted[d][q]
<1> DEFINE new == [step |-> step[r], failed |-> failed, state |-> state]
<1>1. new \in Contribution
  BY RankFacts DEF TypeOK, Contribution
<1>2. posted' = [posted EXCEPT ![c] = [posted[c] EXCEPT ![r] = new]]
  BY DEF Post
<1>3. posted \in [Collective -> [Ranks -> Contribution]]
  BY DEF TypeOK
<1> HIDE DEF new
<1>4. /\ posted' \in [Collective -> [Ranks -> Contribution]]
      /\ posted'[c][r] = new
      /\ \A d \in Collective, q \in Ranks : d # c \/ q # r => posted'[d][q] = posted[d][q]
  BY <1>1, <1>2, <1>3
<1> QED BY <1>4 DEF new

(* The step that load takes from a manifest it accepts is the one in the    *)
(* name of the directory: what is published is a snapshot.                  *)
LEMMA AcceptedStep ==
  ASSUME IInv, NEW r \in Ranks, pc[r] = "loading", ManagerAccepts(disk[source])
  PROVE  source \in Steps /\ disk[source].manifest.step = source
<1>1. source \in Steps
  BY DEF IInv, Protocol, SourceInv
<1>2. disk[source] # EmptyDirectory
  BY DEF ManagerAccepts, Files, EmptyDirectory
<1>3. PICK w \in Worlds : Snapshot(disk[source], source, w)
  BY <1>1, <1>2 DEF IInv, PublishedIsSnapshot, Published, Exists
<1> QED BY <1>1, <1>3 DEF Snapshot

-----------------------------------------------------------------------------
(* Every step preserves the invariant, conjunct by conjunct.                *)

(* The type invariant. *)
LEMMA TypeStep ==
  ASSUME IInv, Next
  PROVE  TypeOK'
<1> USE DEF jobVars, rankVars, fileVars, TypeOK, Points, Saving, Writing, Collective
<1>t. TypeOK
  BY DEF IInv
<1>r. /\ Primary \in Ranks /\ Primary \in Members
      /\ Members \subseteq Ranks
      /\ Steps \subseteq State /\ None \in State
  BY <1>t, RankFacts
<1>e. /\ EmptyDirectory \in Directory
      /\ NothingPosted \in [Collective -> [Ranks -> Contribution]]
  BY EmptyTypes
<1>f. faults < MaxFaults => faults + 1 \in 0..MaxFaults
  BY <1>t, ConstantsAssumption
<1>s. RankStates \in RuntimePayload
  BY <1>t, <1>r, ConstantsAssumption DEF RankStates, RuntimePayload, Contribution
<1>1. ASSUME NEW r \in Members, OptimizerStep(r)
      PROVE  TypeOK'
  BY <1>1, <1>t, <1>r, <1>e, ConstantsAssumption DEF OptimizerStep, Steps
<1>2. ASSUME NEW r \in Members, CaptureRuntime(r)
      PROVE  TypeOK'
  BY <1>2, <1>t, <1>r, <1>e, PostEffect DEF CaptureRuntime
<1>3. ASSUME NEW r \in Members, CaptureRuntimeRaises(r)
      PROVE  TypeOK'
  BY <1>3, <1>t, <1>r, <1>e, <1>f, PostEffect
  DEF CaptureRuntimeRaises, MayFault, Fault
<1>4. ASSUME NEW r \in Members, CaptureAdapter(r)
      PROVE  TypeOK'
  BY <1>4, <1>t, <1>r, <1>e, PostEffect DEF CaptureAdapter
<1>5. ASSUME NEW r \in Members, CaptureAdapterRaises(r)
      PROVE  TypeOK'
  BY <1>5, <1>t, <1>r, <1>e, <1>f, PostEffect
  DEF CaptureAdapterRaises, MayFault, Fault
<1>6. ASSUME NEW r \in Members, SendRuntime(r)
      PROVE  TypeOK'
  BY <1>6, <1>t, <1>r, <1>e, PostEffect DEF SendRuntime
<1>7. ASSUME NEW r \in Members, LearnOutcome(r)
      PROVE  TypeOK'
  BY <1>7, <1>t, <1>r, <1>e DEF LearnOutcome, AfterCapture
<1>8. ASSUME NEW r \in Members, Load(r)
      PROVE  TypeOK'
  BY <1>8, <1>t, <1>r, <1>e, AcceptedStep DEF Load
<1>9. ASSUME NEW r \in Members, LoadRejects(r)
      PROVE  TypeOK'
  BY <1>9, <1>t, <1>r, <1>e DEF LoadRejects
<1>10. ASSUME NEW r \in Members, RestoreStream(r)
      PROVE  TypeOK'
  BY <1>10, <1>t, <1>r, <1>e DEF RestoreStream, StreamAccepts
<1>11. ASSUME NEW r \in Members, LoadRaises(r)
      PROVE  TypeOK'
  BY <1>11, <1>t, <1>r, <1>e, <1>f DEF LoadRaises, MayFault, Fault
<1>12. ASSUME NEW r \in Members, Kill(r)
      PROVE  TypeOK'
  BY <1>12, <1>t, <1>r, <1>e, <1>f DEF Kill, MayFault, Fault
<1>13. ASSUME NEW r \in Members, PeerLost(r)
      PROVE  TypeOK'
  BY <1>13, <1>t, <1>r, <1>e DEF PeerLost
<1>14. ASSUME NEW r \in Members, NEW c \in {"captureSync", "adapterSync"},
             PropagateRankFailure(r, c)
      PROVE  TypeOK'
  BY <1>14, <1>t, <1>r, <1>e DEF PropagateRankFailure, AfterCapture
<1>15. CASE ReceiveRuntimes
  BY <1>15, <1>t, <1>r, <1>e DEF ReceiveRuntimes
<1>16. CASE RefuseOverwrite
  BY <1>16, <1>t, <1>r, <1>e, PostEffect DEF RefuseOverwrite, AbandonSave
<1>17. CASE PrepareStaging
  BY <1>17, <1>t, <1>r, <1>e DEF PrepareStaging
<1>18. CASE WriteModel
  BY <1>18, <1>t, <1>r, <1>e DEF WriteModel, Directory, Files
<1>19. CASE WriteOptimizer
  BY <1>19, <1>t, <1>r, <1>e DEF WriteOptimizer, Directory, Files
<1>20. CASE WriteRuntime
  BY <1>20, <1>t, <1>r, <1>e, <1>s DEF WriteRuntime, Directory, Files
<1>21. CASE WriteManifest
  BY <1>21, <1>t, <1>r, <1>e DEF WriteManifest, Directory, Files, Digests
<1>22. CASE Publish
  BY <1>22, <1>t, <1>r, <1>e DEF Publish, Directory, Files
<1>23. CASE AnnounceSuccess
  BY <1>23, <1>t, <1>r, <1>e, PostEffect DEF AnnounceSuccess
<1>24. CASE WriteRaises
  BY <1>24, <1>t, <1>r, <1>e, <1>f, PostEffect
  DEF WriteRaises, MayFault, Fault, AbandonSave
<1>25. ASSUME NEW s \in Steps, NEW f \in Files, Damage(s, f)
      PROVE  TypeOK'
  BY <1>25, <1>t, <1>r, <1>e, <1>f
  DEF Damage, MayFault, Fault, Directory, Files
<1>26. ASSUME NEW w \in Worlds, NEW s \in State, Restart(w, s)
      PROVE  TypeOK'
  <2>1. world' \in 1..MaxWorld /\ step' \in [Ranks -> Steps] /\ source' \in State
    BY <1>26, ConstantsAssumption DEF Restart, Steps
  <2>2. pc' \in [Ranks -> Points] /\ live' \in [Ranks -> BOOLEAN] /\ killed' \in BOOLEAN
    BY <1>26 DEF Restart
  <2>3. captured' \in [Ranks -> State]
    BY <1>26, <1>r DEF Restart
  <2> QED BY <1>26, <1>t, <1>e, <2>1, <2>2, <2>3 DEF Restart
<1> QED
  BY <1>1, <1>2, <1>3, <1>4, <1>5, <1>6, <1>7, <1>8, <1>9, <1>10, <1>11,
     <1>12, <1>13, <1>14, <1>15, <1>16, <1>17, <1>18, <1>19, <1>20, <1>21,
     <1>22, <1>23, <1>24, <1>25, <1>26
  DEF Next, RankStep, PrimaryStep, FaultStep

-----------------------------------------------------------------------------
(* The protocol invariant, action by action.  Every lemma first says what   *)
(* the action changes.                                                      *)

Frame == TypeOK /\ TypeOK' /\ world' = world

(* What the action lemmas rely on: every step that does not restart the job *)
(* keeps its members, and steps and contributions are numbers.              *)
LEMMA FrameFacts ==
  ASSUME IInv, Next, world' = world
  PROVE  /\ Frame
         /\ Primary \in Ranks /\ Primary \in Members /\ Members' = Members
         /\ Members \subseteq Ranks
         /\ \A r \in Ranks : step[r] \in Nat /\ step'[r] \in Nat
         /\ \A c \in Collective, r \in Ranks :
              posted[c][r].step \in Int /\ posted'[c][r].step \in Int
<1>1. TypeOK /\ TypeOK'
  BY TypeStep DEF IInv
<1> QED
  BY <1>1, RankFacts
  DEF Frame, TypeOK, Members, Steps, Contribution, State, None

(* A finished optimizer step leaves the rank at the start of a save, with   *)
(* nothing contributed for it, or training on.                              *)
LEMMA OptimizerStepKeeps ==
  ASSUME IInv, Next, NEW r \in Members, OptimizerStep(r)
  PROVE  Protocol'
<1>1. /\ pc[r] = "training" /\ pc' = [pc EXCEPT ![r] = pc'[r]]
      /\ pc'[r] \in {"capture", "training"}
      /\ step' = [step EXCEPT ![r] = step[r] + 1]
      /\ UNCHANGED <<world, source, captured, posted, staging>>
  BY RankFacts DEF OptimizerStep, jobVars, fileVars, IInv, TypeOK
<1>2. /\ Frame /\ Members' = Members /\ Members \subseteq Ranks
      /\ Primary \in Members /\ Primary \in Ranks
      /\ \A q \in Ranks : step[q] \in Nat /\ step'[q] \in Nat
      /\ \A c \in Collective, q \in Ranks :
           posted[c][q].step \in Int /\ posted'[c][q].step \in Int
  BY <1>1, FrameFacts
<1>3. CaptureInv'
  BY <1>1, <1>2
  DEF IInv, Protocol, CaptureInv, Frame, TypeOK, Points, Saving, Writing,
      Collective
<1>4. GatherInv'
  BY <1>1, <1>2
  DEF IInv, Protocol, GatherInv, Frame, TypeOK, Points, Saving, Writing,
      Collective
<1>5. OrderInv'
  BY <1>1, <1>2
  DEF IInv, Protocol, OrderInv, Frame, TypeOK, Points, Saving, Writing,
      Collective
<1>6. OutcomeInv'
  BY <1>1, <1>2
  DEF IInv, Protocol, OutcomeInv, Frame, TypeOK, Points, Saving, Writing,
      Collective
<1>7. WaitingInv'
  BY <1>1, <1>2
  DEF IInv, Protocol, WaitingInv, OrderInv, Frame, TypeOK, Points, Saving,
      Writing, Collective
<1>8. StagingInv'
  BY <1>1, <1>2
  DEF IInv, Protocol, StagingInv, Frame, TypeOK, Points, Saving, Writing,
      Collective
<1>9. SourceInv'
  BY <1>1, <1>2
  DEF IInv, Protocol, SourceInv, Frame, TypeOK, Points, Saving, Writing,
      Collective
<1> QED
  BY <1>1, <1>3, <1>4, <1>5, <1>6, <1>7, <1>8, <1>9 DEF IInv, Protocol

(* A rank's runtime capture, whether it succeeds or raises, preserves IInv. *)
LEMMA CaptureRuntimeKeeps ==
  ASSUME IInv, Next, NEW r \in Members,
         CaptureRuntime(r) \/ CaptureRuntimeRaises(r)
  PROVE  Protocol'
<1>a. PICK failed \in BOOLEAN :
        /\ Post(r, "captureSync", failed, None)
        /\ failed \/ captured' = [captured EXCEPT ![r] = step[r]]
  BY DEF CaptureRuntime, CaptureRuntimeRaises
<1>1. /\ pc[r] = "capture" /\ pc' = [pc EXCEPT ![r] = "captureSync"]
      /\ posted'["captureSync"][r] = [step |-> step[r], failed |-> failed, state |-> None]
      /\ \A c \in Collective, q \in Ranks :
           c # "captureSync" \/ q # r => posted'[c][q] = posted[c][q]
      /\ failed \/ captured'[r] = step[r]
      /\ \A q \in Ranks : q # r => captured'[q] = captured[q]
      /\ UNCHANGED <<world, source, step, staging>>
  <2>1. TypeOK /\ r \in Ranks /\ None \in State
    BY RankFacts DEF IInv
  <2>2. "captureSync" \in Collective
    BY DEF Collective
  <2>3. /\ posted'["captureSync"][r] = [step |-> step[r], failed |-> failed, state |-> None]
        /\ \A c \in Collective, q \in Ranks :
             c # "captureSync" \/ q # r => posted'[c][q] = posted[c][q]
    BY <1>a, <2>1, <2>2, PostEffect
  <2> QED BY <1>a, <2>1, <2>3
    DEF CaptureRuntime, CaptureRuntimeRaises, TypeOK, jobVars, fileVars
<1>2. /\ Frame /\ Members' = Members /\ Members \subseteq Ranks
      /\ Primary \in Members /\ Primary \in Ranks
      /\ \A q \in Ranks : step[q] \in Nat /\ step'[q] \in Nat
      /\ \A c \in Collective, q \in Ranks :
           posted[c][q].step \in Int /\ posted'[c][q].step \in Int
  BY <1>1, FrameFacts
<1>3. CaptureInv'
  BY <1>1, <1>2
  DEF IInv, Protocol, CaptureInv, Frame, TypeOK, Points, Saving, Writing,
      Collective
<1>4. GatherInv'
  BY <1>1, <1>2
  DEF IInv, Protocol, GatherInv, Frame, TypeOK, Points, Saving, Writing,
      Collective
<1>5. OrderInv'
  BY <1>1, <1>2
  DEF IInv, Protocol, OrderInv, Frame, TypeOK, Points, Saving, Writing,
      Collective
<1>6. OutcomeInv'
  BY <1>1, <1>2
  DEF IInv, Protocol, OutcomeInv, Frame, TypeOK, Points, Saving, Writing,
      Collective
<1>7. WaitingInv'
  BY <1>1, <1>2
  DEF IInv, Protocol, WaitingInv, Frame, TypeOK, Points, Saving, Writing,
      Collective
<1>8. StagingInv'
  BY <1>1, <1>2
  DEF IInv, Protocol, StagingInv, Frame, TypeOK, Points, Saving, Writing,
      Collective
<1>9. SourceInv'
  BY <1>1, <1>2
  DEF IInv, Protocol, SourceInv, Frame, TypeOK, Points, Saving, Writing,
      Collective
<1> QED
  BY <1>1, <1>3, <1>4, <1>5, <1>6, <1>7, <1>8, <1>9 DEF IInv, Protocol

(* The state adapter's capture, whether it succeeds or raises, preserves
   IInv. *)
LEMMA CaptureAdapterKeeps ==
  ASSUME IInv, Next, NEW r \in Members,
         CaptureAdapter(r) \/ CaptureAdapterRaises(r)
  PROVE  Protocol'
<1>a. PICK failed \in BOOLEAN : Post(r, "adapterSync", failed, None)
  BY DEF CaptureAdapter, CaptureAdapterRaises
<1>1. /\ pc[r] = "adapter" /\ pc' = [pc EXCEPT ![r] = "adapterSync"]
      /\ \A c \in Collective, q \in Ranks :
           c # "adapterSync" => posted'[c][q] = posted[c][q]
      /\ UNCHANGED <<world, source, step, captured, staging>>
  <2>1. TypeOK /\ r \in Ranks /\ None \in State
    BY RankFacts DEF IInv
  <2>2. "adapterSync" \in Collective
    BY DEF Collective
  <2>3. /\ posted'["adapterSync"][r] = [step |-> step[r], failed |-> failed, state |-> None]
        /\ \A c \in Collective, q \in Ranks :
             c # "adapterSync" \/ q # r => posted'[c][q] = posted[c][q]
    BY <1>a, <2>1, <2>2, PostEffect
  <2> QED BY <1>a, <2>1, <2>3
    DEF CaptureAdapter, CaptureAdapterRaises, TypeOK, jobVars, fileVars
<1>2. /\ Frame /\ Members' = Members /\ Members \subseteq Ranks
      /\ Primary \in Members /\ Primary \in Ranks
      /\ \A q \in Ranks : step[q] \in Nat /\ step'[q] \in Nat
      /\ \A c \in Collective, q \in Ranks :
           posted[c][q].step \in Int /\ posted'[c][q].step \in Int
  BY <1>1, FrameFacts
<1>3. CaptureInv'
  BY <1>1, <1>2
  DEF IInv, Protocol, CaptureInv, Frame, TypeOK, Points, Saving, Writing,
      Collective
<1>4. GatherInv'
  BY <1>1, <1>2
  DEF IInv, Protocol, GatherInv, Frame, TypeOK, Points, Saving, Writing,
      Collective
<1>5. OrderInv'
  BY <1>1, <1>2
  DEF IInv, Protocol, OrderInv, Frame, TypeOK, Points, Saving, Writing,
      Collective
<1>6. OutcomeInv'
  BY <1>1, <1>2
  DEF IInv, Protocol, OutcomeInv, Frame, TypeOK, Points, Saving, Writing,
      Collective
<1>7. WaitingInv'
  BY <1>1, <1>2
  DEF IInv, Protocol, WaitingInv, Frame, TypeOK, Points, Saving, Writing,
      Collective
<1>8. StagingInv'
  BY <1>1, <1>2
  DEF IInv, Protocol, StagingInv, Frame, TypeOK, Points, Saving, Writing,
      Collective
<1>9. SourceInv'
  BY <1>1, <1>2
  DEF IInv, Protocol, SourceInv, Frame, TypeOK, Points, Saving, Writing,
      Collective
<1> QED
  BY <1>1, <1>3, <1>4, <1>5, <1>6, <1>7, <1>8, <1>9 DEF IInv, Protocol

(* Learning whether some rank failed in a capture phase preserves IInv. *)
LEMMA PropagateKeeps ==
  ASSUME IInv, Next, NEW r \in Members,
         NEW c \in {"captureSync", "adapterSync"}, PropagateRankFailure(r, c)
  PROVE  Protocol'
<1>1. /\ pc[r] = c /\ pc' = [pc EXCEPT ![r] = pc'[r]]
      /\ pc'[r] \in {"failed", "adapter", "gather"}
      /\ pc'[r] # "failed" => ~posted[c][r].failed
      /\ posted[c][Primary].step = step[r]
      /\ UNCHANGED <<world, source, step, captured, posted, staging>>
  BY RankFacts
  DEF PropagateRankFailure, AfterCapture, Contributed, jobVars, fileVars, IInv, TypeOK
<1>2. /\ Frame /\ Members' = Members /\ Members \subseteq Ranks
      /\ Primary \in Members /\ Primary \in Ranks
      /\ \A q \in Ranks : step[q] \in Nat /\ step'[q] \in Nat
      /\ \A d \in Collective, q \in Ranks :
           posted[d][q].step \in Int /\ posted'[d][q].step \in Int
  BY <1>1, FrameFacts
<1>3. CaptureInv'
  BY <1>1, <1>2
  DEF IInv, Protocol, CaptureInv, Frame, TypeOK, Points, Saving, Writing,
      Collective
<1>4. GatherInv'
  BY <1>1, <1>2
  DEF IInv, Protocol, GatherInv, Frame, TypeOK, Points, Saving, Writing,
      Collective
<1>5. OrderInv'
  BY <1>1, <1>2
  DEF IInv, Protocol, OrderInv, Frame, TypeOK, Points, Saving, Writing,
      Collective
<1>6. OutcomeInv'
  BY <1>1, <1>2
  DEF IInv, Protocol, OutcomeInv, Frame, TypeOK, Points, Saving, Writing,
      Collective
<1>7. WaitingInv'
  BY <1>1, <1>2
  DEF IInv, Protocol, WaitingInv, Frame, TypeOK, Points, Saving, Writing,
      Collective
<1>8. StagingInv'
  BY <1>1, <1>2
  DEF IInv, Protocol, StagingInv, Frame, TypeOK, Points, Saving, Writing,
      Collective
<1>9. SourceInv'
  BY <1>1, <1>2
  DEF IInv, Protocol, SourceInv, Frame, TypeOK, Points, Saving, Writing,
      Collective
<1> QED
  BY <1>1, <1>3, <1>4, <1>5, <1>6, <1>7, <1>8, <1>9 DEF IInv, Protocol

(* The contribution to gather_object preserves IInv: it is the captured
   state of the step at which the rank is saving. *)
LEMMA SendRuntimeKeeps ==
  ASSUME IInv, Next, NEW r \in Members, SendRuntime(r)
  PROVE  Protocol'
<1>1. /\ r \in Ranks
      /\ pc[r] = "gather" /\ pc' = [pc EXCEPT ![r] = pc'[r]]
      /\ pc'[r] = IF r = Primary THEN "gatherSync" ELSE "outcome"
      /\ posted'["gatherSync"][r] = [step |-> step[r], failed |-> FALSE, state |-> captured[r]]
      /\ \A c \in Collective, q \in Ranks :
           c # "gatherSync" \/ q # r => posted'[c][q] = posted[c][q]
      /\ UNCHANGED <<world, source, step, captured, staging>>
  <2>1. TypeOK /\ r \in Ranks
    BY RankFacts DEF IInv
  <2>2. captured[r] \in State
    BY <2>1 DEF TypeOK
  <2> QED BY <2>1, <2>2, PostEffect
    DEF SendRuntime, TypeOK, Collective, jobVars, fileVars
<1>2. /\ Frame /\ Members' = Members /\ Members \subseteq Ranks
      /\ Primary \in Members /\ Primary \in Ranks
      /\ \A q \in Ranks : step[q] \in Nat /\ step'[q] \in Nat
      /\ \A c \in Collective, q \in Ranks :
           posted[c][q].step \in Int /\ posted'[c][q].step \in Int
  BY <1>1, FrameFacts
<1>3. CaptureInv'
  BY <1>1, <1>2
  DEF IInv, Protocol, CaptureInv, Frame, TypeOK, Points, Saving, Writing,
      Collective
<1>4. GatherInv'
  <2>1. captured[r] = step[r]
    BY <1>1 DEF IInv, Protocol, CaptureInv
  <2>2. ASSUME NEW q \in Ranks, posted'["gatherSync"][q].step # None
        PROVE  posted'["gatherSync"][q].state = posted'["gatherSync"][q].step
    <3>1. CASE q = r
      BY <1>1, <2>1, <3>1
    <3>2. CASE q # r
      BY <1>1, <2>2, <3>2 DEF IInv, Protocol, GatherInv, Collective
    <3> QED BY <3>1, <3>2
  <2> QED BY <2>2 DEF GatherInv
<1>5. OrderInv'
  <2>1. /\ posted'["captureSync"][Primary] = posted["captureSync"][Primary]
        /\ step[r] <= posted["captureSync"][Primary].step
    BY <1>1, <1>2 DEF IInv, Protocol, OrderInv, Collective
  <2>2. ASSUME NEW q \in Ranks
        PROVE  posted'["gatherSync"][q].step <= posted["captureSync"][Primary].step
    <3>1. CASE q = r
      BY <1>1, <2>1, <3>1
    <3>2. CASE q # r
      BY <1>1, <3>2 DEF IInv, Protocol, OrderInv, Collective
    <3> QED BY <3>1, <3>2
  <2> QED BY <1>1, <1>2, <2>1, <2>2 DEF IInv, Protocol, OrderInv, Frame, TypeOK
<1>6. OutcomeInv'
  BY <1>1, <1>2
  DEF IInv, Protocol, OutcomeInv, Frame, TypeOK, Points, Saving, Writing,
      Collective
<1>7. WaitingInv'
  BY <1>1, <1>2
  DEF IInv, Protocol, WaitingInv, Frame, TypeOK, Points, Saving, Writing,
      Collective
<1>8. StagingInv'
  <2>1. CASE r = Primary
    BY <1>1, <2>1 DEF IInv, Protocol, StagingInv, Frame, TypeOK, Writing
  <2>2. CASE r # Primary
    <3>1. pc'[Primary] = pc[Primary]
      BY <1>1, <1>2, <2>2 DEF Frame, TypeOK
    <3>2. pc[Primary] \notin Writing
      BY <1>1, <1>2, <2>2
      DEF IInv, Protocol, StagingInv, WaitingInv, OutcomeInv, Saving, Collective
    <3> QED BY <3>1, <3>2 DEF StagingInv, Writing
  <2> QED BY <2>1, <2>2
<1>9. SourceInv'
  BY <1>1, <1>2
  DEF IInv, Protocol, SourceInv, Frame, TypeOK, Points, Saving, Writing,
      Collective
<1> QED
  BY <1>1, <1>3, <1>4, <1>5, <1>6, <1>7, <1>8, <1>9 DEF IInv, Protocol

(* A peer's receipt of the primary's outcome preserves IInv. *)
LEMMA LearnOutcomeKeeps ==
  ASSUME IInv, Next, NEW r \in Members, LearnOutcome(r)
  PROVE  Protocol'
<1>1. /\ pc[r] = "outcome" /\ pc' = [pc EXCEPT ![r] = pc'[r]]
      /\ pc'[r] \in {"failed", "training"}
      /\ posted["outcome"][Primary].step = step[r]
      /\ UNCHANGED <<world, source, step, captured, posted, staging>>
  BY RankFacts DEF LearnOutcome, Contributed, jobVars, fileVars, IInv, TypeOK
<1>2. /\ Frame /\ Members' = Members /\ Members \subseteq Ranks
      /\ Primary \in Members /\ Primary \in Ranks
      /\ \A q \in Ranks : step[q] \in Nat /\ step'[q] \in Nat
      /\ \A c \in Collective, q \in Ranks :
           posted[c][q].step \in Int /\ posted'[c][q].step \in Int
  BY <1>1, FrameFacts
<1>3. CaptureInv'
  BY <1>1, <1>2
  DEF IInv, Protocol, CaptureInv, Frame, TypeOK, Points, Saving, Writing,
      Collective
<1>4. GatherInv'
  BY <1>1, <1>2
  DEF IInv, Protocol, GatherInv, Frame, TypeOK, Points, Saving, Writing,
      Collective
<1>5. OrderInv'
  BY <1>1, <1>2
  DEF IInv, Protocol, OrderInv, Frame, TypeOK, Points, Saving, Writing,
      Collective
<1>6. OutcomeInv'
  BY <1>1, <1>2
  DEF IInv, Protocol, OutcomeInv, Frame, TypeOK, Points, Saving, Writing,
      Collective
<1>7. WaitingInv'
  BY <1>1, <1>2
  DEF IInv, Protocol, WaitingInv, Frame, TypeOK, Points, Saving, Writing,
      Collective
<1>8. StagingInv'
  BY <1>1, <1>2
  DEF IInv, Protocol, StagingInv, Frame, TypeOK, Points, Saving, Writing,
      Collective
<1>9. SourceInv'
  BY <1>1, <1>2
  DEF IInv, Protocol, SourceInv, Frame, TypeOK, Points, Saving, Writing,
      Collective
<1> QED
  BY <1>1, <1>3, <1>4, <1>5, <1>6, <1>7, <1>8, <1>9 DEF IInv, Protocol

(* The primary's own steps up to the rename.                                *)
LEMMA PrimaryWritesKeep ==
  ASSUME IInv, Next,
         \/ ReceiveRuntimes \/ PrepareStaging \/ WriteModel \/ WriteOptimizer
         \/ WriteRuntime \/ WriteManifest \/ Publish
  PROVE  Protocol'
<1>1. /\ pc[Primary] \in Saving /\ pc'[Primary] \in Saving
      /\ pc[Primary] \notin {"capture", "captureSync", "adapter", "adapterSync", "gather"}
      /\ pc'[Primary] \notin {"capture", "captureSync", "adapter", "adapterSync", "gather"}
      /\ pc' = [pc EXCEPT ![Primary] = pc'[Primary]]
      /\ UNCHANGED <<world, source, step, captured, posted>>
  BY RankFacts
  DEF IInv, TypeOK, ReceiveRuntimes, PrepareStaging, WriteModel, WriteOptimizer,
      WriteRuntime, WriteManifest, Publish, jobVars, fileVars, Saving, Writing, Collective
<1>2. /\ Frame /\ Members' = Members /\ Members \subseteq Ranks
      /\ Primary \in Members /\ Primary \in Ranks
      /\ \A q \in Ranks : step[q] \in Nat /\ step'[q] \in Nat
      /\ \A c \in Collective, q \in Ranks : posted[c][q].step \in Int
  BY <1>1, FrameFacts
<1>3. CaptureInv' /\ GatherInv' /\ SourceInv'
  BY <1>1, <1>2
  DEF IInv, Protocol, CaptureInv, GatherInv, SourceInv, Frame, TypeOK, Saving, Writing,
      Collective
<1>4. OrderInv' /\ OutcomeInv'
  BY <1>1, <1>2
  DEF IInv, Protocol, OrderInv, OutcomeInv, Frame, TypeOK, Saving, Writing, Collective
<1>5. WaitingInv'
  BY <1>1, <1>2 DEF IInv, Protocol, WaitingInv, Frame, TypeOK
<1>6. StagingInv'
  <2>1. CASE ReceiveRuntimes
    BY <1>1, <1>2, <2>1
    DEF ReceiveRuntimes, Contributed, StagingInv, IInv, Protocol, Frame, TypeOK, Writing
  <2>2. CASE PrepareStaging
    BY <1>1, <1>2, <2>2
    DEF PrepareStaging, EmptyDirectory, StagingInv, IInv, Protocol, Frame, TypeOK, Writing
  <2>3. CASE WriteModel
    BY <1>1, <1>2, <2>3
    DEF WriteModel, Directory, StagingInv, IInv, Protocol, Frame, TypeOK, Writing
  <2>4. CASE WriteOptimizer
    BY <1>1, <1>2, <2>4
    DEF WriteOptimizer, Directory, StagingInv, IInv, Protocol, Frame, TypeOK, Writing
  <2>5. CASE WriteRuntime
    <3>1. RankStates = [world |-> world,
            states |-> [r \in Ranks |-> IF r < world THEN step[Primary] ELSE None]]
      <4>1. \A r \in Members : posted["gatherSync"][r].state = step[Primary]
        BY <1>2, <2>5
        DEF WriteRuntime, StagingInv, GatherInv, IInv, Protocol, Writing, None
      <4>2. \A r \in Ranks : r \in Members <=> r < world
        BY RankFacts DEF IInv
      <4> QED BY <4>1, <4>2 DEF RankStates
    <3>2. /\ pc[Primary] = "runtime" /\ pc'[Primary] = "manifest"
          /\ staging' = [staging EXCEPT !.files = @ \cup {"runtime"}, !.runtime = RankStates]
      BY <1>2, <2>5 DEF WriteRuntime, Frame, TypeOK
    <3>3. /\ staging'.files = staging.files \cup {"runtime"}
          /\ staging'.runtime = RankStates
          /\ staging'.damaged = staging.damaged
          /\ staging'.model = staging.model /\ staging'.optimizer = staging.optimizer
      BY <1>2, <3>2 DEF Frame, TypeOK, Directory
    <3>4. /\ \A r \in Members' : posted'["gatherSync"][r].step = step'[Primary]
          /\ staging.files = {"model", "optimizer"} /\ staging.damaged = {}
          /\ staging.model = step[Primary] /\ staging.optimizer = step[Primary]
      BY <1>1, <1>2, <3>2 DEF StagingInv, IInv, Protocol, Writing
    <3>5. staging'.runtime = [world |-> world',
            states |-> [r \in Ranks |-> IF r < world' THEN step'[Primary] ELSE None]]
      BY <1>1, <3>1, <3>3
    <3> QED BY <1>1, <3>2, <3>3, <3>4, <3>5 DEF StagingInv
  <2>6. CASE WriteManifest
    BY <1>1, <1>2, <2>6
    DEF WriteManifest, Directory, Files, Snapshot, StagingInv, IInv, Protocol, Frame,
        TypeOK, Writing
  <2>7. CASE Publish
    BY <1>1, <1>2, <2>7
    DEF Publish, StagingInv, Frame, TypeOK, Writing
  <2> QED BY <2>1, <2>2, <2>3, <2>4, <2>5, <2>6, <2>7
<1> QED
  BY <1>1, <1>3, <1>4, <1>5, <1>6 DEF IInv, Protocol

(* The end of a save, by success or by an exception of the primary.         *)
LEMMA OutcomeKeeps ==
  ASSUME IInv, Next, RefuseOverwrite \/ WriteRaises \/ AnnounceSuccess
  PROVE  Protocol'
<1>1. /\ pc[Primary] \in Saving
      /\ pc' = [pc EXCEPT ![Primary] = pc'[Primary]]
      /\ pc'[Primary] \in {"failed", "training"}
      /\ posted'["outcome"][Primary].step = step[Primary]
      /\ \A c \in Collective, q \in Ranks :
           c # "outcome" \/ q # Primary => posted'[c][q] = posted[c][q]
      /\ UNCHANGED <<world, source, step, captured>>
  <2>1. TypeOK /\ Primary \in Ranks /\ None \in State
    BY RankFacts DEF IInv
  <2>2. PICK failed \in BOOLEAN : Post(Primary, "outcome", failed, None)
    BY DEF RefuseOverwrite, WriteRaises, AnnounceSuccess, AbandonSave
  <2>3. "outcome" \in Collective
    BY DEF Collective
  <2>4. /\ posted'["outcome"][Primary] =
             [step |-> step[Primary], failed |-> failed, state |-> None]
        /\ \A c \in Collective, q \in Ranks :
             c # "outcome" \/ q # Primary => posted'[c][q] = posted[c][q]
    BY <2>1, <2>2, <2>3, PostEffect
  <2>5. /\ pc[Primary] \in Saving
        /\ pc' = [pc EXCEPT ![Primary] = "failed"] \/ pc' = [pc EXCEPT ![Primary] = "training"]
        /\ UNCHANGED <<world, source, step, captured>>
    BY DEF RefuseOverwrite, WriteRaises, AnnounceSuccess, AbandonSave, jobVars, Saving, Writing
  <2> QED BY <2>1, <2>4, <2>5 DEF TypeOK
<1>2. /\ Frame /\ Members' = Members /\ Members \subseteq Ranks
      /\ Primary \in Members /\ Primary \in Ranks
      /\ \A q \in Ranks : step[q] \in Nat /\ step'[q] \in Nat
      /\ \A c \in Collective, q \in Ranks : posted[c][q].step \in Int
  BY <1>1, FrameFacts
<1>3. CaptureInv' /\ GatherInv' /\ SourceInv'
  BY <1>1, <1>2
  DEF IInv, Protocol, CaptureInv, GatherInv, SourceInv, Frame, TypeOK, Collective
<1>4. OrderInv'
  BY <1>1, <1>2 DEF IInv, Protocol, OrderInv, Frame, TypeOK, Collective
<1>5. OutcomeInv' /\ WaitingInv'
  BY <1>1, <1>2 DEF OutcomeInv, WaitingInv, Frame, TypeOK, Saving, Writing, Collective
<1>6. StagingInv'
  BY <1>1, <1>2 DEF StagingInv, Frame, TypeOK, Writing
<1> QED
  BY <1>1, <1>3, <1>4, <1>5, <1>6 DEF IInv, Protocol

(* Loading, and every way in which a process stops.                         *)
LEMMA LoadKeeps ==
  ASSUME IInv, Next, NEW r \in Members, Load(r)
  PROVE  Protocol'
<1>1. /\ pc[r] = "loading" /\ pc' = [pc EXCEPT ![r] = "resumed"]
      /\ step' = [step EXCEPT ![r] = source] /\ source \in Steps
      /\ UNCHANGED <<world, source, captured, posted, staging>>
  <2>1. TypeOK /\ r \in Ranks
    BY RankFacts DEF IInv
  <2> QED BY <2>1, AcceptedStep DEF Load, jobVars, fileVars
<1>2. /\ Frame /\ Members' = Members /\ Members \subseteq Ranks
      /\ Primary \in Members /\ Primary \in Ranks
      /\ \A q \in Ranks : step[q] \in Nat /\ step'[q] \in Nat
      /\ \A c \in Collective, q \in Ranks : posted[c][q].step \in Int
  BY <1>1, FrameFacts
<1>3. CaptureInv' /\ GatherInv' /\ SourceInv'
  BY <1>1, <1>2
  DEF IInv, Protocol, CaptureInv, GatherInv, SourceInv, Frame, TypeOK, Collective
<1>4. OrderInv'
  BY <1>1, <1>2 DEF IInv, Protocol, OrderInv, Frame, TypeOK, Collective, None
<1>5. OutcomeInv'
  BY <1>1, <1>2
  DEF IInv, Protocol, OutcomeInv, Frame, TypeOK, Collective, Saving, Writing, None
<1>6. WaitingInv'
  BY <1>1, <1>2 DEF IInv, Protocol, WaitingInv, OrderInv, Frame, TypeOK, Collective, None
<1>7. StagingInv'
  BY <1>1, <1>2 DEF IInv, Protocol, StagingInv, Frame, TypeOK, Writing
<1> QED
  BY <1>1, <1>3, <1>4, <1>5, <1>6, <1>7 DEF IInv, Protocol

(* Steps that only move one rank's control point to a stop, or past the     *)
(* restored stream.                                                         *)
LEMMA StopKeeps ==
  ASSUME IInv, Next, NEW r \in Members,
         \/ LoadRejects(r) \/ LoadRaises(r) \/ RestoreStream(r)
         \/ PeerLost(r) \/ Kill(r)
  PROVE  Protocol'
<1>1. /\ pc' = [pc EXCEPT ![r] = pc'[r]]
      /\ pc'[r] \in {"failed", "down"} \/ (pc[r] = "resumed" /\ pc'[r] = "training")
      /\ UNCHANGED <<world, source, step, captured, posted, staging>>
  <2>1. TypeOK /\ r \in Ranks
    BY RankFacts DEF IInv
  <2>2. CASE LoadRejects(r) \/ LoadRaises(r) \/ PeerLost(r)
    BY <2>1, <2>2 DEF LoadRejects, LoadRaises, PeerLost, TypeOK, jobVars, fileVars
  <2>3. CASE RestoreStream(r) \/ Kill(r)
    BY <2>1, <2>3 DEF RestoreStream, Kill, TypeOK, fileVars
  <2> QED BY <2>2, <2>3
<1>2. /\ Frame /\ Members' = Members /\ Members \subseteq Ranks
      /\ Primary \in Members /\ Primary \in Ranks
      /\ \A q \in Ranks : step[q] \in Nat /\ step'[q] \in Nat
      /\ \A c \in Collective, q \in Ranks : posted[c][q].step \in Int
  BY <1>1, FrameFacts
<1>3. CaptureInv' /\ GatherInv' /\ SourceInv'
  BY <1>1, <1>2 DEF IInv, Protocol, CaptureInv, GatherInv, SourceInv, Frame, TypeOK
<1>4. OrderInv' /\ OutcomeInv'
  BY <1>1, <1>2
  DEF IInv, Protocol, OrderInv, OutcomeInv, Frame, TypeOK, Saving, Writing, Collective
<1>5. WaitingInv'
  BY <1>1, <1>2 DEF IInv, Protocol, WaitingInv, Frame, TypeOK
<1>6. StagingInv'
  BY <1>1, <1>2 DEF IInv, Protocol, StagingInv, Frame, TypeOK, Writing
<1> QED
  BY <1>1, <1>3, <1>4, <1>5, <1>6 DEF IInv, Protocol

(* A restarted job starts with nothing contributed and stages nothing yet.  *)
LEMMA RestartKeeps ==
  ASSUME IInv, Next, NEW w \in Worlds, NEW s \in State, Restart(w, s)
  PROVE  Protocol'
<1>1. TypeOK /\ TypeOK'
  BY TypeStep DEF IInv
<1>2. /\ world' \in Worlds
      /\ \A r \in Ranks : /\ pc'[r] \in {"down", "training", "loading"}
                          /\ pc'[r] = "loading" => s # None
                          /\ step'[r] = 0
                          /\ \A c \in Collective : posted'[c][r] = NotPosted
      /\ source' = s
  BY DEF Restart, NothingPosted
<1>3. Primary \in Ranks
  BY <1>1, RankFacts
<1>4. CaptureInv' /\ GatherInv'
  BY <1>2 DEF CaptureInv, GatherInv, NotPosted, Collective
<1>5. OrderInv' /\ OutcomeInv'
  BY <1>2, <1>3 DEF OrderInv, OutcomeInv, NotPosted, Collective, Saving, Writing, None
<1>6. WaitingInv' /\ StagingInv'
  <2>1. Members' \subseteq Ranks
    <3>1. world' \in 1..MaxWorld
      BY <1>1 DEF TypeOK
    <3>2. \A n \in 1..MaxWorld : 0..n-1 \subseteq 0..MaxWorld-1
      BY ConstantsAssumption
    <3> QED BY <3>1, <3>2 DEF Members, Ranks
  <2> QED BY <1>2, <1>3, <2>1 DEF WaitingInv, StagingInv, NotPosted, Collective, Writing, None
<1>7. SourceInv'
  BY <1>2 DEF SourceInv, State
<1> QED
  BY <1>2, <1>4, <1>5, <1>6, <1>7 DEF Protocol

(* Damage to a published file from outside preserves IInv: the files and
   the digests stay recorded. *)
LEMMA DamageKeeps ==
  ASSUME IInv, Next, NEW s \in Steps, NEW f \in Files, Damage(s, f)
  PROVE  Protocol'
<1>1. UNCHANGED <<world, pc, step, captured, posted, staging, source>>
  BY DEF Damage, jobVars, rankVars
<1> QED
  BY <1>1
  DEF IInv, Protocol, Members, CaptureInv, GatherInv, OrderInv, OutcomeInv, WaitingInv,
      StagingInv, SourceInv, Snapshot

-----------------------------------------------------------------------------
(* Publication.  A directory appears under a step's name only by the rename *)
(* of a complete staging directory; nothing but damage touches it later.    *)
LEMMA PublishedKeeps ==
  ASSUME IInv, Next
  PROVE  PublishedIsSnapshot'
<1>1. CASE Publish
  <2>1. Snapshot(staging, step[Primary], world) /\ world \in Worlds
    BY <1>1 DEF Publish, IInv, Protocol, StagingInv
  <2>2. TypeOK /\ Primary \in Ranks
    BY RankFacts DEF IInv
  <2>3. disk' = [disk EXCEPT ![step[Primary]] = staging] /\ step[Primary] \in Steps
    BY <1>1, <2>2 DEF Publish, TypeOK
  <2>4. ASSUME NEW s \in Steps, disk'[s] # EmptyDirectory
        PROVE  \E w \in Worlds : Snapshot(disk'[s], s, w)
    <3>1. CASE s = step[Primary]
      BY <2>1, <2>2, <2>3, <3>1 DEF TypeOK
    <3>2. CASE s # step[Primary]
      BY <2>2, <2>3, <2>4, <3>2 DEF TypeOK, IInv, PublishedIsSnapshot, Published, Exists
    <3> QED BY <3>1, <3>2
  <2> QED BY <2>4 DEF PublishedIsSnapshot, Published, Exists, Snapshot
<1>2. ASSUME NEW t \in Steps, NEW f \in Files, Damage(t, f)
      PROVE  PublishedIsSnapshot'
  <2>1. TypeOK /\ disk' = [disk EXCEPT ![t] = [disk[t] EXCEPT !.damaged = @ \cup {f}]]
    BY <1>2 DEF Damage, IInv
  <2>2. disk[t] # EmptyDirectory
    BY <1>2 DEF Damage, Exists
  <2>3. ASSUME NEW s \in Steps, disk'[s] # EmptyDirectory
        PROVE  \E w \in Worlds : Snapshot(disk'[s], s, w)
    <3>1. PICK w \in Worlds : Snapshot(disk[s], s, w)
      BY <2>1, <2>2, <2>3 DEF TypeOK, IInv, PublishedIsSnapshot, Published, Exists
    <3>2. /\ disk'[s].files = disk[s].files /\ disk'[s].model = disk[s].model
          /\ disk'[s].optimizer = disk[s].optimizer /\ disk'[s].runtime = disk[s].runtime
          /\ disk'[s].manifest = disk[s].manifest
      BY <2>1 DEF TypeOK, Directory
    <3> QED BY <3>1, <3>2 DEF Snapshot
  <2> QED BY <2>3 DEF PublishedIsSnapshot, Published, Exists, Snapshot
<1>3. CASE disk' = disk
  BY <1>3 DEF IInv, PublishedIsSnapshot, Published, Exists, Snapshot
<1>4. \/ Publish \/ disk' = disk
      \/ \E s \in Steps, f \in Files : Damage(s, f)
  BY DEF Next, RankStep, PrimaryStep, FaultStep, OptimizerStep, CaptureRuntime,
         CaptureRuntimeRaises, CaptureAdapter, CaptureAdapterRaises,
         PropagateRankFailure, SendRuntime, LearnOutcome, Load, LoadRejects, LoadRaises,
         RestoreStream, ReceiveRuntimes, RefuseOverwrite, PrepareStaging, WriteModel,
         WriteOptimizer, WriteRuntime, WriteManifest, AnnounceSuccess, WriteRaises,
         Kill, PeerLost, Restart, fileVars
<1> QED
  BY <1>1, <1>2, <1>3, <1>4

-----------------------------------------------------------------------------
(* The initial states satisfy IInv. *)
LEMMA InitEstablishes == Init => IInv
<1> SUFFICES ASSUME Init PROVE IInv
  OBVIOUS
<1>1. TypeOK
  <2>1. world \in 1..MaxWorld /\ faults \in 0..MaxFaults
    BY ConstantsAssumption DEF Init
  <2>2. /\ step \in [Ranks -> Steps] /\ captured \in [Ranks -> State]
        /\ source \in State
    BY ConstantsAssumption DEF Init, Steps, State
  <2>3. pc \in [Ranks -> Points] /\ killed \in BOOLEAN
    BY DEF Init, Points
  <2>5. live \in [Ranks -> BOOLEAN]
    BY <2>1 DEF Init, Ranks
  <2>4. /\ posted \in [Collective -> [Ranks -> Contribution]]
        /\ staging \in Directory /\ disk \in [Steps -> Directory]
    BY EmptyTypes DEF Init
  <2> QED BY <2>1, <2>2, <2>3, <2>4, <2>5 DEF TypeOK
<1>2. Protocol
  <2>1. Primary \in Ranks /\ Members \subseteq Ranks
    BY <1>1, RankFacts
  <2>2. /\ \A r \in Ranks : /\ pc[r] \in {"down", "training"}
                            /\ step[r] = 0
                            /\ \A c \in Collective : posted[c][r] = NotPosted
        /\ world \in Worlds
    BY DEF Init, NothingPosted
  <2>3. CaptureInv /\ GatherInv /\ SourceInv
    BY <2>2 DEF CaptureInv, GatherInv, SourceInv, NotPosted, Collective
  <2>4. OrderInv /\ OutcomeInv
    BY <2>1, <2>2 DEF OrderInv, OutcomeInv, NotPosted, Collective, Saving, Writing, None
  <2>5. WaitingInv /\ StagingInv
    BY <2>1, <2>2 DEF WaitingInv, StagingInv, NotPosted, Collective, Writing, None
  <2> QED BY <2>2, <2>3, <2>4, <2>5 DEF Protocol
<1>3. PublishedIsSnapshot
  BY DEF Init, PublishedIsSnapshot, Published, Exists
<1> QED
  BY <1>1, <1>2, <1>3 DEF IInv

(* Every step preserves IInv. *)
LEMMA NextPreserves == IInv /\ [Next]_vars => IInv'
<1> SUFFICES ASSUME IInv, [Next]_vars PROVE IInv'
  OBVIOUS
<1>1. CASE Next
  <2>1. Protocol'
    BY <1>1, OptimizerStepKeeps, CaptureRuntimeKeeps, CaptureAdapterKeeps, PropagateKeeps,
       SendRuntimeKeeps, LearnOutcomeKeeps, PrimaryWritesKeep, OutcomeKeeps, LoadKeeps,
       StopKeeps, RestartKeeps, DamageKeeps
    DEF Next, RankStep, PrimaryStep, FaultStep
  <2> QED BY <1>1, <2>1, TypeStep, PublishedKeeps DEF IInv
<1>2. CASE UNCHANGED vars
  BY <1>2
  DEF vars, jobVars, rankVars, fileVars, IInv, TypeOK, Protocol, Members, CaptureInv,
      GatherInv, OrderInv, OutcomeInv, WaitingInv, StagingInv, SourceInv, Snapshot,
      PublishedIsSnapshot, Published, Exists
<1> QED
  BY <1>1, <1>2

(* In every behaviour of the save protocol and its environment the inductive *)
(* invariant holds.                                                         *)
THEOREM Invariance == Spec => []IInv
<1>1. Init => IInv
  BY InitEstablishes
<1>2. IInv /\ [Next]_vars => IInv'
  BY NextPreserves
<1> QED
  BY <1>1, <1>2, PTL DEF Spec

(* Every variable keeps its type.                                           *)
THEOREM TypeCorrect == Spec => []TypeOK
<1>1. IInv => TypeOK
  BY DEF IInv
<1> QED
  BY <1>1, Invariance, PTL

(* manager.save publishes only whole checkpoints, consistent over all ranks *)
(* and with their manifest, whatever fails, is killed or is restarted.      *)
THEOREM PublishedIntegrity == Spec => []PublishedIsSnapshot
<1>1. IInv => PublishedIsSnapshot
  BY DEF IInv
<1> QED
  BY <1>1, Invariance, PTL

(* manager.save never replaces, removes or changes a published checkpoint:  *)
(* it refuses a name that exists, and writes only to its staging directory. *)
THEOREM PublishedIsImmutable == Spec => NeverOverwritten
<1> DEFINE Kept == \A s \in Steps :
             disk[s] # EmptyDirectory
               => [disk'[s] EXCEPT !.damaged = {}] = [disk[s] EXCEPT !.damaged = {}]
<1>1. TypeOK /\ [Next]_vars => [Kept]_vars
  <2> SUFFICES ASSUME TypeOK, Next PROVE Kept
    BY DEF vars
  <2>1. CASE Publish
    <3>1. /\ disk' = [disk EXCEPT ![step[Primary]] = staging]
          /\ disk[step[Primary]] = EmptyDirectory
      BY <2>1 DEF Publish, Exists
    <3> QED
      BY <3>1 DEF TypeOK
  <2>2. CASE \E s \in Steps, f \in Files : Damage(s, f)
    <3>1. PICK t \in Steps, f \in Files :
            disk' = [disk EXCEPT ![t].damaged = @ \cup {f}]
      BY <2>2 DEF Damage
    <3> SUFFICES ASSUME NEW s \in Steps
                 PROVE  [disk'[s] EXCEPT !.damaged = {}] = [disk[s] EXCEPT !.damaged = {}]
      OBVIOUS
    <3>2. disk \in [Steps -> Directory] /\ disk[s] \in Directory
      BY DEF TypeOK
    <3>3. CASE s = t
      <4>1. disk'[s] = [disk[s] EXCEPT !.damaged = @ \cup {f}]
        BY <3>1, <3>2, <3>3
      <4> QED
        BY <3>2, <4>1 DEF Directory
    <3>4. CASE s # t
      BY <3>1, <3>2, <3>4
    <3> QED
      BY <3>3, <3>4
  <2>3. CASE UNCHANGED disk
    BY <2>3
  <2>4. Publish \/ (\E s \in Steps, f \in Files : Damage(s, f)) \/ UNCHANGED disk
    BY DEF Next, RankStep, PrimaryStep, FaultStep, OptimizerStep, CaptureRuntime,
           CaptureRuntimeRaises, CaptureAdapter, CaptureAdapterRaises,
           PropagateRankFailure, SendRuntime, ReceiveRuntimes, RefuseOverwrite,
           WriteRaises, PrepareStaging, WriteModel, WriteOptimizer, WriteRuntime,
           WriteManifest, AnnounceSuccess, LearnOutcome, Load, LoadRejects,
           LoadRaises, RestoreStream, Kill, PeerLost, Restart, fileVars
  <2> QED
    BY <2>1, <2>2, <2>3, <2>4
<1>2. [Kept]_vars => [\A s \in Steps :
             disk[s] # EmptyDirectory
               => [disk'[s] EXCEPT !.damaged = {}] = [disk[s] EXCEPT !.damaged = {}]]_vars
  OBVIOUS
<1> HIDE DEF Kept
<1> QED
  BY <1>1, <1>2, TypeCorrect, PTL DEF Spec, NeverOverwritten

-----------------------------------------------------------------------------
(* What the ranks of a job know of one another during a save: they agree on *)
(* the outcome, no failure strands a peer, a save that returns is published, *)
(* a resumed rank continues a coherent state; and the whole implements      *)
(* CheckpointStore.                                                         *)

(* The collectives by which all ranks learn of a failure of any of them.    *)
Agreements == {c \in {"captureSync", "adapterSync"} : c = "adapterSync" => HasAdapter}

(* The control points of a save behind an agreement.                        *)
BehindCapture == {"gather", "gatherSync", "outcome", "announce"} \cup Writing
Behind(c)     == BehindCapture \cup (IF c = "captureSync" THEN {"adapter", "adapterSync"} ELSE {})

(* The rank has taken an optimizer step in this incarnation of the job.     *)
Started(r) == live[r] /\ source < step[r] /\ 0 < step[r]

(* A rank is live from the moment it trains, at the step it resumed from or *)
(* a later one.                                                             *)
LiveInv ==
  \A r \in Ranks :
    /\ pc[r] \in {"training"} \cup Saving => live[r]
    /\ pc[r] \in {"loading", "resumed"} => ~live[r]
    /\ pc[r] \in {"loading", "resumed"} => source \in Steps
    /\ pc[r] = "resumed" => step[r] = source
    /\ live[r] => source <= step[r]
    /\ ~live[r] => step[r] \in {0, source}
    /\ pc[r] \in Saving => SaveDue(step[r]) /\ source < step[r] /\ 0 < step[r]
    /\ pc[r] \in {"adapter", "adapterSync"} => HasAdapter
    /\ pc[r] # "down" => r \in Members

(* Once a rank has taken a step, all members take steps, and the slowest is *)
(* at most one behind, where it has not left the training loop.             *)
PaceInv ==
  \A q, r \in Members :
    Started(q) =>
      /\ live[r]
      /\ step[q] <= step[r] + 1
      /\ step[q] = step[r] + 1 => pc[r] \in {"training", "failed", "down"}

(* A rank contributes to the collectives of a save in their order, and only *)
(* to those of the saves of this incarnation.                               *)
PostInv ==
  \A r \in Ranks :
    /\ \A c \in Collective :
         /\ posted[c][r].step <= step[r]
         /\ posted[c][r].step # None => source < posted[c][r].step /\ 0 < posted[c][r].step
    /\ pc[r] = "capture" => posted["captureSync"][r].step < step[r]
    /\ pc[r] \in {"capture", "captureSync", "adapter"} =>
         posted["adapterSync"][r].step < step[r]
    /\ pc[r] \in {"capture", "captureSync", "adapter", "adapterSync", "gather"} =>
         posted["gatherSync"][r].step < step[r]

(* The primary writes and announces only what all members have sent.        *)
SentInv ==
  \A r \in Members :
    /\ pc[Primary] \in Writing \cup {"announce"} =>
         posted["gatherSync"][r].step = step[Primary]
    /\ posted["outcome"][Primary].step <= posted["gatherSync"][r].step

(* The rank has come out of an agreement of the save at its step.           *)
Passed(r, c) ==
  \/ pc[r] \in Behind(c)
  \/ pc[r] = "training" /\ Started(r) /\ SaveDue(step[r])

(* No rank comes out of an agreement unless every member has contributed to *)
(* it, none of them a failure.                                              *)
PassInv ==
  \A c \in Agreements : \A q, r \in Members :
    Passed(r, c) =>
      /\ step[r] <= posted[c][q].step
      /\ posted[c][q].step = step[r] => ~posted[c][q].failed

(* The save at step s has failed, in a way that all ranks learn.            *)
BrokenAt(c, s) ==
  /\ \A m \in Members : posted[c][m].step = s
  /\ \E m \in Members : posted[c][m].failed

Abandoned(s) ==
  /\ \A m \in Members : posted["gatherSync"][m].step = s
  /\ posted["outcome"][Primary].step = s /\ posted["outcome"][Primary].failed

Broken(s) == Abandoned(s) \/ \E c \in Agreements : BrokenAt(c, s)

(* A failed save holds every rank at its step.                              *)
BrokenInv ==
  \A s \in Steps :
    Broken(s) => \A r \in Members : step[r] = s /\ pc[r] # "training"

(* While no process is killed, a rank only fails because a rank could not   *)
(* resume, or because of a failed save.                                     *)
FailInv ==
  ~killed =>
    /\ \A r \in Members : pc[r] # "down"
    /\ (\E r \in Members : pc[r] = "failed") =>
         \/ \E h \in Members : pc[h] = "failed" /\ ~live[h]
         \/ \E s \in Steps : Broken(s)

(* The success of a save is announced after the rename.                     *)
AnnounceInv ==
  /\ pc[Primary] = "announce" => Exists(step[Primary])
  /\ posted["outcome"][Primary].step # None /\ ~posted["outcome"][Primary].failed =>
       Exists(posted["outcome"][Primary].step)

(* What a rank has loaded is still intact while it waits for its first      *)
(* batch.                                                                   *)
ResumeInv ==
  \A r \in Members :
    pc[r] = "resumed" =>
      /\ Exists(source)
      /\ step[r] < MaxSteps => disk[source].damaged = {}

Agreement ==
  /\ LiveInv /\ PaceInv /\ PostInv /\ SentInv /\ PassInv /\ BrokenInv /\ FailInv
  /\ AnnounceInv /\ ReturnedSaveIsPublished /\ ResumeInv

AInv == IInv /\ Agreement

-----------------------------------------------------------------------------
(* A contribution carries its step and its outcome.                         *)
LEMMA PostedStep ==
  ASSUME TypeOK, NEW r \in Ranks, NEW c \in Collective, NEW failed \in BOOLEAN,
         NEW state \in State, Post(r, c, failed, state)
  PROVE  /\ posted'[c][r].step = step[r] /\ posted'[c][r].failed = failed
         /\ \A d \in Collective, q \in Ranks :
              d # c \/ q # r => posted'[d][q] = posted[d][q]
<1>1. /\ posted'[c][r] = [step |-> step[r], failed |-> failed, state |-> state]
      /\ \A d \in Collective, q \in Ranks :
           d # c \/ q # r => posted'[d][q] = posted[d][q]
  BY PostEffect
<1> QED BY <1>1

(* A failed save is one of this incarnation, and every member is at it.     *)
LEMMA BrokenFacts ==
  ASSUME AInv, NEW s \in Steps, Broken(s), NEW r \in Members
  PROVE  Started(r) /\ step[r] = s /\ pc[r] # "training"
<1>1. /\ r \in Ranks /\ s # None /\ step[r] \in Nat /\ source \in Int
      /\ live[r] \in BOOLEAN
  BY RankFacts DEF AInv, IInv, TypeOK, Steps, State, None
<1>2. step[r] = s /\ pc[r] # "training"
  BY DEF AInv, Agreement, BrokenInv
<1>3. source < s /\ 0 < s
  <2>1. \E c \in Collective : posted[c][r].step = s
    BY DEF Broken, BrokenAt, Abandoned, Agreements, Collective
  <2> QED BY <1>1, <2>1 DEF AInv, Agreement, PostInv
<1>4. live[r]
  BY <1>1, <1>2, <1>3 DEF AInv, Agreement, LiveInv
<1> QED
  BY <1>2, <1>3, <1>4 DEF Started

(* A rank in a save has started, so that all members have.                  *)
LEMMA SavingFacts ==
  ASSUME AInv, NEW r \in Members, pc[r] \in Saving
  PROVE  /\ Started(r) /\ SaveDue(step[r])
         /\ \A q \in Members :
              /\ live[q] /\ step[q] <= step[r] /\ step[r] <= step[q] + 1
              /\ step[r] <= step[q] => Started(q)
<1>1. /\ Members \subseteq Ranks /\ source \in Int
      /\ \A q \in Ranks : step[q] \in Nat
  BY RankFacts DEF AInv, IInv, TypeOK, Steps, State, None
<1>2. Started(r) /\ SaveDue(step[r])
  BY <1>1 DEF AInv, Agreement, LiveInv, Started
<1>3. ASSUME NEW q \in Members
      PROVE  /\ live[q] /\ step[q] <= step[r] /\ step[r] <= step[q] + 1
             /\ step[r] <= step[q] => Started(q)
  <2>1. live[q] /\ step[r] <= step[q] + 1
    BY <1>2 DEF AInv, Agreement, PaceInv
  <2>2. step[r] <= step[q] => Started(q)
    BY <1>1, <1>2, <2>1 DEF Started
  <2>3. step[r] < step[q] => /\ step[q] <= step[r] + 1
                             /\ step[q] = step[r] + 1 => pc[r] \in {"training", "failed", "down"}
    BY <1>1, <2>2 DEF AInv, Agreement, PaceInv
  <2>4. step[q] <= step[r]
    BY <1>1, <2>3 DEF Saving, Writing, Collective
  <2> QED BY <2>1, <2>2, <2>4
<1> QED
  BY <1>2, <1>3

-----------------------------------------------------------------------------
(* Every step preserves the agreement, action by action.                    *)

(* A completed optimizer step: every rank has entered it, so all have       *)
(* started, and none is left behind in a failed save.                       *)
LEMMA OptimizerStepAgrees ==
  ASSUME AInv, Next, NEW r \in Members, OptimizerStep(r)
  PROVE  Agreement'
<1>1. /\ pc[r] = "training" /\ pc' = [pc EXCEPT ![r] = pc'[r]]
      /\ pc'[r] = IF SaveDue(step[r] + 1) THEN "capture" ELSE "training"
      /\ step' = [step EXCEPT ![r] = step[r] + 1]
      /\ \A q \in Members : (pc[q] = "training" /\ step[q] = step[r]) \/ step[q] = step[r] + 1
      /\ UNCHANGED <<world, source, live, killed, posted, disk>>
  BY RankFacts DEF OptimizerStep, Entered, jobVars, fileVars, AInv, IInv, TypeOK
<1>2. /\ Frame /\ Members' = Members /\ Members \subseteq Ranks
      /\ Primary \in Members /\ Primary \in Ranks
      /\ \A q \in Ranks : step[q] \in Nat /\ step'[q] \in Nat
      /\ \A c \in Collective, q \in Ranks :
           posted[c][q].step \in Int /\ posted'[c][q].step \in Int
      /\ source \in Int
  BY <1>1, FrameFacts DEF AInv, Frame, TypeOK, State, Steps, None
<1>3. /\ step'[r] = step[r] + 1
      /\ \A q \in Ranks : q # r => step'[q] = step[q] /\ pc'[q] = pc[q]
  BY <1>1, <1>2 DEF Frame, TypeOK
<1>4. LiveInv'
  BY <1>1, <1>2, <1>3 DEF AInv, Agreement, LiveInv, Saving, Writing, Collective
<1>5. PaceInv'
  <2>1. live[r] /\ source <= step[r]
    BY <1>1, <1>2 DEF AInv, Agreement, LiveInv
  <2>2. \A q \in Members : live[q]
    BY <1>1, <1>2, <2>1 DEF AInv, Agreement, LiveInv
  <2>3. ASSUME NEW q \in Members, NEW k \in Members, Started(q)'
        PROVE  /\ step'[q] <= step'[k] + 1
               /\ step'[q] = step'[k] + 1 => pc'[k] \in {"training", "failed", "down"}
    <3>1. CASE q = r
      BY <1>1, <1>2, <1>3, <3>1
    <3>2. CASE q # r
      BY <1>1, <1>2, <1>3, <2>3, <3>2 DEF AInv, Agreement, PaceInv, Started
    <3> QED BY <3>1, <3>2
  <2> QED BY <1>1, <1>2, <2>2, <2>3 DEF PaceInv
<1>6. PostInv' /\ SentInv'
  BY <1>1, <1>2, <1>3
  DEF AInv, Agreement, PostInv, SentInv, Writing, Collective
<1>7. PassInv'
  <2>1. ASSUME NEW c \in Agreements, NEW q \in Members, Passed(q, c)'
        PROVE  Passed(q, c) /\ q # r
    <3>1. q # r
      BY <1>1, <1>2, <1>3, <2>1 DEF Passed, Behind, BehindCapture, Writing
    <3> QED
      BY <1>1, <1>2, <1>3, <2>1, <3>1 DEF Passed, Started
  <2> QED BY <1>1, <1>2, <1>3, <2>1 DEF AInv, Agreement, PassInv
<1>8. \A s \in Steps : ~Broken(s) /\ ~Broken(s)'
  BY <1>1, <1>2, BrokenFacts DEF Broken, BrokenAt, Abandoned
<1>9. BrokenInv' /\ FailInv'
  BY <1>1, <1>2, <1>3, <1>8 DEF AInv, Agreement, BrokenInv, FailInv
<1>10. AnnounceInv' /\ ResumeInv'
  BY <1>1, <1>2, <1>3 DEF AInv, Agreement, AnnounceInv, ResumeInv, Exists
<1>11. ReturnedSaveIsPublished'
  BY <1>1, <1>2, <1>3 DEF AInv, Agreement, ReturnedSaveIsPublished, Exists, Steps
<1> QED
  BY <1>4, <1>5, <1>6, <1>7, <1>9, <1>10, <1>11 DEF Agreement

(* A rank contributes to the collectives before the outcome.  A failure     *)
(* that completes the contributions of all members finds every one of them  *)
(* in this save: none has come out of the agreement it is part of.          *)
LEMMA ContributionAgrees ==
  ASSUME AInv, Next, NEW r \in Members,
         \/ CaptureRuntime(r) \/ CaptureRuntimeRaises(r)
         \/ CaptureAdapter(r) \/ CaptureAdapterRaises(r)
         \/ SendRuntime(r)
  PROVE  Agreement'
<1>1. PICK c \in Collective :
        /\ \/ c = "captureSync" /\ pc[r] = "capture" /\ pc'[r] = c
           \/ c = "adapterSync" /\ pc[r] = "adapter" /\ pc'[r] = c
           \/ c = "gatherSync" /\ pc[r] = "gather" /\ pc'[r] \in {c, "outcome"}
        /\ posted'[c][r].step = step[r]
        /\ \A d \in Collective, q \in Ranks : d # c \/ q # r => posted'[d][q] = posted[d][q]
        /\ \A q \in Ranks : q # r => pc'[q] = pc[q]
        /\ UNCHANGED <<world, source, live, killed, step, disk>>
  <2>1. TypeOK /\ r \in Ranks /\ None \in State
    BY RankFacts DEF AInv, IInv
  <2>2. captured[r] \in State
    BY <2>1 DEF TypeOK
  <2>3. CASE CaptureRuntime(r) \/ CaptureRuntimeRaises(r)
    <3>1. PICK failed \in BOOLEAN : Post(r, "captureSync", failed, None)
      BY <2>3 DEF CaptureRuntime, CaptureRuntimeRaises
    <3>2. "captureSync" \in Collective
      BY DEF Collective
    <3>3. /\ posted'["captureSync"][r].step = step[r]
          /\ \A d \in Collective, q \in Ranks :
               d # "captureSync" \/ q # r => posted'[d][q] = posted[d][q]
      BY <2>1, <3>1, <3>2, PostedStep
    <3> QED BY <2>1, <2>3, <3>2, <3>3
      DEF CaptureRuntime, CaptureRuntimeRaises, TypeOK, jobVars, fileVars
  <2>4. CASE CaptureAdapter(r) \/ CaptureAdapterRaises(r)
    <3>1. PICK failed \in BOOLEAN : Post(r, "adapterSync", failed, None)
      BY <2>4 DEF CaptureAdapter, CaptureAdapterRaises
    <3>2. "adapterSync" \in Collective
      BY DEF Collective
    <3>3. /\ posted'["adapterSync"][r].step = step[r]
          /\ \A d \in Collective, q \in Ranks :
               d # "adapterSync" \/ q # r => posted'[d][q] = posted[d][q]
      BY <2>1, <3>1, <3>2, PostedStep
    <3> QED BY <2>1, <2>4, <3>2, <3>3
      DEF CaptureAdapter, CaptureAdapterRaises, TypeOK, jobVars, fileVars
  <2>5. CASE SendRuntime(r)
    <3>1. "gatherSync" \in Collective
      BY DEF Collective
    <3>2. /\ posted'["gatherSync"][r].step = step[r]
          /\ \A d \in Collective, q \in Ranks :
               d # "gatherSync" \/ q # r => posted'[d][q] = posted[d][q]
      BY <2>1, <2>2, <2>5, <3>1, PostedStep DEF SendRuntime
    <3> QED BY <2>1, <2>5, <3>1, <3>2
      DEF SendRuntime, TypeOK, jobVars, fileVars
  <2> QED BY <2>3, <2>4, <2>5
<1>2. /\ Frame /\ Members' = Members /\ Members \subseteq Ranks
      /\ Primary \in Members /\ Primary \in Ranks
      /\ \A q \in Ranks : step[q] \in Nat
      /\ \A d \in Collective, q \in Ranks :
           posted[d][q].step \in Int /\ posted'[d][q].step \in Int
      /\ source \in Int
  BY <1>1, FrameFacts DEF AInv, Frame, TypeOK, State, Steps, None
<1>3. pc[r] \in Saving /\ pc'[r] \in Saving
  BY <1>1 DEF Saving, Collective
<1>4. posted[c][r].step < step[r]
  BY <1>1, <1>2 DEF AInv, Agreement, PostInv
<1>5. /\ Started(r) /\ SaveDue(step[r])
      /\ \A q \in Members : /\ live[q] /\ step[q] <= step[r] /\ step[r] <= step[q] + 1
                            /\ step[r] <= step[q] => Started(q)
  BY <1>3, SavingFacts
<1>6. LiveInv' /\ PaceInv'
  BY <1>1, <1>2, <1>3
  DEF AInv, Agreement, LiveInv, PaceInv, Started, Saving, Writing, Collective
<1>7. PostInv'
  <2>1. source < step[r] /\ 0 < step[r]
    BY <1>5 DEF Started
  <2> QED BY <1>1, <1>2, <2>1 DEF AInv, Agreement, PostInv, Collective
<1>8. SentInv'
  <2>1. c = "gatherSync" => pc[Primary] \notin Writing \cup {"announce"}
    <3> SUFFICES ASSUME c = "gatherSync", pc[Primary] \in Writing \cup {"announce"}
                 PROVE  FALSE
      OBVIOUS
    <3>1. pc[Primary] \in Saving /\ posted["gatherSync"][r].step = step[Primary]
      BY DEF Saving, AInv, Agreement, SentInv
    <3>2. step[r] <= step[Primary]
      BY <1>2, <3>1, SavingFacts
    <3> QED BY <1>2, <1>4, <3>1, <3>2
  <2>2. \A q \in Members : posted[c][q].step <= posted'[c][q].step
    BY <1>1, <1>2, <1>4
  <2>3. posted'["outcome"][Primary] = posted["outcome"][Primary]
    BY <1>1, <1>2 DEF Collective
  <2>4. \A q \in Members : posted["gatherSync"][q].step <= posted'["gatherSync"][q].step
    BY <1>1, <1>2, <2>2 DEF Collective
  <2>5. ASSUME NEW q \in Members
        PROVE  posted'["outcome"][Primary].step <= posted'["gatherSync"][q].step
    BY <1>1, <1>2, <2>3, <2>4 DEF AInv, Agreement, SentInv, Collective
  <2>6. ASSUME NEW q \in Members, pc'[Primary] \in Writing \cup {"announce"}
        PROVE  posted'["gatherSync"][q].step = step[Primary]
    <3>1. Primary # r /\ pc[Primary] = pc'[Primary]
      BY <1>1, <1>2, <2>6 DEF Writing
    <3>2. c # "gatherSync"
      BY <2>1, <2>6, <3>1
    <3> QED BY <1>1, <1>2, <2>6, <3>1, <3>2 DEF AInv, Agreement, SentInv, Collective
  <2> QED BY <1>1, <1>2, <2>5, <2>6 DEF SentInv
<1>9. PassInv'
  <2>1. ASSUME NEW d \in Agreements, NEW x \in Members, Passed(x, d)'
        PROVE  Passed(x, d)
    BY <1>1, <1>2, <2>1
    DEF Passed, Started, Behind, BehindCapture, Writing, Agreements
  <2>2. ASSUME NEW d \in Agreements, NEW q \in Members, NEW x \in Members, Passed(x, d)
        PROVE  /\ step[x] <= posted'[d][q].step
               /\ posted'[d][q].step = step[x] => ~posted'[d][q].failed
    <3>1. /\ step[x] <= posted[d][q].step
          /\ posted[d][q].step = step[x] => ~posted[d][q].failed
          /\ d \in Collective
      BY <2>2 DEF AInv, Agreement, PassInv, Agreements, Collective
    <3>2. CASE d = c /\ q = r
      BY <1>1, <1>2, <1>4, <3>1, <3>2
    <3>3. CASE d # c \/ q # r
      BY <1>1, <1>2, <3>1, <3>3
    <3> QED BY <3>2, <3>3
  <2> QED BY <1>1, <1>2, <2>1, <2>2 DEF PassInv
<1>10. BrokenInv'
  <2>1. ASSUME NEW s \in Steps, Broken(s)', NEW m \in Members
        PROVE  step[m] = s /\ pc'[m] # "training"
    <3>1. CASE \E d \in Agreements : d # c /\ BrokenAt(d, s)'
      <4>1. \E d \in Agreements : BrokenAt(d, s)
        BY <1>1, <1>2, <3>1 DEF BrokenAt, Agreements, Collective
      <4> QED BY <1>1, <1>2, <1>3, <4>1
        DEF AInv, Agreement, BrokenInv, Broken, Saving, Writing, Collective
    <3>2. CASE c \in Agreements /\ BrokenAt(c, s)'
      <4>1. s = step[r] /\ \A q \in Members : q # r => posted[c][q].step = s
        BY <1>1, <1>2, <3>2 DEF BrokenAt
      <4>2. \A q \in Members : step[r] <= step[q]
        BY <1>1, <1>2, <4>1 DEF AInv, Agreement, PostInv
      <4>3. step[m] = s /\ Started(m)
        BY <1>2, <1>5, <4>1, <4>2
      <4>4. CASE m = r
        BY <1>1, <4>3, <4>4 DEF Collective
      <4>5. CASE m # r /\ pc[m] = "training"
        <5>1. Passed(m, c)
          BY <1>5, <4>1, <4>3, <4>5 DEF Passed
        <5>2. step[m] <= posted[c][r].step
          BY <3>2, <5>1 DEF AInv, Agreement, PassInv
        <5> QED BY <1>1, <1>2, <1>4, <4>1, <4>3, <5>2
      <4> QED BY <1>1, <1>2, <4>3, <4>4, <4>5
    <3>3. CASE Abandoned(s)'
      <4>1. CASE c = "gatherSync"
        <5>1. /\ s = step[r] /\ posted["outcome"][Primary].step = s
          BY <1>1, <1>2, <3>3, <4>1 DEF Abandoned, Collective
        <5>2. posted["outcome"][Primary].step <= posted["gatherSync"][r].step
          BY DEF AInv, Agreement, SentInv
        <5> QED BY <1>2, <1>4, <4>1, <5>1, <5>2
      <4>2. CASE c # "gatherSync"
        <5>1. Abandoned(s)
          BY <1>1, <1>2, <3>3, <4>2 DEF Abandoned, Collective
        <5> QED BY <1>1, <1>2, <1>3, <5>1
          DEF AInv, Agreement, BrokenInv, Broken, Saving, Writing, Collective
      <4> QED BY <4>1, <4>2
    <3> QED BY <2>1, <3>1, <3>2, <3>3 DEF Broken
  <2> QED BY <1>1, <1>2, <2>1 DEF BrokenInv
<1>11. FailInv'
  <2>1. ASSUME NEW s \in Steps, Broken(s)
        PROVE  Broken(s)'
    <3>1. step[r] = s
      BY <2>1 DEF AInv, Agreement, BrokenInv
    <3>2. \A d \in Agreements : BrokenAt(d, s) => d # c
      BY <1>1, <1>2, <1>4, <3>1 DEF BrokenAt
    <3>3. \A d \in Agreements : BrokenAt(d, s) => BrokenAt(d, s)'
      BY <1>1, <1>2, <3>2 DEF BrokenAt, Agreements, Collective
    <3>4. Abandoned(s) => Abandoned(s)'
      BY <1>1, <1>2, <1>4, <3>1 DEF Abandoned, Collective
    <3> QED BY <2>1, <3>3, <3>4 DEF Broken
  <2> QED BY <1>1, <1>2, <1>3, <2>1
    DEF AInv, Agreement, FailInv, Saving, Writing, Collective
<1>12. AnnounceInv' /\ ReturnedSaveIsPublished' /\ ResumeInv'
  <2>1. pc'[r] \notin {"announce", "training", "resumed"}
    BY <1>1
  <2> QED BY <1>1, <1>2, <2>1
    DEF AInv, Agreement, AnnounceInv, ReturnedSaveIsPublished, ResumeInv, Exists, Collective
<1> QED
  BY <1>6, <1>7, <1>8, <1>9, <1>10, <1>11, <1>12 DEF Agreement

(* A rank that comes out of an agreement has seen what every rank           *)
(* contributed: it goes on if none failed, and fails in a save that failed. *)
LEMMA PropagateAgrees ==
  ASSUME AInv, Next, NEW r \in Members,
         NEW c \in {"captureSync", "adapterSync"}, PropagateRankFailure(r, c)
  PROVE  Agreement'
<1>1. /\ pc[r] = c /\ pc' = [pc EXCEPT ![r] = pc'[r]]
      /\ pc'[r] = IF \E q \in Members : posted[c][q].failed THEN "failed" ELSE AfterCapture(c)
      /\ \A q \in Members : posted[c][q].step = step[r]
      /\ UNCHANGED <<world, source, live, killed, step, posted, disk>>
  BY RankFacts
  DEF PropagateRankFailure, Contributed, jobVars, fileVars, AInv, IInv, TypeOK
<1>2. /\ Frame /\ Members' = Members /\ Members \subseteq Ranks
      /\ Primary \in Members /\ Primary \in Ranks
      /\ \A q \in Ranks : step[q] \in Nat
      /\ \A d \in Collective, q \in Ranks : posted[d][q].step \in Int
  BY <1>1, FrameFacts DEF AInv
<1>3. /\ pc'[r] \in {"failed", "adapter", "gather"} /\ pc[r] \in Saving
      /\ \A q \in Ranks : q # r => pc'[q] = pc[q]
      /\ c \in Agreements
  BY <1>1, <1>2
  DEF AfterCapture, Frame, TypeOK, AInv, Agreement, LiveInv, Agreements, Saving, Collective
<1>4. LiveInv' /\ PaceInv'
  <2>1. pc'[r] = "adapter" => HasAdapter
    BY <1>1 DEF AfterCapture
  <2> QED BY <1>1, <1>2, <1>3, <2>1
    DEF AInv, Agreement, LiveInv, PaceInv, Started, Saving, Writing, Collective
<1>5. PostInv' /\ SentInv'
  BY <1>1, <1>2, <1>3
  DEF AInv, Agreement, PostInv, SentInv, AfterCapture, Writing
<1>6. PassInv'
  <2>1. ASSUME NEW d \in Agreements, NEW x \in Members, Passed(x, d)', ~Passed(x, d)
        PROVE  x = r /\ d = c /\ \A q \in Members : ~posted[c][q].failed
    BY <1>1, <1>2, <1>3, <2>1
    DEF Passed, Started, Behind, BehindCapture, Writing, Agreements, AfterCapture
  <2> QED BY <1>1, <1>2, <2>1 DEF AInv, Agreement, PassInv
<1>7. BrokenInv'
  BY <1>1, <1>2, <1>3
  DEF AInv, Agreement, BrokenInv, Broken, BrokenAt, Abandoned
<1>8. FailInv'
  <2>1. pc'[r] = "failed" => BrokenAt(c, step[r]) /\ step[r] \in Steps
    <3>1. pc'[r] = "failed" => \E q \in Members : posted[c][q].failed
      BY <1>1 DEF AfterCapture
    <3> QED BY <1>1, <1>2, <3>1 DEF BrokenAt, Frame, TypeOK
  <2> QED BY <1>1, <1>2, <1>3, <2>1
    DEF AInv, Agreement, FailInv, Broken, BrokenAt, Abandoned, Saving, Writing, Collective
<1>9. AnnounceInv' /\ ReturnedSaveIsPublished' /\ ResumeInv'
  BY <1>1, <1>2, <1>3
  DEF AInv, Agreement, AnnounceInv, ReturnedSaveIsPublished, ResumeInv, Exists
<1> QED
  BY <1>4, <1>5, <1>6, <1>7, <1>8, <1>9 DEF Agreement

(* The primary's own steps up to the rename contribute nothing.             *)
LEMMA PrimaryWritesAgree ==
  ASSUME AInv, Next,
         \/ ReceiveRuntimes \/ PrepareStaging \/ WriteModel \/ WriteOptimizer
         \/ WriteRuntime \/ WriteManifest \/ Publish
  PROVE  Agreement'
<1>1. /\ pc[Primary] \in {"gatherSync"} \cup Writing
      /\ pc'[Primary] \in {"announce"} \cup Writing
      /\ pc' = [pc EXCEPT ![Primary] = pc'[Primary]]
      /\ pc[Primary] = "gatherSync" =>
           \A q \in Members : posted["gatherSync"][q].step = step[Primary]
      /\ UNCHANGED <<world, source, live, killed, step, posted>>
      /\ Publish \/ (disk' = disk /\ pc'[Primary] # "announce")
  BY RankFacts
  DEF AInv, IInv, TypeOK, ReceiveRuntimes, PrepareStaging, WriteModel, WriteOptimizer,
      WriteRuntime, WriteManifest, Publish, Contributed, jobVars, fileVars, Writing
<1>2. /\ Frame /\ Members' = Members /\ Members \subseteq Ranks
      /\ Primary \in Members /\ Primary \in Ranks
      /\ \A q \in Ranks : step[q] \in Nat
      /\ \A c \in Collective, q \in Ranks : posted[c][q].step \in Int
  BY <1>1, FrameFacts DEF AInv
<1>3. \A q \in Ranks : q # Primary => pc'[q] = pc[q]
  BY <1>1, <1>2 DEF Frame, TypeOK
<1>4. /\ \A s \in Steps : Exists(s) => disk'[s] # EmptyDirectory /\ disk'[s] = disk[s]
      /\ pc'[Primary] = "announce" => disk'[step[Primary]] # EmptyDirectory
  <2>1. CASE Publish
    <3>1. step[Primary] \in Steps /\ ~Exists(step[Primary])
          /\ disk' = [disk EXCEPT ![step[Primary]] = staging] /\ disk \in [Steps -> Directory]
      BY <1>2, <2>1 DEF Publish, Frame, TypeOK
    <3>2. staging # EmptyDirectory
      BY <2>1
      DEF Publish, AInv, IInv, Protocol, StagingInv, Snapshot, Files, EmptyDirectory
    <3> QED BY <1>1, <3>1, <3>2 DEF Exists
  <2>2. CASE disk' = disk /\ pc'[Primary] # "announce"
    BY <2>2 DEF Exists
  <2> QED BY <1>1, <2>1, <2>2
<1>5. LiveInv' /\ PaceInv'
  BY <1>1, <1>2, <1>3
  DEF AInv, Agreement, LiveInv, PaceInv, Started, Saving, Writing, Collective
<1>6. PostInv' /\ SentInv'
  BY <1>1, <1>2, <1>3
  DEF AInv, Agreement, PostInv, SentInv, Writing
<1>7. PassInv'
  <2>1. ASSUME NEW c \in Agreements, NEW x \in Members, Passed(x, c)'
        PROVE  Passed(x, c)
    BY <1>1, <1>2, <1>3, <2>1 DEF Passed, Started, Behind, BehindCapture, Writing
  <2> QED BY <1>1, <1>2, <2>1 DEF AInv, Agreement, PassInv
<1>8. BrokenInv' /\ FailInv'
  BY <1>1, <1>2, <1>3
  DEF AInv, Agreement, BrokenInv, FailInv, Broken, BrokenAt, Abandoned, Writing
<1>9. AnnounceInv'
  <2>1. posted["outcome"][Primary].step # None => posted["outcome"][Primary].step \in Steps
    BY <1>2 DEF Frame, TypeOK, Collective, Contribution, State
  <2>2. /\ posted["outcome"][Primary].step # None
        /\ ~posted["outcome"][Primary].failed
        => disk'[posted["outcome"][Primary].step] # EmptyDirectory
    BY <1>4, <2>1 DEF AInv, Agreement, AnnounceInv
  <2> QED BY <1>1, <1>4, <2>2 DEF AnnounceInv, Exists
<1>10. ReturnedSaveIsPublished'
  <2>1. pc'[Primary] # "training"
    BY <1>1 DEF Writing
  <2> QED BY <1>1, <1>2, <1>3, <1>4, <2>1 DEF AInv, Agreement, ReturnedSaveIsPublished, Exists
<1>11. ResumeInv'
  <2>1. ASSUME NEW q \in Members, pc'[q] = "resumed"
        PROVE  disk'[source] # EmptyDirectory /\ (step[q] < MaxSteps => disk'[source].damaged = {})
    <3>1. pc[q] = "resumed"
      BY <1>1, <1>2, <1>3, <2>1 DEF Writing
    <3>2. source \in Steps /\ Exists(source)
      BY <1>2, <3>1 DEF AInv, Agreement, LiveInv, ResumeInv
    <3> QED BY <1>4, <3>1, <3>2 DEF AInv, Agreement, ResumeInv
  <2> QED BY <1>1, <1>2, <2>1 DEF ResumeInv, Exists
<1> QED
  BY <1>5, <1>6, <1>7, <1>8, <1>9, <1>10, <1>11 DEF Agreement

(* The primary's exception path: all members have contributed to the gather *)
(* and wait for the outcome, so that all of them learn of it.               *)
LEMMA AbandonAgrees ==
  ASSUME AInv, Next, RefuseOverwrite \/ WriteRaises
  PROVE  Agreement'
<1>1. /\ pc[Primary] \in Writing /\ pc' = [pc EXCEPT ![Primary] = "failed"]
      /\ posted'["outcome"][Primary].step = step[Primary]
      /\ posted'["outcome"][Primary].failed
      /\ \A c \in Collective, q \in Ranks :
           c # "outcome" \/ q # Primary => posted'[c][q] = posted[c][q]
      /\ UNCHANGED <<world, source, live, killed, step, disk>>
  <2>1. TypeOK /\ Primary \in Ranks /\ None \in State
    BY RankFacts DEF AInv, IInv
  <2>2. Post(Primary, "outcome", TRUE, None) /\ "outcome" \in Collective
    BY DEF RefuseOverwrite, WriteRaises, AbandonSave, Collective
  <2> QED BY <2>1, <2>2, PostedStep
    DEF RefuseOverwrite, WriteRaises, AbandonSave, TypeOK, jobVars, Writing
<1>2. /\ Frame /\ Members' = Members /\ Members \subseteq Ranks
      /\ Primary \in Members /\ Primary \in Ranks
      /\ \A q \in Ranks : step[q] \in Nat
      /\ \A c \in Collective, q \in Ranks :
           posted[c][q].step \in Int /\ posted'[c][q].step \in Int
  BY <1>1, FrameFacts DEF AInv
<1>3. /\ pc'[Primary] = "failed" /\ pc[Primary] \in Saving
      /\ \A q \in Ranks : q # Primary => pc'[q] = pc[q]
      /\ \A q \in Members : posted["gatherSync"][q].step = step[Primary]
      /\ posted["outcome"][Primary].step < step[Primary]
  BY <1>1, <1>2
  DEF Frame, TypeOK, Saving, AInv, Agreement, SentInv, IInv, Protocol, OutcomeInv
<1>4. LiveInv' /\ PaceInv'
  BY <1>1, <1>2, <1>3
  DEF AInv, Agreement, LiveInv, PaceInv, Started, Saving, Writing, Collective
<1>5. PostInv' /\ SentInv'
  <2>1. source < step[Primary] /\ 0 < step[Primary]
    BY <1>2, <1>3, SavingFacts DEF Started
  <2> QED BY <1>1, <1>2, <1>3, <2>1
    DEF AInv, Agreement, PostInv, SentInv, Writing, Collective
<1>6. PassInv'
  <2>1. ASSUME NEW c \in Agreements, NEW x \in Members, Passed(x, c)'
        PROVE  Passed(x, c)
    BY <1>1, <1>2, <1>3, <2>1 DEF Passed, Started, Behind, BehindCapture, Writing
  <2> QED BY <1>1, <1>2, <2>1 DEF AInv, Agreement, PassInv, Agreements, Collective
<1>7. BrokenInv'
  <2>1. ASSUME NEW s \in Steps, Broken(s)', NEW m \in Members
        PROVE  step[m] = s /\ pc'[m] # "training"
    <3>1. CASE \E c \in Agreements : BrokenAt(c, s)'
      <4>1. \E c \in Agreements : BrokenAt(c, s)
        BY <1>1, <1>2, <3>1 DEF BrokenAt, Agreements, Collective
      <4> QED BY <1>1, <1>2, <1>3, <4>1 DEF AInv, Agreement, BrokenInv, Broken
    <3>2. CASE Abandoned(s)'
      <4>1. s = step[Primary]
        BY <1>1, <3>2 DEF Abandoned
      <4>2. m # Primary => pc[m] \in {"outcome", "failed", "down"} /\ step[m] = step[Primary]
        BY <1>2, <1>3 DEF AInv, IInv, Protocol, WaitingInv
      <4> QED BY <1>2, <1>3, <4>1, <4>2
    <3> QED BY <2>1, <3>1, <3>2 DEF Broken
  <2> QED BY <1>1, <1>2, <2>1 DEF BrokenInv
<1>8. FailInv'
  <2>1. Abandoned(step[Primary])'
    BY <1>1, <1>2, <1>3 DEF Abandoned, Collective
  <2>2. step[Primary] \in Steps
    BY <1>2 DEF Frame, TypeOK
  <2> QED BY <1>1, <1>2, <1>3, <2>1, <2>2 DEF AInv, Agreement, FailInv, Broken
<1>9. AnnounceInv' /\ ReturnedSaveIsPublished' /\ ResumeInv'
  BY <1>1, <1>2, <1>3
  DEF AInv, Agreement, AnnounceInv, ReturnedSaveIsPublished, ResumeInv, Exists
<1> QED
  BY <1>4, <1>5, <1>6, <1>7, <1>8, <1>9 DEF Agreement

(* The primary's announcement: its save has not failed.                     *)
LEMMA AnnounceAgrees ==
  ASSUME AInv, Next, AnnounceSuccess
  PROVE  Agreement'
<1>1. /\ pc[Primary] = "announce" /\ pc' = [pc EXCEPT ![Primary] = "training"]
      /\ posted'["outcome"][Primary].step = step[Primary]
      /\ ~posted'["outcome"][Primary].failed
      /\ \A c \in Collective, q \in Ranks :
           c # "outcome" \/ q # Primary => posted'[c][q] = posted[c][q]
      /\ UNCHANGED <<world, source, live, killed, step, disk>>
  <2>1. TypeOK /\ Primary \in Ranks /\ None \in State
    BY RankFacts DEF AInv, IInv
  <2>2. Post(Primary, "outcome", FALSE, None) /\ "outcome" \in Collective
    BY DEF AnnounceSuccess, Collective
  <2> QED BY <2>1, <2>2, PostedStep DEF AnnounceSuccess, TypeOK, jobVars, fileVars
<1>2. /\ Frame /\ Members' = Members /\ Members \subseteq Ranks
      /\ Primary \in Members /\ Primary \in Ranks
      /\ \A q \in Ranks : step[q] \in Nat
      /\ \A c \in Collective, q \in Ranks :
           posted[c][q].step \in Int /\ posted'[c][q].step \in Int
  BY <1>1, FrameFacts DEF AInv
<1>3. /\ pc'[Primary] = "training" /\ pc[Primary] \in Saving
      /\ \A q \in Ranks : q # Primary => pc'[q] = pc[q]
      /\ \A q \in Members : posted["gatherSync"][q].step = step[Primary]
      /\ posted["outcome"][Primary].step < step[Primary]
      /\ Exists(step[Primary])
  BY <1>1, <1>2
  DEF Frame, TypeOK, Saving, AInv, Agreement, SentInv, AnnounceInv, IInv, Protocol, OutcomeInv
<1>4. LiveInv' /\ PaceInv'
  BY <1>1, <1>2, <1>3
  DEF AInv, Agreement, LiveInv, PaceInv, Started, Saving, Writing, Collective
<1>5. PostInv' /\ SentInv'
  <2>1. source < step[Primary] /\ 0 < step[Primary]
    BY <1>2, <1>3, SavingFacts DEF Started
  <2> QED BY <1>1, <1>2, <1>3, <2>1
    DEF AInv, Agreement, PostInv, SentInv, Writing, Collective
<1>6. PassInv'
  <2>1. ASSUME NEW c \in Agreements, NEW x \in Members, Passed(x, c)'
        PROVE  Passed(x, c)
    BY <1>1, <1>2, <1>3, <2>1 DEF Passed, Started, Behind, BehindCapture, Writing
  <2> QED BY <1>1, <1>2, <2>1 DEF AInv, Agreement, PassInv, Agreements, Collective
<1>7. ASSUME NEW s \in Steps
      PROVE  ~Broken(s) /\ ~Broken(s)'
  <2>1. ASSUME NEW c \in Agreements, BrokenAt(c, s)
        PROVE  FALSE
    <3>1. step[Primary] = s
      BY <1>2, <2>1 DEF AInv, Agreement, BrokenInv, Broken
    <3>2. Passed(Primary, c)
      BY <1>1 DEF Passed, Behind, BehindCapture
    <3> QED BY <1>2, <2>1, <3>1, <3>2 DEF AInv, Agreement, PassInv, BrokenAt
  <2>2. \A c \in Agreements : BrokenAt(c, s)' => BrokenAt(c, s)
    BY <1>1, <1>2 DEF BrokenAt, Agreements, Collective
  <2>3. ~Abandoned(s)'
    BY <1>1 DEF Abandoned
  <2>4. ~Abandoned(s)
    <3>1. Abandoned(s) => step[Primary] = s
      BY <1>2 DEF AInv, Agreement, BrokenInv, Broken
    <3> QED BY <1>2, <1>3, <3>1 DEF Abandoned, Collective
  <2> QED BY <2>1, <2>2, <2>3, <2>4 DEF Broken
<1>8. BrokenInv' /\ FailInv'
  BY <1>1, <1>2, <1>3, <1>7 DEF AInv, Agreement, BrokenInv, FailInv
<1>9. AnnounceInv' /\ ResumeInv'
  BY <1>1, <1>2, <1>3 DEF AInv, Agreement, AnnounceInv, ResumeInv, Exists
<1>10. ReturnedSaveIsPublished'
  BY <1>1, <1>2, <1>3 DEF AInv, Agreement, ReturnedSaveIsPublished, Exists
<1> QED
  BY <1>4, <1>5, <1>6, <1>8, <1>9, <1>10 DEF Agreement

(* A peer that waits for the outcome is not ahead of it.                    *)
LEMMA LearnOutcomeAgrees ==
  ASSUME AInv, Next, NEW r \in Members, LearnOutcome(r)
  PROVE  Agreement'
<1>1. /\ pc[r] = "outcome" /\ pc' = [pc EXCEPT ![r] = pc'[r]]
      /\ pc'[r] = IF posted["outcome"][Primary].failed THEN "failed" ELSE "training"
      /\ posted["outcome"][Primary].step = step[r]
      /\ UNCHANGED <<world, source, live, killed, step, posted, disk>>
  BY RankFacts DEF LearnOutcome, Contributed, jobVars, fileVars, AInv, IInv, TypeOK
<1>2. /\ Frame /\ Members' = Members /\ Members \subseteq Ranks
      /\ Primary \in Members /\ Primary \in Ranks
      /\ \A q \in Ranks : step[q] \in Nat
      /\ \A c \in Collective, q \in Ranks : posted[c][q].step \in Int
  BY <1>1, FrameFacts DEF AInv
<1>3. /\ pc'[r] \in {"failed", "training"} /\ pc[r] \in Saving
      /\ \A q \in Ranks : q # r => pc'[q] = pc[q]
  BY <1>1, <1>2 DEF Frame, TypeOK, Saving, Collective
<1>4. \A m \in Members : posted["gatherSync"][m].step = step[r]
  <2> SUFFICES ASSUME NEW m \in Members
               PROVE  posted["gatherSync"][m].step = step[r]
    OBVIOUS
  <2>1. step[r] <= posted["gatherSync"][m].step
    BY <1>1 DEF AInv, Agreement, SentInv
  <2>2. posted["gatherSync"][m].step <= step[m]
    BY <1>2 DEF AInv, Agreement, PostInv, Collective
  <2>3. step[m] <= step[r]
    BY <1>3, SavingFacts
  <2> QED BY <1>2, <2>1, <2>2, <2>3 DEF Collective
<1>5. LiveInv' /\ PaceInv'
  BY <1>1, <1>2, <1>3
  DEF AInv, Agreement, LiveInv, PaceInv, Started, Saving, Writing, Collective
<1>6. PostInv' /\ SentInv'
  BY <1>1, <1>2, <1>3 DEF AInv, Agreement, PostInv, SentInv, Writing
<1>7. PassInv'
  <2>1. ASSUME NEW c \in Agreements, NEW x \in Members, Passed(x, c)'
        PROVE  Passed(x, c)
    BY <1>1, <1>2, <1>3, <2>1 DEF Passed, Started, Behind, BehindCapture, Writing
  <2> QED BY <1>1, <1>2, <2>1 DEF AInv, Agreement, PassInv
<1>8. BrokenInv'
  <2>1. ASSUME NEW s \in Steps, Broken(s), ~posted["outcome"][Primary].failed
        PROVE  FALSE
    <3>1. step[r] = s /\ ~Abandoned(s)
      BY <2>1 DEF AInv, Agreement, BrokenInv, Abandoned
    <3>2. PICK c \in Agreements : BrokenAt(c, s)
      BY <2>1, <3>1 DEF Broken
    <3>3. Passed(r, c)
      BY <1>1 DEF Passed, Behind, BehindCapture
    <3> QED BY <1>2, <3>1, <3>2, <3>3 DEF AInv, Agreement, PassInv, BrokenAt
  <2> QED BY <1>1, <1>2, <1>3, <2>1
    DEF AInv, Agreement, BrokenInv, Broken, BrokenAt, Abandoned
<1>9. FailInv'
  <2>1. posted["outcome"][Primary].failed => Abandoned(step[r])
    BY <1>1, <1>4 DEF Abandoned
  <2>2. step[r] \in Steps
    BY <1>2 DEF Frame, TypeOK
  <2>3. pc'[r] = "failed" => posted["outcome"][Primary].failed
    BY <1>1
  <2> QED BY <1>1, <1>2, <1>3, <2>1, <2>2, <2>3
    DEF AInv, Agreement, FailInv, Broken, BrokenAt, Abandoned
<1>10. AnnounceInv' /\ ResumeInv'
  BY <1>1, <1>2, <1>3 DEF AInv, Agreement, AnnounceInv, ResumeInv, Exists
<1>11. ReturnedSaveIsPublished'
  <2>1. pc'[r] = "training" => Exists(step[r])
    BY <1>1, <1>2 DEF AInv, Agreement, AnnounceInv, None
  <2> QED BY <1>1, <1>2, <1>3, <2>1 DEF AInv, Agreement, ReturnedSaveIsPublished, Exists
<1> QED
  BY <1>5, <1>6, <1>7, <1>8, <1>9, <1>10, <1>11 DEF Agreement

(* A rank that loads or restores its stream has not started, nor has any    *)
(* other: no save has failed.                                               *)
LEMMA ResumingFacts ==
  ASSUME AInv, NEW r \in Members, pc[r] \in {"loading", "resumed"}
  PROVE  /\ ~live[r] /\ source \in Steps
         /\ \A q \in Members : ~Started(q)
         /\ \A s \in Steps : ~Broken(s)
<1>1. /\ r \in Ranks /\ ~live[r] /\ source \in Steps
  BY RankFacts DEF AInv, IInv, Agreement, LiveInv
<1>2. \A q \in Members : ~Started(q)
  BY <1>1 DEF AInv, Agreement, PaceInv
<1> QED
  BY <1>1, <1>2, BrokenFacts

(* Loading a checkpoint: nobody has trained, and what the rank loads is     *)
(* intact, since every file was checked.                                    *)
LEMMA LoadAgrees ==
  ASSUME AInv, Next, NEW r \in Members, Load(r)
  PROVE  Agreement'
<1>1. /\ pc[r] = "loading" /\ pc' = [pc EXCEPT ![r] = "resumed"]
      /\ step' = [step EXCEPT ![r] = source]
      /\ ManagerAccepts(disk[source])
      /\ UNCHANGED <<world, source, live, killed, posted, disk>>
  <2>1. TypeOK /\ r \in Ranks
    BY RankFacts DEF AInv, IInv
  <2> QED BY <2>1, AcceptedStep DEF AInv, Load, jobVars, fileVars
<1>2. /\ Frame /\ Members' = Members /\ Members \subseteq Ranks
      /\ Primary \in Members /\ Primary \in Ranks
      /\ \A q \in Ranks : step[q] \in Nat /\ step'[q] \in Nat
      /\ \A c \in Collective, q \in Ranks : posted[c][q].step \in Int
  BY <1>1, FrameFacts DEF AInv
<1>3. /\ pc'[r] = "resumed" /\ step'[r] = source
      /\ \A q \in Ranks : q # r => pc'[q] = pc[q] /\ step'[q] = step[q]
  BY <1>1, <1>2 DEF Frame, TypeOK
<1>4. /\ ~live[r] /\ source \in Steps
      /\ \A q \in Members : ~Started(q)
      /\ \A s \in Steps : ~Broken(s)
  BY <1>1, ResumingFacts
<1>5. \A q \in Members : ~Started(q)'
  BY <1>1, <1>2, <1>3, <1>4 DEF Started
<1>6. LiveInv' /\ PaceInv'
  BY <1>1, <1>2, <1>3, <1>4, <1>5
  DEF AInv, Agreement, LiveInv, PaceInv, Saving, Writing, Collective
<1>7. PostInv' /\ SentInv'
  <2>1. ASSUME NEW c \in Collective
        PROVE  posted[c][r].step = None
    <3>1. step[r] \in {0, source}
      BY <1>2, <1>4 DEF AInv, Agreement, LiveInv
    <3> QED BY <1>2, <1>4, <3>1 DEF AInv, Agreement, PostInv, Steps
  <2> QED BY <1>1, <1>2, <1>3, <1>4, <2>1
    DEF AInv, Agreement, PostInv, SentInv, Writing, None, Steps
<1>8. PassInv'
  <2>1. ASSUME NEW c \in Agreements, NEW x \in Members, Passed(x, c)'
        PROVE  Passed(x, c) /\ step'[x] = step[x]
    BY <1>1, <1>2, <1>3, <1>5, <2>1 DEF Passed, Behind, BehindCapture, Writing
  <2> QED BY <1>1, <1>2, <2>1 DEF AInv, Agreement, PassInv
<1>9. BrokenInv' /\ FailInv'
  BY <1>1, <1>2, <1>3, <1>4
  DEF AInv, Agreement, BrokenInv, FailInv, Broken, BrokenAt, Abandoned
<1>10. AnnounceInv'
  BY <1>1, <1>2, <1>3 DEF AInv, Agreement, AnnounceInv, Exists
<1>11. ReturnedSaveIsPublished'
  BY <1>1, <1>2, <1>3, <1>4 DEF AInv, Agreement, ReturnedSaveIsPublished, Exists, Steps
<1>12. ResumeInv'
  <2>1. disk[source] # EmptyDirectory
    BY <1>1 DEF ManagerAccepts, Files, EmptyDirectory
  <2>2. disk[source].damaged \subseteq Files
    BY <1>2, <1>4 DEF Frame, TypeOK, Directory
  <2>3. \A f \in Files : f \notin disk[source].damaged
    BY <1>1 DEF ManagerAccepts, Files
  <2>4. disk[source].damaged = {}
    BY <2>2, <2>3
  <2> QED BY <1>1, <1>2, <1>3, <2>1, <2>4 DEF AInv, Agreement, ResumeInv, Exists
<1> QED
  BY <1>6, <1>7, <1>8, <1>9, <1>10, <1>11, <1>12 DEF Agreement

(* The first batch of a resumed rank: it goes on at the step it loaded, or  *)
(* fails before it has trained.                                             *)
LEMMA RestoreStreamAgrees ==
  ASSUME AInv, Next, NEW r \in Members, RestoreStream(r)
  PROVE  Agreement'
<1>1. /\ pc[r] = "resumed" /\ pc' = [pc EXCEPT ![r] = pc'[r]]
      /\ live' = [live EXCEPT ![r] = live'[r]]
      /\ pc'[r] = IF live'[r] THEN "training" ELSE "failed"
      /\ UNCHANGED <<world, source, killed, step, posted, disk>>
  BY RankFacts DEF RestoreStream, StreamAccepts, fileVars, AInv, IInv, TypeOK
<1>2. /\ Frame /\ Members' = Members /\ Members \subseteq Ranks
      /\ Primary \in Members /\ Primary \in Ranks
      /\ \A q \in Ranks : step[q] \in Nat
      /\ \A c \in Collective, q \in Ranks : posted[c][q].step \in Int
  BY <1>1, FrameFacts DEF AInv
<1>3. /\ pc'[r] \in {"training", "failed"}
      /\ \A q \in Ranks : q # r => pc'[q] = pc[q] /\ live'[q] = live[q]
  BY <1>1, <1>2 DEF Frame, TypeOK
<1>4. /\ ~live[r] /\ source \in Steps /\ step[r] = source
      /\ \A q \in Members : ~Started(q)
      /\ \A s \in Steps : ~Broken(s)
  BY <1>1, <1>2, ResumingFacts DEF AInv, Agreement, LiveInv
<1>5. \A q \in Members : ~Started(q)'
  BY <1>1, <1>2, <1>3, <1>4 DEF Started, Steps
<1>6. LiveInv' /\ PaceInv'
  BY <1>1, <1>2, <1>3, <1>4, <1>5
  DEF AInv, Agreement, LiveInv, PaceInv, Saving, Writing, Collective, Steps
<1>7. PostInv' /\ SentInv'
  BY <1>1, <1>2, <1>3 DEF AInv, Agreement, PostInv, SentInv, Writing
<1>8. PassInv'
  <2>1. ASSUME NEW c \in Agreements, NEW x \in Members, Passed(x, c)'
        PROVE  Passed(x, c)
    BY <1>1, <1>2, <1>3, <1>5, <2>1 DEF Passed, Behind, BehindCapture, Writing
  <2> QED BY <1>1, <1>2, <2>1 DEF AInv, Agreement, PassInv
<1>9. BrokenInv' /\ FailInv'
  <2>1. \A s \in Steps : ~Broken(s)'
    BY <1>1, <1>2, <1>4 DEF Broken, BrokenAt, Abandoned
  <2> QED BY <1>1, <1>2, <1>3, <1>4, <2>1 DEF AInv, Agreement, BrokenInv, FailInv
<1>10. AnnounceInv' /\ ResumeInv'
  BY <1>1, <1>2, <1>3 DEF AInv, Agreement, AnnounceInv, ResumeInv, Exists
<1>11. ReturnedSaveIsPublished'
  BY <1>1, <1>2, <1>3, <1>4 DEF AInv, Agreement, ReturnedSaveIsPublished, Exists, Steps
<1> QED
  BY <1>6, <1>7, <1>8, <1>9, <1>10, <1>11 DEF Agreement

(* A rank that fails while it loads has never trained; one that misses a    *)
(* peer fails for the reason its peer did, or because of a kill.            *)
LEMMA StopAgrees ==
  ASSUME AInv, Next, NEW r \in Members,
         LoadRejects(r) \/ LoadRaises(r) \/ PeerLost(r) \/ Kill(r)
  PROVE  Agreement'
<1>1. /\ pc' = [pc EXCEPT ![r] = pc'[r]] /\ pc'[r] \in {"failed", "down"}
      /\ \/ pc[r] = "loading" /\ pc'[r] = "failed" /\ killed' = killed
         \/ /\ pc[r] \in {"training"} \cup Collective /\ pc'[r] = "failed"
            /\ \E q \in Members : pc[q] \in {"down", "failed"}
            /\ killed' = killed
         \/ killed'
      /\ UNCHANGED <<world, source, live, step, posted, disk>>
  <2>1. TypeOK /\ r \in Ranks
    BY RankFacts DEF AInv, IInv
  <2> QED BY <2>1
    DEF LoadRejects, LoadRaises, PeerLost, Kill, Gone, TypeOK, jobVars, fileVars
<1>2. /\ Frame /\ Members' = Members /\ Members \subseteq Ranks
      /\ Primary \in Members /\ Primary \in Ranks
      /\ \A q \in Ranks : step[q] \in Nat
      /\ \A c \in Collective, q \in Ranks : posted[c][q].step \in Int
  BY <1>1, FrameFacts DEF AInv
<1>3. \A q \in Ranks : q # r => pc'[q] = pc[q]
  BY <1>1, <1>2 DEF Frame, TypeOK
<1>4. LiveInv' /\ PaceInv'
  BY <1>1, <1>2, <1>3
  DEF AInv, Agreement, LiveInv, PaceInv, Started, Saving, Writing, Collective
<1>5. PostInv' /\ SentInv'
  BY <1>1, <1>2, <1>3 DEF AInv, Agreement, PostInv, SentInv, Writing
<1>6. PassInv'
  <2>1. ASSUME NEW c \in Agreements, NEW x \in Members, Passed(x, c)'
        PROVE  Passed(x, c)
    BY <1>1, <1>2, <1>3, <2>1 DEF Passed, Started, Behind, BehindCapture, Writing
  <2> QED BY <1>1, <1>2, <2>1 DEF AInv, Agreement, PassInv
<1>7. BrokenInv'
  BY <1>1, <1>2, <1>3 DEF AInv, Agreement, BrokenInv, Broken, BrokenAt, Abandoned
<1>8. FailInv'
  <2>1. CASE pc[r] = "loading" /\ pc'[r] = "failed" /\ killed' = killed
    BY <1>1, <1>2, <1>3, <2>1 DEF AInv, Agreement, FailInv, LiveInv
  <2>2. CASE /\ pc[r] \in {"training"} \cup Collective /\ pc'[r] = "failed"
             /\ \E q \in Members : pc[q] \in {"down", "failed"}
             /\ killed' = killed
    <3>1. pc[r] # "failed"
      BY <2>2 DEF Collective
    <3> QED BY <1>1, <1>2, <1>3, <2>2, <3>1
      DEF AInv, Agreement, FailInv, Broken, BrokenAt, Abandoned
  <2>3. CASE killed'
    BY <2>3 DEF FailInv
  <2> QED BY <1>1, <2>1, <2>2, <2>3
<1>9. AnnounceInv' /\ ReturnedSaveIsPublished' /\ ResumeInv'
  BY <1>1, <1>2, <1>3
  DEF AInv, Agreement, AnnounceInv, ReturnedSaveIsPublished, ResumeInv, Exists
<1> QED
  BY <1>4, <1>5, <1>6, <1>7, <1>8, <1>9 DEF Agreement

(* Damage happens to a stopped job: a resumed rank of it is finished.       *)
LEMMA DamageAgrees ==
  ASSUME AInv, Next, NEW s \in Steps, NEW f \in Files, Damage(s, f)
  PROVE  Agreement'
<1>1. UNCHANGED <<world, pc, step, posted, source, live, killed>>
  BY DEF Damage, jobVars, rankVars
<1>2. \A t \in Steps : Exists(t) => disk'[t] # EmptyDirectory
  <2>1. TypeOK /\ disk' = [disk EXCEPT ![s] = [disk[s] EXCEPT !.damaged = @ \cup {f}]]
    BY DEF Damage, AInv, IInv
  <2>2. f \in disk[s].files /\ disk[s] \in Directory
    BY <2>1 DEF Damage, TypeOK
  <2>3. disk'[s].files = disk[s].files /\ \A t \in Steps : t # s => disk'[t] = disk[t]
    BY <2>1, <2>2 DEF TypeOK, Directory
  <2>4. disk'[s] # EmptyDirectory
    BY <2>2, <2>3 DEF EmptyDirectory
  <2> QED BY <2>3, <2>4 DEF Exists
<1>3. /\ LiveInv' /\ PaceInv' /\ PostInv' /\ SentInv' /\ PassInv' /\ BrokenInv' /\ FailInv'
  <2>1. Members' = Members /\ Abandoned(0)' = Abandoned(0)
    BY <1>1 DEF Members, Abandoned
  <2> QED BY <1>1, <2>1
    DEF AInv, Agreement, LiveInv, PaceInv, PostInv, SentInv, PassInv, BrokenInv, FailInv,
        Started, Passed, Broken, BrokenAt, Abandoned
<1>4. AnnounceInv'
  <2>1. TypeOK /\ Primary \in Ranks
    BY RankFacts DEF AInv, IInv
  <2>2. /\ step[Primary] \in Steps
        /\ posted["outcome"][Primary].step # None => posted["outcome"][Primary].step \in Steps
    BY <2>1 DEF TypeOK, Collective, Contribution, State
  <2> QED BY <1>1, <1>2, <2>2 DEF AInv, Agreement, AnnounceInv, Exists
<1>5. ReturnedSaveIsPublished'
  BY <1>1, <1>2 DEF AInv, Agreement, ReturnedSaveIsPublished, Exists, Members
<1>6. ResumeInv'
  <2>1. ASSUME NEW r \in Members, pc[r] = "resumed"
        PROVE  disk'[source] # EmptyDirectory /\ step[r] = MaxSteps
    <3>1. step[r] = MaxSteps
      BY <2>1 DEF Damage, Stopped, Gone, Finished
    <3>2. source \in Steps /\ Exists(source)
      BY <2>1, RankFacts DEF AInv, IInv, Agreement, LiveInv, ResumeInv
    <3> QED BY <1>2, <3>1, <3>2
  <2> QED BY <1>1, <2>1, ConstantsAssumption DEF ResumeInv, Exists, Members
<1> QED
  BY <1>3, <1>4, <1>5, <1>6 DEF Agreement

(* A restarted job has no rank past its start.                              *)
LEMMA RestartAgrees ==
  ASSUME AInv, Next, NEW w \in Worlds, NEW t \in State, Restart(w, t)
  PROVE  Agreement'
<1>1. /\ source' = t /\ ~killed' /\ t \in Int
      /\ \A r \in Ranks :
           /\ live'[r] <=> r < w /\ t = None
           /\ r >= w => pc'[r] = "down"
           /\ r < w /\ t = None => pc'[r] = "training"
           /\ r < w /\ t # None => pc'[r] = "loading"
           /\ step'[r] = 0
           /\ \A c \in Collective : posted'[c][r].step = None
  <2>1. \A r \in Ranks : r >= w <=> ~(r < w)
    BY ConstantsAssumption DEF Ranks
  <2>2. live' = [r \in Ranks |-> r < w /\ t = None]
    BY DEF Restart
  <2>3. \A r \in Ranks : live'[r] <=> r < w /\ t = None
    BY <2>2, Zenon
  <2> QED BY <2>1, <2>3 DEF Restart, NothingPosted, NotPosted, State, Steps, None
<1>2. /\ Members' = 0..w-1 /\ Members' \subseteq Ranks
      /\ Primary \in Ranks /\ Primary \in Members'
      /\ \A r \in Ranks : r < w \/ r >= w
      /\ \A r \in Members' : r < w
      /\ \A r \in Ranks : r < w => r \in Members'
  BY ConstantsAssumption DEF Restart, Members, Ranks, Primary
<1>3. \A r \in Members' : pc'[r] \in {"training", "loading"} /\ ~Started(r)'
  BY <1>1, <1>2 DEF Started
<1>4. LiveInv'
  <2>1. t # None => t \in Steps
    BY DEF State
  <2> QED BY <1>1, <1>2, <2>1 DEF LiveInv, Saving, Writing, Collective, None
<1>5. PaceInv'
  BY <1>3 DEF PaceInv
<1>6. PostInv' /\ SentInv'
  <2>1. /\ None = -1
        /\ {"captureSync", "adapterSync", "gatherSync", "outcome"} \subseteq Collective
    BY DEF None, Collective
  <2>2. PostInv'
    BY <1>1, <2>1 DEF PostInv
  <2>3. pc'[Primary] \notin Writing \cup {"announce"}
    BY <1>2, <1>3 DEF Writing
  <2>4. SentInv'
    BY <1>1, <1>2, <2>1, <2>3 DEF SentInv
  <2> QED BY <2>2, <2>4
<1>7. PassInv'
  <2>1. ASSUME NEW c \in Agreements, NEW r \in Members'
        PROVE  ~Passed(r, c)'
    BY <1>3, <2>1 DEF Passed, Behind, BehindCapture, Writing
  <2> QED BY <2>1 DEF PassInv
<1>8. BrokenInv'
  <2>1. ASSUME NEW s \in Steps
        PROVE  ~Broken(s)'
    <3>1. s # None
      BY DEF Steps, None
    <3> QED BY <1>1, <1>2, <3>1 DEF Broken, BrokenAt, Abandoned, Agreements, Collective
  <2> QED BY <2>1 DEF BrokenInv
<1>9. FailInv'
  BY <1>3 DEF FailInv
<1>10. AnnounceInv' /\ ResumeInv'
  BY <1>1, <1>2, <1>3 DEF AnnounceInv, ResumeInv, Collective
<1>11. ReturnedSaveIsPublished'
  BY <1>1, <1>2 DEF ReturnedSaveIsPublished, Steps
<1> QED
  BY <1>4, <1>5, <1>6, <1>7, <1>8, <1>9, <1>10, <1>11 DEF Agreement

-----------------------------------------------------------------------------
(* The initial states agree. *)
LEMMA InitAgrees == Init => AInv
<1> SUFFICES ASSUME Init PROVE AInv
  OBVIOUS
<1>1. IInv
  BY InitEstablishes
<1>2. /\ Members \subseteq Ranks /\ Primary \in Members /\ Primary \in Ranks
      /\ \A r \in Ranks : r \in Members <=> r < world
  BY <1>1, RankFacts DEF IInv
<1>3. /\ source = None /\ None = -1
      /\ {"captureSync", "adapterSync", "gatherSync", "outcome"} \subseteq Collective
      /\ \A r \in Ranks :
           /\ live[r] <=> r < world
           /\ pc[r] = "training" <=> r < world
           /\ pc[r] \in {"training", "down"}
           /\ step[r] = 0
           /\ \A c \in Collective : posted[c][r].step = None
  <2>1. live = [r \in Ranks |-> r < world]
    BY DEF Init
  <2>2. \A r \in Ranks : live[r] <=> r < world
    BY <2>1, Zenon
  <2> QED BY <2>2 DEF Init, NothingPosted, NotPosted, None, Collective
<1>4. \A r \in Members : pc[r] = "training" /\ ~Started(r)
  BY <1>2, <1>3 DEF Started
<1>5. LiveInv
  BY <1>2, <1>3 DEF LiveInv, Saving, Writing, Collective
<1>6. PaceInv /\ FailInv /\ ResumeInv
  BY <1>4 DEF PaceInv, FailInv, ResumeInv
<1>7. PostInv
  BY <1>3 DEF PostInv
<1>8. SentInv
  <2>1. pc[Primary] \notin Writing \cup {"announce"}
    BY <1>2, <1>4 DEF Writing
  <2> QED BY <1>2, <1>3, <2>1 DEF SentInv
<1>9. PassInv
  <2>1. ASSUME NEW c \in Agreements, NEW r \in Members
        PROVE  ~Passed(r, c)
    BY <1>4, <2>1 DEF Passed, Behind, BehindCapture, Writing
  <2> QED BY <2>1 DEF PassInv
<1>10. BrokenInv
  <2>1. ASSUME NEW s \in Steps
        PROVE  ~Broken(s)
    <3>1. s # None
      BY DEF Steps, None
    <3> QED BY <1>2, <1>3, <3>1 DEF Broken, BrokenAt, Abandoned, Agreements, Collective
  <2> QED BY <2>1 DEF BrokenInv
<1>11. AnnounceInv
  BY <1>2, <1>3, <1>4 DEF AnnounceInv
<1>12. ReturnedSaveIsPublished
  BY <1>2, <1>3 DEF ReturnedSaveIsPublished, Steps
<1> QED
  BY <1>1, <1>5, <1>6, <1>7, <1>8, <1>9, <1>10, <1>11, <1>12 DEF AInv, Agreement

(* Every step preserves AInv. *)
LEMMA AgreementPreserved == AInv /\ [Next]_vars => AInv'
<1> SUFFICES ASSUME AInv, [Next]_vars PROVE AInv'
  OBVIOUS
<1>1. IInv'
  BY NextPreserves DEF AInv
<1>2. CASE Next
  <2>1. Agreement'
    BY <1>2, OptimizerStepAgrees, ContributionAgrees, PropagateAgrees, PrimaryWritesAgree,
       AbandonAgrees, AnnounceAgrees, LearnOutcomeAgrees, LoadAgrees, RestoreStreamAgrees,
       StopAgrees, DamageAgrees, RestartAgrees
    DEF Next, RankStep, PrimaryStep, FaultStep
  <2> QED BY <1>1, <2>1 DEF AInv
<1>3. CASE UNCHANGED vars
  <2>1. /\ UNCHANGED <<world, source, live, killed, pc, step, posted, disk>>
        /\ Members' = Members
    BY <1>3 DEF vars, jobVars, rankVars, fileVars, Members
  <2>2. /\ LiveInv' /\ PaceInv' /\ PostInv' /\ SentInv' /\ PassInv' /\ BrokenInv' /\ FailInv'
    BY <2>1
    DEF AInv, Agreement, LiveInv, PaceInv, PostInv, SentInv, PassInv, BrokenInv, FailInv,
        Started, Passed, Broken, BrokenAt, Abandoned
  <2>3. AnnounceInv' /\ ReturnedSaveIsPublished' /\ ResumeInv'
    BY <2>1
    DEF AInv, Agreement, AnnounceInv, ReturnedSaveIsPublished, ResumeInv, Exists
  <2> QED BY <1>1, <2>2, <2>3 DEF AInv, Agreement
<1> QED
  BY <1>2, <1>3

(* In every behaviour the ranks agree, in the sense of AInv.                *)
THEOREM AgreementInvariance == Spec => []AInv
<1>1. Init => AInv
  BY InitAgrees
<1>2. AInv /\ [Next]_vars => AInv'
  BY AgreementPreserved
<1> QED
  BY <1>1, <1>2, PTL DEF Spec

(* manager.save returns on no rank before os.replace has published the      *)
(* directory: every save point a rank has trained past is on disk.          *)
THEOREM SaveReturnsPublished == Spec => []ReturnedSaveIsPublished
<1>1. AInv => ReturnedSaveIsPublished
  BY DEF AInv, Agreement
<1> QED
  BY <1>1, AgreementInvariance, PTL

(* A member that failed after training shares its step with every member:   *)
(* the save at it has failed.                                               *)
LEMMA FailureIsShared ==
  ASSUME AInv, ~killed, NEW q \in Members, pc[q] = "failed",
         NEW r \in Members, Started(r)
  PROVE  \E s \in Steps : Broken(s)
<1>1. \A h \in Members : live[h]
  BY DEF AInv, Agreement, PaceInv
<1> QED
  BY <1>1 DEF AInv, Agreement, FailInv

(* propagate_rank_failure and propagate_primary_failure: while no process   *)
(* is killed, no rank trains on from a save that raised on another.         *)
THEOREM SaveOutcomeAgreed == Spec => []SaveAgreement
<1>1. AInv => SaveAgreement
  <2> SUFFICES ASSUME AInv, ~killed, NEW q \in Members, NEW r \in Members,
                      pc[q] = "failed", live[q], 0 < step[q], source < step[q]
               PROVE  step[r] <= step[q] /\ (step[r] = step[q] => pc[r] # "training")
    BY DEF SaveAgreement
  <2>1. PICK s \in Steps : Broken(s)
    BY FailureIsShared DEF Started
  <2>2. step[r] = s /\ step[q] = s /\ pc[r] # "training"
    BY <2>1 DEF AInv, Agreement, BrokenInv
  <2> QED BY <2>1, <2>2 DEF Steps
<1> QED
  BY <1>1, AgreementInvariance, PTL

(* The collectives of a save: while no process is killed, a rank that       *)
(* raised has joined the collective any peer still waits in.                *)
THEOREM NoPeerIsStranded == Spec => []NoStrandedPeer
<1>1. AInv => NoStrandedPeer
  <2> SUFFICES ASSUME AInv, ~killed, NEW q \in Members, NEW r \in Members,
                      pc[q] = "failed", pc[r] \in Collective,
                      pc[r] = "outcome" => q = Primary
               PROVE  posted[pc[r]][q].step = step[r]
    BY DEF NoStrandedPeer, Contributed
  <2>1. Started(r)
    BY SavingFacts DEF Saving
  <2>2. PICK s \in Steps : Broken(s)
    BY <2>1, FailureIsShared
  <2>3. step[r] = s /\ r \in Ranks /\ s \in Nat
    BY <2>2, RankFacts DEF AInv, Agreement, BrokenInv, IInv, Steps
  <2>4. CASE \E c \in Agreements : BrokenAt(c, s)
    <3>1. PICK c \in Agreements : BrokenAt(c, s)
      BY <2>4
    <3>2. ~Passed(r, c)
      BY <2>3, <3>1 DEF BrokenAt, AInv, Agreement, PassInv
    <3>3. posted[c][r].step = s
      BY <3>1 DEF BrokenAt
    <3>4. pc[r] = c
      BY <2>3, <3>2, <3>3
      DEF Agreements, Passed, Behind, BehindCapture, Collective, AInv, Agreement, PostInv
    <3> QED BY <2>3, <3>1, <3>4 DEF BrokenAt
  <2>5. CASE Abandoned(s)
    <3>1. posted["gatherSync"][r].step = s
      BY <2>5 DEF Abandoned
    <3>2. pc[r] \in {"gatherSync", "outcome"}
      BY <2>3, <3>1 DEF Collective, AInv, Agreement, PostInv
    <3> QED BY <2>3, <2>5, <3>2 DEF Abandoned
  <2> QED BY <2>2, <2>4, <2>5 DEF Broken
<1> QED
  BY <1>1, AgreementInvariance, PTL

(* TrainEngine.resume, CheckpointManager.load and the sources' topology     *)
(* check: the parameters, optimizer state and runtime state a rank goes on  *)
(* with were saved together, at the step it resumes at, by as many ranks.   *)
THEOREM ResumesSnapshot == Spec => ResumesWhatWasSaved
<1> DEFINE Coherent == \A r \in Ranks :
             pc[r] = "resumed" /\ pc'[r] = "training"
               => Snapshot(disk[source], step[r], world) /\ disk[source].damaged = {}
<1>1. AInv /\ [Next]_vars => [Coherent]_vars
  <2> SUFFICES ASSUME AInv, Next, NEW r \in Ranks, pc[r] = "resumed", pc'[r] = "training"
               PROVE  Snapshot(disk[source], step[r], world) /\ disk[source].damaged = {}
    BY DEF vars
  <2>1. /\ r \in Members /\ source \in Steps /\ step[r] = source
        /\ Exists(source) /\ (step[r] < MaxSteps => disk[source].damaged = {})
    BY DEF AInv, Agreement, LiveInv, ResumeInv
  <2>2. RestoreStream(r)
    <3>1. ASSUME NEW w \in Worlds, NEW t \in State, Restart(w, t)
          PROVE  FALSE
      <4>1. t # None
        BY <2>1, <3>1 DEF Restart, MayResume, Published, Steps, None
      <4> QED BY <3>1, <4>1 DEF Restart
    <3>2. pc \in [Ranks -> Points]
      BY DEF AInv, IInv, TypeOK
    <3>3. ASSUME NEW q \in Members,
                 \/ RankStep(q) \/ PeerLost(q) \/ Kill(q)
                 \/ CaptureRuntimeRaises(q) \/ CaptureAdapterRaises(q) \/ LoadRaises(q)
          PROVE  RestoreStream(r)
      <4>1. q = r \/ pc'[r] = pc[r]
        BY <3>2, <3>3
        DEF RankStep, OptimizerStep, CaptureRuntime, CaptureRuntimeRaises, CaptureAdapter,
            CaptureAdapterRaises, PropagateRankFailure, SendRuntime, LearnOutcome, Load,
            LoadRejects, LoadRaises, RestoreStream, Kill, PeerLost
      <4>2. RankStep(r) \/ PeerLost(r) \/ Kill(r)
            \/ CaptureRuntimeRaises(r) \/ CaptureAdapterRaises(r) \/ LoadRaises(r)
        BY <3>3, <4>1
      <4>3. ~PeerLost(r) /\ ~Kill(r)
        BY <3>2 DEF PeerLost, Kill, Collective
      <4> QED
        BY <4>2, <4>3
        DEF RankStep, OptimizerStep, CaptureRuntime, CaptureRuntimeRaises, CaptureAdapter,
            CaptureAdapterRaises, PropagateRankFailure, SendRuntime, LearnOutcome, Load,
            LoadRejects, LoadRaises
    <3>4. PrimaryStep \/ WriteRaises \/ (\E s \in Steps, f \in Files : Damage(s, f)) => FALSE
      <4>1. ASSUME PrimaryStep \/ WriteRaises
            PROVE  FALSE
        <5>1. pc[Primary] # "resumed" /\ pc' = [pc EXCEPT ![Primary] = pc'[Primary]]
          BY <3>2, <4>1, RankFacts
          DEF PrimaryStep, ReceiveRuntimes, RefuseOverwrite, WriteRaises, AbandonSave,
              PrepareStaging, WriteModel, WriteOptimizer, WriteRuntime, WriteManifest,
              Publish, AnnounceSuccess, Writing, AInv, IInv
        <5> QED BY <3>2, <5>1
      <4>2. \A s \in Steps, f \in Files : Damage(s, f) => pc' = pc
        BY DEF Damage, rankVars
      <4> QED BY <4>1, <4>2
    <3> QED BY <3>1, <3>3, <3>4 DEF Next, FaultStep
  <2>3. step[r] < MaxSteps /\ StreamAccepts(disk[source])
    BY <2>2 DEF RestoreStream, AInv, IInv, TypeOK
  <2>4. PICK w \in Worlds : Snapshot(disk[source], source, w)
    BY <2>1 DEF AInv, IInv, PublishedIsSnapshot, Published
  <2>5. w = world
    BY <2>3, <2>4 DEF Snapshot, StreamAccepts
  <2> QED BY <2>1, <2>3, <2>4, <2>5
<1>2. [Coherent]_vars => [\A r \in Ranks :
             pc[r] = "resumed" /\ pc'[r] = "training"
               => /\ Snapshot(disk[source], step[r], world)
                  /\ disk[source].damaged = {}]_vars
  OBVIOUS
<1> HIDE DEF Coherent
<1> QED
  BY <1>1, <1>2, AgreementInvariance, PTL DEF Spec, ResumesWhatWasSaved

-----------------------------------------------------------------------------
(* The save protocol implements CheckpointStore: every step of the protocol *)
(* and of its environment is a step of the store or is invisible in it.     *)

(* The store speaks of the same ranks, members and steps.                   *)
LEMMA SameNames ==
  /\ Store!Ranks = Ranks /\ Store!Steps = Steps /\ Store!Members = Members
  /\ Store!None = None
BY DEF Store!Ranks, Ranks, Store!Steps, Steps, Store!Members, Members, Store!None, None

(* A rank's abstract position is its step once it is live.                  *)
LEMMA PositionOf ==
  ASSUME NEW r \in Ranks
  PROVE  AbstractPosition[r] = IF live[r] THEN step[r] ELSE None
BY DEF AbstractPosition

(* What a directory without damage is in the store.                         *)
LEMMA IntactEntry ==
  ASSUME NEW d, d.damaged = {}
  PROVE  [world |-> d.runtime.world, states |-> d.runtime.states, intact |-> d.damaged = {}]
           = [world |-> d.runtime.world, states |-> d.runtime.states, intact |-> TRUE]
<1>1. (d.damaged = {}) = TRUE
  BY Zenon
<1> QED BY <1>1, Zenon

(* The directories that exist are the checkpoints of the store: what is     *)
(* published records at least one rank.                                     *)
LEMMA SavedIsPublished ==
  ASSUME IInv
  PROVE  /\ \A s \in Steps : AbstractStore[s] # Store!NoCheckpoint <=> Exists(s)
         /\ Store!Saved = Published
<1>1. ASSUME NEW s \in Steps, ~Exists(s)
      PROVE  AbstractStore[s] = Store!NoCheckpoint
  <2>1. /\ disk[s].damaged = {}
        /\ disk[s].runtime.world = 0
        /\ disk[s].runtime.states = [r \in Ranks |-> None]
    BY <1>1 DEF Exists, EmptyDirectory, NoRuntime
  <2>2. AbstractStore[s] = [world |-> disk[s].runtime.world,
                            states |-> disk[s].runtime.states, intact |-> TRUE]
    BY <2>1, IntactEntry DEF AbstractStore
  <2> QED BY <2>1, <2>2, SameNames DEF Store!NoCheckpoint
<1>2. ASSUME NEW s \in Steps, Exists(s)
      PROVE  AbstractStore[s] # Store!NoCheckpoint
  <2>1. PICK w \in Worlds : Snapshot(disk[s], s, w)
    BY <1>2 DEF IInv, PublishedIsSnapshot, Published
  <2>2. disk[s].runtime.world = w /\ w # 0
    BY <2>1, ConstantsAssumption DEF Snapshot
  <2> QED BY <2>2 DEF AbstractStore, Store!NoCheckpoint
<1> QED
  BY <1>1, <1>2, SameNames DEF Store!Saved, Published

(* The initial states are those of the empty store.                         *)
LEMMA RefinesInit ==
  Init => Store!StoreInit
<1> SUFFICES ASSUME Init PROVE Store!StoreInit
  OBVIOUS
<1>1. AbstractPosition = [r \in Ranks |-> IF r < world THEN 0 ELSE None]
  BY DEF Init, AbstractPosition
<1>2. AbstractStore = [s \in Steps |-> Store!NoCheckpoint]
  BY SameNames
  DEF Init, AbstractStore, Store!NoCheckpoint, EmptyDirectory, NoRuntime
<1> QED
  BY <1>1, <1>2, SameNames DEF Init, Store!StoreInit

(* An optimizer step moves one rank, behind none of the others.             *)
LEMMA RefinesOptimizerStep ==
  ASSUME AInv, Next, NEW r \in Members, OptimizerStep(r)
  PROVE  Store!Train(r)
<1>1. /\ Members \subseteq Ranks /\ step \in [Ranks -> Steps] /\ live \in [Ranks -> BOOLEAN]
      /\ source \in Int
  BY RankFacts DEF AInv, IInv, TypeOK, State, Steps, None
<1>2. /\ pc[r] = "training" /\ step[r] < MaxSteps
      /\ step' = [step EXCEPT ![r] = step[r] + 1]
      /\ \A q \in Members : (pc[q] = "training" /\ step[q] = step[r]) \/ step[q] = step[r] + 1
      /\ UNCHANGED <<world, source, live, disk>>
  BY <1>1 DEF OptimizerStep, Entered, jobVars, fileVars
<1>3. live[r] /\ source <= step[r] /\ \A q \in Ranks : step[q] \in Nat
  BY <1>1, <1>2 DEF AInv, Agreement, LiveInv, Steps
<1>4. \A q \in Members : live[q]
  BY <1>1, <1>2, <1>3 DEF AInv, Agreement, LiveInv
<1>5. /\ AbstractPosition[r] # None /\ AbstractPosition[r] < MaxSteps
      /\ \A q \in Members : AbstractPosition[q] \in {AbstractPosition[r], AbstractPosition[r] + 1}
  BY <1>1, <1>2, <1>3, <1>4, PositionOf DEF None
<1>6. AbstractPosition' = [AbstractPosition EXCEPT ![r] = AbstractPosition[r] + 1]
  BY <1>1, <1>2, <1>3 DEF AbstractPosition
<1>7. AbstractStore' = AbstractStore
  BY <1>2 DEF AbstractStore
<1> QED
  BY <1>2, <1>5, <1>6, <1>7, SameNames DEF Store!Train

(* The rename makes the checkpoint of a step appear, at which every member  *)
(* is.                                                                      *)
LEMMA RefinesPublish ==
  ASSUME AInv, Next, Publish
  PROVE  Store!SaveStep(step[Primary])
<1> DEFINE s == step[Primary]
<1>1. /\ Primary \in Members /\ Primary \in Ranks /\ Members \subseteq Ranks
      /\ step \in [Ranks -> Steps] /\ disk \in [Steps -> Directory] /\ s \in Steps
      /\ \A r \in Ranks : step[r] \in Nat
  BY RankFacts DEF AInv, IInv, TypeOK, Steps
<1>2. /\ pc[Primary] = "publish" /\ ~Exists(s)
      /\ disk' = [disk EXCEPT ![s] = staging]
      /\ Snapshot(staging, s, world) /\ staging.damaged = {}
      /\ UNCHANGED <<world, source, live, step>>
  BY DEF Publish, AInv, IInv, Protocol, StagingInv, jobVars
<1>3. s \notin Store!Saved
  BY <1>2, SavedIsPublished DEF AInv, Published
<1>4. \A r \in Members : AbstractPosition[r] = s
  <2>1. pc[Primary] \in Saving /\ pc[Primary] \in Writing
    BY <1>2 DEF Saving, Writing
  <2>2. \A r \in Members : live[r]
    BY <1>1, <2>1, SavingFacts
  <2>3. \A r \in Members : step[r] = s
    BY <1>1, <2>1
    DEF AInv, IInv, Protocol, StagingInv, OutcomeInv, WaitingInv, Collective
  <2> QED BY <1>1, <2>2, <2>3, PositionOf
<1>5. AbstractStore' = [AbstractStore EXCEPT ![s] = Store!CheckpointOf(world, s)]
  <2>1. Store!CheckpointOf(world, s) =
          [world |-> staging.runtime.world, states |-> staging.runtime.states,
           intact |-> staging.damaged = {}]
    BY <1>2, IntactEntry, SameNames DEF Store!CheckpointOf, Snapshot
  <2> QED BY <1>1, <1>2, <2>1 DEF AbstractStore
<1>6. AbstractPosition' = AbstractPosition
  BY <1>2 DEF AbstractPosition
<1> QED
  BY <1>2, <1>3, <1>4, <1>5, <1>6, SameNames DEF Store!SaveStep

(* Damage from outside spoils a checkpoint that is there.                   *)
LEMMA RefinesDamage ==
  ASSUME AInv, Next, NEW s \in Steps, NEW f \in Files, Damage(s, f)
  PROVE  Store!Spoil(s)
<1>1. /\ Exists(s) /\ disk \in [Steps -> Directory]
      /\ disk' = [disk EXCEPT ![s] = [disk[s] EXCEPT !.damaged = @ \cup {f}]]
      /\ UNCHANGED <<world, source, live, step>>
  BY DEF Damage, AInv, IInv, TypeOK, jobVars, rankVars
<1>2. s \in Store!Saved
  BY <1>1, SavedIsPublished DEF AInv, Published
<1>3. /\ disk'[s].runtime = disk[s].runtime /\ disk'[s].damaged # {}
      /\ \A t \in Steps : t # s => disk'[t] = disk[t]
  BY <1>1 DEF Directory
<1>4. AbstractStore' = [AbstractStore EXCEPT ![s].intact = FALSE]
  BY <1>3 DEF AbstractStore
<1>5. AbstractPosition' = AbstractPosition
  BY <1>1 DEF AbstractPosition
<1> QED
  BY <1>1, <1>2, <1>4, <1>5 DEF Store!Spoil

(* A restart starts over from an empty store, or from a checkpoint in it.   *)
LEMMA RefinesRestart ==
  ASSUME AInv, Next, NEW w \in Worlds, NEW s \in State, Restart(w, s)
  PROVE  \/ Store!StartOver(w)
         \/ s \in Steps /\ Store!StartFrom(w, s)
<1>1. AbstractStore' = AbstractStore
  BY DEF Restart, fileVars, AbstractStore
<1>2. CASE s = None
  <2>1. Store!Saved = {}
    BY <1>2, SavedIsPublished DEF AInv, Restart, MayResume, Published, Steps, None
  <2>2. AbstractPosition' = [r \in Ranks |-> IF r < w THEN 0 ELSE None]
    BY <1>2 DEF Restart, AbstractPosition
  <2> QED BY <1>1, <1>2, <2>1, <2>2, SameNames DEF Restart, Store!StartOver
<1>3. CASE s # None
  <2>1. s \in Store!Saved /\ s \in Steps
    BY <1>3, SavedIsPublished DEF AInv, Restart, MayResume, Published
  <2>2. AbstractPosition' = [r \in Ranks |-> None]
    BY <1>3 DEF Restart, AbstractPosition
  <2> QED BY <1>1, <2>1, <2>2, SameNames DEF Restart, Store!StartFrom
<1> QED
  BY <1>2, <1>3

(* A rank whose stream accepts the state it was saved with continues from   *)
(* an intact checkpoint of a job of this size; one that refuses it is seen  *)
(* nowhere.                                                                 *)
LEMMA RefinesRestoreStream ==
  ASSUME AInv, Next, NEW r \in Members, RestoreStream(r)
  PROVE  Store!Continue(r) \/ UNCHANGED Store!storeVars
<1>1. /\ r \in Ranks /\ r < world /\ source \in Steps /\ None \notin Steps
      /\ live \in [Ranks -> BOOLEAN]
  BY RankFacts DEF AInv, IInv, TypeOK, RestoreStream, Agreement, LiveInv
<1>2. /\ pc[r] = "resumed" /\ step[r] < MaxSteps /\ ~live[r] /\ step[r] = source
      /\ Exists(source) /\ disk[source].damaged = {}
      /\ live' = [live EXCEPT ![r] = StreamAccepts(disk[source])]
      /\ UNCHANGED <<world, source, step, disk>>
  BY <1>1 DEF RestoreStream, AInv, Agreement, LiveInv, ResumeInv, fileVars
<1>3. AbstractStore' = AbstractStore
  BY <1>2 DEF AbstractStore
<1>4. CASE StreamAccepts(disk[source])
  <2>1. PICK w \in Worlds : Snapshot(disk[source], source, w)
    BY <1>1, <1>2 DEF AInv, IInv, PublishedIsSnapshot, Published
  <2>2. AbstractStore[source] = Store!CheckpointOf(world, source)
    <3>1. AbstractStore[source] = [world |-> disk[source].runtime.world,
                                   states |-> disk[source].runtime.states, intact |-> TRUE]
      BY <1>1, <1>2, IntactEntry DEF AbstractStore
    <3> QED BY <1>4, <2>1, <3>1, SameNames DEF Store!CheckpointOf, StreamAccepts, Snapshot
  <2>3. AbstractStore[source].states[r] = source
    BY <1>1, <2>2, SameNames DEF Store!CheckpointOf
  <2>4. AbstractPosition[r] = None
    BY <1>1, <1>2, PositionOf
  <2>5. AbstractPosition' = [AbstractPosition EXCEPT ![r] = source]
    BY <1>1, <1>2, <1>4 DEF AbstractPosition
  <2> QED BY <1>1, <1>2, <1>3, <2>2, <2>3, <2>4, <2>5, SameNames DEF Store!Continue
<1>5. CASE ~StreamAccepts(disk[source])
  <2>1. AbstractPosition' = AbstractPosition
    BY <1>1, <1>2, <1>5 DEF AbstractPosition, StreamAccepts
  <2> QED BY <1>2, <1>3, <2>1 DEF Store!storeVars
<1> QED
  BY <1>4, <1>5

(* Loading changes the step of a rank that has no position yet.             *)
LEMMA RefinesLoad ==
  ASSUME AInv, Next, NEW r \in Members, Load(r)
  PROVE  UNCHANGED Store!storeVars
<1>1. /\ r \in Ranks /\ ~live[r] /\ step \in [Ranks -> Steps]
      /\ step' = [step EXCEPT ![r] = disk[source].manifest.step]
      /\ UNCHANGED <<world, source, live, disk>>
  BY RankFacts
  DEF Load, AInv, IInv, TypeOK, Agreement, LiveInv, jobVars, fileVars
<1>2. AbstractPosition' = AbstractPosition
  BY <1>1 DEF AbstractPosition
<1> QED
  BY <1>1, <1>2 DEF Store!storeVars, AbstractStore

(* Every step of the protocol is a step of the store or invisible in it.    *)
LEMMA RefinesNext ==
  AInv /\ [Next]_vars => [Store!StoreNext]_(Store!storeVars)
<1> SUFFICES ASSUME AInv, [Next]_vars
             PROVE  Store!StoreNext \/ UNCHANGED Store!storeVars
  OBVIOUS
<1>1. ASSUME UNCHANGED <<world, source, live, step, disk>>
      PROVE  UNCHANGED Store!storeVars
  BY <1>1 DEF Store!storeVars, AbstractPosition, AbstractStore
<1>2. CASE UNCHANGED vars
  BY <1>1, <1>2 DEF vars, jobVars, rankVars, fileVars
<1>3. ASSUME Next, NEW r \in Members, OptimizerStep(r)
      PROVE  Store!StoreNext
  BY <1>3, RefinesOptimizerStep, SameNames DEF Store!StoreNext
<1>4. ASSUME Next, Publish
      PROVE  Store!StoreNext
  <2>1. step[Primary] \in Steps
    BY RankFacts DEF AInv, IInv, TypeOK
  <2> QED BY <1>4, <2>1, RefinesPublish, SameNames DEF Store!StoreNext
<1>5. ASSUME Next, NEW s \in Steps, NEW f \in Files, Damage(s, f)
      PROVE  Store!StoreNext
  BY <1>5, RefinesDamage, SameNames DEF Store!StoreNext
<1>6. ASSUME Next, NEW w \in Worlds, NEW s \in State, Restart(w, s)
      PROVE  Store!StoreNext
  BY <1>6, RefinesRestart, SameNames DEF Store!StoreNext
<1>7. ASSUME Next, NEW r \in Members, RestoreStream(r)
      PROVE  Store!StoreNext \/ UNCHANGED Store!storeVars
  BY <1>7, RefinesRestoreStream, SameNames DEF Store!StoreNext
<1>8. ASSUME NEW r \in Members,
             \/ CaptureRuntime(r) \/ CaptureRuntimeRaises(r)
             \/ CaptureAdapter(r) \/ CaptureAdapterRaises(r)
             \/ SendRuntime(r) \/ LearnOutcome(r)
             \/ LoadRejects(r) \/ LoadRaises(r) \/ PeerLost(r) \/ Kill(r)
             \/ \E c \in {"captureSync", "adapterSync"} : PropagateRankFailure(r, c)
      PROVE  UNCHANGED Store!storeVars
  BY <1>1, <1>8
  DEF CaptureRuntime, CaptureRuntimeRaises, CaptureAdapter, CaptureAdapterRaises,
      SendRuntime, LearnOutcome, LoadRejects, LoadRaises, PeerLost, Kill,
      PropagateRankFailure, jobVars, fileVars
<1>9. ASSUME \/ ReceiveRuntimes \/ RefuseOverwrite \/ PrepareStaging \/ WriteModel
             \/ WriteOptimizer \/ WriteRuntime \/ WriteManifest \/ AnnounceSuccess
             \/ WriteRaises
      PROVE  UNCHANGED Store!storeVars
  BY <1>1, <1>9
  DEF ReceiveRuntimes, RefuseOverwrite, PrepareStaging, WriteModel, WriteOptimizer,
      WriteRuntime, WriteManifest, AnnounceSuccess, WriteRaises, jobVars, fileVars
<1> QED
  BY <1>2, <1>3, <1>4, <1>5, <1>6, <1>7, <1>8, <1>9, RefinesLoad
  DEF Next, RankStep, PrimaryStep, FaultStep

(* CheckpointManager.save and load with every crash, failure and restart    *)
(* around them implement the abstract store: checkpoints appear atomically  *)
(* and record one position of all ranks, and a job only goes on from an     *)
(* intact one of its own size.                                              *)
THEOREM Refinement == Spec => ImplementsStore
<1>1. Init => Store!StoreInit
  BY RefinesInit
<1>2. AInv /\ [Next]_vars => [Store!StoreNext]_(Store!storeVars)
  BY RefinesNext
<1> QED
  BY <1>1, <1>2, AgreementInvariance, PTL DEF Spec, ImplementsStore, Store!StoreSpec
=============================================================================
