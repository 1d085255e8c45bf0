---------------------------- MODULE TrainEngine -----------------------------
(***************************************************************************)
(* TrainEngine._optimizer_step (runtime/loop/engine.py) on every rank of a *)
(* data-parallel job: microbatches, gradient accumulation, the             *)
(* gradient synchronisation and normalisation of the DDP execution backend *)
(* (runtime/execution/torch_backends.py), the failures that are agreed     *)
(* between ranks and those that are not, and the end of train().           *)
(* Saving itself is module Checkpoint; here it is one record.              *)
(*                                                                         *)
(* A microbatch is its loss numerator and denominator: the gradient of a   *)
(* numerator is the numerator itself, so that a gradient is a number and   *)
(* an update of the parameters a fraction.                                 *)
(***************************************************************************)
EXTENDS Integers, FiniteSetsExt, SequencesExt

CONSTANTS
  MaxWorld,      \* the largest world size
  Worlds,        \* the world sizes considered
  Accumulation,  \* RunSpec.gradient_accumulation_steps
  TargetSteps,   \* the step train() runs to
  EverySteps,    \* RunSpec.checkpoint.every_steps
  EvidenceEvery, \* RunSpec.update_evidence.every_steps
  Microbatches,  \* the microbatches a stream may give
  MaxFaults      \* bound: rank-local failures in a behaviour

(* overflow: the gradient of the microbatch is not finite. *)
MicrobatchType == [num : Int, den : Nat \ {0}, overflow : BOOLEAN]

ASSUME EngineAssumption ==
  /\ MaxWorld \in Nat \ {0}
  /\ Worlds \subseteq 1..MaxWorld
  /\ Accumulation \in Nat \ {0}
  /\ TargetSteps \in Nat
  /\ EverySteps \in Nat \ {0}
  /\ EvidenceEvery \in Nat \ {0}
  /\ Microbatches \subseteq MicrobatchType
  /\ MaxFaults \in Nat

VARIABLES
  world,  \* the world size
  inert,  \* the steps, and the gradients, zero or not, that leave a required
          \* parameter group unchanged
  pc,     \* the control point of each rank
  step,   \* TrainEngine.global_step
  micro,  \* TrainEngine.micro_step
  grad,   \* the accumulated gradient of each rank's parameters
  denom,  \* local_normalization_denominator
  mail,   \* what each rank contributed to its collectives so far, in order
  given,  \* history: the microbatches each rank's stream gave
  update, \* history: the updates applied to each rank's parameters
  saves,  \* history: step and stream position of every checkpoint
  faults

vars == <<world, inert, pc, step, micro, grad, denom, mail, given, update, saves, faults>>

Ranks   == 0..MaxWorld-1
Members == 0..world-1
Primary == 0

(* A gradient is sum / over. *)
NoGradient == [sum |-> 0, over |-> 1, overflow |-> FALSE]

Waiting == {"agree", "synchronize", "normalize", "losses", "metrics"}
Points  == {"fetch", "forward", "apply", "report", "log", "done", "raised"} \cup Waiting

-----------------------------------------------------------------------------
(* A collective is entered by every rank of the job and returns to each     *)
(* what all have contributed.  The collectives a rank enters are counted;   *)
(* nothing else tells one from another.                                     *)

Enter(r, kind, value) ==
  mail' = [mail EXCEPT ![r] = Append(@, [kind |-> kind, value |-> value])]

Complete(r) == \A m \in Members : Len(mail[m]) >= Len(mail[r])

Contributed(r, m) == mail[m][Len(mail[r])].value

(* The sum of an integer that f gives for every member's contribution. *)
SumOver(r, f(_)) == MapThenSumSet(LAMBDA m : f(Contributed(r, m)), Members)

Goto(r, point) == pc' = [pc EXCEPT ![r] = point]

Fault == faults < MaxFaults /\ faults' = faults + 1

-----------------------------------------------------------------------------
EvidenceSteps == {s \in 1..TargetSteps : s % EvidenceEvery = 0}

Init ==
  /\ world \in Worlds
  /\ inert \in SUBSET (EvidenceSteps \X BOOLEAN)
  /\ pc = [r \in Ranks |-> IF r < world /\ TargetSteps > 0 THEN "fetch" ELSE "done"]
  /\ step = [r \in Ranks |-> 0]
  /\ micro = [r \in Ranks |-> 0]
  /\ grad = [r \in Ranks |-> NoGradient]
  /\ denom = [r \in Ranks |-> 0]
  /\ mail = [r \in Ranks |-> <<>>]
  /\ given = [r \in Ranks |-> <<>>]
  /\ update = [r \in Ranks |-> <<>>]
  /\ saves = {}
  /\ faults = 0

(* Fault for Fetch: only a rank that failed enters propagate_rank_failure. *)
FetchUnannounced(r) ==
  /\ pc[r] = "fetch"
  /\ \E b \in Microbatches : given' = [given EXCEPT ![r] = Append(@, b)]
  /\ Goto(r, "forward")
  /\ UNCHANGED <<world, inert, step, micro, grad, denom, mail, update, saves, faults>>

(* A batch is taken from the stream and moved to the device; what may have  *)
(* raised is contributed to propagate_rank_failure.                         *)
Fetch(r) ==
  /\ pc[r] = "fetch"
  /\ \E b \in Microbatches : given' = [given EXCEPT ![r] = Append(@, b)]
  /\ Enter(r, "agree", "batch")
  /\ Goto(r, "agree")
  /\ UNCHANGED <<world, inert, step, micro, grad, denom, update, saves, faults>>

(* The stream fails, or moving the batch it gave does.  Alone, a rank       *)
(* raises its failure as it is.                                             *)
FetchFails(r) ==
  /\ pc[r] = "fetch"
  /\ Fault
  /\ \/ UNCHANGED given
     \/ \E b \in Microbatches : given' = [given EXCEPT ![r] = Append(@, b)]
  /\ IF world = 1 THEN Goto(r, "raised") /\ UNCHANGED mail
                  ELSE Goto(r, "agree") /\ Enter(r, "agree", "failed")
  /\ UNCHANGED <<world, inert, step, micro, grad, denom, update, saves>>

(* propagate_rank_failure returns, or raises the first rank's failure. *)
Agree(r) ==
  /\ pc[r] = "agree" /\ Complete(r)
  /\ Goto(r, IF \E m \in Members : Contributed(r, m) = "failed"
             THEN "raised" ELSE "forward")
  /\ UNCHANGED <<world, inert, step, micro, grad, denom, mail, given, update, saves, faults>>

(* Fault for Forward: the last microbatch is not seen as the last. *)
ForwardOneMore(r) ==
  /\ pc[r] = "forward"
  /\ grad' = [grad EXCEPT ![r].sum = @ + Last(given[r]).num]
  /\ denom' = [denom EXCEPT ![r] = @ + Last(given[r]).den]
  /\ IF micro[r] = Accumulation
     THEN Enter(r, "synchronize", grad'[r]) /\ Goto(r, "synchronize") /\ UNCHANGED micro
     ELSE micro' = [micro EXCEPT ![r] = @ + 1] /\ Goto(r, "fetch") /\ UNCHANGED mail
  /\ UNCHANGED <<world, inert, step, given, update, saves, faults>>

(* execute_forward_plan and backward.  The gradient is accumulated; at the  *)
(* last microbatch backward also enters DDP's all-reduce, which             *)
(* accumulation_context has held back until then.                           *)
Forward(r) ==
  /\ pc[r] = "forward"
  /\ LET b == Last(given[r])
         g == [grad[r] EXCEPT !.sum = @ + b.num,
                              !.overflow = @ \/ b.overflow]
     IN  /\ grad' = [grad EXCEPT ![r] = g]
         /\ denom' = [denom EXCEPT ![r] = @ + b.den]
         /\ IF micro[r] = Accumulation - 1
            THEN /\ Enter(r, "synchronize", g)
                 /\ Goto(r, "synchronize")
                 /\ UNCHANGED micro
            ELSE /\ micro' = [micro EXCEPT ![r] = @ + 1]
                 /\ Goto(r, "fetch")
                 /\ UNCHANGED mail
  /\ UNCHANGED <<world, inert, step, given, update, saves, faults>>

(* The model, the objective or a check of the loss raises; no other rank is *)
(* told.                                                                    *)
ForwardFails(r) ==
  /\ pc[r] = "forward"
  /\ Fault
  /\ Goto(r, "raised")
  /\ UNCHANGED <<world, inert, step, micro, grad, denom, mail, given, update, saves>>

(* Fault for Synchronize: the all-reduce is held back at the last microbatch. *)
SynchronizeNot(r) ==
  /\ pc[r] = "synchronize" /\ Complete(r)
  /\ grad' = [grad EXCEPT ![r].over = world]
  /\ Enter(r, "normalize", denom[r])
  /\ Goto(r, "normalize")
  /\ UNCHANGED <<world, inert, step, micro, denom, given, update, saves, faults>>

(* DDP's all-reduce leaves every rank the mean gradient; the rank then      *)
(* enters the reduction of the denominators.                                *)
Synchronize(r) ==
  /\ pc[r] = "synchronize" /\ Complete(r)
  /\ grad' = [grad EXCEPT ![r] =
                [sum      |-> SumOver(r, LAMBDA g : g.sum),
                 over     |-> world,
                 overflow |-> \E m \in Members : Contributed(r, m).overflow]]
  /\ Enter(r, "normalize", denom[r])
  /\ Goto(r, "normalize")
  /\ UNCHANGED <<world, inert, step, micro, denom, given, update, saves, faults>>

(* The bundle's terms are rejected once backward has returned: a changed    *)
(* weight, or a metric without an aggregation; again on this rank alone.    *)
TermsFail(r) ==
  /\ pc[r] = "synchronize" /\ Complete(r)
  /\ Fault
  /\ Goto(r, "raised")
  /\ UNCHANGED <<world, inert, step, micro, grad, denom, mail, given, update, saves>>

(* Fault for Normalize: the gradient is divided by the rank's own denominator. *)
NormalizeLocally(r) ==
  /\ pc[r] = "normalize" /\ Complete(r)
  /\ grad' = [grad EXCEPT ![r].over = @ * denom[r]]
  /\ Goto(r, IF grad[r].overflow THEN "raised" ELSE "apply")
  /\ UNCHANGED <<world, inert, step, micro, denom, mail, given, update, saves, faults>>

(* normalize_gradients multiplies by world / the global denominator, and    *)
(* clip_grad_norm computes the norm.  One that is not finite aborts the     *)
(* step and drops the gradient.                                             *)
Normalize(r) ==
  /\ pc[r] = "normalize" /\ Complete(r)
  /\ LET total == SumOver(r, LAMBDA d : d)
     IN  IF grad[r].overflow
         THEN /\ grad' = [grad EXCEPT ![r] = NoGradient]
              /\ Goto(r, "raised")
         ELSE /\ grad' = [grad EXCEPT ![r].sum = @ * world,
                                      ![r].over = @ * total]
              /\ Goto(r, "apply")
  /\ UNCHANGED <<world, inert, step, micro, denom, mail, given, update, saves, faults>>

(* optimizer.step, zero_grad and the step counters; then, when it is due,   *)
(* the evidence that the required parameter groups changed, which raises if *)
(* one did not; then the reductions of the loss terms are entered.  What    *)
(* AdamW makes of a step is one function on all ranks, `inert`, but each    *)
(* rank applies it to its own gradient and decides alone.                   *)
Apply(r) ==
  /\ pc[r] = "apply"
  /\ update' = [update EXCEPT ![r] = Append(@, grad[r])]
  /\ grad' = [grad EXCEPT ![r] = NoGradient]
  /\ denom' = [denom EXCEPT ![r] = 0]
  /\ step' = [step EXCEPT ![r] = @ + 1]
  /\ micro' = [micro EXCEPT ![r] = 0]
  /\ IF step[r] + 1 \in EvidenceSteps /\ <<step[r] + 1, grad[r].sum = 0>> \in inert
     THEN Goto(r, "raised") /\ UNCHANGED mail
     ELSE Goto(r, "losses") /\ Enter(r, "losses", "values")
  /\ UNCHANGED <<world, inert, given, saves, faults>>

LossesReduced(r) ==
  /\ pc[r] = "losses" /\ Complete(r)
  /\ Goto(r, "report")
  /\ UNCHANGED <<world, inert, step, micro, grad, denom, mail, given, update, saves, faults>>

(* all_gather_metrics, and the reductions of the step's record after it. *)
Report(r) ==
  /\ pc[r] = "report"
  /\ Enter(r, "metrics", "values")
  /\ Goto(r, "metrics")
  /\ UNCHANGED <<world, inert, step, micro, grad, denom, given, update, saves, faults>>

(* A data metric is not a finite number: all_gather_metrics raises before   *)
(* its collective, on this rank alone.                                      *)
ReportFails(r) ==
  /\ pc[r] = "report"
  /\ Fault
  /\ Goto(r, "raised")
  /\ UNCHANGED <<world, inert, step, micro, grad, denom, mail, given, update, saves>>

Reported(r) ==
  /\ pc[r] = "metrics" /\ Complete(r)
  /\ Goto(r, "log")
  /\ UNCHANGED <<world, inert, step, micro, grad, denom, mail, given, update, saves, faults>>

Position(r) == [step |-> step[r], taken |-> Len(given[r])]

SaveDue(s) == s % EverySteps = 0 \/ s = TargetSteps

(* The event is written, the checkpoint saved when it is due, and the loop  *)
(* of train() goes on or ends.                                              *)
Log(r) ==
  /\ pc[r] = "log"
  /\ saves' = IF SaveDue(step[r]) THEN saves \cup {Position(r)} ELSE saves
  /\ Goto(r, IF step[r] < TargetSteps THEN "fetch" ELSE "done")
  /\ UNCHANGED <<world, inert, step, micro, grad, denom, mail, given, update, faults>>

(* Only the primary has a file to write events to. *)
LogFails(r) ==
  /\ pc[r] = "log" /\ r = Primary
  /\ Fault
  /\ Goto(r, "raised")
  /\ UNCHANGED <<world, inert, step, micro, grad, denom, mail, given, update, saves>>

(* save_checkpoint, called after train() has raised in a job of one rank.   *)
(* CheckpointManager.save refuses when micro_step is not 0.                 *)
SaveAfterFailure(r) ==
  /\ world = 1 /\ pc[r] = "raised"
  /\ micro[r] = 0
  /\ saves' = saves \cup {Position(r)}
  /\ UNCHANGED <<world, inert, pc, step, micro, grad, denom, mail, given, update, faults>>

(* Fault for PeerLost: the process group bounds only the exchange of objects. *)
PeerLostInGather(r) ==
  /\ pc[r] \in {"agree", "metrics"}
  /\ \E m \in Members : pc[m] = "raised" /\ Len(mail[m]) < Len(mail[r])
  /\ Goto(r, "raised")
  /\ UNCHANGED <<world, inert, step, micro, grad, denom, mail, given, update, saves, faults>>

(* A collective that a rank will never enter fails on the others: the       *)
(* process group times out, or the connection is lost.                      *)
PeerLost(r) ==
  /\ pc[r] \in Waiting
  /\ \E m \in Members : pc[m] = "raised" /\ Len(mail[m]) < Len(mail[r])
  /\ Goto(r, "raised")
  /\ UNCHANGED <<world, inert, step, micro, grad, denom, mail, given, update, saves, faults>>

Advance(r) ==
  \/ Fetch(r) \/ FetchFails(r) \/ Agree(r)
  \/ Forward(r) \/ ForwardFails(r)
  \/ Synchronize(r) \/ TermsFail(r) \/ Normalize(r) \/ Apply(r)
  \/ LossesReduced(r) \/ Report(r) \/ ReportFails(r) \/ Reported(r)
  \/ Log(r) \/ LogFails(r) \/ PeerLost(r)

Next == \E r \in Members : Advance(r) \/ SaveAfterFailure(r)

Spec == Init /\ [][Next]_vars

(* Every process runs; the process group bounds every wait.                 *)
Fairness == \A r \in Ranks : WF_vars(r \in Members /\ Advance(r))

FairSpec == Spec /\ Fairness

-----------------------------------------------------------------------------
(* Properties.                                                              *)

GradientType == [sum : Int, over : Nat \ {0}, overflow : BOOLEAN]

(* Types of the variables; no rank is inside a microbatch that does not     *)
(* exist, and every rank's update count is its step.                        *)
TypeOK ==
  /\ world \in Worlds
  /\ inert \subseteq EvidenceSteps \X BOOLEAN
  /\ pc \in [Ranks -> Points]
  /\ step \in [Ranks -> 0..TargetSteps]
  /\ micro \in [Ranks -> 0..Accumulation-1]
  /\ grad \in [Ranks -> GradientType]
  /\ denom \in [Ranks -> Nat]
  /\ given \in [Ranks -> Seq(Microbatches)]
  /\ update \in [Ranks -> Seq(GradientType)]
  /\ saves \subseteq [step : Nat, taken : Nat]
  /\ faults \in 0..MaxFaults

(* The microbatches that went into the s-th update, over all ranks. *)
Batch(s) == {b \in Members \X (((s - 1) * Accumulation + 1)..(s * Accumulation)) :
               b[2] \in DOMAIN given[b[1]]}

(* Every update is the sum of the loss gradients of all microbatches of all *)
(* ranks of its step, divided by the sum of their denominators: neither the *)
(* partition into ranks and microbatches nor an earlier step shows in it.   *)
(* This is what accumulation, DDP's mean and normalize_gradients together   *)
(* promise.                                                                 *)
UpdateIsGlobalMean ==
  \A r \in Members : \A s \in DOMAIN update[r] :
    LET u   == update[r][s]
        num == MapThenSumSet(LAMBDA b : given[b[1]][b[2]].num, Batch(s))
        den == MapThenSumSet(LAMBDA b : given[b[1]][b[2]].den, Batch(s))
    IN  /\ Cardinality(Batch(s)) = world * Accumulation
        /\ u.sum * den = num * u.over
        /\ ~u.overflow

(* All ranks hold the same parameters: the updates of one are the updates   *)
(* of every other, which is at most one behind, whichever ranks failed.     *)
ReplicasAgree ==
  \A r, m \in Members :
    /\ Len(update[r]) <= Len(update[m]) + 1
    /\ \A s \in DOMAIN update[r] \cap DOMAIN update[m] : update[r][s] = update[m][s]

(* The n-th collective of one rank is the n-th collective of every other,   *)
(* whatever failed on the way: no two ranks ever reduce different things    *)
(* into one another; and a failure in preparing a batch, on any rank, lets  *)
(* no rank into the model with that batch: everyone raises at that point.   *)
CollectivesMatch ==
  /\ \A r, m \in Members : \A n \in DOMAIN mail[r] \cap DOMAIN mail[m] :
       mail[r][n].kind = mail[m][n].kind
  /\ \A r, m \in Members : \A n \in DOMAIN mail[r] :
       mail[r][n].kind = "agree" /\ mail[r][n].value = "failed" =>
         /\ Len(mail[m]) <= n
         /\ Len(mail[m]) = n => pc[m] \in {"agree", "raised"}

(* manager.py refuses a checkpoint that is not at a boundary between two    *)
(* optimizer steps: every checkpoint holds a stream that has given exactly  *)
(* the batches its steps used.                                              *)
SavedAtBoundary ==
  \A s \in saves : s.taken = s.step * Accumulation

(* No failure leaves the job hanging: in the end every rank has returned    *)
(* from train() or raised.  Unless one fails alone they need no timeout for *)
(* it: what makes a rank raise, a gradient that is not finite or evidence   *)
(* of no update, makes all raise before the next collective.                *)
EveryRankEnds ==
  /\ <>(\A r \in Members : pc[r] \in {"done", "raised"})
  /\ [](faults = 0 =>
          \A r, m \in Members : pc[r] = "raised" => Len(mail[m]) <= Len(mail[r]))

=============================================================================
