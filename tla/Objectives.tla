----------------------------- MODULE Objectives -----------------------------
(***************************************************************************)
(* What an objective makes of a batch (modules/objectives): the checks     *)
(* before the forward passes, the causal shift, the reduction, and the     *)
(* offline caches of distillation and of DPO (contracts/cache, modules/    *)
(* data/transforms/tensor_cache, modules/objectives/_ops/cache_identity).  *)
(*                                                                         *)
(* Numbers are left out.  What a forward pass computes at a slot is what   *)
(* it has seen there (module Forward); a loss term is what was seen and    *)
(* the token to predict; a cached value is the text and the media it was   *)
(* computed from.  A digest is the value it was made of.                   *)
(***************************************************************************)
EXTENDS Layout

Rows(batch)        == DOMAIN batch.names
Ids(batch, p, r)   == batch.parts[p].inputs.input_ids[r]
Mask(batch, p, r)  == batch.parts[p].inputs.attention_mask[r]
RowLabels(batch, p, r) == batch.parts[p].labels[r]
Width(batch, p)    == Len(RowLabels(batch, p, 1))

(* The labels of a row that are not ignored.                               *)
LabelledIn(labels) == {i \in DOMAIN labels : labels[i] # Ignore}

-----------------------------------------------------------------------------
(* The causal shift and the reductions.                                    *)

(* The slots of a row that predict a supervised token.                     *)
Predictors(batch, p, r) ==
  {i \in 1..Width(batch, p) - 1 : RowLabels(batch, p, r)[i + 1] # Ignore}

CanShift(batch, p, hidden) ==
  /\ Width(batch, p) >= 2
  /\ \A r \in Rows(batch) : Len(hidden[p][r]) = Width(batch, p)

RowTerms(batch, hidden, p, r) ==
  {<<hidden[p][r][i], RowLabels(batch, p, r)[i + 1]>> : i \in Predictors(batch, p, r)}

CanReduce(batch, reduction) ==
  IF reduction = "token_mean"
  THEN \E r \in Rows(batch) : Predictors(batch, "policy", r) # {}
  ELSE \A r \in Rows(batch) : Predictors(batch, "policy", r) # {}

Denominator(batch, reduction) ==
  IF reduction = "token_mean"
  THEN TotalOf([r \in Rows(batch) |-> Cardinality(Predictors(batch, "policy", r))])
  ELSE Len(batch.names)

-----------------------------------------------------------------------------
(* Offline caches.  An entry is bound to the text, the mask, the labels and *)
(* the model inputs it was computed from, to its producer and its branch,  *)
(* as rows of the width the producer gave them.                            *)

Identity(ids, mask, labels, producer, branch, inputs) ==
  [ids |-> ids, mask |-> mask, at |-> LabelledIn(labels),
   targets |-> [i \in LabelledIn(labels) |-> labels[i]],
   producer |-> producer, branch |-> branch, inputs |-> inputs]

Seen(inputs, n) ==
  <<SubSeq(inputs.input_ids, 1, n),
    [f \in DOMAIN inputs \cap {"pixel_values", "video_values"} |-> inputs[f]]>>

(* Teacher logits: what was seen at each position.  Reference log-probs: of *)
(* each token, so with what was seen up to it; or of each but the first.   *)
CachedValues(inputs, objective, form) ==
  LET width == Len(inputs.input_ids) IN
  IF form = "full" THEN [i \in 1..width |-> Seen(inputs, i)]
  ELSE [i \in 1..width - 1 |-> Seen(inputs, IF objective = "dense_kd" THEN i ELSE i + 1)]

(* The entry that TensorCacheTransform adds to a sample, made from part,   *)
(* and the digest of the sample's own inputs that the supervision adds.    *)
CacheEntry(part, made, from, setup) ==
  LET Fit(values, pad) ==
        PadTensors(<<values>>, pad, [setup EXCEPT !.multiple = setup.cacheWidth])[1]
  IN  [values   |-> CachedValues(made.inputs, setup.objective, setup.cacheForm),
       identity |-> Identity(Fit(made.inputs.input_ids, "input_ids"),
                             Fit(made.inputs.attention_mask, "attention_mask"),
                             Fit(made.labels, "labels"),
                             from.producer, from.branch, made.inputs),
       current  |-> part.inputs]

\* Mutant of CacheBound: the model inputs of the entry are not compared.
CacheBoundByText(batch, p) ==
  \A r \in Rows(batch) :
    LET labels == RowLabels(batch, p, r) IN
    /\ LabelledIn(labels) # {}
    /\ batch.cache[p].identity[r].ids = Ids(batch, p, r)

(* validate_cache_binding, with the text checked by _expected_rows.        *)
CacheBound(batch, p) ==
  \A r \in Rows(batch) :
    LET labels == RowLabels(batch, p, r) IN
    /\ LabelledIn(labels) # {}
    /\ \A i \in LabelledIn(labels) : Mask(batch, p, r)[i]
    /\ batch.cache[p].identity[r]
         = Identity(Ids(batch, p, r), Mask(batch, p, r), labels, "reference", p,
                    batch.cache[p].current[r])

CachedWidth(batch, p) == Len(batch.cache[p].values[1])

CacheAligned(batch, p) == CachedWidth(batch, p) \in {Width(batch, p), Width(batch, p) - 1}

(* The cached value an objective uses for the token slot i predicts: logits *)
(* of full width lose the last position, log-probs the first.              *)
CachedAt(batch, p, r, i) ==
  batch.cache[p].values[r][IF p # "policy" /\ CachedWidth(batch, p) = Width(batch, p)
                           THEN i + 1 ELSE i]

-----------------------------------------------------------------------------
(* DPO: the two branches of every row share one prompt.                    *)

Valid(batch, p, r) == {i \in DOMAIN Mask(batch, p, r) : Mask(batch, p, r)[i]}

(* The valid slots of a row before its first label.                        *)
Prompt(batch, p, r) ==
  {i \in Valid(batch, p, r) : \A j \in LabelledIn(RowLabels(batch, p, r)) : i < j}

(* The values at the slots, whatever their place in the row.               *)
PromptValues(values, slots) ==
  SelectSeq([i \in DOMAIN values |-> <<i \in slots, values[i]>>], LAMBDA v : v[1])

HasPrompt(batch, p, r) ==
  LET labelled == LabelledIn(RowLabels(batch, p, r))
      valid    == Valid(batch, p, r)
  IN  /\ labelled # {} /\ labelled \subseteq valid
      /\ valid = Min(valid)..Max(valid)
      /\ Prompt(batch, p, r) # {}

BranchFields == {"input_ids", "attention_mask", "position_ids"}

\* Mutant of PairAligned: only the prompts' tokens are compared.
PairAlignedByTokens(batch) ==
  \A r \in Rows(batch) :
    /\ HasPrompt(batch, "chosen", r) /\ HasPrompt(batch, "rejected", r)
    /\ PromptValues(Ids(batch, "chosen", r), Prompt(batch, "chosen", r))
         = PromptValues(Ids(batch, "rejected", r), Prompt(batch, "rejected", r))

PairAligned(batch) ==
  LET chosen   == batch.parts["chosen"].inputs
      rejected == batch.parts["rejected"].inputs
  IN  /\ DOMAIN chosen = DOMAIN rejected
      /\ \A r \in Rows(batch) :
           /\ HasPrompt(batch, "chosen", r) /\ HasPrompt(batch, "rejected", r)
           /\ \A f \in DOMAIN chosen \cap BranchFields :
                PromptValues(chosen[f][r], Prompt(batch, "chosen", r))
                  = PromptValues(rejected[f][r], Prompt(batch, "rejected", r))
      /\ \A f \in DOMAIN chosen \ BranchFields : chosen[f] = rejected[f]

-----------------------------------------------------------------------------
(* ObjectiveRequirements, plan() and compute() of the three objectives.    *)

Parts(objective) == IF objective = "dpo" THEN <<"chosen", "rejected">> ELSE <<"policy">>

PlanAccepts(batch, objective) ==
  /\ objective # "causal_lm" => DOMAIN batch.cache # {}
  /\ objective # "causal_lm" =>
       \A n \in DOMAIN Parts(objective) :
         /\ CacheAligned(batch, Parts(objective)[n])
         /\ CacheBound(batch, Parts(objective)[n])
  /\ objective = "dpo" => PairAligned(batch)

ComputeAccepts(batch, hidden, objective, reduction) ==
  /\ \A n \in DOMAIN Parts(objective) : CanShift(batch, Parts(objective)[n], hidden)
  /\ IF objective = "dpo"
     THEN \A n \in DOMAIN Parts(objective) : \A r \in Rows(batch) :
            Predictors(batch, Parts(objective)[n], r) # {}
     ELSE CanReduce(batch, reduction)

(* A bundle: the terms of every row, what they are compared with, and the  *)
(* denominator all its terms share.                                        *)
Bundle(batch, hidden, objective, reduction) ==
  LET parts == {Parts(objective)[n] : n \in DOMAIN Parts(objective)} IN
  [names |-> batch.names,
   terms |-> [r \in Rows(batch) |-> [p \in parts |-> RowTerms(batch, hidden, p, r)]],
   cached |-> IF objective = "causal_lm" THEN <<>>
              ELSE [r \in Rows(batch) |-> [p \in parts |->
                     {<<hidden[p][r][i], RowLabels(batch, p, r)[i + 1], CachedAt(batch, p, r, i)>>
                        : i \in Predictors(batch, p, r)}]],
   denominator |-> IF objective = "dpo" THEN Len(batch.names)
                   ELSE Denominator(batch, reduction)]

=============================================================================
