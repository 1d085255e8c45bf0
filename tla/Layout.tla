------------------------------- MODULE Layout -------------------------------
(***************************************************************************)
(* From supervised examples to a batch: the sequence and the padding-free  *)
(* packers (modules/data/packing), the collators (modules/data/collation)  *)
(* and the packed attention policy (modules/model/attention/packed) that   *)
(* must agree with them.                                                   *)
(*                                                                         *)
(* An example has the names of its samples, one part per forward pass it   *)
(* is meant for (model inputs and labels), and cached supervision.  Slots  *)
(* are counted from 1; the sentinel -1 of modal positions and segments     *)
(* becomes 0.                                                              *)
(***************************************************************************)
EXTENDS Rows

Pad  == <<"pad">>
Zero == <<"zero">>

Reserved == {"input_ids", "attention_mask", "position_ids", "packed_segment_ids",
             "packed_attention_mask", "packed_cu_seqlens"}

MovedFields == {"modal_positions"}

HasCache(example) == DOMAIN example.cache # {}

TotalOf(numbers) == FoldLeft(LAMBDA a, b : a + b, 0, numbers)

AllTrue(mask) == \A i \in DOMAIN mask : mask[i]

Length(example) == Len(example.parts["policy"].inputs.input_ids)

-----------------------------------------------------------------------------
(* Packing.  A packer takes plain examples: no second part, no cached      *)
(* supervision (its digests are not aligned with tokens).                  *)

Packable(example, setup) ==
  /\ Length(example) \in 1..setup.maxLength
  /\ AllTrue(example.parts["policy"].inputs.attention_mask)

Inputs(pack)   == [n \in DOMAIN pack |-> pack[n].parts["policy"].inputs]
Lengths(pack)  == [n \in DOMAIN pack |-> Length(pack[n])]
Offset(pack, n) == TotalOf(SubSeq(Lengths(pack), 1, n - 1))

(* Every field has a policy and is there, with positions inside its sample. *)
CanEmit(pack, setup) ==
  /\ \A n \in DOMAIN pack : DOMAIN Inputs(pack)[n] = DOMAIN Inputs(pack)[1]
  /\ DOMAIN Inputs(pack)[1] \subseteq Reserved \cup setup.packFields
  /\ setup.packFields \subseteq DOMAIN Inputs(pack)[1]
  /\ \A f \in setup.packFields \cap MovedFields : \A n \in DOMAIN pack :
       Range(Inputs(pack)[n][f]) \subseteq 1..Lengths(pack)[n]
  /\ \A n \in DOMAIN pack : ~HasCache(pack[n])

TargetLength(pack, setup) ==
  IF setup.packer = "padding_free" THEN TotalOf(Lengths(pack)) ELSE setup.maxLength

PadFirstAxis(values, target, pad) ==
  [i \in 1..target |-> IF i <= Len(values) THEN values[i] ELSE pad]

\* Mutant of AttentionInputs: the mask of a pack is causal over the whole pack.
AttentionInputsCausal(pack, setup) ==
  IF setup.packer = "padding_free"
  THEN [packed_cu_seqlens |-> [n \in 1..Len(pack) + 1 |-> Offset(pack, n)]]
  ELSE [packed_attention_mask |->
         [q \in 1..setup.maxLength |->
           {k \in 1..q : q <= TotalOf(Lengths(pack)) /\ k <= TotalOf(Lengths(pack))}]]

(* The block-diagonal causal mask, as the keys each query sees; or, without *)
(* padding, where every sample starts.                                     *)
AttentionInputs(pack, setup) ==
  IF setup.packer = "padding_free"
  THEN [packed_cu_seqlens |-> [n \in 1..Len(pack) + 1 |-> Offset(pack, n)]]
  ELSE [packed_attention_mask |->
         [q \in 1..setup.maxLength |->
           {k \in 1..q : \E n \in DOMAIN pack :
              {k, q} \subseteq Offset(pack, n) + 1 .. Offset(pack, n) + Lengths(pack)[n]}]]

\* Mutant of MovedPositions: modal positions are not moved to their sample.
MovedPositionsNot(pack, n, f) == Inputs(pack)[n][f]

MovedPositions(pack, n, f) ==
  [i \in DOMAIN Inputs(pack)[n][f] |-> Inputs(pack)[n][f][i] + Offset(pack, n)]

PackModelInputs(pack, setup) ==
  LET target   == TargetLength(pack, setup)
      tokens   == TotalOf(Lengths(pack))
      Owner(i) == CHOOSE n \in DOMAIN pack :
                    i \in Offset(pack, n) + 1 .. Offset(pack, n) + Lengths(pack)[n]
      core  == [input_ids |->
                  PadFirstAxis(FlattenSeq([n \in DOMAIN pack |-> Inputs(pack)[n].input_ids]),
                               target, Pad),
                attention_mask     |-> [i \in 1..target |-> i <= tokens],
                position_ids       |-> [i \in 1..target |->
                                         IF i > tokens THEN 0 ELSE i - 1 - Offset(pack, Owner(i))],
                packed_segment_ids |-> [i \in 1..target |-> IF i > tokens THEN 0 ELSE Owner(i)]]
      media == [f \in setup.packFields |-> FlattenSeq([n \in DOMAIN pack |->
                  IF f \in MovedFields THEN MovedPositions(pack, n, f) ELSE Inputs(pack)[n][f]])]
  IN  core @@ AttentionInputs(pack, setup) @@ media

(* The first label of every sample but the first is ignored: its predictor *)
(* is the last token of another sample.                                    *)
PackLabels(pack, setup) ==
  PadFirstAxis(
    FlattenSeq([n \in DOMAIN pack |-> [i \in 1..Lengths(pack)[n] |->
      IF n > 1 /\ i = 1 THEN Ignore ELSE pack[n].parts["policy"].labels[i]]]),
    TargetLength(pack, setup), Ignore)

Emit(pack, setup) ==
  [names |-> [n \in DOMAIN pack |-> pack[n].names[1]],
   parts |-> [policy |-> [inputs |-> PackModelInputs(pack, setup),
                          labels |-> PackLabels(pack, setup)]],
   cache |-> <<>>]

-----------------------------------------------------------------------------
(* Collation: every field is stacked, padded, or left as a list.           *)

(* Modal positions and segments are numbered from 1 here, so the code's -1   *)
(* is 0; position_ids get the id of the pad token, which is 0 here too.     *)
PadValue(field) ==
  CASE field = "input_ids"                                -> Pad
    [] field = "labels"                                   -> Ignore
    [] field = "attention_mask"                           -> FALSE
    [] field = "cached"                                   -> Zero
    [] OTHER                                              -> 0

Mode(field, setup) ==
  IF field \in {"pixel_values", "video_values"} THEN "list"
  ELSE IF field \in DOMAIN setup.modes THEN setup.modes[field] ELSE "auto"

AllEqual(values) == \A i, j \in DOMAIN values : Len(values[i]) = Len(values[j])

PadWidth(values, setup) ==
  LET widest == Max({Len(values[i]) : i \in DOMAIN values})
  IN  ((widest + setup.multiple - 1) \div setup.multiple) * setup.multiple

PadTensors(values, field, setup) ==
  LET target == PadWidth(values, setup)
      Shift(v) == IF setup.side = "left" THEN target - Len(v) ELSE 0
  IN  [r \in DOMAIN values |-> [i \in 1..target |->
        IF i - Shift(values[r]) \in DOMAIN values[r] THEN values[r][i - Shift(values[r])]
        ELSE PadValue(field)]]

Stacks(values, field, setup) ==
  Mode(field, setup) = "stack" => AllEqual(values)

Stack(values, field, setup) ==
  IF \/ Mode(field, setup) \in {"list", "stack"}
     \/ Mode(field, setup) = "auto" /\ AllEqual(values)
  THEN values
  ELSE PadTensors(values, field, setup)

(* model_inputs, or the inputs of a branch, and the labels beside them.    *)
CollateInputs(inputs, setup) ==
  [f \in DOMAIN inputs[1] |-> Stack([n \in DOMAIN inputs |-> inputs[n][f]], f, setup)]

PositionFields == {"position_ids"} \cup MovedFields

Collates(examples, setup) ==
  /\ setup.packer = "padding_free" =>
       /\ Len(examples) = 1
       /\ "packed_cu_seqlens" \in DOMAIN examples[1].parts["policy"].inputs
  /\ \A n \in DOMAIN examples :
       /\ DOMAIN examples[n].parts = DOMAIN examples[1].parts
       /\ HasCache(examples[n]) = HasCache(examples[1])
       /\ \A p \in DOMAIN examples[n].parts :
            /\ setup.side = "left" => DOMAIN examples[n].parts[p].inputs \cap PositionFields = {}
            /\ DOMAIN examples[n].parts[p].inputs = DOMAIN examples[1].parts[p].inputs
  /\ \A p \in DOMAIN examples[1].parts : \A f \in DOMAIN examples[1].parts[p].inputs :
       Stacks([n \in DOMAIN examples |-> examples[n].parts[p].inputs[f]], f, setup)

(* Cached values are padded like any field; identities are stacked.        *)
Collate(examples, setup) ==
  LET parts == DOMAIN examples[1].parts IN
  [names |-> [n \in DOMAIN examples |-> examples[n].names],
   parts |-> [p \in parts |->
     [inputs |-> CollateInputs([n \in DOMAIN examples |-> examples[n].parts[p].inputs], setup),
      labels |-> Stack([n \in DOMAIN examples |-> examples[n].parts[p].labels], "labels", setup)]],
   cache |-> IF ~HasCache(examples[1]) THEN <<>>
             ELSE [p \in parts |->
               [values   |-> Stack([n \in DOMAIN examples |-> examples[n].cache[p].values],
                                   "cached", setup),
                identity |-> [n \in DOMAIN examples |-> examples[n].cache[p].identity],
                current  |-> [n \in DOMAIN examples |-> examples[n].cache[p].current]]]]

-----------------------------------------------------------------------------
(* PackedAttentionPolicy: derives the mask again and refuses another one.  *)

ExpectedBlock(mask, segments) ==
  [q \in DOMAIN mask |-> {k \in 1..q : mask[q] /\ mask[k] /\ segments[q] = segments[k]}]

PackedAccepts(inputs) ==
  /\ {"packed_attention_mask", "packed_segment_ids"} \subseteq DOMAIN inputs
  /\ \A r \in DOMAIN inputs.input_ids :
       /\ Len(inputs.packed_segment_ids[r]) = Len(inputs.input_ids[r])
       /\ inputs.packed_attention_mask[r]
            = ExpectedBlock(inputs.attention_mask[r], inputs.packed_segment_ids[r])

(* VarlenLayout.from_packed: the same for the layout without padding.      *)
LayoutLengths(offsets) == [n \in 1..Len(offsets) - 1 |-> offsets[n + 1] - offsets[n]]

VarlenAccepts(inputs) ==
  /\ {"position_ids", "packed_segment_ids", "packed_cu_seqlens"} \subseteq DOMAIN inputs
  /\ Len(inputs.input_ids) = 1
  /\ AllTrue(inputs.attention_mask[1])
  /\ LET offsets == inputs.packed_cu_seqlens[1]
         lengths == LayoutLengths(offsets)
     IN  /\ Len(offsets) >= 2
         /\ offsets[1] = 0 /\ Last(offsets) = Len(inputs.input_ids[1])
         /\ \A n \in DOMAIN lengths : lengths[n] > 0
         /\ inputs.position_ids[1]
              = FlattenSeq([n \in DOMAIN lengths |-> [i \in 1..lengths[n] |-> i - 1]])
         /\ inputs.packed_segment_ids[1]
              = FlattenSeq([n \in DOMAIN lengths |-> [i \in 1..lengths[n] |-> n]])

=============================================================================
