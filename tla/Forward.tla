------------------------------- MODULE Forward -------------------------------
(***************************************************************************)
(* From the rows of a dataset to the loss terms of a training step: rows   *)
(* are read in any order, adapted and encoded (module Rows), joined with   *)
(* their cached supervision, packed and collated (module Layout), and a    *)
(* batch goes through the objective's plan, the composite model's forward  *)
(* passes and the objective's loss (module Objectives).                    *)
(*                                                                         *)
(* A setup is a configuration with its dataset.  Sound setups are such as  *)
(* the documentation calls for; Odd ones have a part that does not fit.    *)
(*                                                                         *)
(* What a model computes at a slot is the set of what it sees there: each  *)
(* embedding with its distance from the slot, as with rotary positions.    *)
(***************************************************************************)
EXTENDS Objectives

CONSTANTS Sound, Odd

VARIABLES
  setup,    \* the configuration of this run
  left,     \* the samples not yet read
  buffer,   \* the packer's buffer
  ready,    \* examples waiting for a batch
  batch,    \* the batch at work, or <<>>
  hidden,   \* for each finished forward pass, what every slot has seen
  done,     \* the loss bundles of the batches
  refused   \* whether a component has raised an error

vars == <<setup, left, buffer, ready, batch, hidden, done, refused>>

-----------------------------------------------------------------------------
(* The composite model: encoders and connectors, the modal features of the *)
(* branches, and the fusion with the text.                                 *)

ModelInputs(p) == batch.parts[p].inputs
Slots(p)       == DOMAIN ModelInputs(p).input_ids[1]
Memory         == -1

Present(p) == SelectSeq(setup.branches, LAMBDA b : b.input \in DOMAIN ModelInputs(p))

(* An encoder and its connector: a feature for every medium of a row, the  *)
(* rows padded to one width.                                               *)
Features(p, branch, r) ==
  LET media  == ModelInputs(p)[branch.input]
      widest == Max({Len(media[n]) : n \in DOMAIN media})
  IN  [j \in 1..widest |-> IF j \in DOMAIN media[r] THEN media[r][j] ELSE Pad]

HasPositions(p, branch) == branch.positions \in DOMAIN ModelInputs(p)

RoutesBranches(p) ==
  /\ \A n \in DOMAIN setup.branches :
       LET branch == setup.branches[n] IN
       branch.input \notin DOMAIN ModelInputs(p) => ~branch.required /\ ~HasPositions(p, branch)
  /\ \A m, n \in DOMAIN Present(p) :
       HasPositions(p, Present(p)[m]) = HasPositions(p, Present(p)[n])
  /\ \A n \in DOMAIN Present(p) : HasPositions(p, Present(p)[n]) =>
       \A r \in Rows(batch) :
         Len(ModelInputs(p)[Present(p)[n].positions][r]) = Len(Features(p, Present(p)[n], r))

(* ModalFeatureSet.concatenate.                                            *)
Concatenated(p, r) ==
  FlattenSeq([n \in DOMAIN Present(p) |-> Features(p, Present(p)[n], r)])

Positions(p, r) ==
  FlattenSeq([n \in DOMAIN Present(p) |->
    IF HasPositions(p, Present(p)[n]) THEN ModelInputs(p)[Present(p)[n].positions][r] ELSE <<>>])

(* Fields neither a branch, the attention policy nor the language takes.   *)
Unclaimed(p) ==
  DOMAIN ModelInputs(p)
    \ ({"input_ids", "attention_mask", "position_ids"}
         \cup {setup.branches[n].input : n \in DOMAIN setup.branches}
         \cup {setup.branches[n].positions : n \in DOMAIN setup.branches}
         \cup CASE setup.attention = "packed" -> {"packed_attention_mask", "packed_segment_ids"}
                [] setup.attention = "varlen" -> {"packed_cu_seqlens", "packed_segment_ids"}
                [] OTHER                      -> {})

AttentionAccepts(p) ==
  CASE setup.attention = "packed" -> PackedAccepts(ModelInputs(p))
    [] setup.attention = "varlen" -> VarlenAccepts(ModelInputs(p))
    [] OTHER                      -> TRUE

Visible(p, r, q) ==
  CASE setup.attention = "packed" -> ModelInputs(p).packed_attention_mask[r][q]
    [] setup.attention = "varlen" ->
         LET offsets == ModelInputs(p).packed_cu_seqlens[r] IN
         {k \in 1..q : \A n \in DOMAIN offsets : k <= offsets[n] <=> q <= offsets[n]}
    [] OTHER -> {k \in 1..q : Mask(batch, p, r)[k]}

ReplaceAccepts(p, r) ==
  Concatenated(p, r) # <<>> =>
    LET features == Concatenated(p, r)
        places   == Positions(p, r)
        valid    == {j \in DOMAIN features : features[j] # Pad}
    IN  /\ Len(places) = Len(features)
        /\ \A j \in DOMAIN features \ valid : places[j] = 0
        /\ \A j \in valid : places[j] \in Slots(p)
        /\ setup.strict => \A i, j \in valid : i # j => places[i] # places[j]

(* The embedding of a slot: a modal feature, or that of its token.         *)
Embedding(p, r, k) ==
  LET here == {j \in DOMAIN Positions(p, r) : Positions(p, r)[j] = k} IN
  IF setup.fusion # "token_replace" \/ here = {} THEN Ids(batch, p, r)[k]
  ELSE Concatenated(p, r)[Max(here)]

(* Prefix fusion: features are slots before the text, and positions count  *)
(* the slots that are not padded.                                          *)
PrefixContext(p, r, q) ==
  LET features == Concatenated(p, r)
      width    == Len(features)
      Seen2(k) == IF k <= width THEN features[k] # Pad ELSE Mask(batch, p, r)[k - width]
      Value(k) == IF k <= width THEN features[k] ELSE Ids(batch, p, r)[k - width]
      Place(k) == IF "position_ids" \in DOMAIN ModelInputs(p)
                  THEN Cardinality({j \in 1..k : Seen2(j)}) ELSE k
  IN  {<<Value(k), Place(width + q) - Place(k)>> : k \in {k \in 1..width + q : Seen2(k)}}

(* Otherwise, and for text without a branch, text slots alone, beside the   *)
(* memory of cross-attention.                                              *)
TextContext(p, r, q) ==
  LET Place(k) == IF "position_ids" \in DOMAIN ModelInputs(p)
                  THEN ModelInputs(p).position_ids[r][k] ELSE k
  IN  {<<Embedding(p, r, k), Place(q) - Place(k)>> : k \in Visible(p, r, q)}
        \cup IF setup.fusion # "cross_attention" THEN {}
             ELSE {<<f, Memory>> : f \in Range(Concatenated(p, r)) \ {Pad}}

FusionAccepts(p) ==
  CASE setup.fusion = "token_replace"   -> \A r \in Rows(batch) : ReplaceAccepts(p, r)
    [] setup.fusion = "prefix"          -> setup.attention = "default"
    [] setup.fusion = "cross_attention" -> Present(p) # <<>>

ModelAccepts(p) ==
  /\ RoutesBranches(p)
  /\ Unclaimed(p) = {}
  /\ AttentionAccepts(p)
  /\ FusionAccepts(p)

Computed(p) ==
  [r \in Rows(batch) |-> [q \in Slots(p) |->
    IF setup.fusion = "prefix" /\ Present(p) # <<>> THEN PrefixContext(p, r, q)
    ELSE TextContext(p, r, q)]]

-----------------------------------------------------------------------------
(* Reading: adapt, encode, annotate and look up the sample's cache.        *)

CanRead(s, name) ==
  /\ \A p \in DOMAIN s.rows[name] :
       /\ Adapts(s.rows[name][p], s.policy)
       /\ Resolves(s.rows[name][p], s.io)
       /\ Encodes(s.rows[name][p], s.io)
  /\ s.objective # "causal_lm" => name \in DOMAIN s.cache

PartOf(row, io) ==
  The({[inputs |-> encoded.inputs, labels |-> Labels(encoded)] : encoded \in {Encode(row, io)}})

(* The row a cache entry was computed from, when its files were untouched. *)
MadeFrom(from, s) == PartOf(from.row, [s.io EXCEPT !.changed = {}])

ExampleOf(s, name) ==
  LET parts == DOMAIN s.rows[name] IN
  [names |-> <<name>>,
   parts |-> [p \in parts |-> PartOf(s.rows[name][p], s.io)],
   cache |-> IF s.objective = "causal_lm" THEN <<>>
             ELSE [p \in parts |->
                    The({CacheEntry(part, made, s.cache[name][p], s)
                           : part \in {PartOf(s.rows[name][p], s.io)},
                             made \in {MadeFrom(s.cache[name][p], s)}})]]

(* The examples of the rows that can be read.                              *)
Examples ==
  [s \in Sound \cup Odd |->
    [name \in {n \in DOMAIN s.rows : CanRead(s, n)} |-> ExampleOf(s, name)]]

(* SequencePacker.add: a full buffer is emitted before the sample it has   *)
(* no room for, and as soon as it is full.                                 *)
Overflows(example) ==
  buffer # <<>> /\ TotalOf(Lengths(Append(buffer, example))) > setup.maxLength

BufferWith(example) == IF Overflows(example) THEN <<example>> ELSE Append(buffer, example)

FullWith(example) ==
  \/ TotalOf(Lengths(BufferWith(example))) = setup.maxLength
  \/ Len(BufferWith(example)) >= setup.maxSamples

Packs(example) ==
  /\ Packable(example, setup)
  /\ Overflows(example) => CanEmit(buffer, setup)
  /\ FullWith(example) => CanEmit(BufferWith(example), setup)

-----------------------------------------------------------------------------
Init ==
  /\ setup \in Sound \cup Odd
  /\ left = DOMAIN setup.rows
  /\ buffer = <<>> /\ ready = <<>> /\ batch = <<>> /\ hidden = <<>>
  /\ done = {} /\ refused = FALSE

Running == ~refused /\ batch = <<>>

Accept(name) ==
  /\ name \in DOMAIN Examples[setup]
  /\ setup.packer # "none" => Packs(Examples[setup][name])

ReadRow(name) ==
  /\ Running /\ Len(ready) < setup.size
  /\ Accept(name)
  /\ LET example == Examples[setup][name] IN
     IF setup.packer = "none"
     THEN ready' = Append(ready, example) /\ buffer' = buffer
     ELSE /\ ready' = ready
                      \o (IF Overflows(example) THEN <<Emit(buffer, setup)>> ELSE <<>>)
                      \o (IF FullWith(example) THEN <<Emit(BufferWith(example), setup)>> ELSE <<>>)
          /\ buffer' = IF FullWith(example) THEN <<>> ELSE BufferWith(example)
  /\ left' = left \ {name}
  /\ UNCHANGED <<setup, batch, hidden, done, refused>>

(* The end of the data: the packer's rest.                                 *)
Flush ==
  /\ Running /\ left = {} /\ buffer # <<>> /\ Len(ready) < setup.size
  /\ CanEmit(buffer, setup)
  /\ ready' = Append(ready, Emit(buffer, setup))
  /\ buffer' = <<>>
  /\ UNCHANGED <<setup, left, batch, hidden, done, refused>>

AtEnd == left = {} /\ buffer = <<>>

Taken == SubSeq(ready, 1, IF Len(ready) < setup.size THEN Len(ready) ELSE setup.size)

MayCollate == Running /\ ready # <<>> /\ (Len(ready) >= setup.size \/ AtEnd)

(* A batch, and the checks of the objective's plan on it.                  *)
CollateBatch ==
  /\ MayCollate
  /\ Collates(Taken, setup)
  /\ batch' = Collate(Taken, setup)
  /\ PlanAccepts(batch', setup.objective)
  /\ ready' = SubSeq(ready, Len(Taken) + 1, Len(ready))
  /\ UNCHANGED <<setup, left, buffer, hidden, done, refused>>

NextPart ==
  LET parts == Parts(setup.objective) IN parts[Cardinality(DOMAIN hidden) + 1]

PassesLeft == batch # <<>> /\ Cardinality(DOMAIN hidden) < Len(Parts(setup.objective))

RunForward ==
  /\ ~refused /\ PassesLeft
  /\ ModelAccepts(NextPart)
  /\ hidden' = (NextPart :> Computed(NextPart)) @@ hidden
  /\ UNCHANGED <<setup, left, buffer, ready, batch, done, refused>>

MayCompute == batch # <<>> /\ ~PassesLeft

Compute ==
  /\ ~refused /\ MayCompute
  /\ ComputeAccepts(batch, hidden, setup.objective, setup.reduction)
  /\ done' = done \cup {Bundle(batch, hidden, setup.objective, setup.reduction)}
  /\ batch' = <<>> /\ hidden' = <<>>
  /\ UNCHANGED <<setup, left, buffer, ready, refused>>

(* Whatever is asked to do what it does not accept raises an error, and    *)
(* the run ends.                                                           *)
Refuse ==
  /\ ~refused
  /\ \/ Running /\ Len(ready) < setup.size /\ \E name \in left : ~Accept(name)
     \/ Running /\ AtEnd = FALSE /\ left = {} /\ ~CanEmit(buffer, setup)
     \/ MayCollate /\ (~Collates(Taken, setup)
                        \/ ~PlanAccepts(Collate(Taken, setup), setup.objective))
     \/ PassesLeft /\ ~ModelAccepts(NextPart)
     \/ MayCompute /\ ~ComputeAccepts(batch, hidden, setup.objective, setup.reduction)
  /\ refused' = TRUE
  /\ UNCHANGED <<setup, left, buffer, ready, batch, hidden, done>>

Next ==
  \/ \E name \in left : ReadRow(name)
  \/ Flush
  \/ CollateBatch
  \/ RunForward
  \/ Compute
  \/ Refuse

Spec == Init /\ [][Next]_vars

-----------------------------------------------------------------------------
(* What the rows themselves ask for, without adapters, tokens, packs or    *)
(* slots: the units of a row in order, media in place.                     *)

Finished == ~refused /\ AtEnd /\ ready = <<>> /\ batch = <<>>

(* The n-th placeholder of a kind stands for the n-th medium of that kind. *)
MarksBefore(turns, t, i, kind) ==
  Cardinality({at \in UNION {{u} \X DOMAIN turns[u].items : u \in DOMAIN turns} :
    /\ at[1] < t \/ (at[1] = t /\ at[2] <= i)
    /\ turns[at[1]].items[at[2]].type = "mark"
    /\ turns[at[1]].items[at[2]].kind = kind})

Unnamed(row) ==
  LET turns == TurnsOf(row)
      Named(kind) == \E t \in DOMAIN turns : \E i \in DOMAIN turns[t].items :
                       turns[t].items[i].type = "mark" /\ turns[t].items[i].kind = kind
  IN  FlattenSeq([n \in DOMAIN KindOrder |->
        IF Named(KindOrder[n]) THEN <<>> ELSE row.media[KindOrder[n]]])

(* <<what it is, whether it is a medium, whether it is trained on>>.       *)
OwnUnits(row, s) ==
  LET turns == TurnsOf(row)
      first == CHOOSE t \in DOMAIN turns :
                 /\ IsFlat(row) \/ turns[t].role = "user"
                 /\ \A u \in 1..t - 1 : turns[u].role # "user"
      Value(t, i) ==
        LET item == turns[t].items[i] IN
        IF item.type # "mark" THEN item.value
        ELSE row.media[item.kind][MarksBefore(turns, t, i, item.kind)]
      Own(t, v) == <<v, v[2] \in Kinds,
                      v[2] = "text" /\ (IsFlat(row) \/ turns[t].role = "assistant"
                                          \/ ~s.io.marksAssistant)>>
      Turned(t) ==
        (IF IsFlat(row) THEN <<>>
         ELSE <<<<<<turns[t].role, "header", t>>, FALSE, ~s.io.marksAssistant>>>>)
        \o (IF Unnamed(row) = <<>> \/ t # first THEN <<>>
            ELSE [n \in DOMAIN Unnamed(row) |-> Own(t, Unnamed(row)[n])])
        \o [i \in DOMAIN turns[t].items |-> Own(t, Value(t, i))]
      all == FlattenSeq([t \in DOMAIN turns |-> Turned(t)])
      Of(kind) == SelectSeq(all, LAMBDA u : u[1][2] = kind)
  IN  IF IsFlat(row) THEN Of("image") \o Of("video") \o Of("text") ELSE all

(* Frames nearest to equal steps from the first to the last.               *)
Medium(value, io) ==
  LET n == IF io.frames < io.videoLength THEN io.frames ELSE io.videoLength
      Nearest(i) == CHOOSE f \in 0..io.videoLength - 1 :
        \A g \in 0..io.videoLength - 1 :
          LET Off(h) == h * (n - 1) - (i - 1) * (io.videoLength - 1)
              Gap(h) == IF Off(h) < 0 THEN -Off(h) ELSE Off(h)
          IN  Gap(f) < Gap(g) \/ (Gap(f) = Gap(g) /\ (f % 2 = 0 \/ f = g))
  IN  value \o <<value \in io.changed,
        IF value[2] # "video" THEN <<>>
        ELSE CASE io.sampling = "head" -> [i \in 1..n |-> i - 1]
               [] io.sampling = "tail" -> [i \in 1..n |-> io.videoLength - n + i - 1]
               [] OTHER -> IF n = 1 THEN <<io.videoLength \div 2>>
                           ELSE [i \in 1..n |-> Nearest(i)]>>

(* What the model should see of a row, in order, and beside it: prefixes   *)
(* one branch after the other.                                             *)
OwnSequence(row, s) ==
  LET units == OwnUnits(row, s)
      media == SelectSeq(units, LAMBDA u : u[2])
      text  == SelectSeq(units, LAMBDA u : ~u[2])
      Into(branch) == SelectSeq(media, LAMBDA u : InputOf(u[1][2]) = branch.input)
  IN  CASE s.fusion = "token_replace"   -> units
        [] s.fusion = "prefix"          ->
             FlattenSeq([n \in DOMAIN s.branches |-> Into(s.branches[n])]) \o text
        [] s.fusion = "cross_attention" -> text

OwnMemory(row, s) ==
  IF s.fusion # "cross_attention" THEN {}
  ELSE {<<Medium(u[1], s.io), Memory>> : u \in {u \in Range(OwnUnits(row, s)) : u[2]}}

(* A target with everything before it, each at its distance.  A row's      *)
(* first token has no predictor: in prefix fusion that is the first text.  *)
TermsOf(own, memory, s) ==
  LET Value(u) == IF u[2] THEN Medium(u[1], s.io) ELSE u[1]
      first    == Min({n \in DOMAIN own : s.fusion = "prefix" => ~own[n][2]})
  IN  {<<{<<Value(own[m]), n - 1 - m>> : m \in 1..n - 1} \cup memory, own[n][1]>>
         : n \in {n \in DOMAIN own : own[n][3] /\ n > first}}

OwnTerms ==
  [s \in Sound \cup Odd |->
    [name \in DOMAIN Examples[s] |-> [p \in DOMAIN s.rows[name] |->
      The({TermsOf(own, memory, s) : own \in {OwnSequence(s.rows[name][p], s)},
                                     memory \in {OwnMemory(s.rows[name][p], s)}})]]]

RowsOf(bundle) == DOMAIN bundle.names

NamesIn(bundle, r) == {bundle.names[r][n] : n \in DOMAIN bundle.names[r]}

(* Every loss that is computed, whatever the layout, the padding and the   *)
(* fusion, is made of exactly the targets its rows ask for, each predicted *)
(* from exactly what precedes it in its own row, over the number of them:  *)
(* no token of another sample is seen, none is trained on twice, and each  *)
(* medium stands where its row has put it.                                 *)
TermsExact ==
  /\ \A bundle \in done :
       LET count == TotalOf([r \in RowsOf(bundle) |->
                      Cardinality(UNION {OwnTerms[setup][name]["policy"] :
                                           name \in NamesIn(bundle, r)})])
       IN  /\ \A r \in RowsOf(bundle) : \A p \in DOMAIN bundle.terms[r] :
                bundle.terms[r][p]
                  = UNION {OwnTerms[setup][name][p] : name \in NamesIn(bundle, r)}
           /\ bundle.denominator = IF setup.objective # "dpo" /\ setup.reduction = "token_mean"
                                   THEN count ELSE Len(bundle.names)
  /\ \A a, b \in done : \A r \in RowsOf(a) : \A s \in RowsOf(b) :
       (a # b \/ r # s) => NamesIn(a, r) \cap NamesIn(b, s) = {}
  /\ Finished => \A name \in DOMAIN setup.rows :
       \E bundle \in done : \E r \in RowsOf(bundle) : name \in NamesIn(bundle, r)

(* A cached teacher or reference value is only ever used for the token and *)
(* the text and media before it that it was computed for, in its own       *)
(* branch, by the configured producer, whatever cache the run was given.   *)
(* Shifted reference log-probs that the collator pads to a multiple are the *)
(* exception: at the labels' width, they are taken for unshifted ones      *)
(* (dpo/module.py:274), and each token gets the value of the next.         *)
ShiftedAndPadded ==
  setup.objective = "dpo" /\ setup.cacheForm = "shifted" /\ setup.multiple > 1

SupervisionOfToken ==
  \A bundle \in done : setup.objective # "causal_lm" /\ ~ShiftedAndPadded =>
    \A r \in RowsOf(bundle) : \A p \in DOMAIN bundle.cached[r] :
      LET name   == bundle.names[r][1]
          part   == Examples[setup][name].parts[p]
          inputs == part.inputs
          Known(i) == Seen(inputs, IF p = "policy" THEN i - 1 ELSE i)
      IN  /\ {<<c[2], c[3]>> : c \in bundle.cached[r][p]}
               = {<<inputs.input_ids[i], Known(i)>> : i \in LabelledIn(part.labels) \ {1}}
          /\ setup.cache[name][p].producer = "reference"

(* DPO only compares two answers to the same question: at the first token  *)
(* of an answer, the two branches have seen the same text and media.       *)
PairsComparable ==
  \A bundle \in done : setup.objective = "dpo" =>
    \A r \in RowsOf(bundle) :
      LET First(p) == {t[1] : t \in {t \in bundle.terms[r][p] :
                         \A u \in bundle.terms[r][p] : Cardinality(t[1]) <= Cardinality(u[1])}}
      IN  First("chosen") = First("rejected")

(* The parts of a sound setup agree with one another: what one produces,   *)
(* the next accepts, for every order of the rows and every batch of them.  *)
SoundAccepted == setup \in Sound => ~refused

=============================================================================
