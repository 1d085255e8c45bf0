-------------------------------- MODULE Rows --------------------------------
(***************************************************************************)
(* From a dataset row to an encoded sample: the ms-swift adapter           *)
(* (modules/data/adapters/msswift), the conversion to a processor's input  *)
(* and back (modules/data/model_io/transformers), and the causal labels    *)
(* (modules/data/supervision/causal_lm).                                   *)
(*                                                                         *)
(* A text is a piece <<row, "text", n>>, a medium <<row, kind, n>>: who it *)
(* is is all that matters.  The content of a turn is a sequence of items:  *)
(* a piece of text, a placeholder that stands for the next medium of its   *)
(* kind, or a medium itself.                                               *)
(***************************************************************************)
EXTENDS Integers, Sequences, SequencesExt, FiniteSets

Kinds     == {"image", "video", "audio"}
KindOrder == <<"image", "video", "audio">>

Text(piece)      == [type |-> "text", kind |-> "text", value |-> piece]
Placeholder(k)   == [type |-> "mark", kind |-> k, value |-> <<>>]
Embedded(k, m)   == [type |-> "media", kind |-> k, value |-> m]
Turn(who, items) == [role |-> who, items |-> items]
Block(k, v)      == [kind |-> k, value |-> v]

(* The element of a set of one: {F(x) : x \in {e}} is F of e, which TLC    *)
(* evaluates once; and a fold from the left that does the same.            *)
The(S) == CHOOSE x \in S : TRUE

Through(Step(_, _), start, seq) ==
  LET after[n \in 0..Len(seq)] ==
        IF n = 0 THEN start ELSE The({Step(r, seq[n]) : r \in {after[n - 1]}})
  IN  after[Len(seq)]

-----------------------------------------------------------------------------
(* MSSwiftAdapter: the turns of a row, by the first column it has.         *)

Alias(who) == CASE who = "human"        -> "user"
                [] who \in {"gpt", "bot"} -> "assistant"
                [] OTHER                -> who

StandardTurns(turns) == [i \in DOMAIN turns |-> Turn(Alias(turns[i].role), turns[i].items)]

PairTurns(pairs) ==
  FlattenSeq([i \in DOMAIN pairs |->
                <<Turn("user", pairs[i][1]), Turn("assistant", pairs[i][2])>>])

QueryTurns(row) ==
  (IF row.system = <<>> THEN <<>> ELSE <<Turn("system", row.system)>>)
    \o PairTurns(Append(row.history, <<row.query, row.response>>))

IsFlat(row) == row.layout = "text"

TurnsOf(row) ==
  CASE row.layout = "messages" -> StandardTurns(row.turns)
    [] row.layout = "texts"    -> PairTurns(row.pairs)
    [] row.layout = "query"    -> QueryTurns(row)
    [] row.layout = "text"     -> <<Turn("none", row.items)>>

-----------------------------------------------------------------------------
(* Reading the items of all turns from left to right, with one queue per   *)
(* kind of media and the kinds a placeholder has taken from.               *)
TakeMedia(reading, kind) ==
  LET queue == reading.queues[kind] IN
  IF queue = <<>> THEN [reading EXCEPT !.ok = FALSE]
  ELSE [reading EXCEPT !.blocks = Append(@, Block(kind, Head(queue))),
                       !.queues[kind] = Tail(@),
                       !.consumed = @ \cup {kind}]

ReadItem(reading, item) ==
  IF item.type = "mark" THEN TakeMedia(reading, item.kind)
  ELSE [reading EXCEPT !.blocks = Append(@, Block(item.kind, item.value))]

ReadTurn(reading, turn) ==
  The({[read EXCEPT !.ok = @ /\ turn.items # <<>>,
                    !.messages = Append(@, [role |-> turn.role, blocks |-> read.blocks])]
         : read \in {Through(ReadItem, [reading EXCEPT !.blocks = <<>>], turn.items)}})

ReadAll(row) ==
  Through(ReadTurn,
          [queues |-> row.media, consumed |-> {}, blocks |-> <<>>, messages |-> <<>>,
           ok |-> TRUE],
          TurnsOf(row))

Leftovers(reading) == {k \in Kinds : reading.queues[k] # <<>>}

MediaPrefix(reading) ==
  FlattenSeq([i \in DOMAIN KindOrder |->
    LET k == KindOrder[i] IN
    [j \in DOMAIN reading.queues[k] |-> Block(k, reading.queues[k][j])]])

(* Media no placeholder names go before the first user message, or before  *)
(* a flat text; a kind that is named too rarely is refused.                *)
MayAttach(reading, row, policy) ==
  Leftovers(reading) # {} =>
    /\ Leftovers(reading) \cap reading.consumed = {}
    /\ policy = "prepend"
    /\ IsFlat(row) \/ \E i \in DOMAIN reading.messages : reading.messages[i].role = "user"

AttachMedia(reading, row) ==
  LET messages == reading.messages
      first == IF IsFlat(row) THEN 1
               ELSE SelectInSeq(messages, LAMBDA m : m.role = "user")
  IN  IF Leftovers(reading) = {} THEN messages
      ELSE [messages EXCEPT ![first].blocks = MediaPrefix(reading) \o @]

Adapts(row, policy) ==
  /\ TurnsOf(row) # <<>>
  /\ \A reading \in {ReadAll(row)} : reading.ok /\ MayAttach(reading, row, policy)

Adapt(row) == The({AttachMedia(reading, row) : reading \in {ReadAll(row)}})

-----------------------------------------------------------------------------
(* The media transforms: a file is found and, when its digest is pinned,   *)
(* compared; a video becomes some of its frames.  io.missing, io.changed   *)
(* and io.pinned say which files are gone, which were changed since the    *)
(* dataset was written, and which have a digest.                           *)

IsMedium(block) == block.kind \in Kinds

Resolves(row, io) ==
  \A m \in UNION {{b.value : b \in Range(t.blocks)} : t \in Range(Adapt(row))} :
    m[2] \in Kinds =>
      /\ m \notin io.missing
      /\ io.requireDigest => m \in io.pinned
      /\ m \in io.pinned => m \notin io.changed
      /\ m[2] = "video" => io.videoLength \in 1..io.maxFrames

(* Python's round() of n / d: to the nearest, and to the even one of two.  *)
Rounded(n, d) ==
  LET down == n \div d
      part == 2 * (n % d)
  IN  IF part > d \/ (part = d /\ down % 2 = 1) THEN down + 1 ELSE down

FrameIndices(length, frames, sampling) ==
  LET count == IF frames < length THEN frames ELSE length IN
  CASE sampling = "head" -> [i \in 1..count |-> i - 1]
    [] sampling = "tail" -> [i \in 1..count |-> length - count + i - 1]
    [] OTHER -> IF count = 1 THEN <<length \div 2>>
                ELSE [i \in 1..count |-> Rounded((i - 1) * (length - 1), count - 1)]

(* What the processor is given for a medium: who it is, whether it is the  *)
(* file the dataset was written for, and which frames.                     *)
Loaded(medium, io) ==
  medium \o <<medium \in io.changed,
              IF medium[2] = "video" THEN FrameIndices(io.videoLength, io.frames, io.sampling)
              ELSE <<>>>>

Prepared(row, io) ==
  The({[t \in DOMAIN messages |-> [messages[t] EXCEPT !.blocks =
          [b \in DOMAIN @ |->
             IF IsMedium(@[b]) THEN Block(@[b].kind, Loaded(@[b].value, io)) ELSE @[b]]]]
         : messages \in {Adapt(row)}})

-----------------------------------------------------------------------------
(* The processor: a header for every message, then its blocks, a medium as *)
(* one modal token; flat content, whose images, videos and texts are handed *)
(* over separately, as media first.  Its audio is not handed over at all.  *)
(* A prefix processor gives no modal token.                                *)

Modal == <<"modal">>

Unit(block, spoken) == [kind |-> block.kind, value |-> block.value, spoken |-> spoken]

FlatUnits(blocks) ==
  LET units    == [b \in DOMAIN blocks |-> Unit(blocks[b], TRUE)]
      Of(kind) == SelectSeq(units, LAMBDA u : u.kind = kind)
  IN  Of("image") \o Of("video") \o Of("text")

Units(messages, flat) ==
  IF flat THEN FlatUnits(messages[1].blocks)
  ELSE FlattenSeq([m \in DOMAIN messages |->
         <<Unit(Block("header", <<messages[m].role, "header", m>>), FALSE)>>
           \o [b \in DOMAIN messages[m].blocks |->
                 Unit(messages[m].blocks[b], messages[m].role = "assistant")]])

TokenOf(unit) == IF IsMedium(unit) THEN Modal ELSE unit.value

-----------------------------------------------------------------------------
(* TransformersModelIO.  io is its configuration: conversation_mode,       *)
(* require_assistant_mask, whether the template marks the assistant's      *)
(* tokens, and whether media have modal tokens.                            *)

Encodes(row, io) ==
  /\ io.conversation = "disabled" => IsFlat(row)
  /\ io.conversation = "required" => ~IsFlat(row)
  /\ ~IsFlat(row) /\ io.requireMask => io.marksAssistant

LossMask(units, io) ==
  [i \in DOMAIN units |-> (io.marksAssistant => units[i].spoken) /\ ~IsMedium(units[i])]

(* The units that have a token, in order, and what the model is given: the *)
(* media by the input they belong to and, when there is a modal token, the *)
(* slots of that one token, whichever media they stand for and also when   *)
(* there is none.                                                          *)
InputOf(kind) == IF kind = "video" THEN "video_values" ELSE "pixel_values"

EncodeUnits(units, io) ==
  LET kept  == SelectSeq(units, LAMBDA u : io.modalTokens \/ ~IsMedium(u))
      ids   == [i \in DOMAIN kept |-> TokenOf(kept[i])]
      Media(field) == SelectSeq(units, LAMBDA u : IsMedium(u) /\ InputOf(u.kind) = field)
      text  == [f \in {"input_ids", "attention_mask"} |->
                  IF f = "input_ids" THEN ids ELSE [i \in DOMAIN ids |-> TRUE]]
      media == [f \in {InputOf(u.kind) : u \in {v \in Range(units) : IsMedium(v)}} |->
                  [i \in DOMAIN Media(f) |-> Media(f)[i].value]]
      slots == [f \in IF io.modalTokens THEN {"modal_positions"} ELSE {} |->
                  SelectSeq([i \in DOMAIN ids |-> i], LAMBDA i : ids[i] = Modal)]
      place == [f \in {"position_ids"} \cap io.positions |-> [i \in DOMAIN ids |-> i - 1]]
  IN  [inputs |-> text @@ media @@ slots @@ place,
       loss   |-> LossMask(kept, io)]

Encode(row, io) ==
  The({EncodeUnits(units, io)
         : units \in {Units(messages, IsFlat(row)) : messages \in {Prepared(row, io)}}})

(* CausalSupervision: the labels are the tokens the loss mask keeps.       *)
Ignore == <<>>

Labels(encoded) ==
  [i \in DOMAIN encoded.loss |->
     IF encoded.loss[i] THEN encoded.inputs.input_ids[i] ELSE Ignore]

=============================================================================
