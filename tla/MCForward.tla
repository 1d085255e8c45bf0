------------------------------ MODULE MCForward ------------------------------
(* Datasets of two or three rows and their configurations.                 *)
EXTENDS Forward

Nothing == [f \in {} |-> {}]
T(s, n) == Text(<<s, "text", n>>)
M(s, k, n) == <<s, k, n>>
No == [k \in Kinds |-> <<>>]
Images(s, n) == [No EXCEPT !["image"] = [i \in 1..n |-> M(s, "image", i)]]
Image == Placeholder("image")
Video == Placeholder("video")

Chat(turns, media)  == [layout |-> "messages", turns |-> turns, media |-> media]
Pairs(pairs, media) == [layout |-> "texts", pairs |-> pairs, media |-> media]
Flat(items, media)  == [layout |-> "text", items |-> items, media |-> media]
Query(s, media) ==
  [layout |-> "query", system |-> <<T(s, 1)>>, history |-> <<<<<<T(s, 2)>>, <<T(s, 3)>>>>>>,
   query |-> <<Image>>, response |-> <<T(s, 4)>>, media |-> media]
Policy(row) == [policy |-> row]

One(s) == Policy(Chat(<<Turn("user", <<Image, T(s, 1)>>), Turn("gpt", <<T(s, 2)>>)>>, Images(s, 1)))
Two(s) == Policy(Chat(<<Turn("user", <<Image, T(s, 1)>>), Turn("assistant", <<T(s, 2), Image, T(s, 3)>>)>>,
                    Images(s, 2)))
Loose(s) == Policy(Pairs(<<<<<<T(s, 1)>>, <<T(s, 2)>>>>>>, Images(s, 2)))
Given(s) == Policy(Chat(<<Turn("system", <<T(s, 1)>>), Turn("human", <<Embedded("image", M(s, "image", 1))>>),
                        Turn("bot", <<T(s, 2)>>)>>, No))
Asked(s) == Policy(Query(s, Images(s, 1)))
Both(s) == Policy(Chat(<<Turn("user", <<Video, T(s, 1), Image>>), Turn("assistant", <<T(s, 2)>>)>>,
                     [Images(s, 1) EXCEPT !["video"] = <<M(s, "video", 1)>>]))
Silent(s) == Policy(Chat(<<Turn("user", <<T(s, 1)>>), Turn("assistant", <<Image>>)>>, Images(s, 1)))
Film(s) == Policy(Chat(<<Turn("user", <<Video, T(s, 1)>>), Turn("assistant", <<T(s, 2)>>)>>,
                     [No EXCEPT !["video"] = <<M(s, "video", 1)>>]))
Spoke(s) == Policy(Chat(<<Turn("user", <<T(s, 1)>>), Turn("assistant", <<T(s, 2)>>)>>, No))
Plain(s) == Policy(Flat(<<T(s, 1), Image, T(s, 2)>>, Images(s, 1)))
Ahead(s) == Policy(Flat(<<T(s, 1), T(s, 2)>>, Images(s, 1)))

(* A preference pair: a question with an image, a short or a long answer.  *)
Answered(s, image, n) ==
  Chat(<<Turn("user", <<Image, T(s, 1)>>), Turn("assistant", [i \in 1..n |-> T(s, 10 * n + i)])>>,
       [No EXCEPT !["image"] = <<image>>])
Pair(s, other, m, n) ==
  [chosen |-> Answered(s, M(s, "image", 1), m), rejected |-> Answered(s, M(other, "image", 1), n)]

Io == [conversation |-> "auto", requireMask |-> TRUE, marksAssistant |-> TRUE,
       modalTokens |-> TRUE, positions |-> {}, missing |-> {}, changed |-> {}, pinned |-> {},
       requireDigest |-> FALSE, frames |-> 3, videoLength |-> 6, maxFrames |-> 6,
       sampling |-> "uniform"]
Branch(input, positions, required) == [input |-> input, positions |-> positions, required |-> required]
ImageBranch(required) == Branch("pixel_values", "modal_positions", required)
VideoBranch(required) == Branch("video_values", "modal_positions", required)
Whole(input, required) == Branch(input, "none", required)

Base == [rows |-> Nothing, policy |-> "prepend", io |-> Io, packer |-> "none", maxLength |-> 99,
         maxSamples |-> 9, packFields |-> {}, side |-> "right", multiple |-> 1, modes |-> Nothing,
         size |-> 2, branches |-> <<ImageBranch(TRUE)>>, fusion |-> "token_replace",
         attention |-> "default", strict |-> TRUE, objective |-> "causal_lm",
         reduction |-> "token_mean", cache |-> Nothing, cacheForm |-> "full", cacheWidth |-> 1]

Mixed == [a |-> One("a"), b |-> Two("b"), c |-> Loose("c")]

Prefix(base) ==
  [base EXCEPT !.fusion = "prefix", !.io.modalTokens = FALSE, !.io.positions = {"position_ids"},
               !.branches = <<Branch("pixel_values", "none", TRUE)>>]
Cross(base) == [base EXCEPT !.fusion = "cross_attention", !.io.modalTokens = FALSE,
                            !.branches = <<Branch("pixel_values", "none", TRUE)>>]
Packed(base, length, most) ==
  [base EXCEPT !.packer = "sequence", !.attention = "packed", !.maxLength = length,
               !.maxSamples = most, !.packFields = {"pixel_values", "modal_positions"}]
Free(base, length) ==
  [base EXCEPT !.packer = "padding_free", !.attention = "varlen", !.maxLength = length, !.size = 1,
               !.packFields = {"pixel_values", "modal_positions"}]
From(row, branch, producer) == [row |-> row, branch |-> branch, producer |-> producer]
Cached(base) ==
  [base EXCEPT !.cache = [n \in DOMAIN base.rows |-> [p \in DOMAIN base.rows[n] |->
                           From(base.rows[n][p], p, "reference")]],
               !.modes = [f \in {"input_ids", "attention_mask", "labels", "cached"} |-> "pad"]]
Distil(base, width, form) ==
  [Cached(base) EXCEPT !.objective = "dense_kd", !.multiple = width, !.cacheWidth = width,
                       !.cacheForm = form]
Prefer(base, width, form) ==
  [Cached(base) EXCEPT !.objective = "dpo", !.multiple = width, !.cacheWidth = width,
                       !.cacheForm = form]
Taught == [Base EXCEPT !.rows = [a |-> One("a"), b |-> Given("b")]]
Judged == [Base EXCEPT !.rows = [a |-> Pair("a", "a", 1, 2), b |-> Pair("b", "b", 2, 1)]]
Even   == [Base EXCEPT !.rows = [a |-> Pair("a", "a", 2, 2), b |-> Pair("b", "b", 2, 2)]]

SoundSetups ==
  {[Base EXCEPT !.rows = Mixed],
   [Base EXCEPT !.rows = Mixed, !.reduction = "sample_mean", !.size = 3, !.strict = FALSE],
   [Base EXCEPT !.rows = [a |-> Given("a"), b |-> Asked("b")], !.io.pinned = {M("b", "image", 1)}],
   [Base EXCEPT !.rows = [a |-> Film("a"), b |-> Film("b")], !.branches = <<VideoBranch(TRUE)>>],
   [Base EXCEPT !.rows = [a |-> Film("a")], !.io.sampling = "tail", !.io.marksAssistant = FALSE,
      !.io.requireMask = FALSE,
      !.branches = <<VideoBranch(TRUE), Whole("pixel_values", FALSE)>>],
   [Prefix([Base EXCEPT !.rows = [a |-> Both("a"), b |-> Both("b")]])
      EXCEPT !.branches = <<Whole("pixel_values", FALSE), Whole("video_values", TRUE)>>],
   [Cross([Base EXCEPT !.rows = [a |-> Both("a"), b |-> Both("b")]])
      EXCEPT !.branches = <<Whole("video_values", TRUE), Whole("pixel_values", TRUE)>>],
   [Prefix([Base EXCEPT !.rows = [a |-> Spoke("a"), b |-> Spoke("b")]])
      EXCEPT !.branches = <<Whole("pixel_values", FALSE)>>],
   [Prefix([Base EXCEPT !.rows = [a |-> Spoke("a"), b |-> Spoke("b")], !.side = "left"])
      EXCEPT !.branches = <<Whole("pixel_values", FALSE)>>, !.io.positions = {}],
   [Base EXCEPT !.rows = [a |-> Plain("a"), b |-> Ahead("b")], !.io.conversation = "disabled"],
   Prefix([Base EXCEPT !.rows = Mixed]),
   Prefix([Base EXCEPT !.rows = [a |-> Plain("a"), b |-> Ahead("b"), c |-> One("c")]]),
   [Prefix([Base EXCEPT !.rows = [a |-> Given("a"), b |-> One("b")]])
      EXCEPT !.io.positions = {}],
   Cross([Base EXCEPT !.rows = Mixed, !.side = "left"]),
   Packed([Base EXCEPT !.rows = Mixed], 12, 9),
   Packed([Base EXCEPT !.rows = Mixed, !.size = 1], 20, 2),
   Packed([Base EXCEPT !.rows = [a |-> Plain("a"), b |-> Ahead("b"), c |-> Plain("c")]], 6, 9),
   [Packed([Base EXCEPT !.rows = Mixed], 20, 9) EXCEPT !.strict = FALSE],
   Free([Base EXCEPT !.rows = Mixed], 13),
   Distil(Taught, 6, "full"), Distil([Taught EXCEPT !.reduction = "sample_mean"], 6, "shifted"),
   Prefer(Judged, 6, "full"), Prefer([Even EXCEPT !.size = 1], 6, "full"),
   [Prefer(Even, 1, "shifted") EXCEPT !.modes = Nothing]}

Wrong(base, from) == [base EXCEPT !.cache["a"] = from]
Kd == Distil(Taught, 6, "full")
Po == Prefer(Judged, 6, "full")

OddSetups ==
  {[Base EXCEPT !.rows = [a |-> One("a"), b |-> Spoke("b")], !.branches = <<ImageBranch(FALSE)>>],
   [Base EXCEPT !.rows = [a |-> Spoke("a")]],
   [Base EXCEPT !.rows = [a |-> Spoke("a")], !.branches = <<ImageBranch(FALSE)>>],
   [Base EXCEPT !.rows = [a |-> Spoke("a"), b |-> Spoke("b")], !.branches = <<ImageBranch(FALSE)>>,
      !.side = "left"],
   [Base EXCEPT !.rows = [a |-> [One("a") EXCEPT !.policy.media = No]]],
   [Base EXCEPT !.rows = [a |-> [One("a") EXCEPT !.policy.media = Images("a", 2)]]],
   [Base EXCEPT !.rows = Mixed, !.policy = "error"],
   [Base EXCEPT !.rows = Mixed, !.side = "left"],
   [Base EXCEPT !.rows = Mixed, !.multiple = 4],
   [Base EXCEPT !.rows = Mixed, !.io.marksAssistant = FALSE],
   [Base EXCEPT !.rows = Mixed, !.io.conversation = "disabled"],
   [Base EXCEPT !.rows = Mixed, !.io.requireDigest = TRUE],
   [Base EXCEPT !.rows = Mixed, !.io.missing = {M("a", "image", 1)}],
   [Base EXCEPT !.rows = Mixed, !.io.changed = {M("b", "image", 1)}, !.io.pinned = {M("b", "image", 1)}],
   [Base EXCEPT !.rows = Mixed, !.io.changed = {M("b", "image", 1)}],
   [Base EXCEPT !.rows = [a |-> Film("a")], !.io.videoLength = 9,
      !.branches = <<VideoBranch(TRUE)>>],
   [Base EXCEPT !.rows = [a |-> Both("a")],
      !.branches = <<ImageBranch(FALSE), Whole("video_values", TRUE)>>],
   [Base EXCEPT !.rows = [a |-> Both("a")]],
   [Prefix([Base EXCEPT !.rows = Mixed]) EXCEPT !.attention = "packed"],
   [Cross([Base EXCEPT !.rows = [a |-> Spoke("a")]]) EXCEPT !.branches = <<ImageBranch(FALSE)>>],
   Packed([Base EXCEPT !.rows = Mixed], 5, 9),
   [Packed([Base EXCEPT !.rows = Mixed], 12, 9) EXCEPT !.packFields = {"pixel_values"}],
   [Packed([Base EXCEPT !.rows = Mixed], 12, 9) EXCEPT !.attention = "default"],
   [Packed([Base EXCEPT !.rows = [a |-> One("a"), b |-> Spoke("b")]], 12, 9) EXCEPT !.size = 1],
   [Free([Base EXCEPT !.rows = Mixed], 13) EXCEPT !.size = 2],
   Packed(Kd, 12, 9),
   [Base EXCEPT !.rows = [a |-> Silent("a"), b |-> Given("b")], !.reduction = "sample_mean"],
   [Base EXCEPT !.rows = [a |-> Silent("a"), b |-> Given("b")]],
   Wrong(Kd, [policy |-> From(Taught.rows["b"].policy, "policy", "reference")]),
   Wrong(Kd, [policy |-> From(Taught.rows["a"].policy, "policy", "another")]),
   [Kd EXCEPT !.cache = [n \in {"b"} |-> Kd.cache[n]]],
   [Kd EXCEPT !.multiple = 7],
   Prefer(Judged, 6, "shifted"),
   [Kd EXCEPT !.io.changed = {M("a", "image", 1)}],
   Wrong(Po, [chosen |-> Po.cache["a"]["rejected"], rejected |-> Po.cache["a"]["chosen"]]),
   Wrong(Po, [chosen |-> Po.cache["b"]["chosen"], rejected |-> Po.cache["a"]["rejected"]]),
   [Prefer([Base EXCEPT !.rows = [a |-> Pair("a", "b", 1, 2), b |-> Pair("b", "b", 2, 1)]], 6, "full")
      EXCEPT !.size = 1]}

=============================================================================
