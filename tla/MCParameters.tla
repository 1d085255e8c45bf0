---------------------------- MODULE MCParameters ----------------------------
(* A model whose head is tied to its embedding, under every policy, with the *)
(* backends, hints, schedules, evidence and hosts that change what happens.  *)
EXTENDS Parameters

P(name, of) == [name |-> name, param |-> [of |-> of, sharded |-> FALSE]]
S(name) == P(name, name)

Emb == <<"embed", "weight">>
MCSites == <<S(Emb), S(<<"encoder", "proj", "weight">>), S(<<"encoder", "proj", "bias">>),
             S(<<"encoder", "norm", "weight">>), P(<<"head", "weight">>, Emb), S(<<"head", "bias">>)>>
Proj == <<"encoder", "proj">>
HeadPath == <<"head">>
Enc == <<"encoder">>

Policy(kind, components, each, targets) ==
  [kind |-> kind, components |-> components, each |-> each, targets |-> targets, rank |-> 1]

MCPolicies ==
  {Policy("component", cs, each, {}) : each \in BOOLEAN,
     cs \in {<<Enc>>, <<HeadPath, Enc>>, <<Enc, Proj>>, <<Proj, Enc>>, <<<<"absent">>>>}}
  \cup {Policy("freeze", cs, FALSE, {}) :
          cs \in {<<Enc>>, <<HeadPath>>, <<Enc, HeadPath, <<"embed">>>>, <<<<"absent">>>>}}
  \cup {Policy("full", <<>>, each, {}) : each \in BOOLEAN}
  \cup {Policy("lora", <<>>, FALSE, ts) : ts \in {{}, {Proj}, {Proj, HeadPath}}}

Base    == [lr |-> "base", decays |-> FALSE]
Faster  == [lr |-> "group", decays |-> TRUE]
NoHints == [units |-> {}, moe |-> FALSE, replicated |-> FALSE, tied |-> {}]

MCHints == {NoHints, [NoHints EXCEPT !.units = {Enc}], [NoHints EXCEPT !.units = {<<"absent">>}],
            [NoHints EXCEPT !.moe = TRUE], [NoHints EXCEPT !.replicated = TRUE],
            [NoHints EXCEPT !.tied = {Emb, <<"encoder", "norm", "weight">>}]}

Plain == [backend |-> "single", compile |-> "off", checkpoints |-> TRUE, wrap |-> "root",
          hints |-> NoHints, rate |-> Base, overrides |-> <<>>, every |-> 1, required |-> {},
          schedule |-> [name |-> "constant", warmup |-> 0, floor |-> FALSE, total |-> 2]]

Schedules == {[name |-> n, warmup |-> w, floor |-> f, total |-> 3] :
                n \in {"constant", "linear", "cosine"}, w \in {0, 1, 3}, f \in BOOLEAN}

MCRuns ==
  {[Plain EXCEPT !.backend = b, !.compile = c, !.checkpoints = k, !.wrap = w, !.hints = h, !.every = 0] :
     b \in {"torch_fsdp2", "deepspeed"}, c \in {"off", "partial", "fullgraph"}, k \in BOOLEAN,
     w \in {"root", "model_declared"}, h \in MCHints}
  \cup {[Plain EXCEPT !.backend = b, !.schedule = s, !.every = e] :
          b \in {"single", "torch_fsdp2"}, s \in Schedules, e \in {1, 2}}
  \cup {[Plain EXCEPT !.backend = b, !.required = {g}, !.overrides = [n \in {g} |-> Faster]] :
          b \in {"torch_ddp", "torch_fsdp2"}, g \in {Enc, <<"lora">>, <<"all">>}}
  \cup {[Plain EXCEPT !.backend = b, !.schedule = s, !.every = e, !.required = {g}] :
          b \in {"single", "torch_fsdp2"}, s \in {t \in Schedules : t.warmup # 0}, e \in {1, 2},
          g \in {Enc, <<"lora">>, <<"all">>}}

Host(targets, rank, base) == [targets |-> targets, rank |-> rank, base |-> base]
MCHosts == {Host({Proj, HeadPath}, 1, {Proj, HeadPath}), Host({Proj, HeadPath}, 1, {Proj}),
            Host({Proj}, 1, {Proj}), Host({Proj}, 2, {Proj}), Host({HeadPath}, 1, {HeadPath})}

MCSetups ==
  {[sites |-> MCSites, linears |-> {Proj, HeadPath}, policy |-> p, run |-> r,
    batches |-> {{"embed", "head"}, {"encoder", "embed", "head"}}, hosts |-> MCHosts] :
     p \in MCPolicies, r \in MCRuns}
=============================================================================
