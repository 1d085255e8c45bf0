----------------------------- MODULE Parameters -----------------------------
(***************************************************************************)
(* Which tensors a run trains, and what an exported adapter carries away.  *)
(*                                                                         *)
(* A parameter policy (modules/parameters) marks the parameters that need  *)
(* gradients and puts them into groups; an execution backend               *)
(* (runtime/execution) may replace the parameter objects of the model and  *)
(* builds the optimizer and the schedule (runtime/optimization) from the   *)
(* groups; the steps of the engine update what the optimizer was given,    *)
(* and update evidence compares the tensors before and after a step.  A    *)
(* model with LoRA can be exported as an adapter and loaded into another   *)
(* (modules/export/lora_adapter).                                          *)
(*                                                                         *)
(* A name is the sequence of its parts.  A parameter object is the tensor  *)
(* it stands for and whether the backend has replaced it.  The value of a  *)
(* tensor is the sequence of the rates it was updated with.                *)
(***************************************************************************)
EXTENDS Naturals, FiniteSets, Sequences, SequencesExt

CONSTANTS
  None,     \* no selection, no snapshot, no adapter
  Setups    \* the tasks and runs: a model with its policy, backend, schedule

VARIABLES
  setup,      \* the task and the run
  pc,         \* where the process is
  sites,      \* the parameters of the model in module order, tied ones at each name
  selection,  \* what the policy returned: groups of parameter objects
  requires,   \* the tensors that need gradients
  groups,     \* the parameter groups of the optimizer
  step,       \* the optimizer steps so far
  value,      \* the value of each tensor
  snapshot,   \* the values update evidence has captured before the step
  evidence,   \* the parameters it found changed, by group
  history,    \* auxiliary: the components each step's batch reached
  adapter,    \* the exported adapter
  host        \* the model an adapter is loaded into

training == <<selection, requires, groups, step, value, snapshot, evidence, history>>
vars == <<setup, pc, sites, training, adapter, host>>

-----------------------------------------------------------------------------
(* The parameters of a model.                                              *)

\* named_parameters(): each tensor once, under its first name.
NamedParameters(s) ==
  FoldLeft(LAMBDA seen, site :
             IF \E i \in DOMAIN seen : seen[i].param = site.param
             THEN seen ELSE Append(seen, site), <<>>, s)

NamesOf(s) == [i \in DOMAIN s |-> s[i].name]
Objects(s) == [i \in DOMAIN s |-> s[i].param]
Group(name, s) == [name |-> name, params |-> Objects(s)]

Selection(gs, trained, named) ==
  [groups |-> gs, trainable |-> NamesOf(trained),
   frozen |-> NamesOf(SelectSeq(named, LAMBDA p : ~Contains(trained, p)))]

\* The first listed component a name belongs to, as a sequence.
Owner(name, components) ==
  LET owners == SelectSeq(components, LAMBDA c : IsPrefix(c, name))
  IN SubSeq(owners, 1, IF owners = <<>> THEN 0 ELSE 1)

Owned(named, components, c) ==
  SelectSeq(named, LAMBDA p : Owner(p.name, components) = <<c>>)

AllMatched(named, components) ==
  \A c \in ToSet(components) : Owned(named, components, c) # <<>>

\* The component policy: one group for each component, or one for all.
SelectComponents(named, policy) ==
  LET owned   == [i \in DOMAIN policy.components |->
                    Owned(named, policy.components, policy.components[i])]
      trained == FlattenSeq(owned)
  IN IF ~AllMatched(named, policy.components) THEN None
     ELSE Selection(IF policy.each
                    THEN [i \in DOMAIN owned |-> Group(policy.components[i], owned[i])]
                    ELSE <<Group(<<"selected">>, trained)>>, trained, named)

FreezePolicy(named, policy) ==
  LET trained == SelectSeq(named, LAMBDA p : Owner(p.name, policy.components) = <<>>)
  IN IF ~AllMatched(named, policy.components) \/ trained = <<>> THEN None
     ELSE Selection(<<Group(<<"unfrozen">>, trained)>>, trained, named)

FullPolicy(named, policy) ==
  LET tops == FoldLeft(LAMBDA seen, p : IF Contains(seen, <<Head(p.name)>>) THEN seen
                                        ELSE Append(seen, <<Head(p.name)>>), <<>>, named)
  IN Selection(IF policy.each
               THEN [i \in DOMAIN tops |->
                       Group(tops[i], SelectSeq(named, LAMBDA p : Head(p.name) = tops[i][1]))]
               ELSE <<Group(<<"all">>, named)>>, named, named)

\* LoRA wraps the linear modules its patterns match: the wrapper owns the two
\* new matrices, and the module it wraps becomes its child "base".
Targets(policy) == setup.linears \cap policy.targets

NewParameter(name) == [name |-> name, param |-> [of |-> name, sharded |-> FALSE]]

Wrapped(site, targets) ==
  LET path == Front(site.name)
  IN IF path \notin targets THEN <<site>>
     ELSE (IF Last(site.name) # "weight" THEN <<>>
           ELSE <<NewParameter(Append(path, "lora_a")), NewParameter(Append(path, "lora_b"))>>)
          \o <<[site EXCEPT !.name = path \o <<"base", Last(site.name)>>]>>

LoRASites(s, policy) == FlattenSeq([i \in DOMAIN s |-> Wrapped(s[i], Targets(policy))])

IsLoRA(name) == \E i \in 2..Len(name) : name[i] \in {"lora_a", "lora_b"}

LoRAPolicy(named, policy) ==
  LET trained == SelectSeq(named, LAMBDA p : IsLoRA(p.name))
  IN IF Targets(policy) = {} THEN None
     ELSE Selection(<<Group(<<"lora">>, trained)>>, trained, named)

Applied(s, policy) ==
  LET named == NamedParameters(s)
  IN CASE policy.kind = "component" -> SelectComponents(named, policy)
       [] policy.kind = "freeze"    -> FreezePolicy(named, policy)
       [] policy.kind = "full"      -> FullPolicy(named, policy)
       [] policy.kind = "lora"      -> LoRAPolicy(named, policy)

-----------------------------------------------------------------------------
(* Backends, optimizer and schedule.                                       *)

\* Names a model declares for a backend must exist in it.
HintsValid(hints) ==
  LET named == ToSet(NamesOf(NamedParameters(sites)))
  IN /\ \A u \in hints.units : \E n \in named : IsStrictPrefix(u, n)
     /\ hints.tied \subseteq named

FSDP2Accepts(run) ==
  /\ run.compile # "fullgraph"
  /\ HintsValid(run.hints)
  /\ ~run.hints.moe /\ ~run.hints.replicated /\ run.hints.tied = {}
  /\ run.wrap = "model_declared" => run.hints.units # {}

DeepSpeedAccepts(run) ==
  /\ run.compile = "off" /\ ~run.checkpoints
  /\ HintsValid(run.hints) /\ ~run.hints.moe

Accepts(run) ==
  CASE run.backend \in {"single", "torch_ddp"} -> TRUE
    [] run.backend = "torch_fsdp2"             -> FSDP2Accepts(run)
    [] run.backend = "deepspeed"               -> DeepSpeedAccepts(run)

\* fully_shard puts a new object in the place of each parameter.
FullyShard(s) == [i \in DOMAIN s |-> [s[i] EXCEPT !.param.sharded = TRUE]]

\* The groups of the policy with the objects that carry their names now.
NameIn(s, object) ==
  LET found == SelectSeq(NamedParameters(s), LAMBDA p : p.param = object)
  IN IF found = <<>> THEN <<"<unnamed>">> ELSE found[1].name

ObjectAt(s, name) == SelectSeq(NamedParameters(s), LAMBDA p : p.name = name)[1].param

\* Mutant of Remapped: the groups keep the objects the policy saw.
RemappedStale(old, new, gs) == gs

Remapped(old, new, gs) ==
  [g \in DOMAIN gs |->
     [gs[g] EXCEPT !.params = [k \in DOMAIN gs[g].params |->
                                 ObjectAt(new, NameIn(old, gs[g].params[k]))]]]

\* The learning rate and the weight decay of a group.
RateOf(run, name) == IF name \in DOMAIN run.overrides THEN run.overrides[name] ELSE run.rate

OptimizerAccepts(run, gs) ==
  /\ DOMAIN run.overrides \subseteq {gs[i].name : i \in DOMAIN gs}
  /\ \A i \in DOMAIN gs : gs[i].params # <<>>
  /\ gs # <<>>

BuildOptimizer(run, gs) ==
  [i \in DOMAIN gs |-> [name |-> gs[i].name, params |-> ToSet(gs[i].params),
                        rate |-> RateOf(run, gs[i].name)]]

\* Whether the factor of the schedule is zero after n steps.
ScaleIsZero(n) ==
  LET s == setup.run.schedule
  IN IF n < s.warmup THEN n = 0
     ELSE s.name # "constant" /\ ~s.floor /\ n >= s.warmup
          /\ n - s.warmup >= (IF s.total > s.warmup THEN s.total - s.warmup ELSE 1)

-----------------------------------------------------------------------------
(* Assembling and training.                                                *)

Init ==
  /\ setup \in Setups
  /\ pc = "policy"
  /\ sites = setup.sites
  /\ selection = None /\ requires = {} /\ groups = <<>> /\ step = 0
  /\ value = [t \in {setup.sites[i].param.of : i \in DOMAIN setup.sites} |-> <<>>]
  /\ snapshot = None /\ evidence = None /\ history = <<>>
  /\ adapter = None /\ host = None

ApplyPolicy ==
  /\ pc = "policy"
  /\ sites' = IF setup.policy.kind = "lora" THEN LoRASites(sites, setup.policy) ELSE sites
  /\ selection' = Applied(sites', setup.policy)
  /\ requires' = IF selection' = None THEN {}
                 ELSE UNION {{p.of : p \in ToSet(selection'.groups[g].params)}
                             : g \in DOMAIN selection'.groups}
  /\ value' = [t \in {sites'[i].param.of : i \in DOMAIN sites'} |-> <<>>]
  /\ pc' = IF selection' = None THEN "refused" ELSE "backend"
  /\ UNCHANGED <<setup, groups, step, snapshot, evidence, history, adapter, host>>

\* The backend checks the run, may wrap the model, and builds the optimizer
\* from the groups of the model it trains.
BuildBackend ==
  /\ pc = "backend"
  /\ LET run     == setup.run
         wraps   == run.backend = "torch_fsdp2"
         wrapped == IF wraps THEN FullyShard(sites) ELSE sites
         gs      == IF wraps THEN Remapped(sites, wrapped, selection.groups)
                    ELSE selection.groups
         built   == Accepts(run) /\ OptimizerAccepts(run, gs)
     IN /\ sites' = IF Accepts(run) THEN wrapped ELSE sites
        /\ groups' = IF built THEN BuildOptimizer(run, gs) ELSE <<>>
        /\ pc' = CASE ~built                                 -> "refused"
                   [] built /\ run.backend = "deepspeed"     -> "delegated"
                   [] built /\ run.backend # "deepspeed"     -> "train"
  /\ UNCHANGED <<setup, selection, requires, step, value, snapshot, evidence, history,
                 adapter, host>>

EvidenceDue == setup.run.every # 0 /\ (step + 1) % setup.run.every = 0

Captured(g) == {[name |-> NameIn(sites, p), before |-> value[p.of]] : p \in g.params}

\* The tensors whose gradient exists, and those whose gradient is zero: the
\* first matrix of a LoRA pair is multiplied by the second, which starts as 0.
WithGradient(batch) ==
  {t \in requires : \E i \in DOMAIN sites : sites[i].param.of = t /\ Head(sites[i].name) \in batch}
ZeroGradient(t) == Last(t) = "lora_a" /\ value[Append(Front(t), "lora_b")] = <<>>

Moves(g, t, batch) ==
  /\ ~ScaleIsZero(step)
  /\ \E p \in g.params : p.of = t /\ Contains(Objects(sites), p)
  /\ t \in WithGradient(batch)
  /\ ZeroGradient(t) => g.rate.decays

\* One optimizer step on a batch that reaches some components of the model.
OptimizerStep ==
  /\ pc = "train" /\ step < setup.run.schedule.total
  /\ \E batch \in setup.batches :
       /\ value' = [t \in DOMAIN value |->
                      LET moving == SelectSeq(groups, LAMBDA g : Moves(g, t, batch))
                      IN value[t] \o [i \in DOMAIN moving |-> moving[i].rate]]
       /\ history' = Append(history, batch)
  /\ snapshot' = IF EvidenceDue THEN [i \in DOMAIN groups |-> Captured(groups[i])] ELSE None
  /\ step' = step + 1
  /\ pc' = IF EvidenceDue THEN "evidence" ELSE "train"
  /\ UNCHANGED <<setup, sites, selection, requires, groups, evidence, adapter, host>>

Changed(i) == {c.name : c \in {d \in snapshot[i] : value[ObjectAt(sites, d.name).of] # d.before}}

EvidenceHolds ==
  /\ setup.run.required \subseteq {groups[i].name : i \in DOMAIN groups}
  /\ \A i \in DOMAIN groups :
       /\ \A c \in snapshot[i] : Contains(NamesOf(NamedParameters(sites)), c.name)
       /\ groups[i].name \in setup.run.required => Changed(i) # {}

\* Evidence that does not hold raises, after the step.
FinalizeEvidence ==
  /\ pc = "evidence"
  /\ evidence' = IF EvidenceHolds
                 THEN [name \in {groups[i].name : i \in DOMAIN groups} |->
                         UNION {Changed(i) : i \in {j \in DOMAIN groups : groups[j].name = name}}]
                 ELSE None
  /\ pc' = IF EvidenceHolds THEN "train" ELSE "failed"
  /\ snapshot' = None
  /\ UNCHANGED <<setup, sites, selection, requires, groups, step, value, history, adapter, host>>

-----------------------------------------------------------------------------
(* Adapters.                                                               *)

\* The wrapped modules of the model, in module order.
Adapters(s) ==
  LET own == SelectSeq(s, LAMBDA p : Len(p.name) > 1 /\ Last(p.name) = "lora_a")
  IN [i \in DOMAIN own |-> Front(own[i].name)]

BaseOf(path) ==
  [leaf \in {l \in {"weight", "bias"} : Contains(NamesOf(sites), path \o <<"base", l>>)} |->
     value[sites[CHOOSE i \in DOMAIN sites : sites[i].name = path \o <<"base", leaf>>].param.of]]

\* The model of the last checkpoint is exported, with the digests of the modules
\* the adapter belongs on.
Export ==
  /\ pc = "train" /\ setup.policy.kind = "lora" /\ adapter = None
  /\ step = setup.run.schedule.total
  /\ adapter' = [path \in ToSet(Adapters(sites)) |->
                   [rank   |-> setup.policy.rank,
                    base   |-> BaseOf(path),
                    lora_a |-> value[Append(path, "lora_a")],
                    lora_b |-> value[Append(path, "lora_b")]]]
  /\ UNCHANGED <<setup, pc, sites, training, host>>

\* A model that an adapter is loaded into: freshly wrapped modules over a base
\* of its own, which is the one the run started from or another.
BeginLoad ==
  /\ adapter # None /\ host = None
  /\ \E h \in setup.hosts :
       host' = [targets |-> SelectSeq(Adapters(sites), LAMBDA p : p \in h.targets),
                rank |-> h.rank, base |-> h.base, next |-> 1,
                loaded |-> [p \in h.targets |-> None], at |-> "load"]
  /\ UNCHANGED <<setup, pc, sites, training, adapter>>

HostBase(path) ==
  [leaf \in DOMAIN adapter[path].base |->
     IF path \in host.base THEN <<>> ELSE <<"another base">>]

\* Mutant of MetadataMatches: the shapes of a target are compared, not its base.
MetadataMatchesShape(path) == host.rank = adapter[path].rank

MetadataMatches(path) ==
  host.rank = adapter[path].rank /\ HostBase(path) = adapter[path].base

\* Targets are checked and copied one after the other.
LoadTarget ==
  /\ host # None /\ host.at = "load"
  /\ IF ToSet(host.targets) # DOMAIN adapter
     THEN host' = [host EXCEPT !.at = "refused"]
     ELSE IF host.next > Len(host.targets)
     THEN host' = [host EXCEPT !.at = "loaded"]
     ELSE LET path == host.targets[host.next]
          IN host' = IF ~MetadataMatches(path) THEN [host EXCEPT !.at = "refused"]
                     ELSE [host EXCEPT !.next = @ + 1,
                             !.loaded[path] = [lora_a |-> adapter[path].lora_a,
                                               lora_b |-> adapter[path].lora_b]]
  /\ UNCHANGED <<setup, pc, sites, training, adapter>>

Next == ApplyPolicy \/ BuildBackend \/ OptimizerStep \/ FinalizeEvidence
        \/ Export \/ BeginLoad \/ LoadTarget

Spec == Init /\ [][Next]_vars

-----------------------------------------------------------------------------
(* What the task and the run ask for, by name.                             *)

AskedFor(name) ==
  LET p == setup.policy
      listed == \E c \in ToSet(p.components) : IsPrefix(c, name)
  IN CASE p.kind = "component" -> listed
       [] p.kind = "freeze"    -> ~listed
       [] p.kind = "full"      -> TRUE
       [] p.kind = "lora"      -> Last(name) \in {"lora_a", "lora_b"}

AskedGroup(name) ==
  LET p == setup.policy
      of == {i \in DOMAIN p.components : IsPrefix(p.components[i], name)}
  IN CASE p.kind = "component" ->
            IF p.each THEN p.components[CHOOSE i \in of : \A j \in of : i <= j]
            ELSE <<"selected">>
       [] p.kind = "freeze"    -> <<"unfrozen">>
       [] p.kind = "full"      -> IF p.each THEN <<Head(name)>> ELSE <<"all">>
       [] p.kind = "lora"      -> <<"lora">>

\* The steps that reach a parameter: a warm-up spends its first step on a rate
\* of zero, and no other step of a run has a rate of zero.
Reaching(p) ==
  {n \in DOMAIN history :
     /\ n = 1 => setup.run.schedule.warmup = 0
     /\ \E i \in DOMAIN sites : sites[i].param = p.param /\ Head(sites[i].name) \in history[n]}

Updates(p) ==
  LET rate  == RateOf(setup.run, AskedGroup(p.name))
      first == {n \in Reaching(p) : \A m \in Reaching(p) : n <= m}
  IN IF ~AskedFor(p.name) THEN {}
     ELSE IF Last(p.name) = "lora_a" /\ ~rate.decays THEN Reaching(p) \ first
     ELSE Reaching(p)

AfterUpdates(p, ns) ==
  LET rate == RateOf(setup.run, AskedGroup(p.name)) IN [i \in 1..Cardinality(ns) |-> rate]

-----------------------------------------------------------------------------
(* Properties.                                                             *)

\* After any number of steps the tensors that the policy asks for have been
\* updated by every step that reached them, at the rate of their group and once,
\* and no other tensor has changed, whatever the backend made of the parameter
\* objects; and evidence names exactly what a step has changed, and refuses a
\* step just when it left a required group as it was (torch_backends.py:213,
\* optimizer.py:56, evidence.py:204).
TrainedExactly ==
  pc \in {"train", "evidence", "failed"} =>
    /\ \A p \in ToSet(NamedParameters(sites)) : value[p.param.of] = AfterUpdates(p, Updates(p))
    /\ pc = "train" /\ evidence # None /\ step > 0 /\ step % setup.run.every = 0 =>
         /\ \A name \in DOMAIN evidence :
              evidence[name] = {p.name : p \in {q \in ToSet(NamedParameters(sites)) :
                                  AskedFor(q.name) /\ AskedGroup(q.name) = name
                                  /\ step \in Updates(q)}}
         /\ \A name \in setup.run.required : evidence[name] # {}
    /\ pc = "failed" =>
         \E name \in setup.run.required :
           \A p \in ToSet(NamedParameters(sites)) :
             AskedFor(p.name) /\ AskedGroup(p.name) = name => step \notin Updates(p)

\* A target that an adapter was loaded into is what training made of it, the same
\* pair over the same base, also when a later target is refused; an adapter that is
\* accepted is loaded into every target, and one that fits is not refused
\* (lora_adapter/module.py:132, 143, 164).
AdapterExact ==
  host # None =>
    /\ \A path \in DOMAIN host.loaded :
         host.loaded[path] # None =>
           /\ path \in host.base /\ BaseOf(path) = HostBase(path)
           /\ host.loaded[path] = [lora_a |-> value[Append(path, "lora_a")],
                                   lora_b |-> value[Append(path, "lora_b")]]
    /\ host.at = "loaded" =>
         \A path \in ToSet(Adapters(sites)) :
           path \in DOMAIN host.loaded /\ host.loaded[path] # None
    /\ host.at = "refused" =>
         \/ ToSet(host.targets) # ToSet(Adapters(sites)) \/ host.rank # setup.policy.rank
         \/ \E path \in ToSet(Adapters(sites)) : path \notin host.base
=============================================================================
