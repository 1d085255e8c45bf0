------------------------------- MODULE Launch -------------------------------
(***************************************************************************)
(* How engines start and end: the launch environment and the process group *)
(* of ProcessContext (runtime/execution/process.py), the construction of   *)
(* an execution backend (runtime/execution/factory.py) and of TrainEngine  *)
(* (runtime/loop/engine.py), and build_engine and train of api/train.py.   *)
(*                                                                         *)
(* A launch is a set of operating-system processes.  Each makes its        *)
(* engines one after the other; several may be open at once and are closed *)
(* in the opposite order.  The processes of one world are its ranks: they  *)
(* meet when the group is set up, when the model is wrapped and when the   *)
(* primary tells whether it wrote the identity of the run.                 *)
(*                                                                         *)
(* Any step of a rank may fail on that rank alone, and a process may be    *)
(* killed.  Who waits for a peer is bounded by the timeout of the group.   *)
(***************************************************************************)
EXTENDS Naturals, Sequences, FiniteSets, SequencesExt

CONSTANTS
  None,       \* no process group
  Processes,  \* the processes a launch may have
  Launches,   \* the launches: the processes, their environment and engines
  Available,  \* the process-group backends of this PyTorch build
  MaxFaults   \* the bound on local failures and kills

RankEnv == {"RANK", "LOCAL_RANK", "WORLD_SIZE"}

Backends == {"gloo", "nccl", "hccl"}
Group == [backend : Backends, rank : Nat, world : Nat]

\* What a process is started with, and the settings of the engines it makes.
EngineSettings ==
  [backend : {"single", "torch_ddp", "torch_fsdp2", "deepspeed"}, group : Backends \cup {"auto"},
   device : {"cpu", "cuda", "npu"}, index : {"none", "local", "other"}, expected : Nat]
ProcessSettings ==
  [vars : SUBSET RankEnv, rank : Nat, world : Nat, master : BOOLEAN,
   host : Group \cup {None}, engines : Seq(EngineSettings), nested : BOOLEAN]

\* Without a launcher the process is the only rank of its world; what it puts
\* into the environment says the same.
RankIn(l, p)  == IF l[p].vars # {} THEN l[p].rank ELSE 0

\* A launcher gives the processes of a world different ranks.
ASSUME LaunchAssumption ==
  /\ None \notin Group
  /\ \A l \in Launches :
       /\ DOMAIN l \subseteq Processes
       /\ \A p \in DOMAIN l : l[p] \in ProcessSettings
       /\ \A p, q \in DOMAIN l : RankIn(l, p) = RankIn(l, q) => p = q
  /\ Available \subseteq Backends
  /\ MaxFaults \in Nat

VARIABLES
  launch,    \* the launch
  env,       \* the rank variables in the environment of each process
  group,     \* the default process group of each process
  next,      \* the engine each process makes next, or is making
  at,        \* the control point of that engine
  context,   \* the ProcessContext of that engine
  open,      \* the contexts of the open engines, the latest first
  arrived,   \* the meeting points each process has come to
  identity,  \* what the primary has announced of each engine's identity
  leaked,    \* auxiliary: the processes with an engine nobody can close
  faults     \* the number of failures and kills so far

resources == <<env, group, leaked>>
vars == <<launch, resources, next, at, context, open, arrived, identity, faults>>

Procs == DOMAIN launch
Engine(p) == launch[p].engines[next[p]]

-----------------------------------------------------------------------------
(* ProcessContext.create.                                                  *)

Populated(p) == env[p] # {}

RankOf(p)  == RankIn(launch, p)
WorldOf(p) == IF launch[p].vars # {} THEN launch[p].world ELSE 1

EnvironmentAccepted(p) ==
  LET e == Engine(p)
  IN /\ Populated(p) => env[p] = RankEnv
     /\ WorldOf(p) > 0 /\ RankOf(p) < WorldOf(p)
     /\ e.expected \in {0, WorldOf(p)}
     /\ e.backend = "single" => WorldOf(p) = 1 /\ RankOf(p) = 0

\* The backend of the process group, or None when the build has none that fits.
GroupBackend(p) ==
  LET e == Engine(p)
      selected == CASE e.group # "auto"                      -> e.group
                    [] e.group = "auto" /\ e.device = "npu"  -> "hccl"
                    [] e.group = "auto" /\ e.device = "cpu"  -> "gloo"
                    [] e.group = "auto" /\ e.device = "cuda" ->
                         IF "nccl" \in Available THEN "nccl" ELSE "gloo"
  IN IF \/ selected \in {"gloo", "nccl"} \ Available
        \/ WorldOf(p) > 1 /\ e.device = "cuda" /\ selected = "gloo" /\ e.group = "auto"
     THEN None ELSE selected

WantedGroup(p) == [backend |-> GroupBackend(p), rank |-> RankOf(p), world |-> WorldOf(p)]

Context(p, g, owns, injected) ==
  [distributed |-> Engine(p).backend # "single", group |-> g, owns |-> owns,
   injected |-> injected]

\* The index of an accelerator that is not the local rank is refused before any
\* group is made; that of a cpu is not looked at.
CanCreate(p) ==
  /\ EnvironmentAccepted(p)
  /\ Engine(p).backend # "single" =>
       GroupBackend(p) # None /\ (Engine(p).device = "cpu" \/ Engine(p).index # "other")

Making(p) == at[p] = "idle" /\ next[p] <= Len(launch[p].engines)
             /\ (launch[p].nested \/ open[p] = <<>>)

Fail(p) == at' = [at EXCEPT ![p] = "idle"] /\ next' = [next EXCEPT ![p] = @ + 1]

RefuseCreate(p) ==
  /\ Making(p)
  /\ \/ ~CanCreate(p)
     \/ /\ Engine(p).backend # "single" /\ group[p] # None
        /\ group[p] # WantedGroup(p)
     \/ /\ Engine(p).backend # "single" /\ group[p] = None
        /\ Populated(p) /\ ~launch[p].master
  /\ Fail(p)
  /\ UNCHANGED <<launch, resources, context, open, arrived, identity, faults>>

CreateSingle(p) ==
  /\ Making(p) /\ CanCreate(p) /\ Engine(p).backend = "single"
  /\ at' = [at EXCEPT ![p] = "build"]
  /\ context' = [context EXCEPT ![p] = Context(p, None, FALSE, {})]
  /\ UNCHANGED <<launch, resources, next, open, arrived, identity, faults>>

\* A group that is there already, the caller's or another engine's, is used.
CreateBorrowed(p) ==
  /\ Making(p) /\ CanCreate(p) /\ Engine(p).backend # "single"
  /\ group[p] = WantedGroup(p)
  /\ at' = [at EXCEPT ![p] = "build"]
  /\ context' = [context EXCEPT ![p] = Context(p, group[p], FALSE, {})]
  /\ UNCHANGED <<launch, resources, next, open, arrived, identity, faults>>

\* Without a launcher the process makes a group of one rank and, once it is
\* there, tells its environment.
CreateStandalone(p) ==
  /\ Making(p) /\ CanCreate(p) /\ Engine(p).backend # "single"
  /\ group[p] = None /\ ~Populated(p)
  /\ group' = [group EXCEPT ![p] = WantedGroup(p)]
  /\ env' = [env EXCEPT ![p] = @ \cup RankEnv]
  /\ context' = [context EXCEPT ![p] = Context(p, WantedGroup(p), TRUE, RankEnv \ env[p])]
  /\ at' = [at EXCEPT ![p] = "build"]
  /\ UNCHANGED <<launch, next, open, arrived, identity, leaked, faults>>

ComeTo(p, point) == arrived' = [arrived EXCEPT ![p] = @ \cup {<<next[p], point>>}]

\* Whether every rank of the world has come to the point.
AllAt(p, point) ==
  /\ WorldOf(p) = Cardinality(Procs)
  /\ \A q \in Procs : <<next[p], point>> \in arrived[q]

CreateRendezvous(p) ==
  /\ Making(p) /\ CanCreate(p) /\ Engine(p).backend # "single"
  /\ group[p] = None /\ Populated(p) /\ launch[p].master
  /\ ComeTo(p, "rendezvous")
  /\ at' = [at EXCEPT ![p] = "rendezvous"]
  /\ UNCHANGED <<launch, resources, next, context, open, identity, faults>>

FinishRendezvous(p) ==
  /\ at[p] = "rendezvous" /\ AllAt(p, "rendezvous")
  /\ group' = [group EXCEPT ![p] = WantedGroup(p)]
  /\ context' = [context EXCEPT ![p] = Context(p, WantedGroup(p), TRUE, {})]
  /\ at' = [at EXCEPT ![p] = "build"]
  /\ UNCHANGED <<launch, env, next, open, arrived, identity, leaked, faults>>

-----------------------------------------------------------------------------
(* The backend, the engine and the identity of the run.                    *)

\* Mutant of Release: a borrowed group is destroyed as if it were the engine's own.
ReleaseBorrowed(p, c) ==
  /\ group' = [group EXCEPT ![p] = IF c.distributed THEN None ELSE @]
  /\ env' = [env EXCEPT ![p] = @ \ c.injected]

\* ProcessContext.close.
Release(p, c) ==
  /\ group' = [group EXCEPT ![p] = IF c.owns THEN None ELSE @]
  /\ env' = [env EXCEPT ![p] = @ \ c.injected]

\* The model is placed; a distributed backend then wraps it with its peers.
BuildBackend(p) ==
  /\ at[p] = "build"
  /\ IF context[p].distributed /\ WorldOf(p) > 1
     THEN at' = [at EXCEPT ![p] = "wrap"] /\ ComeTo(p, "wrap")
     ELSE at' = [at EXCEPT ![p] = "loader"] /\ UNCHANGED arrived
  /\ UNCHANGED <<launch, resources, next, context, open, identity, faults>>

WrapModel(p) ==
  /\ at[p] = "wrap" /\ AllAt(p, "wrap")
  /\ at' = [at EXCEPT ![p] = "loader"]
  /\ UNCHANGED <<launch, resources, next, context, open, arrived, identity, faults>>

BuildLoader(p) ==
  /\ at[p] = "loader"
  /\ at' = [at EXCEPT ![p] = "finish"]
  /\ UNCHANGED <<launch, resources, next, context, open, arrived, identity, faults>>

\* The scaler, the checkpoint manager, the event file and its first event.
FinishEngine(p) ==
  /\ at[p] = "finish"
  /\ at' = [at EXCEPT ![p] = "identity"]
  /\ UNCHANGED <<launch, resources, next, context, open, arrived, identity, faults>>

Opened(p) ==
  /\ open' = [open EXCEPT ![p] = <<[engine |-> next[p], context |-> context[p]]>> \o @]
  /\ at' = [at EXCEPT ![p] = "idle"] /\ next' = [next EXCEPT ![p] = @ + 1]
  /\ UNCHANGED resources

Abandoned(p) == Fail(p) /\ Release(p, context[p]) /\ UNCHANGED <<leaked, open>>

\* The primary writes the identity of the run, or fails to, and says which.
Materialize(p) ==
  /\ at[p] = "identity" /\ RankOf(p) = 0
  /\ \/ /\ identity' = [identity EXCEPT ![next[p]] = "written"]
        /\ Opened(p) /\ UNCHANGED faults
     \/ /\ faults < MaxFaults /\ faults' = faults + 1
        /\ identity' = [identity EXCEPT ![next[p]] = "failed"]
        /\ Abandoned(p)
  /\ UNCHANGED <<launch, context, arrived>>

\* Mutant of HearOutcome: a peer goes on without the outcome of the primary.
HearNothing(p) ==
  /\ at[p] = "identity" /\ RankOf(p) # 0
  /\ Opened(p)
  /\ UNCHANGED <<launch, context, arrived, identity, faults>>

HearOutcome(p) ==
  /\ at[p] = "identity" /\ RankOf(p) # 0 /\ identity[next[p]] # "unknown"
  /\ IF identity[next[p]] = "written" THEN Opened(p) ELSE Abandoned(p)
  /\ UNCHANGED <<launch, context, arrived, identity, faults>>

-----------------------------------------------------------------------------
(* Failures, timeouts and the end.                                         *)

\* A step that concerns one rank alone raises.  The factory and the engine close
\* the context up to the loader; what fails after it leaves the context open.
LocalFailure(p) ==
  /\ faults < MaxFaults /\ faults' = faults + 1
  /\ \/ /\ at[p] \in {"build", "loader"}
        /\ Abandoned(p)
     \/ /\ at[p] = "finish"
        /\ Fail(p)
        /\ leaked' = leaked \cup {p}
        /\ UNCHANGED <<env, group, open>>
  /\ UNCHANGED <<launch, context, arrived, identity>>

\* Mutant of Waiting: the timeout bounds the setup of the group only.
WaitingAtRendezvous(p) == at[p] = "rendezvous" /\ ~AllAt(p, at[p])

\* A rank that waits for one that is not there yet may run out of time, or find
\* the connection closed.
Waiting(p) ==
  \/ at[p] \in {"rendezvous", "wrap"} /\ ~AllAt(p, at[p])
  \/ at[p] = "identity" /\ RankOf(p) # 0 /\ identity[next[p]] = "unknown"

GiveUp(p) ==
  /\ Waiting(p)
  /\ Fail(p)
  /\ IF at[p] = "rendezvous" THEN UNCHANGED resources
     ELSE Release(p, context[p]) /\ UNCHANGED leaked
  /\ UNCHANGED <<launch, context, open, arrived, identity, faults>>

\* TrainEngine.close, when training has ended or failed.
CloseEngine(p) ==
  /\ at[p] = "idle" /\ open[p] # <<>>
  /\ launch[p].nested => next[p] > Len(launch[p].engines)
  /\ Release(p, Head(open[p]).context)
  /\ open' = [open EXCEPT ![p] = Tail(@)]
  /\ UNCHANGED <<launch, next, at, context, arrived, identity, leaked, faults>>

Kill(p) ==
  /\ faults < MaxFaults /\ faults' = faults + 1
  /\ at[p] \notin {"killed", "absent"} /\ (at[p] # "idle" \/ Making(p) \/ open[p] # <<>>)
  /\ at' = [at EXCEPT ![p] = "killed"]
  /\ group' = [group EXCEPT ![p] = None]
  /\ env' = [env EXCEPT ![p] = {}]
  /\ open' = [open EXCEPT ![p] = <<>>]
  /\ UNCHANGED <<launch, next, context, arrived, identity, leaked>>

Init ==
  /\ launch \in Launches
  /\ env = [p \in Procs |-> launch[p].vars]
  /\ group = [p \in Procs |-> launch[p].host]
  /\ next = [p \in Procs |-> 1]
  /\ at = [p \in Processes |-> IF p \in Procs THEN "idle" ELSE "absent"]
  /\ context = [p \in Procs |-> [distributed |-> FALSE, group |-> None, owns |-> FALSE,
                                 injected |-> {}]]
  /\ open = [p \in Procs |-> <<>>]
  /\ arrived = [p \in Procs |-> {}]
  /\ identity = [i \in UNION {DOMAIN launch[p].engines : p \in Procs} |-> "unknown"]
  /\ leaked = {} /\ faults = 0

Create(p) == RefuseCreate(p) \/ CreateSingle(p) \/ CreateBorrowed(p) \/ CreateStandalone(p)
             \/ CreateRendezvous(p)

Step(p) == Create(p) \/ FinishRendezvous(p) \/ BuildBackend(p) \/ WrapModel(p) \/ BuildLoader(p)
           \/ FinishEngine(p) \/ Materialize(p) \/ HearOutcome(p) \/ CloseEngine(p) \/ GiveUp(p)

Next == \E p \in Processes : Step(p) \/ LocalFailure(p) \/ Kill(p)

Spec == Init /\ [][Next]_vars

\* A process that can take a step of its own takes one; the timeout of the group
\* is such a step of a process that waits.
FairSpec == Spec /\ \A p \in Processes : WF_vars(Step(p))

-----------------------------------------------------------------------------
(* Properties.                                                             *)

\* An open distributed engine has the process group it was made on, whatever was
\* opened and closed around it; and when a process has closed its engines, its
\* environment and its group are what they were before the first one, so that the
\* next engine starts from the same state (process.py:373, 141; engine.py:104;
\* factory.py:35).  An engine whose construction failed after the loader is the
\* exception: nobody can close it.
GroupHeld ==
  \A p \in Procs :
    /\ \A i \in DOMAIN open[p] :
         open[p][i].context.distributed => group[p] # None /\ group[p] = open[p][i].context.group
    /\ at[p] = "idle" /\ open[p] = <<>> /\ p \notin leaked =>
         group[p] = launch[p].host /\ env[p] = launch[p].vars

\* A rank trains only on an identity that the primary has written, and in a world
\* whose ranks have all wrapped the same engine (api/train.py:92, process.py:244).
OpenIsAgreed ==
  \A p \in Procs : \A i \in DOMAIN open[p] :
    LET e == open[p][i]
    IN /\ identity[e.engine] = "written"
       /\ e.context.distributed =>
            \A q \in Procs : WorldOf(p) > 1 => <<e.engine, "wrap">> \in arrived[q]

\* Whichever ranks fail or are killed, the construction of every engine returns or
\* raises on every other rank (process.py:113, 233).
EveryRankReturns ==
  \A p \in Processes :
    at[p] \in {"rendezvous", "build", "wrap", "loader", "finish", "identity"}
    ~> at[p] \in {"idle", "killed"}
=============================================================================
