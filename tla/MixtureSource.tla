--------------------------- MODULE MixtureSource ----------------------------
(***************************************************************************)
(* MixtureSource (modules/data/sources/mixture/module.py): samples drawn   *)
(* from several child sources by weight.  The draw at a cursor is a hash   *)
(* of the seed and the cursor; here it is an arbitrary function of the     *)
(* cursor, one of Grain equally likely values, fixed for the run.  A child *)
(* is a MemorySource: a cursor over its samples, finite or repeating, or a *)
(* finite source that does not say so.  Some of its samples may already    *)
(* hold the metadata key that the mixture keeps for itself.                *)
(*                                                                         *)
(* The source is saved between two samples; the process may crash and a    *)
(* new one load what was saved.                                            *)
(***************************************************************************)
EXTENDS Integers, FiniteSets, FiniteSetsExt, SequencesExt

CONSTANTS
  Names,      \* the children, numbered in the order of their sorted names
  Weights,    \* the weights of the children to consider
  Children,   \* the kinds and lengths of children to consider, and which of
              \* their samples hold the reserved key
  Grain,      \* resolution of a draw
  MaxCursor,  \* bound: samples drawn
  MaxCrashes  \* bound: crashes

Kinds == {"finite", "repeating", "unknown"}

ASSUME MixtureAssumption ==
  /\ Names \subseteq Nat /\ Names # {} /\ IsFiniteSet(Names)
  /\ Weights \subseteq [Names -> Nat \ {0}]
  /\ Children \subseteq [Names -> [kind : Kinds, length : Nat \ {0}, tagged : SUBSET Nat]]
  /\ Grain \in Nat \ {0} /\ MaxCursor \in Nat /\ MaxCrashes \in Nat

None == -1

VARIABLES
  weight, child, draws,  \* the configuration, and the draw at every cursor
  mixture, \* cursor, counts and active_sources
  at,      \* the cursor of each child
  calling, \* next_sample is running
  status,  \* reading, ended (StopIteration) or failed
  saved,   \* the last checkpoint, or NotSaved
  script,  \* history: what was first drawn at each cursor, or None
  emitted, \* history: what this trajectory drew, a refused sample included
  crashes

config == <<weight, child, draws>>
vars == <<config, mixture, at, calling, status, saved, script, emitted, crashes>>

NoSample == [name |-> None, index |-> 0]
NotSaved == [cursor |-> None]

-----------------------------------------------------------------------------
Total(names) == MapThenSumSet(LAMBDA n : weight[n], names)

(* _source_name: the first active child, in order, whose cumulative share   *)
(* of the active weight exceeds the draw.                                   *)
SourceName ==
  LET active == mixture.active
      below(n) == {m \in active : m <= n}
  IN  Min({n \in active :
             draws[mixture.cursor] * Total(active) < Total(below(n)) * Grain})

(* A child's next_sample would not raise StopIteration. *)
HasNext(n) == child[n].kind = "repeating" \/ at[n] < child[n].length

(* is_finite, which DataPipelineStream.shard requires to be False before it *)
(* lets several ranks read.                                                 *)
IsFinite ==
  IF \E n \in Names : child[n].kind = "unknown" THEN "unknown"
  ELSE IF \A n \in Names : child[n].kind = "finite" THEN "finite" ELSE "repeating"

FreshMixture == [cursor |-> 0, counts |-> [n \in Names |-> 0], active |-> Names]

Init ==
  /\ weight \in Weights
  /\ child \in Children
  /\ draws \in [0..MaxCursor-1 -> 0..Grain-1]
  /\ mixture = FreshMixture
  /\ at = [n \in Names |-> 0]
  /\ calling = FALSE
  /\ status = "reading"
  /\ saved = NotSaved
  /\ script = [c \in 0..MaxCursor-1 |-> NoSample]
  /\ emitted = <<>>
  /\ crashes = 0

Call ==
  /\ status = "reading" /\ ~calling
  /\ mixture.cursor < MaxCursor
  /\ calling' = TRUE
  /\ UNCHANGED <<config, mixture, at, status, saved, script, emitted, crashes>>

(* The child that is drawn has a sample: it is counted. *)
DrawnSample ==
  [name |-> SourceName, index |-> at[SourceName] % child[SourceName].length]

Count(sample) ==
  /\ HasNext(sample.name)
  /\ at' = [at EXCEPT ![sample.name] = @ + 1]
  /\ mixture' = [cursor |-> mixture.cursor + 1,
                 counts |-> [mixture.counts EXCEPT ![sample.name] = @ + 1],
                 active |-> mixture.active]
  /\ emitted' = Append(emitted, sample)
  /\ script' = [script EXCEPT ![mixture.cursor] = IF @ = NoSample THEN sample ELSE @]

Reserved(sample) == sample.index \in child[sample.name].tagged

(* It is returned, or refused for the key it holds, with the cursors moved. *)
Emit ==
  /\ calling /\ mixture.active # {}
  /\ ~Reserved(DrawnSample) /\ Count(DrawnSample)
  /\ calling' = FALSE
  /\ UNCHANGED <<config, status, saved, crashes>>

RefuseSample ==
  /\ calling /\ mixture.active # {}
  /\ Reserved(DrawnSample) /\ Count(DrawnSample)
  /\ calling' = FALSE /\ status' = "failed"
  /\ UNCHANGED <<config, saved, crashes>>

(* It is exhausted: it is no longer drawn, and the draw is made again among *)
(* the others.                                                              *)
DropSource ==
  /\ calling /\ mixture.active # {}
  /\ ~HasNext(SourceName)
  /\ mixture' = [mixture EXCEPT !.active = @ \ {SourceName}]
  /\ UNCHANGED <<config, at, calling, status, saved, script, emitted, crashes>>

(* Fault for Stop: the mixture ends with the first child that does. *)
StopEarly ==
  /\ calling /\ mixture.active # Names
  /\ calling' = FALSE /\ status' = "ended"
  /\ UNCHANGED <<config, mixture, at, saved, script, emitted, crashes>>

(* No child is left. *)
Stop ==
  /\ calling /\ mixture.active = {}
  /\ calling' = FALSE /\ status' = "ended"
  /\ UNCHANGED <<config, mixture, at, saved, script, emitted, crashes>>

-----------------------------------------------------------------------------
(* load_state_dict's checks, those of the children included. *)
Accepted(s) ==
  /\ s.mixture.active \subseteq Names
  /\ MapThenSumSet(LAMBDA n : s.mixture.counts[n], Names) = s.mixture.cursor
  /\ \A n \in Names : child[n].kind # "repeating" => s.at[n] <= child[n].length

StateDict == [mixture |-> mixture, at |-> at]

Save ==
  /\ status # "failed" /\ ~calling
  /\ saved' = [cursor |-> mixture.cursor, state |-> StateDict, emitted |-> emitted]
  /\ UNCHANGED <<config, mixture, at, calling, status, script, emitted, crashes>>

Crash ==
  /\ crashes < MaxCrashes
  /\ crashes' = crashes + 1
  /\ mixture' = FreshMixture
  /\ at' = [n \in Names |-> 0]
  /\ calling' = FALSE
  /\ status' = "reading"
  /\ emitted' = <<>>
  /\ UNCHANGED <<config, saved, script>>

(* Fault for Load: all children are active again, which the next draws show. *)
LoadAllActive ==
  /\ saved # NotSaved /\ status = "reading" /\ ~calling /\ mixture.cursor = 0
  /\ mixture' = [saved.state.mixture EXCEPT !.active = Names]
  /\ at' = saved.state.at
  /\ emitted' = saved.emitted
  /\ UNCHANGED <<config, calling, status, saved, script, crashes>>

(* load_state_dict in a process that has drawn nothing. *)
Load ==
  /\ saved # NotSaved /\ status = "reading" /\ ~calling /\ mixture.cursor = 0
  /\ IF Accepted(saved.state)
     THEN /\ mixture' = saved.state.mixture
          /\ at' = saved.state.at
          /\ emitted' = saved.emitted
          /\ UNCHANGED status
     ELSE status' = "failed" /\ UNCHANGED <<mixture, at, emitted>>
  /\ UNCHANGED <<config, calling, saved, script, crashes>>

Next == Call \/ Emit \/ RefuseSample \/ DropSource \/ Stop \/ Save \/ Crash \/ Load

Spec == Init /\ [][Next]_vars

-----------------------------------------------------------------------------
(* Properties.                                                              *)

(* Sampling is deterministic: whatever a run draws at a cursor, it draws    *)
(* there again after any number of crashes and resumes, also when children  *)
(* ran out before or after the checkpoint; the cursor counts the samples of *)
(* the trajectory, and load_state_dict accepts what is saved between two.   *)
Replayable ==
  /\ \A c \in DOMAIN emitted : emitted[c] = script[c - 1]
  /\ mixture.cursor = Len(emitted)
  /\ ~calling => Accepted(StateDict)

(* A child is given up, and the mixture ends, only when its samples are     *)
(* all drawn, each once; and a mixture whose is_finite is False never     *)
(* ends, so that ranks that share it take equally many steps.               *)
ChildrenDrained ==
  LET length == [n \in Names |-> child[n].length] IN
  /\ \A n \in Names \ mixture.active :
       {s.index : s \in {x \in ToSet(emitted) : x.name = n}} = 0..length[n]-1
  /\ status = "ended" =>
       /\ Len(emitted) = MapThenSumSet(LAMBDA n : length[n], Names)
       /\ IsFinite # "repeating"

=============================================================================
