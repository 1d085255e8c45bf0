--------------------------- MODULE MCTrainEngine ----------------------------
(***************************************************************************)
(* Small instances of TrainEngine.  MCMicrobatches differ in numerator and *)
(* denominator, so that a mean of means differs from the global mean, and  *)
(* one overflows.  One of MCFinite has no gradient, so that a rank's own   *)
(* gradient may vanish where that of its peers does not.                   *)
(***************************************************************************)
EXTENDS TrainEngine

MCMicrobatches ==
  {[num |-> 1, den |-> 1, overflow |-> FALSE],
   [num |-> -1, den |-> 2, overflow |-> FALSE],
   [num |-> 1, den |-> 1, overflow |-> TRUE]}

MCFinite ==
  {[num |-> 1, den |-> 1, overflow |-> FALSE],
   [num |-> 0, den |-> 2, overflow |-> FALSE]}

=============================================================================
