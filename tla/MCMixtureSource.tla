--------------------------- MODULE MCMixtureSource --------------------------
(* Small instances of MixtureSource: three children of one or two samples, *)
(* of which one may hold the reserved key.                                *)
EXTENDS MixtureSource

MCWeights == {[n \in Names |-> 1], [n \in Names |-> n]}

Tagged(kind, length, tagged) == [kind |-> kind, length |-> length, tagged |-> tagged]
Of(kind, length) == Tagged(kind, length, {})

MCChildren ==
  {<<Of("finite", 1), Of("finite", 2), Of("finite", 1)>>,
   <<Of("repeating", 2), Of("finite", 1), Of("finite", 2)>>,
   <<Of("unknown", 1), Of("finite", 1), Of("finite", 1)>>,
   <<Of("finite", 1), Tagged("repeating", 2, {1}), Tagged("finite", 2, {1})>>}

=============================================================================
