-------------------------- MODULE MCColumnarSource --------------------------
(***************************************************************************)
(* Small instances of ColumnarSource: datasets of one to three fragments,  *)
(* read by one worker, by two ranks, or by two workers of one rank.        *)
(***************************************************************************)
EXTENDS ColumnarSource

MCDatasets == {<<2>>, <<1, 2>>, <<2, 1, 1>>}

MCTopologies ==
  {[world |-> 1, workers |-> 1], [world |-> 2, workers |-> 1], [world |-> 1, workers |-> 2]}

=============================================================================
