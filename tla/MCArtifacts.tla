---------------------------- MODULE MCArtifacts ----------------------------
(***************************************************************************)
(* Scenarios of Artifacts for TLC: jobs launched twice and with changed    *)
(* configurations, evaluations of one receipt, exports to one destination, *)
(* and plausible errors in the code.                                       *)
(***************************************************************************)
EXTENDS Artifacts

Job(c, r) == [kind |-> "train", config |-> c, resume |-> r]
Batch(s, n, d, named) == [samples |-> s, num |-> n, den |-> d, named |-> named]
Eval(c, name, asked, data) ==
  [kind |-> "evaluate", config |-> c, receipt |-> name, asked |-> asked, data |-> data,
   namesDiffer |-> TRUE]
Export(c, d) == [kind |-> "export", config |-> c, place |-> d]
Import(d)    == [kind |-> "import", config |-> "a", place |-> d]

Good == <<Batch(2, 3, 4, TRUE), Batch(1, 1, 1, TRUE)>>
Lost == <<Batch(2, 3, 4, TRUE), Batch(1, 1, 1, FALSE)>>
Zero == <<Batch(1, 0, 0, TRUE)>>
Other == <<Batch(2, 2, 4, TRUE), Batch(1, 1, 1, TRUE)>>    \* a nondeterministic kernel

MCTaskOf == [a |-> "t", b |-> "t", c |-> "u"]

MCScenarios == {
  [j1 |-> Job("a", FALSE), j2 |-> Job("a", FALSE)],
  [j1 |-> Job("a", FALSE), j2 |-> Job("b", FALSE), j3 |-> Job("a", TRUE)],
  [j1 |-> Job("a", FALSE), e1 |-> Eval("a", "r1", 2, Good), e2 |-> Eval("a", "r1", 2, Good)],
  [j1 |-> Job("a", FALSE), e1 |-> Eval("a", "r1", 2, Good), e2 |-> Eval("a", "r1", 2, Other)],
  [j1 |-> Job("a", FALSE), e1 |-> Eval("c", "r1", 2, Good), j2 |-> Job("c", FALSE)],
  [j1 |-> Job("a", FALSE), e1 |-> Eval("b", "r1", 3, Good), e2 |-> Eval("b", "r2", 2, Lost)],
  [j1 |-> Job("a", FALSE), e1 |-> Eval("b", "r1", 1, Zero),
   e2 |-> [Eval("b", "r2", 2, Good) EXCEPT !.namesDiffer = FALSE]],
  [j1 |-> Job("a", FALSE), x1 |-> Export("a", "d1"), x2 |-> Export("b", "d1"),
   i1 |-> Import("d1")]}
=============================================================================
