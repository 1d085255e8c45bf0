------------------------------ MODULE MCLaunch ------------------------------
(* Jobs of one, two and three ranks, and single processes that make several  *)
(* engines, with and without a launcher, a host group and usable settings.   *)
EXTENDS Launch

CPU(backend) == [backend |-> backend, group |-> "auto", device |-> "cpu", index |-> "none", expected |-> 0]
DDP    == CPU("torch_ddp")
Single == CPU("single")
Cuda   == [DDP EXCEPT !.device = "cuda", !.index = "local"]
Nccl   == [Cuda EXCEPT !.group = "nccl"]

Rank(r, world, engines, nested) ==
  [vars |-> RankEnv, rank |-> r, world |-> world, master |-> TRUE, host |-> None,
   engines |-> engines, nested |-> nested]

Ranks(n, engines, nested) == [p \in 1..n |-> Rank(p - 1, n, engines, nested)]

Alone(engines, nested) ==
  [p \in {1} |-> [Rank(0, 1, engines, nested) EXCEPT !.vars = {}, !.master = FALSE]]

Host == [backend |-> "gloo", rank |-> 0, world |-> 1]

Sequences == {<<DDP, DDP>>, <<DDP, Single, DDP>>, <<Single, DDP>>, <<DDP, Cuda, DDP>>,
              <<[DDP EXCEPT !.expected = 2], DDP>>, <<Nccl, [Cuda EXCEPT !.index = "other"], Nccl>>,
              <<[DDP EXCEPT !.index = "other"], Nccl>>,
              <<[DDP EXCEPT !.device = "npu"], [DDP EXCEPT !.expected = 1]>>}

MCLaunches ==
  {Alone(s, nested) : s \in Sequences, nested \in BOOLEAN}
  \cup {[Alone(s, nested) EXCEPT ![1].host = Host] : s \in Sequences, nested \in BOOLEAN}
  \cup {Ranks(1, s, nested) : s \in Sequences, nested \in BOOLEAN}
  \cup {Ranks(n, <<DDP>>, FALSE) : n \in 2..3}
  \cup {Ranks(2, <<DDP, DDP>>, nested) : nested \in BOOLEAN}
  \cup {Ranks(2, <<Cuda>>, FALSE), Ranks(2, <<Single>>, FALSE),
        [Ranks(2, <<DDP>>, FALSE) EXCEPT ![2].engines = <<[DDP EXCEPT !.expected = 3]>>],
        [Ranks(2, <<DDP>>, FALSE) EXCEPT ![2].vars = {"RANK"}],
        [Ranks(2, <<DDP>>, FALSE) EXCEPT ![2].rank = 2],
        [Ranks(2, <<DDP>>, FALSE) EXCEPT ![1].world = 3, ![2].world = 3],
        [Ranks(2, <<DDP>>, FALSE) EXCEPT ![1].master = FALSE]}
=============================================================================
