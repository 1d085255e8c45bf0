--------------------------- MODULE MCDataPipeline ---------------------------
(***************************************************************************)
(* Small instances of DataPipeline: sources of one to four records, and    *)
(* configurations in which packs overflow, fill exactly and reach their    *)
(* sample limit, tails are kept and dropped, sources repeat and are        *)
(* sharded, and a worker runs ahead of the trainer with a snapshot at      *)
(* every batch or every other batch; each over memory and over files with  *)
(* and without a last newline.  A length of 4 exceeds every pack.          *)
(***************************************************************************)
EXTENDS DataPipeline

MCCorpora ==
    {<<1>>, <<3, 1>>, <<1, 1, 1>>, <<1, 2, 2>>, <<2, 2, 1, 1>>, <<1, 1, 4, 1>>}

MCBase ==
    [source |-> "memory", newline |-> TRUE, repeat |-> FALSE, world |-> 1,
     rank |-> 0, packs |-> TRUE,
     maxLength |-> 3, sampleLimit |-> 0, batchSize |-> 1,
     dropLast |-> FALSE, prefetch |-> 0, snapshotEvery |-> 1]

MCShapes ==
    {MCBase,
     [MCBase EXCEPT !.sampleLimit = 2, !.batchSize = 2],
     [MCBase EXCEPT !.batchSize = 2, !.dropLast = TRUE],
     [MCBase EXCEPT !.packs = FALSE, !.batchSize = 2, !.dropLast = TRUE],
     [MCBase EXCEPT !.packs = FALSE, !.repeat = TRUE, !.world = 2, !.rank = 1],
     [MCBase EXCEPT !.repeat = TRUE, !.world = 2, !.rank = 0, !.batchSize = 2],
     [MCBase EXCEPT !.prefetch = 2, !.snapshotEvery = 2],
     [MCBase EXCEPT !.packs = FALSE, !.prefetch = 2, !.batchSize = 2],
     [MCBase EXCEPT !.repeat = TRUE, !.prefetch = 1, !.snapshotEvery = 3,
                    !.sampleLimit = 2]}

MCSetups ==
    MCShapes
        \cup {[s EXCEPT !.source = "jsonl", !.newline = n] :
                  s \in MCShapes, n \in BOOLEAN}

=============================================================================
