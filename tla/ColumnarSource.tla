--------------------------- MODULE ColumnarSource ---------------------------
(***************************************************************************)
(* ColumnarRecordSource (modules/data/sources/_columnar.py): the Parquet   *)
(* and Arrow sources of all data workers of all ranks of a job.  The       *)
(* physical fragments of a dataset (row groups, record batches) are dealt  *)
(* out to the workers once, by row count; each worker then reads its own,  *)
(* row by row, epoch after epoch when the source repeats.                  *)
(*                                                                         *)
(* The cursors of all workers are checkpointed together.  The job may      *)
(* crash and be started again, possibly with other ranks and workers, and  *)
(* the dataset on disk may be rewritten under it: `actual` is what is on   *)
(* disk, `declared` what the source found when it was built.               *)
(***************************************************************************)
EXTENDS Integers, FiniteSetsExt, SequencesExt

CONSTANTS
  Datasets,    \* the row counts of the fragments of a dataset, in order
  Rewritten,   \* the row counts a rewritten fragment may have
  Topologies,  \* [world, workers] a job may be started with
  MaxReads,    \* bound: records read by one worker
  MaxCrashes,  \* bound: crashes
  MaxRewrites  \* bound: rewritten fragments

ASSUME ColumnarAssumption ==
  /\ Datasets \subseteq Seq(Nat)
  /\ Rewritten \subseteq Nat
  /\ Topologies \subseteq [world : Nat \ {0}, workers : Nat \ {0}]
  /\ MaxReads \in Nat /\ MaxCrashes \in Nat /\ MaxRewrites \in Nat

None == -1

VARIABLES
  actual,   \* rows in each fragment on disk
  repeat,   \* the source repeats
  topology, \* this job's ranks and workers per rank
  declared, \* rows in each fragment when the source was built
  intact,   \* history: nobody has rewritten the dataset since
  assigned, \* the fragments of each worker, in order
  cursor,   \* each worker's epoch, fragment_cursor, row_cursor and emitted
  open,     \* rows each worker's _active_iterator has yielded, or None
  calling,  \* the worker is inside next_record
  status,   \* of each worker: reading, ended (StopIteration) or failed
  saved,    \* the last checkpoint of all workers, or the empty record
  seen,     \* history: the rows each worker has emitted on this trajectory
  crashes, rewrites

jobVars == <<repeat, topology, declared, assigned>>
vars == <<actual, intact, jobVars, cursor, open, calling, status, saved, seen, crashes, rewrites>>

-----------------------------------------------------------------------------
(* balanced_fragment_assignment.                                            *)

RowsIn(rows, fragments) == MapThenSumSet(LAMBDA f : rows[f], fragments)

(* The Parquet and Arrow sources leave empty row groups and batches out. *)
Found(rows) == {f \in DOMAIN rows : rows[f] > 0}

(* sorted: the members of a set in the order of a relation. *)
Sorted(fragments, order) ==
  CHOOSE s \in SetToSeqs(fragments) :
    \A i, j \in DOMAIN s : i < j => <<s[i], s[j]>> \in order

(* Largest fragments first, equal ones in their order. *)
Larger(rows) ==
  {p \in Found(rows) \X Found(rows) :
     rows[p[1]] > rows[p[2]] \/ (rows[p[1]] = rows[p[2]] /\ p[1] < p[2])}
Earlier(rows) == {p \in Found(rows) \X Found(rows) : p[1] < p[2]}

BySize(rows) == Sorted(Found(rows), Larger(rows))

(* Each goes to the part with the fewest rows so far, the first of them. *)
Deal(rows, parts) ==
  FoldLeft(LAMBDA dealt, f :
             LET least == Min({RowsIn(rows, dealt[p]) : p \in 0..parts-1})
                 to    == Min({p \in 0..parts-1 : RowsIn(rows, dealt[p]) = least})
             IN  [dealt EXCEPT ![to] = @ \cup {f}],
           [p \in 0..parts-1 |-> {}], BySize(rows))

Parts(t)  == t.world * t.workers
Part(t)   == 0..Parts(t)-1      \* worker w of rank r is part r * workers + w
Workers   == Part(topology)

AllWorkers == UNION {Part(t) : t \in Topologies}

(* Fault for Shardable: parts of unequal length may repeat. *)
ShardableUnequal(rows, t) ==
  Found(rows) # {} /\ (Parts(t) = 1 \/ Cardinality(Found(rows)) >= Parts(t))

(* An empty dataset is refused; shard refuses too few fragments, and parts  *)
(* of unequal length to repeat.  A job of one worker does not shard.        *)
Shardable(rows, t) ==
  /\ Found(rows) # {}
  /\ \/ Parts(t) = 1
     \/ /\ Cardinality(Found(rows)) >= Parts(t)
        /\ repeat => LET dealt == Deal(rows, Parts(t))
                      IN  \A p, q \in Part(t) :
                            RowsIn(rows, dealt[p]) = RowsIn(rows, dealt[q])

(* self.assigned of each worker: its fragments in the order of the dataset. *)
Assignment(rows, t) ==
  LET dealt == Deal(rows, Parts(t))
  IN  [w \in Part(t) |-> Sorted(dealt[w], Earlier(rows))]

FragmentAt(w) == assigned[w][cursor[w].fragment]

-----------------------------------------------------------------------------
FirstCursor == [epoch |-> 0, fragment |-> 1, row |-> 0, emitted |-> 0]

NotSaved == [topology |-> <<>>]

(* A job is started: the sources are built and sharded. *)
Started(t) ==
  /\ topology' = t
  /\ declared' = actual
  /\ intact' = TRUE
  /\ assigned' = Assignment(actual, t)
  /\ cursor' = [w \in Part(t) |-> FirstCursor]
  /\ open' = [w \in Part(t) |-> None]
  /\ calling' = [w \in Part(t) |-> FALSE]
  /\ status' = [w \in Part(t) |->
                  IF Shardable(actual, t) THEN "reading" ELSE "failed"]
  /\ seen' = [w \in Part(t) |-> <<>>]

Init ==
  /\ actual \in Datasets
  /\ repeat \in BOOLEAN
  /\ topology \in Topologies
  /\ declared = actual
  /\ intact = TRUE
  /\ assigned = Assignment(actual, topology)
  /\ cursor = [w \in Workers |-> FirstCursor]
  /\ open = [w \in Workers |-> None]
  /\ calling = [w \in Workers |-> FALSE]
  /\ status = [w \in Workers |->
                 IF Shardable(actual, topology) THEN "reading" ELSE "failed"]
  /\ saved = NotSaved
  /\ seen = [w \in Workers |-> <<>>]
  /\ crashes = 0
  /\ rewrites = 0

-----------------------------------------------------------------------------
(* next_record: the turns of its loop, until it returns or raises.          *)

Call(w) ==
  /\ status[w] = "reading" /\ ~calling[w]
  /\ cursor[w].emitted < MaxReads
  /\ calling' = [calling EXCEPT ![w] = TRUE]
  /\ UNCHANGED <<actual, intact, jobVars, cursor, open, status, saved, seen, crashes, rewrites>>

Return(w, result) ==
  /\ calling' = [calling EXCEPT ![w] = FALSE]
  /\ status' = [status EXCEPT ![w] = result]

PastLast(w) == cursor[w].fragment > Len(assigned[w])

(* All fragments are read: the next epoch, or StopIteration. *)
Rollover(w) ==
  /\ calling[w] /\ PastLast(w) /\ repeat
  /\ cursor' = [cursor EXCEPT ![w] =
                  [epoch |-> @.epoch + 1, fragment |-> 1, row |-> 0, emitted |-> @.emitted]]
  /\ open' = [open EXCEPT ![w] = None]
  /\ UNCHANGED <<actual, intact, jobVars, calling, status, saved, seen, crashes, rewrites>>

Stop(w) ==
  /\ calling[w] /\ PastLast(w) /\ ~repeat
  /\ Return(w, "ended")
  /\ UNCHANGED <<actual, intact, jobVars, cursor, open, saved, seen, crashes, rewrites>>

(* Fault for Activate: the rows before the cursor are not skipped. *)
ActivateAtStart(w) ==
  /\ calling[w] /\ ~PastLast(w) /\ open[w] = None
  /\ open' = [open EXCEPT ![w] = 0]
  /\ UNCHANGED <<actual, intact, jobVars, cursor, calling, status, saved, seen, crashes, rewrites>>

(* _activate: the fragment is opened and the rows before the cursor are     *)
(* skipped; a fragment that has too few fails.                              *)
Activate(w) ==
  /\ calling[w] /\ ~PastLast(w) /\ open[w] = None
  /\ IF cursor[w].row <= actual[FragmentAt(w)]
     THEN open' = [open EXCEPT ![w] = cursor[w].row] /\ UNCHANGED <<calling, status>>
     ELSE Return(w, "failed") /\ UNCHANGED open
  /\ UNCHANGED <<actual, intact, jobVars, cursor, saved, seen, crashes, rewrites>>

(* The iterator yields a row. *)
Emit(w) ==
  /\ calling[w] /\ ~PastLast(w) /\ open[w] # None
  /\ open[w] < actual[FragmentAt(w)]
  /\ cursor' = [cursor EXCEPT ![w] =
                  [epoch |-> @.epoch, fragment |-> @.fragment,
                   row |-> @.row + 1, emitted |-> @.emitted + 1]]
  /\ open' = [open EXCEPT ![w] = @ + 1]
  /\ seen' = [seen EXCEPT ![w] =
                Append(@, [epoch |-> cursor[w].epoch, fragment |-> FragmentAt(w),
                           row |-> open[w]])]
  /\ Return(w, "reading")
  /\ UNCHANGED <<actual, intact, jobVars, saved, crashes, rewrites>>

(* Fault for EndFragment: the rows read are not counted against the fragment. *)
EndFragmentUncounted(w) ==
  /\ calling[w] /\ ~PastLast(w) /\ open[w] # None
  /\ open[w] >= actual[FragmentAt(w)]
  /\ cursor' = [cursor EXCEPT ![w].fragment = @ + 1, ![w].row = 0]
  /\ open' = [open EXCEPT ![w] = None]
  /\ UNCHANGED <<actual, intact, jobVars, calling, status, saved, seen, crashes, rewrites>>

(* Fault for EndFragment: rows that are missing are waited for. *)
EndFragmentWaiting(w) ==
  /\ calling[w] /\ ~PastLast(w) /\ open[w] # None
  /\ open[w] >= actual[FragmentAt(w)]
  /\ cursor[w].row = declared[FragmentAt(w)]
  /\ cursor' = [cursor EXCEPT ![w].fragment = @ + 1, ![w].row = 0]
  /\ open' = [open EXCEPT ![w] = None]
  /\ UNCHANGED <<actual, intact, jobVars, calling, status, saved, seen, crashes, rewrites>>

(* The iterator is at its end: the next fragment, unless it did not yield   *)
(* the rows the source was built with.                                      *)
EndFragment(w) ==
  /\ calling[w] /\ ~PastLast(w) /\ open[w] # None
  /\ open[w] >= actual[FragmentAt(w)]
  /\ IF cursor[w].row = declared[FragmentAt(w)]
     THEN /\ cursor' = [cursor EXCEPT ![w] =
                          [epoch |-> @.epoch, fragment |-> @.fragment + 1,
                           row |-> 0, emitted |-> @.emitted]]
          /\ open' = [open EXCEPT ![w] = None]
          /\ UNCHANGED <<calling, status>>
     ELSE Return(w, "failed") /\ UNCHANGED <<cursor, open>>
  /\ UNCHANGED <<actual, intact, jobVars, saved, seen, crashes, rewrites>>

-----------------------------------------------------------------------------
(* Checkpoints.                                                             *)

(* state_dict of every worker; the identity of the dataset is the row       *)
(* counts of its fragments.                                                 *)
StateDict ==
  [topology |-> topology, identity |-> declared,
   assigned |-> assigned, cursor |-> cursor]

(* The rows of a worker's fragments before position n in its order. *)
RowsBefore(w, n) == RowsIn(declared, {assigned[w][i] : i \in 1..n-1})

(* Fault for CursorAccepted: the fragment cursor may not be past the last. *)
CursorAcceptedInside(w, c) ==
  /\ c.fragment <= Len(assigned[w])
  /\ c.row <= declared[assigned[w][c.fragment]]
  /\ ~repeat => c.epoch = 0
  /\ c.emitted = c.epoch * RowsBefore(w, Len(assigned[w]) + 1)
                   + RowsBefore(w, c.fragment) + c.row

(* load_state_dict's checks of one worker's cursor. *)
CursorAccepted(w, c) ==
  /\ c.fragment <= Len(assigned[w]) + 1
  /\ c.row <= (IF c.fragment > Len(assigned[w]) THEN 0
               ELSE declared[assigned[w][c.fragment]])
  /\ ~repeat => c.epoch = 0
  /\ c.emitted = c.epoch * RowsBefore(w, Len(assigned[w]) + 1)
                   + RowsBefore(w, c.fragment) + c.row

Accepted(s) ==
  /\ s.identity = declared
  /\ s.topology = topology
  /\ s.assigned = assigned
  /\ \A w \in Workers : CursorAccepted(w, s.cursor[w])

(* Every worker is between two records. *)
Save ==
  /\ \A w \in Workers : status[w] # "failed" /\ ~calling[w]
  /\ saved' = [topology |-> topology, state |-> StateDict, seen |-> seen]
  /\ UNCHANGED <<actual, intact, jobVars, cursor, open, calling, status, seen, crashes, rewrites>>

(* The job is gone, and started again. *)
Crash ==
  /\ crashes < MaxCrashes
  /\ crashes' = crashes + 1
  /\ \E t \in Topologies : Started(t)
  /\ UNCHANGED <<actual, repeat, saved, rewrites>>

Untouched == \A w \in Workers : cursor[w] = FirstCursor /\ ~calling[w]

(* Fault for Load: the worker's count of emitted records is not restored. *)
LoadUncounted ==
  /\ saved # NotSaved
  /\ Untouched /\ \A w \in Workers : status[w] = "reading"
  /\ Accepted(saved.state)
  /\ cursor' = [w \in Workers |-> [saved.state.cursor[w] EXCEPT !.emitted = 0]]
  /\ open' = [w \in Workers |-> None]
  /\ seen' = saved.seen
  /\ UNCHANGED <<actual, intact, jobVars, calling, status, saved, crashes, rewrites>>

(* load_state_dict on every worker of a job that has read nothing. *)
Load ==
  /\ saved # NotSaved
  /\ Untouched /\ \A w \in Workers : status[w] = "reading"
  /\ IF Accepted(saved.state)
     THEN /\ cursor' = saved.state.cursor
          /\ open' = [w \in Workers |-> None]
          /\ seen' = saved.seen
          /\ UNCHANGED status
     ELSE /\ status' = [w \in Workers |-> "failed"]
          /\ UNCHANGED <<cursor, open, seen>>
  /\ UNCHANGED <<actual, intact, jobVars, calling, saved, crashes, rewrites>>

(* Somebody rewrites a fragment of the dataset. *)
Rewrite ==
  /\ rewrites < MaxRewrites
  /\ rewrites' = rewrites + 1
  /\ \E f \in DOMAIN actual, n \in Rewritten : actual' = [actual EXCEPT ![f] = n]
  /\ intact' = FALSE
  /\ UNCHANGED <<jobVars, cursor, open, calling, status, saved, seen, crashes>>

Read(w) ==
  Call(w) \/ Rollover(w) \/ Stop(w) \/ Activate(w) \/ Emit(w) \/ EndFragment(w)

Next == (\E w \in Workers : Read(w)) \/ Save \/ Crash \/ Load \/ Rewrite

Spec == Init /\ [][Next]_vars

(* A call runs until it returns; nothing makes the trainer call. *)
InCall(w) == w \in Workers /\ calling[w]

FairSpec == Spec /\ \A w \in AllWorkers : WF_vars(InCall(w) /\ Read(w))

-----------------------------------------------------------------------------
(* Properties.                                                              *)

CursorType == [epoch : Nat, fragment : Nat \ {0}, row : Nat, emitted : Nat]

(* Types of the variables; a cursor stays within the worker's fragments and *)
(* next_record's count of emitted rows is that of the rows of this          *)
(* trajectory, a resumed part included.                                     *)
TypeOK ==
  /\ actual \in Seq(Nat) /\ declared \in Seq(Nat)
  /\ topology \in Topologies
  /\ cursor \in [Workers -> CursorType]
  /\ open \in [Workers -> Nat \cup {None}]
  /\ calling \in [Workers -> BOOLEAN]
  /\ status \in [Workers -> {"reading", "ended", "failed"}]
  /\ \A w \in Workers : seen[w] \in Seq([epoch : Nat, fragment : Nat, row : Nat])
  /\ \A w \in Workers : status[w] # "failed" =>
       /\ cursor[w].fragment <= Len(assigned[w]) + 1
       /\ cursor[w].emitted = Len(seen[w])

(* No row is emitted twice in an epoch, by one worker or by two, also       *)
(* across a resume.                                                         *)
EachRowOnce ==
  \A v, w \in Workers : \A i \in DOMAIN seen[v], j \in DOMAIN seen[w] :
    <<v, i>> # <<w, j>> => seen[v][i] # seen[w][j]

(* The rows of the fragments in part w, in one epoch. *)
EpochRows(w, e) ==
  UNION {{[epoch |-> e, fragment |-> f, row |-> n] : n \in 0..declared[f]-1} :
           f \in ToSet(assigned[w])}

(* An epoch that a worker has left, to start the next or to stop, is        *)
(* complete: all rows the dataset had when the job started were emitted,    *)
(* even if the files changed meanwhile.                                     *)
NothingSkipped ==
  \A w \in Workers :
    /\ \A e \in 0..cursor[w].epoch-1 : EpochRows(w, e) \subseteq ToSet(seen[w])
    /\ status[w] = "ended" => EpochRows(w, 0) \subseteq ToSet(seen[w])

(* Workers of a repeating source never drift apart: those that emitted the  *)
(* same number of rows emitted the last one in the same epoch.  Ranks take  *)
(* equally many optimizer steps, so their epochs begin together.  (Not once *)
(* a file has grown: rows past the declared ones are emitted before the row *)
(* count is compared.)  Parts that need not be equal are as even as the     *)
(* fragments allow one by one: without its smallest fragment no worker has  *)
(* more rows than any other.                                                *)
EpochsTogether ==
  /\ repeat /\ intact => \A v, w \in Workers :
       Len(seen[v]) = Len(seen[w]) /\ seen[v] # <<>> =>
         Last(seen[v]).epoch = Last(seen[w]).epoch
  /\ (\A w \in Workers : status[w] = "reading") =>
       \A p, q \in Workers : \A f \in ToSet(assigned[p]) :
         RowsIn(declared, ToSet(assigned[p]) \ {f}) <= RowsIn(declared, ToSet(assigned[q]))
           \/ \E g \in ToSet(assigned[p]) : declared[g] < declared[f]

(* A checkpoint of any cursors this source can be in between two records is *)
(* accepted by a job with the same ranks and workers, as long as the        *)
(* dataset did not change.                                                  *)
SavedStateAccepted ==
  /\ intact
  /\ \A w \in Workers : status[w] # "failed" /\ ~calling[w]
  => Accepted(StateDict)

(* next_record returns, stops or raises: it never goes round its loop       *)
(* forever, not even when the dataset is rewritten to nothing.              *)
CallsReturn ==
  \A w \in AllWorkers : InCall(w) ~> ~InCall(w)

=============================================================================
