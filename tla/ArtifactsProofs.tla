--------------------------- MODULE ArtifactsProofs ---------------------------
(***************************************************************************)
(* Proofs about Artifacts: the identity files are those of the checkpoints *)
(* beside them, a receipt holds the sums it stands for, exports are whole, *)
(* and nothing published is rewritten, for any processes that share an     *)
(* output directory.                                                       *)
(***************************************************************************)
EXTENDS Artifacts, Sums, SequenceTheorems

-----------------------------------------------------------------------------
(* The invariant.                                                          *)

Points == {"idle", "check", "recheck", "open", "write", "replace", "start", "training",
           "load", "batch", "target", "payload", "describe", "publish", "import",
           "done", "failed", "killed"}

PointsOf(kind) ==
  {"idle"} \cup Ended \cup
  (CASE kind = "train"    -> {"check", "open", "write", "replace", "start", "training"}
     [] kind = "evaluate" -> {"load", "batch", "check", "recheck", "open", "write", "replace"}
     [] kind = "export"   -> {"load", "target", "payload", "describe", "publish"}
     [] kind = "import"   -> {"import"})

Tallies == [samples : Nat, num : Int, den : Nat, batches : Nat]

Types ==
  /\ plan \in Scenarios
  /\ at \in [Procs -> Points]
  /\ \A p \in Procs : at[p] \in PointsOf(plan[p].kind)
  /\ todo \in [Procs -> Seq(Files)]
  /\ handle \in [Procs -> Inodes \cup {None}]
  /\ path \in [Files -> Inodes \cup {None}]
  /\ temp \in [Files -> Inodes \cup {None}]
  /\ DOMAIN text = Inodes
  /\ steps \in SUBSET Checkpoints
  /\ loaded \in [Procs -> Checkpoints \cup {None}]
  /\ totals \in [Procs -> Tallies]
  /\ staging \in [Procs -> Directories \cup {None}]
  /\ exports \in [Places -> Directories \cup {None}]
  /\ contended \in SUBSET Files
  /\ faults \in Nat

(* The files a process has still to write, the next of them first: the     *)
(* resolved files of a job, its location last, or the receipt.             *)
Plain   == Files \ Receipts
Rest(s) == {s[i] : i \in 1..Len(s)}
Once(s) == \A i, j \in 1..Len(s) : s[i] = s[j] => i = j

WellListed(kind, a, s, receipt) ==
  /\ kind = "train" /\ a \in {"check"} \cup Window =>
       /\ s # <<>> /\ Once(s) /\ Rest(s) \subseteq Plain
       /\ s[Len(s)] = "location"
  /\ kind = "train" /\ a \in {"start", "training"} => s = <<>>
  /\ kind = "evaluate" /\ a \in {"load", "batch", "check"} \cup Window => s = <<receipt>>

Lists == \A p \in Procs : WellListed(plan[p].kind, at[p], todo[p], plan[p].receipt)

(* The inode <<p, f>> is made when p opens the temporary name of f; until   *)
(* then nothing stands for it.                                             *)
Opened(p, f) ==
  \/ at[p] \in Ended
  \/ at[p] # "idle" /\ f \notin Rest(todo[p])
  \/ at[p] \in {"write", "replace"} /\ f = Head(todo[p])

Names ==
  /\ \A f \in Files : /\ path[f] # None => path[f][2] = f /\ path[f] # temp[f]
                      /\ temp[f] # None => temp[f][2] = f
  /\ \A p \in Procs : at[p] \in {"write", "replace"} =>
                        handle[p] # None /\ handle[p][2] = Head(todo[p])
  /\ \A p \in Procs, f \in Files :
       (path[f] = <<p, f>> \/ temp[f] = <<p, f>> \/ \E q \in Procs : handle[q] = <<p, f>>)
       => Opened(p, f)

(* Without contention a file has one writer, the temporary name stands for *)
(* the inode that it holds, and a file that is written once is not there.  *)
Alone(f, p) ==
  /\ \A q \in Writing(f) : q = p
  /\ f \in WriteOnce => path[f] = None
  /\ at[p] \in {"write", "replace"} => temp[f] = handle[p]
  /\ at[p] = "write"   => text[handle[p]] = Partial
  /\ at[p] = "replace" => text[handle[p]] = Wanted(p, f)

Uncontended == \A f \in Files \ contended : \A p \in Writing(f) : Alone(f, p)

(* A fragment has a writer that is at it or was stopped.  It must be one    *)
(* other than the process about to publish it, which the next two parts say *)
(* of the inode behind a temporary name.                                   *)
Stopped    == {"replace", "killed", "failed"}
HeldBy(P, h, a, i) == {p \in P : h[p] = i /\ a[p] \in {"write"} \cup Stopped}
Holders(i) == HeldBy(Procs, handle, at, i)

Fragments ==
  \A f \in Files :
    /\ path[f] # None /\ text[path[f]] = Partial => f \in contended /\ Holders(path[f]) # {}
    /\ temp[f] # None => Holders(temp[f]) # {}
    /\ temp[f] # None /\ text[temp[f]] = Partial =>
         \A p \in Procs : at[p] = "replace" /\ handle[p] = temp[f] => Holders(temp[f]) \ {p} # {}
    /\ temp[f] # None /\ text[temp[f]] # Partial =>
         \E p \in Procs : handle[p] = temp[f] /\ at[p] \in Stopped

(* Jobs that run together have one configuration; the files a job has gone  *)
(* past, and those beside a checkpoint, have the content of it; a job of    *)
(* another configuration does not get past the file "run".                  *)
Jobs == {p \in Procs : plan[p].kind = "train" /\ at[p] \notin {"idle"} \cup Ended}

HasContent(f, config) ==
  path[f] # None /\ text[path[f]] \in {Partial, Content(f, config)}

Identity ==
  /\ \A p, q \in Jobs : Config(p) = Config(q)
  /\ \A p \in Jobs : \A f \in Plain \ Rest(todo[p]) : HasContent(f, Config(p))
  /\ \A p \in Jobs : at[p] \in {"write", "replace"} =>
       LET f == Head(todo[p]) IN
         /\ text[handle[p]] \in {Partial, Content(f, Config(p))}
         /\ temp[f] # None => text[temp[f]] \in {Partial, Content(f, Config(p))}
  /\ \A c \in steps, f \in Plain : HasContent(f, c.config)
  /\ \A c \in steps, p \in Jobs :
       \/ Config(p) = c.config
       \/ at[p] = "check" /\ "run" \in Rest(todo[p])

(* The totals of an evaluation are the sums over the batches so far.        *)
Evaluators == {p \in Procs : plan[p].kind = "evaluate"}

Evaluations ==
  \A p \in Evaluators :
    /\ totals[p].batches <= plan[p].asked /\ totals[p].batches <= Len(plan[p].data)
    /\ Metrics(totals[p]) = Metric(plan[p].data, totals[p].batches)
    /\ at[p] \in {"idle", "load"} => totals[p].batches = 0
    /\ at[p] \in {"check", "done"} \cup Window => totals[p].batches = plan[p].asked
    /\ at[p] = "done" /\ plan[p].receipt \notin contended =>
         Holds(plan[p].receipt, Metrics(totals[p]))

(* An exporter has the checkpoint it loaded, then the payload, then the     *)
(* digest of it.                                                           *)
Staged(p) ==
  /\ staging[p] # None => at[p] \in {"payload", "describe", "publish", "killed"}
  /\ at[p] \in {"target", "payload"} => loaded[p] \in steps
  /\ at[p] \in {"payload", "describe", "publish"} => staging[p] # None
  /\ at[p] = "describe" => staging[p].payload \in steps
  /\ at[p] = "publish" => staging[p].digest \in steps

Exporting ==
  /\ \A p \in Procs : Staged(p)
  /\ \A p \in Procs : plan[p].kind = "import" /\ at[p] = "done" => loaded[p] \in steps
  /\ \A d \in Places : exports[d] # None => exports[d].digest \in steps

IInv ==
  /\ Types /\ Lists /\ Names /\ Uncontended
  /\ Fragments /\ Identity /\ Evaluations /\ Exporting

-----------------------------------------------------------------------------
(* The files left after one of them.                                       *)

LEMMA OneLess ==
  ASSUME NEW s \in Seq(Files), s # <<>>, Once(s)
  PROVE  /\ Head(s) \in Rest(s) /\ Head(s) \in Files
         /\ Tail(s) \in Seq(Files) /\ Once(Tail(s))
         /\ Rest(Tail(s)) = Rest(s) \ {Head(s)}
         /\ Len(s) > 1 <=> Tail(s) # <<>>
         /\ Len(s) > 1 => Tail(s)[Len(Tail(s))] = s[Len(s)]
<1>1. Len(s) \in Nat \ {0} /\ Head(s) = s[1] /\ s[1] \in Files
  OBVIOUS
<1>2. Tail(s) \in Seq(Files) /\ Len(Tail(s)) = Len(s) - 1
  OBVIOUS
<1>3. \A i \in 1..Len(s)-1 : Tail(s)[i] = s[i + 1]
  OBVIOUS
<1> DEFINE t == Tail(s)
<1>4. Once(t)
  <2> SUFFICES ASSUME NEW i \in 1..Len(t), NEW j \in 1..Len(t), t[i] = t[j]
               PROVE  i = j
    BY DEF Once
  <2>1. s[i + 1] = s[j + 1] /\ i + 1 \in 1..Len(s) /\ j + 1 \in 1..Len(s)
    BY <1>1, <1>2, <1>3
  <2>2. i + 1 = j + 1
    BY <2>1 DEF Once
  <2> QED BY <2>2
<1>5. Rest(t) = Rest(s) \ {s[1]}
  <2>1. ASSUME NEW i \in 1..Len(t)
        PROVE  t[i] \in Rest(s) /\ t[i] # s[1]
    <3>1. t[i] = s[i + 1] /\ i + 1 \in 1..Len(s) /\ 1 \in 1..Len(s) /\ i + 1 # 1
      BY <1>1, <1>2, <1>3
    <3> QED BY <3>1 DEF Rest, Once
  <2>2. ASSUME NEW i \in 1..Len(s), s[i] # s[1]
        PROVE  s[i] \in Rest(t)
    <3>1. i - 1 \in 1..Len(t) /\ t[i - 1] = s[i]
      BY <1>1, <1>2, <1>3, <2>2
    <3> QED BY <3>1 DEF Rest
  <2> QED BY <2>1, <2>2 DEF Rest
<1>6. Len(s) > 1 => t[Len(t)] = s[Len(s)]
  BY <1>1, <1>2, <1>3
<1>7. s[1] \in Rest(s)
  BY <1>1 DEF Rest
<1>8. Len(s) > 1 <=> t # <<>>
  <2>1. t = <<>> <=> Len(t) = 0
    BY <1>2, EmptySeq
  <2> QED BY <1>1, <1>2, <2>1
<1> QED BY <1>1, <1>2, <1>4, <1>5, <1>6, <1>7, <1>8

(* What a job starts with.                                                  *)
LEMMA AllFiles ==
  LET s == Append(IdentityFiles, "location") IN
  /\ s \in Seq(Files) /\ s # <<>> /\ Once(s)
  /\ Rest(s) = Plain
  /\ s[Len(s)] = "location"
<1> DEFINE s == <<"task", "run", "modules", "parameters", "manifest", "location">>
<1>1. Append(IdentityFiles, "location") = s
  <2> DEFINE Six == {"task", "run", "modules", "parameters", "manifest", "location"}
  <2> DEFINE g == IdentityFiles
             a == Append(g, "location")
  <2>1. g \in Seq(Six) /\ Len(g) = 5 /\ g[1] = "task" /\ g[2] = "run"
        /\ g[3] = "modules" /\ g[4] = "parameters" /\ g[5] = "manifest"
    BY DEF IdentityFiles
  <2>2. a \in Seq(Six) /\ Len(a) = 6 /\ a[6] = "location"
        /\ \A i \in 1..5 : a[i] = g[i]
    <3>1. "location" \in Six
      OBVIOUS
    <3> HIDE DEF g, Six
    <3>2. ASSUME NEW e \in Six
          PROVE  /\ Append(g, e) \in Seq(Six) /\ Len(Append(g, e)) = Len(g) + 1
                 /\ Append(g, e)[Len(g) + 1] = e
                 /\ \A i \in 1..Len(g) : Append(g, e)[i] = g[i]
      <4>1. g \in Seq(Six)
        BY <2>1
      <4> QED BY <4>1, AppendProperties
    <3> QED BY <2>1, <3>1, <3>2
  <2>3. s \in Seq(Six) /\ Len(s) = 6 /\ s[1] = "task" /\ s[2] = "run"
        /\ s[3] = "modules" /\ s[4] = "parameters" /\ s[5] = "manifest" /\ s[6] = "location"
    OBVIOUS
  <2>4. \A i \in 1..6 : i = 1 \/ i = 2 \/ i = 3 \/ i = 4 \/ i = 5 \/ i = 6
    OBVIOUS
  <2>5. \A i \in 1..6 : a[i] = s[i]
    <3> HIDE DEF a, s, g, Six
    <3> QED BY <2>1, <2>2, <2>3, <2>4
  <2>6. a = s
    <3> HIDE DEF a, s, Six
    <3> QED BY <2>2, <2>3, <2>5, SeqEqual
  <2> QED BY <2>6
<1>2. Len(IdentityFiles) = 5 /\ WriteOnce = {"task", "run", "modules", "parameters", "manifest"} \cup Receipts
  <2>1. Len(IdentityFiles) = 5
    BY DEF IdentityFiles
  <2>2. \A i \in 1..5 : i = 1 \/ i = 2 \/ i = 3 \/ i = 4 \/ i = 5
    OBVIOUS
  <2> QED BY <2>1, <2>2 DEF IdentityFiles, WriteOnce
<1>3. Files = {"task", "run", "modules", "parameters", "manifest", "location"} \cup Receipts
  BY <1>2 DEF Files
<1>4. Len(s) = 6 /\ s[1] = "task" /\ s[2] = "run" /\ s[3] = "modules" /\ s[4] = "parameters"
      /\ s[5] = "manifest" /\ s[6] = "location"
  OBVIOUS
<1>5. s \in Seq(Files) /\ s # <<>>
  BY <1>3
<1>6. \A i \in 1..6 : i = 1 \/ i = 2 \/ i = 3 \/ i = 4 \/ i = 5 \/ i = 6
  OBVIOUS
<1>7. Once(s)
  BY <1>4, <1>6 DEF Once
<1>8. Rest(s) = {"task", "run", "modules", "parameters", "manifest", "location"}
  <2>1. 1 \in 1..Len(s) /\ 2 \in 1..Len(s) /\ 3 \in 1..Len(s) /\ 4 \in 1..Len(s)
        /\ 5 \in 1..Len(s) /\ 6 \in 1..Len(s)
    BY <1>4
  <2> QED BY <1>4, <1>6, <2>1 DEF Rest
<1>9. Plain = {"task", "run", "modules", "parameters", "manifest", "location"}
  BY <1>3, ConstantsAssumption DEF Plain
<1> QED BY <1>1, <1>4, <1>5, <1>7, <1>8, <1>9

LEMMA FileSets ==
  /\ Files = Plain \cup Receipts /\ Plain \cap Receipts = {}
  /\ Plain = {"task", "run", "modules", "parameters", "manifest", "location"}
  /\ WriteOnce \subseteq Files /\ "location" \notin WriteOnce
  /\ WriteOnce = Files \ {"location"}
<1>1. Len(IdentityFiles) = 5
  BY DEF IdentityFiles
<1>2. \A i \in 1..5 : i = 1 \/ i = 2 \/ i = 3 \/ i = 4 \/ i = 5
  OBVIOUS
<1>3. WriteOnce = {"task", "run", "modules", "parameters", "manifest"} \cup Receipts
  BY <1>1, <1>2 DEF IdentityFiles, WriteOnce
<1> QED BY <1>3, ConstantsAssumption DEF Files, Plain

LEMMA OneReceipt ==
  ASSUME NEW r \in Files
  PROVE  /\ <<r>> \in Seq(Files) /\ Once(<<r>>) /\ Rest(<<r>>) = {r}
         /\ Head(<<r>>) = r /\ Len(<<r>>) = 1 /\ Tail(<<r>>) = <<>>
<1>1. Len(<<r>>) = 1 /\ <<r>>[1] = r /\ <<r>> \in Seq(Files) /\ Head(<<r>>) = r
  OBVIOUS
<1>2. \A i \in 1..1 : i = 1
  OBVIOUS
<1>3. Once(<<r>>)
  BY <1>1, <1>2 DEF Once
<1>4. Rest(<<r>>) = {r}
  BY <1>1, <1>2 DEF Rest
<1>5. Tail(<<r>>) = <<>>
  OBVIOUS
<1> QED BY <1>1, <1>3, <1>4, <1>5

(* A process at a file has one, which it has not written yet.              *)
LEMMA AtFile ==
  ASSUME Types, Lists, NEW p \in Procs, at[p] \in {"check"} \cup Window
  PROVE  /\ todo[p] \in Seq(Files) /\ todo[p] # <<>> /\ Once(todo[p])
         /\ Head(todo[p]) \in Files /\ Head(todo[p]) \in Rest(todo[p])
         /\ \/ /\ plan[p].kind = "train" /\ Rest(todo[p]) \subseteq Plain
               /\ todo[p][Len(todo[p])] = "location"
            \/ /\ plan[p].kind = "evaluate" /\ plan[p].receipt \in Receipts
               /\ todo[p] = <<plan[p].receipt>>
               /\ Head(todo[p]) = plan[p].receipt /\ Len(todo[p]) = 1
<1>1. plan[p].kind \in {"train", "evaluate", "export", "import"} /\ plan \in Scenarios
  BY ScenariosAssumption DEF Types, Procs
<1>2. plan[p].kind \in {"train", "evaluate"}
  <2>1. at[p] \in PointsOf(plan[p].kind)
    BY DEF Types
  <2>2. plan[p].kind = "export" => at[p] \notin {"check"} \cup Window
    BY <2>1 DEF PointsOf, Ended, Window
  <2>3. plan[p].kind = "import" => at[p] \notin {"check"} \cup Window
    BY <2>1 DEF PointsOf, Ended, Window
  <2> QED BY <1>1, <2>2, <2>3
<1>3. todo[p] \in Seq(Files) /\ WellListed(plan[p].kind, at[p], todo[p], plan[p].receipt)
  BY DEF Types, Lists
<1>4. CASE plan[p].kind = "train"
  <2>1. todo[p] # <<>> /\ Once(todo[p]) /\ Rest(todo[p]) \subseteq Plain
        /\ todo[p][Len(todo[p])] = "location"
    BY <1>3, <1>4 DEF WellListed
  <2> QED BY <1>3, <1>4, <2>1, OneLess
<1>5. CASE plan[p].kind = "evaluate"
  <2>1. todo[p] = <<plan[p].receipt>> /\ plan[p].receipt \in Receipts
    BY <1>1, <1>3, <1>5, ScenariosAssumption DEF WellListed, Procs
  <2>2. plan[p].receipt \in Files
    BY <2>1, FileSets
  <2>3. Once(todo[p]) /\ Rest(todo[p]) = {plan[p].receipt} /\ Head(todo[p]) = plan[p].receipt
        /\ Len(todo[p]) = 1
    BY <2>1, <2>2, OneReceipt
  <2> QED BY <1>3, <1>5, <2>1, <2>2, <2>3
<1> QED BY <1>2, <1>4, <1>5

-----------------------------------------------------------------------------
(* Steps.                                                                  *)

FileStep(p) ==
  CheckFile(p) \/ RecheckReceipt(p) \/ OpenTemp(p) \/ WriteTemp(p) \/ ReplaceFile(p)

OtherStep(p) ==
  \/ StartTraining(p) \/ SaveCheckpoint(p) \/ LoadModel(p) \/ EvaluateBatch(p)
  \/ ComputeMetrics(p) \/ CheckTarget(p) \/ WritePayload(p) \/ WriteExportManifest(p)
  \/ PublishExport(p) \/ ImportArtifact(p) \/ Kill(p) \/ OperationRaises(p)

(* What such a step makes of the files and of where a process is.           *)
QuietMove(p, a) ==
  /\ UNCHANGED <<plan, fileVars>>
  /\ at' = [at EXCEPT ![p] = a]
  /\ at[p] \notin Ended \cup {"idle"}
  /\ \/ a \in {"failed", "killed"}
     \/ plan[p].kind = "train" /\ at[p] \in {"start", "training"} /\ a \in {"training", "done"}
     \/ plan[p].kind = "evaluate" /\ at[p] \in {"load", "batch"} /\ a \in {"batch", "check"}
     \/ plan[p].kind = "export" /\ a \in {"target", "payload", "describe", "publish", "done"}
     \/ plan[p].kind = "import" /\ a = "done"

LEMMA Kinds ==
  ASSUME Types, NEW p \in Procs
  PROVE  /\ plan[p].kind \in {"train", "evaluate", "export", "import"}
         /\ at[p] \in PointsOf(plan[p].kind) /\ at[p] \in Points
         /\ at[p] \in {"start", "training"} => plan[p].kind = "train"
         /\ at[p] = "batch" => plan[p].kind = "evaluate"
         /\ at[p] = "load" => plan[p].kind \in {"evaluate", "export"}
         /\ at[p] \in {"target", "payload", "describe", "publish"} => plan[p].kind = "export"
         /\ at[p] = "import" => plan[p].kind = "import"
         /\ at[p] \in {"check"} \cup Window => plan[p].kind \in {"train", "evaluate"}
         /\ at[p] = "recheck" => plan[p].kind = "evaluate"
<1>1. plan[p].kind \in {"train", "evaluate", "export", "import"}
  BY ScenariosAssumption DEF Types, Procs
<1>2. at[p] \in PointsOf(plan[p].kind) /\ at[p] \in Points
  BY DEF Types
<1>3. CASE plan[p].kind = "train"
  BY <1>2, <1>3 DEF PointsOf, Ended, Window
<1>4. CASE plan[p].kind = "evaluate"
  BY <1>2, <1>4 DEF PointsOf, Ended, Window
<1>5. CASE plan[p].kind = "export"
  BY <1>2, <1>5 DEF PointsOf, Ended, Window
<1>6. CASE plan[p].kind = "import"
  BY <1>2, <1>6 DEF PointsOf, Ended, Window
<1> QED BY <1>1, <1>2, <1>3, <1>4, <1>5, <1>6

LEMMA KindPoints ==
  /\ \A k : {"idle", "done", "failed", "killed"} \subseteq PointsOf(k)
  /\ {"check", "open", "write", "replace", "start", "training"} \subseteq PointsOf("train")
  /\ {"load", "batch", "check", "recheck", "open", "write", "replace"} \subseteq PointsOf("evaluate")
  /\ {"load", "target", "payload", "describe", "publish"} \subseteq PointsOf("export")
  /\ {"import"} \subseteq PointsOf("import")
  /\ \A k \in {"train", "evaluate", "export", "import"} : PointsOf(k) \subseteq Points
<1>1. \A k : {"idle", "done", "failed", "killed"} \subseteq PointsOf(k)
  BY DEF PointsOf, Ended
<1>2. {"check", "open", "write", "replace", "start", "training"} \subseteq PointsOf("train")
  BY DEF PointsOf, Ended
<1>3. {"load", "batch", "check", "recheck", "open", "write", "replace"} \subseteq PointsOf("evaluate")
  BY DEF PointsOf, Ended
<1>4. {"load", "target", "payload", "describe", "publish"} \subseteq PointsOf("export")
  BY DEF PointsOf, Ended
<1>5. {"import"} \subseteq PointsOf("import")
  BY DEF PointsOf, Ended
<1>6. \A k \in {"train", "evaluate", "export", "import"} : PointsOf(k) \subseteq Points
  BY DEF PointsOf, Ended, Points
<1> QED BY <1>1, <1>2, <1>3, <1>4, <1>5, <1>6

LEMMA OthersAreQuiet ==
  ASSUME Types, NEW p \in Procs, OtherStep(p)
  PROVE  \E a : QuietMove(p, a)
<1>0. at \in [Procs -> Points] /\ [at EXCEPT ![p] = at[p]] = at
  BY DEF Types
<1> USE DEF QuietMove, Goto, Raise, Ended
<1>1. CASE StartTraining(p)
  <2> DEFINE a == IF MayTrain(p) THEN "training" ELSE "failed"
  <2>1. QuietMove(p, a)
    BY <1>1, Kinds DEF StartTraining, fileVars
  <2> QED BY <2>1
<1>2. CASE SaveCheckpoint(p)
  <2>1. \/ at' = at
        \/ at' = [at EXCEPT ![p] = "done"] 
        \/ at' = [at EXCEPT ![p] = "failed"]
    BY <1>2 DEF SaveCheckpoint
  <2>2. at[p] = "training" /\ UNCHANGED <<plan, fileVars>>
    BY <1>2 DEF SaveCheckpoint
  <2>3. QuietMove(p, "training") \/ QuietMove(p, "done") \/ QuietMove(p, "failed")
    BY <1>0, <2>1, <2>2, Kinds
  <2> QED BY <2>3
<1>3. CASE LoadModel(p)
  <2>1. \/ at' = [at EXCEPT ![p] = IF plan[p].kind = "evaluate" THEN "batch" ELSE "target"]
        \/ at' = [at EXCEPT ![p] = "failed"]
    BY <1>3 DEF LoadModel
  <2>2. at[p] = "load" /\ UNCHANGED <<plan, fileVars>>
    BY <1>3 DEF LoadModel, fileVars
  <2>3. QuietMove(p, "batch") \/ QuietMove(p, "target") \/ QuietMove(p, "failed")
    BY <2>1, <2>2, Kinds
  <2> QED BY <2>3
<1>4. CASE EvaluateBatch(p)
  <2>1. at' = at \/ at' = [at EXCEPT ![p] = "failed"]
    BY <1>4 DEF EvaluateBatch
  <2>2. at[p] = "batch" /\ UNCHANGED <<plan, fileVars>>
    BY <1>4 DEF EvaluateBatch
  <2>3. QuietMove(p, "batch") \/ QuietMove(p, "failed")
    BY <1>0, <2>1, <2>2, Kinds
  <2> QED BY <2>3
<1>5. CASE ComputeMetrics(p)
  <2>1. at' = [at EXCEPT ![p] = "check"] \/ at' = [at EXCEPT ![p] = "failed"]
    BY <1>5 DEF ComputeMetrics
  <2>2. at[p] = "batch" /\ UNCHANGED <<plan, fileVars>>
    BY <1>5 DEF ComputeMetrics
  <2>3. QuietMove(p, "check") \/ QuietMove(p, "failed")
    BY <2>1, <2>2, Kinds
  <2> QED BY <2>3
<1>6. CASE CheckTarget(p)
  <2>1. QuietMove(p, "payload") \/ QuietMove(p, "failed")
    BY <1>6, Kinds DEF CheckTarget
  <2> QED BY <2>1
<1>7. CASE WritePayload(p)
  <2>1. QuietMove(p, "describe")
    BY <1>7, Kinds DEF WritePayload
  <2> QED BY <2>1
<1>8. CASE WriteExportManifest(p)
  <2>1. QuietMove(p, "publish")
    BY <1>8, Kinds DEF WriteExportManifest
  <2> QED BY <2>1
<1>9. CASE PublishExport(p)
  <2>1. QuietMove(p, "done") \/ QuietMove(p, "failed")
    BY <1>9, Kinds DEF PublishExport
  <2> QED BY <2>1
<1>10. CASE ImportArtifact(p)
  <2>1. QuietMove(p, "done") \/ QuietMove(p, "failed")
    BY <1>10, Kinds DEF ImportArtifact
  <2> QED BY <2>1
<1>11. CASE Kill(p)
  <2>1. QuietMove(p, "killed")
    BY <1>11 DEF Kill
  <2> QED BY <2>1
<1>12. CASE OperationRaises(p)
  <2>1. QuietMove(p, "failed")
    BY <1>12 DEF OperationRaises
  <2> QED BY <2>1
<1> QED BY <1>1, <1>2, <1>3, <1>4, <1>5, <1>6, <1>7, <1>8, <1>9, <1>10, <1>11, <1>12 DEF OtherStep

LEMMA NextSteps ==
  ASSUME Next
  PROVE  (\E p \in Procs : Begin(p) \/ FileStep(p) \/ OtherStep(p)) \/ Damage
BY DEF Next, Step, FileStep, OtherStep

(* Where Advance takes a process.                                          *)
AdvancesTo(p, a) ==
  LET t == Tail(todo[p]) IN
  /\ at' = [at EXCEPT ![p] = a]
  /\ todo' = [todo EXCEPT ![p] = t]
  /\ t \in Seq(Files) /\ Once(t) /\ Rest(t) = Rest(todo[p]) \ {Head(todo[p])}
  /\ \/ plan[p].kind = "train" /\ a = "check" /\ t # <<>> /\ t[Len(t)] = "location"
     \/ plan[p].kind = "train" /\ a = "start" /\ t = <<>>
     \/ plan[p].kind = "evaluate" /\ a = "done" /\ t = <<>>

LEMMA Advanced ==
  ASSUME Types, Lists, NEW p \in Procs, at[p] \in {"check"} \cup Window, Advance(p)
  PROVE  \E a : AdvancesTo(p, a)
<1> DEFINE t == Tail(todo[p])
<1>1. /\ at' = [at EXCEPT ![p] = IF Len(todo[p]) > 1 THEN "check"
                                 ELSE IF plan[p].kind = "train" THEN "start" ELSE "done"]
      /\ todo' = [todo EXCEPT ![p] = t]
  BY DEF Advance, Goto
<1>2. /\ t \in Seq(Files) /\ Once(t)
      /\ Rest(t) = Rest(todo[p]) \ {Head(todo[p])}
      /\ Len(todo[p]) > 1 <=> t # <<>>
      /\ Len(todo[p]) > 1 => t[Len(t)] = todo[p][Len(todo[p])]
  BY AtFile, OneLess
<1>3. CASE plan[p].kind = "train"
  <2>1. todo[p][Len(todo[p])] = "location"
    BY <1>3, AtFile
  <2>2. CASE Len(todo[p]) > 1
    <3>1. at' = [at EXCEPT ![p] = "check"] /\ t # <<>>
      BY <1>1, <1>2, <1>3, <2>2
    <3>2. t[Len(t)] = "location"
      BY <1>2, <2>1, <2>2
    <3>3. AdvancesTo(p, "check")
      <4> HIDE DEF t
      <4>1. /\ at' = [at EXCEPT ![p] = "check"]
            /\ todo' = [todo EXCEPT ![p] = t]
            /\ t \in Seq(Files) /\ Once(t) /\ Rest(t) = Rest(todo[p]) \ {Head(todo[p])}
            /\ plan[p].kind = "train" /\ t # <<>> /\ t[Len(t)] = "location"
        BY <1>1, <1>2, <1>3, <3>1, <3>2
      <4> QED BY <4>1 DEF AdvancesTo, t
    <3> QED BY <3>3
  <2>3. CASE ~(Len(todo[p]) > 1)
    <3>1. at' = [at EXCEPT ![p] = "start"] /\ t = <<>>
      BY <1>1, <1>2, <1>3, <2>3
    <3>2. AdvancesTo(p, "start")
      BY <1>1, <1>2, <1>3, <3>1 DEF AdvancesTo
    <3> QED BY <3>2
  <2> QED BY <2>2, <2>3
<1>4. CASE plan[p].kind = "evaluate"
  <2>1. Len(todo[p]) = 1
    BY <1>4, AtFile
  <2>2. at' = [at EXCEPT ![p] = "done"] /\ t = <<>>
    BY <1>1, <1>2, <1>4, <2>1
  <2>3. AdvancesTo(p, "done")
    BY <1>1, <1>2, <1>4, <2>2 DEF AdvancesTo
  <2> QED BY <2>3
<1> QED BY <1>3, <1>4, AtFile

-----------------------------------------------------------------------------
(* Types.                                                                  *)

LEMMA Placed ==
  ASSUME Types, plan' = plan, NEW p \in Procs, NEW a \in PointsOf(plan[p].kind),
         at' = [at EXCEPT ![p] = a]
  PROVE  /\ Procs' = Procs /\ Inodes' = Inodes
         /\ at' \in [Procs -> Points]
         /\ \A q \in Procs : at'[q] \in PointsOf(plan[q].kind)
<1>1. Procs' = Procs /\ Inodes' = Inodes
  BY DEF Procs, Inodes
<1>2. plan[p].kind \in {"train", "evaluate", "export", "import"}
  BY Kinds
<1>3. a \in Points
  BY <1>2, KindPoints
<1> QED BY <1>1, <1>3 DEF Types

LEMMA Unmoved ==
  ASSUME Types, plan' = plan, at' = at
  PROVE  /\ Procs' = Procs /\ Inodes' = Inodes
         /\ at' \in [Procs -> Points]
         /\ \A q \in Procs : at'[q] \in PointsOf(plan[q].kind)
BY DEF Types, Procs, Inodes

(* Among the checkpoints there is a latest.                                *)
LEMMA LatestCheckpoint ==
  ASSUME steps \in SUBSET Checkpoints, steps # {}
  PROVE  (CHOOSE c \in steps : \A d \in steps : d.step <= c.step) \in steps
<1> DEFINE B == {MaxStep - c.step : c \in steps}
<1>1. MaxStep \in Nat /\ \A c \in steps : c.step \in 1..MaxStep
  BY ConstantsAssumption DEF Checkpoints
<1>2. B \subseteq Nat /\ B # {}
  BY <1>1
<1>3. PICK n \in B : \A m \in B : n <= m
  <2> HIDE DEF B
  <2> QED BY <1>2, SmallestNumber
<1>4. PICK c \in steps : n = MaxStep - c.step
  BY <1>3
<1>5. ASSUME NEW d \in steps
      PROVE  d.step <= c.step
  <2>1. MaxStep - c.step <= MaxStep - d.step
    BY <1>3, <1>4
  <2>2. c.step \in Int /\ d.step \in Int /\ MaxStep \in Int
    BY <1>1
  <2> QED BY <2>1, <2>2
<1> QED BY <1>5

LEMMA NextStep ==
  ASSUME Types, NEW p \in Procs, NEW next, next <= MaxStep,
         next = IF loaded[p] = None THEN 1 ELSE loaded[p].step + 1
  PROVE  [step |-> next, config |-> Config(p)] \in Checkpoints
<1>1. Config(p) \in UNION {{s[q].config : q \in DOMAIN s} : s \in Scenarios}
  BY DEF Types, Config, Procs
<1>2. MaxStep \in Nat \ {0}
  BY ConstantsAssumption
<1>3. loaded[p] # None => loaded[p].step \in 1..MaxStep
  BY DEF Types, Checkpoints
<1>4. next \in 1..MaxStep
  BY <1>2, <1>3
<1> QED BY <1>1, <1>4 DEF Checkpoints

LEMMA TypesRest ==
  ASSUME Types, plan' = plan, Procs' = Procs, Inodes' = Inodes,
         at' \in [Procs -> Points], \A q \in Procs : at'[q] \in PointsOf(plan[q].kind),
         todo' \in [Procs -> Seq(Files)], handle' \in [Procs -> Inodes \cup {None}],
         path' \in [Files -> Inodes \cup {None}], temp' \in [Files -> Inodes \cup {None}],
         DOMAIN text' = Inodes, contended' \in SUBSET Files,
         steps' \in SUBSET Checkpoints, loaded' \in [Procs -> Checkpoints \cup {None}],
         totals' \in [Procs -> Tallies], staging' \in [Procs -> Directories \cup {None}],
         exports' \in [Places -> Directories \cup {None}], faults' \in Nat
  PROVE  Types'
BY DEF Types

LEMMA QuietTypes ==
  ASSUME Types, Exporting, NEW p \in Procs, OtherStep(p)
  PROVE  Types'
<1>1. PICK a : QuietMove(p, a)
  BY OthersAreQuiet
<1>2. a \in PointsOf(plan[p].kind)
  BY <1>1, Kinds, KindPoints DEF QuietMove
<1>3. /\ plan' = plan /\ Procs' = Procs /\ Inodes' = Inodes
      /\ at' \in [Procs -> Points]
      /\ \A q \in Procs : at'[q] \in PointsOf(plan[q].kind)
  BY <1>1, <1>2, Placed DEF QuietMove
<1>4. /\ todo' \in [Procs -> Seq(Files)] /\ handle' \in [Procs -> Inodes \cup {None}]
      /\ path' \in [Files -> Inodes \cup {None}] /\ temp' \in [Files -> Inodes \cup {None}]
      /\ DOMAIN text' = Inodes /\ contended' \in SUBSET Files
  BY <1>1 DEF QuietMove, fileVars, Types
<1>5. /\ steps \in SUBSET Checkpoints /\ loaded \in [Procs -> Checkpoints \cup {None}]
      /\ totals \in [Procs -> Tallies] /\ staging \in [Procs -> Directories \cup {None}]
      /\ exports \in [Places -> Directories \cup {None}] /\ faults \in Nat
      /\ plan[p].kind \in {"train", "evaluate", "export", "import"}
  BY Kinds DEF Types
<1> DEFINE Typed == /\ steps' \in SUBSET Checkpoints /\ loaded' \in [Procs -> Checkpoints \cup {None}]
                    /\ totals' \in [Procs -> Tallies] /\ staging' \in [Procs -> Directories \cup {None}]
                    /\ exports' \in [Places -> Directories \cup {None}] /\ faults' \in Nat
<1>6. ASSUME StartTraining(p)
      PROVE  Typed
  <2>1. loaded' \in [Procs -> Checkpoints \cup {None}]
    <3>1. CASE plan[p].resume /\ MayTrain(p)
      <4>1. steps # {}
        BY <3>1 DEF MayTrain
      <4>2. (CHOOSE c \in steps : \A d \in steps : d.step <= c.step) \in Checkpoints
        BY <1>5, <4>1, LatestCheckpoint
      <4> DEFINE latest == CHOOSE c \in steps : \A d \in steps : d.step <= c.step
      <4>3. loaded' = [loaded EXCEPT ![p] = latest]
        BY <1>6, <3>1 DEF StartTraining
      <4> HIDE DEF latest
      <4>4. latest \in Checkpoints
        BY <4>2 DEF latest
      <4> QED BY <1>5, <4>3, <4>4
    <3>2. CASE ~(plan[p].resume /\ MayTrain(p))
      <4>1. loaded' = [loaded EXCEPT ![p] = loaded[p]]
        BY <1>6, <3>2 DEF StartTraining
      <4> QED BY <1>5, <4>1
    <3> QED BY <3>1, <3>2
  <2> QED BY <1>5, <1>6, <2>1 DEF StartTraining
<1>7. ASSUME SaveCheckpoint(p)
      PROVE  Typed
  <2> DEFINE next == IF loaded[p] = None THEN 1 ELSE loaded[p].step + 1
             made == [step |-> next, config |-> Config(p)]
  <2>1. \/ UNCHANGED <<steps, loaded>>
        \/ ~(next > MaxStep) /\ steps' = steps \cup {made} /\ loaded' = [loaded EXCEPT ![p] = made]
    BY <1>7 DEF SaveCheckpoint
  <2>2. ASSUME ~(next > MaxStep)
        PROVE  made \in Checkpoints
    <3>1. next \in Int /\ MaxStep \in Int
      BY <1>5, ConstantsAssumption DEF Checkpoints
    <3>2. next <= MaxStep
      <4> HIDE DEF next
      <4> QED BY <2>2, <3>1
    <3> QED BY <3>2, NextStep
  <2>3. UNCHANGED <<totals, staging, exports, faults>>
    BY <1>7 DEF SaveCheckpoint
  <2> HIDE DEF made, next
  <2>4. steps' \in SUBSET Checkpoints /\ loaded' \in [Procs -> Checkpoints \cup {None}]
    BY <1>5, <2>1, <2>2
  <2> QED BY <1>5, <2>3, <2>4
<1>8. ASSUME LoadModel(p)
      PROVE  Typed
  <2>1. loaded' \in [Procs -> Checkpoints \cup {None}]
    BY <1>5, <1>8 DEF LoadModel, Readable
  <2> QED BY <1>5, <1>8, <2>1 DEF LoadModel
<1>9. ASSUME EvaluateBatch(p)
      PROVE  Typed
  <2>1. UNCHANGED <<steps, loaded, staging, exports, faults>>
    BY <1>9 DEF EvaluateBatch
  <2>2. totals' \in [Procs -> Tallies]
    <3>1. CASE totals' = totals
      BY <1>5, <3>1
    <3>2. CASE totals' # totals
      <4> DEFINE n == totals[p].batches + 1
                 b == plan[p].data[n]
                 t == totals[p]
      <4>1. totals' = [totals EXCEPT ![p] = Accumulate(t, b)] /\ totals[p].batches < Len(plan[p].data)
        BY <1>9, <3>2 DEF EvaluateBatch
      <4>2. plan[p].kind = "evaluate"
        BY <1>9, Kinds DEF EvaluateBatch
      <4>3. plan[p].data \in Seq(Batches) /\ t \in Tallies
        BY <1>5, <4>2, ScenariosAssumption DEF Types, Procs
      <4>4. n \in 1..Len(plan[p].data)
        BY <4>1, <4>3 DEF Tallies
      <4>5. b \in Batches
        BY <4>3, <4>4
      <4> HIDE DEF b, t
      <4>6. Accumulate(t, b) \in Tallies
        BY <4>3, <4>5 DEF Accumulate, Tallies, Batches
      <4> QED BY <1>5, <4>1, <4>6
    <3> QED BY <3>1, <3>2
  <2> QED BY <1>5, <2>1, <2>2
<1>10. ASSUME ComputeMetrics(p)
      PROVE  Typed
  BY <1>5, <1>10 DEF ComputeMetrics
<1>11. ASSUME CheckTarget(p)
      PROVE  Typed
  <2>1. [payload |-> None, digest |-> None] \in Directories
    BY DEF Directories
  <2>2. staging' \in [Procs -> Directories \cup {None}]
    BY <1>5, <1>11, <2>1 DEF CheckTarget
  <2> QED BY <1>5, <1>11, <2>2 DEF CheckTarget
<1>12. ASSUME WritePayload(p)
      PROVE  Typed
  <2>1. [payload |-> loaded[p], digest |-> None] \in Directories
    BY <1>5 DEF Directories
  <2>2. staging' \in [Procs -> Directories \cup {None}]
    BY <1>5, <1>12, <2>1 DEF WritePayload
  <2> QED BY <1>5, <1>12, <2>2 DEF WritePayload
<1>13. ASSUME WriteExportManifest(p)
      PROVE  Typed
  <2> DEFINE made == staging[p].payload
  <2>1. made \in Checkpoints
    BY <1>5, <1>13 DEF WriteExportManifest, Exporting, Staged
  <2>2. staging' = [staging EXCEPT ![p] = [payload |-> made, digest |-> made]]
    BY <1>13 DEF WriteExportManifest
  <2>3. [payload |-> made, digest |-> made] \in Directories
    <3> HIDE DEF made
    <3> QED BY <2>1 DEF Directories
  <2>4. staging' \in [Procs -> Directories \cup {None}]
    BY <1>5, <2>2, <2>3
  <2> QED BY <1>5, <1>13, <2>4 DEF WriteExportManifest
<1>14. ASSUME PublishExport(p)
      PROVE  Typed
  <2>1. plan[p].kind = "export"
    BY <1>14, Kinds DEF PublishExport
  <2>2. plan[p].place \in Places
    BY <2>1, ScenariosAssumption DEF Types, Procs
  <2>3. exports' \in [Places -> Directories \cup {None}] /\ staging' \in [Procs -> Directories \cup {None}]
    BY <1>5, <1>14, <2>2 DEF PublishExport
  <2> QED BY <1>5, <1>14, <2>3 DEF PublishExport
<1>15. ASSUME ImportArtifact(p)
      PROVE  Typed
  <2>1. plan[p].kind = "import"
    BY <1>15, Kinds DEF ImportArtifact
  <2>2. plan[p].place \in Places
    BY <2>1, ScenariosAssumption DEF Types, Procs
  <2>3. Intact(plan[p].place) => exports[plan[p].place].payload \in Checkpoints \cup {None}
    BY <1>5, <2>2 DEF Intact, Directories
  <2>4. loaded' \in [Procs -> Checkpoints \cup {None}]
    BY <1>5, <1>15, <2>3 DEF ImportArtifact
  <2> QED BY <1>5, <1>15, <2>4 DEF ImportArtifact
<1>16. ASSUME Kill(p)
      PROVE  Typed
  BY <1>5, <1>16 DEF Kill, Fault
<1>17. ASSUME OperationRaises(p)
      PROVE  Typed
  BY <1>5, <1>17 DEF OperationRaises, Fault
<1>18. Typed
  BY <1>6, <1>7, <1>8, <1>9, <1>10, <1>11, <1>12, <1>13, <1>14, <1>15, <1>16, <1>17 DEF OtherStep
<1> QED BY <1>3, <1>4, <1>18, TypesRest

LEMMA FileTypes ==
  ASSUME Types, Lists, NEW p \in Procs, Begin(p) \/ FileStep(p)
  PROVE  Types'
<1>0. /\ plan[p].kind \in {"train", "evaluate", "export", "import"}
      /\ todo \in [Procs -> Seq(Files)] /\ handle \in [Procs -> Inodes \cup {None}]
      /\ path \in [Files -> Inodes \cup {None}] /\ temp \in [Files -> Inodes \cup {None}]
      /\ DOMAIN text = Inodes /\ contended \in SUBSET Files
  BY Kinds DEF Types
<1>1. plan' = plan /\ UNCHANGED <<steps, loaded, totals, staging, exports, faults>>
  BY DEF FileStep, Begin, CheckFile, RecheckReceipt, OpenTemp, WriteTemp, ReplaceFile
<1>2. /\ steps' \in SUBSET Checkpoints /\ loaded' \in [Procs -> Checkpoints \cup {None}]
      /\ totals' \in [Procs -> Tallies] /\ staging' \in [Procs -> Directories \cup {None}]
      /\ exports' \in [Places -> Directories \cup {None}] /\ faults' \in Nat
  BY <1>1 DEF Types
<1> DEFINE AtTyped == /\ Procs' = Procs /\ Inodes' = Inodes
                      /\ at' \in [Procs -> Points]
                      /\ \A q \in Procs : at'[q] \in PointsOf(plan[q].kind)
           Typed == /\ todo' \in [Procs -> Seq(Files)] /\ handle' \in [Procs -> Inodes \cup {None}]
                    /\ path' \in [Files -> Inodes \cup {None}] /\ temp' \in [Files -> Inodes \cup {None}]
                    /\ DOMAIN text' = Inodes /\ contended' \in SUBSET Files
<1>3. ASSUME at[p] \in {"check"} \cup Window, Advance(p)
      PROVE  AtTyped /\ todo' \in [Procs -> Seq(Files)]
  <2>1. PICK a : AdvancesTo(p, a)
    BY <1>3, Advanced
  <2>2. a \in PointsOf(plan[p].kind)
    BY <2>1, KindPoints DEF AdvancesTo
  <2>3. AtTyped
    BY <1>1, <2>1, <2>2, Placed DEF AdvancesTo
  <2>4. todo' \in [Procs -> Seq(Files)]
    <3> DEFINE t == Tail(todo[p])
    <3>1. t \in Seq(Files) /\ todo' = [todo EXCEPT ![p] = t]
      BY <2>1 DEF AdvancesTo
    <3> HIDE DEF t
    <3> QED BY <1>0, <3>1
  <2> QED BY <2>3, <2>4
<1>4. ASSUME NEW a \in PointsOf(plan[p].kind), Goto(p, a)
      PROVE  AtTyped
  BY <1>1, <1>4, Placed DEF Goto
<1>5. \A k \in {"train", "evaluate", "export", "import"} : "failed" \in PointsOf(k)
  BY KindPoints
<1>6. CASE Begin(p)
  <2> DEFINE a == CASE plan[p].kind = "train"  -> "check"
                    [] plan[p].kind = "import" -> "import"
                    [] OTHER                   -> "load"
             s == CASE plan[p].kind = "train" -> Append(IdentityFiles, "location")
                    [] plan[p].kind = "evaluate" -> <<plan[p].receipt>>
                    [] OTHER -> <<>>
  <2>1. Goto(p, a) /\ todo' = [todo EXCEPT ![p] = s] /\ UNCHANGED <<handle, path, temp, text, contended>>
    BY <1>6 DEF Begin
  <2>2. a \in PointsOf(plan[p].kind)
    BY <1>0, KindPoints
  <2>3. s \in Seq(Files)
    <3>1. Append(IdentityFiles, "location") \in Seq(Files)
      BY AllFiles
    <3>2. plan[p].kind = "evaluate" => <<plan[p].receipt>> \in Seq(Files)
      <4>1. plan[p].kind = "evaluate" => plan[p].receipt \in Files
        BY ScenariosAssumption, FileSets DEF Types, Procs
      <4> QED BY <4>1
    <3>3. <<>> \in Seq(Files)
      OBVIOUS
    <3> QED BY <3>1, <3>2, <3>3
  <2> HIDE DEF a, s
  <2>4. AtTyped
    BY <1>4, <2>1, <2>2
  <2>5. Typed
    BY <1>0, <2>1, <2>3
  <2> QED BY <1>1, <1>2, <2>4, <2>5, TypesRest
<1>7. CASE CheckFile(p)
  <2>1. at[p] = "check" /\ UNCHANGED <<handle, path, temp, text>>
    BY <1>7 DEF CheckFile
  <2> DEFINE f == Head(todo[p])
  <2>2. f \in Files /\ plan[p].kind \in {"train", "evaluate"}
    BY <2>1, AtFile
  <2>3. \/ Advance(p) /\ UNCHANGED contended
        \/ /\ UNCHANGED todo /\ contended' \in {contended, contended \cup {f}}
           /\ \/ Goto(p, "open") \/ Goto(p, "failed")
              \/ f \in Receipts /\ Goto(p, "recheck")
    BY <1>7 DEF CheckFile, Enter, Raise
  <2>4. f \in Receipts => plan[p].kind = "evaluate"
    BY <2>1, AtFile, FileSets
  <2>5. AtTyped /\ todo' \in [Procs -> Seq(Files)]
    <3>1. CASE Advance(p)
      BY <1>3, <2>1, <3>1
    <3>2. CASE Goto(p, "open") /\ UNCHANGED todo
      <4>1. "open" \in PointsOf(plan[p].kind)
        BY <2>2, KindPoints
      <4> QED BY <1>0, <1>4, <3>2, <4>1
    <3>3. CASE Goto(p, "failed") /\ UNCHANGED todo
      BY <1>0, <1>4, <1>5, <3>3
    <3>4. CASE f \in Receipts /\ Goto(p, "recheck") /\ UNCHANGED todo
      <4>1. "recheck" \in PointsOf(plan[p].kind)
        BY <2>4, <3>4, KindPoints
      <4> QED BY <1>0, <1>4, <3>4, <4>1
    <3> QED BY <2>3, <3>1, <3>2, <3>3, <3>4
  <2>6. Typed
    <3> HIDE DEF f
    <3> QED BY <1>0, <2>1, <2>2, <2>3, <2>5
  <2> QED BY <1>1, <1>2, <2>5, <2>6, TypesRest
<1>8. CASE RecheckReceipt(p)
  <2>1. at[p] = "recheck" /\ UNCHANGED <<handle, path, temp, text, contended>>
    BY <1>8 DEF RecheckReceipt
  <2>2. (Goto(p, "open") /\ UNCHANGED todo) \/ Advance(p)
    BY <1>8 DEF RecheckReceipt
  <2>3. "open" \in PointsOf(plan[p].kind)
    BY <2>1, Kinds, KindPoints
  <2>4. AtTyped /\ todo' \in [Procs -> Seq(Files)]
    BY <1>0, <1>3, <1>4, <2>1, <2>2, <2>3 DEF Window
  <2>5. Typed
    BY <1>0, <2>1, <2>4
  <2> QED BY <1>1, <1>2, <2>4, <2>5, TypesRest
<1>9. CASE OpenTemp(p)
  <2> DEFINE f == Head(todo[p])
             inode == IF temp[f] = None THEN <<p, f>> ELSE temp[f]
  <2>1. /\ at[p] = "open" /\ UNCHANGED <<todo, path, contended>>
        /\ handle' = [handle EXCEPT ![p] = inode] /\ temp' = [temp EXCEPT ![f] = inode]
        /\ text' = [text EXCEPT ![inode] = Partial] /\ Goto(p, "write")
    BY <1>9 DEF OpenTemp
  <2>2. f \in Files /\ plan[p].kind \in {"train", "evaluate"}
    BY <2>1, AtFile DEF Window
  <2>3. inode \in Inodes
    BY <1>0, <2>2 DEF Inodes, Procs
  <2>4. "write" \in PointsOf(plan[p].kind)
    BY <2>2, KindPoints
  <2> HIDE DEF inode, f
  <2>5. AtTyped
    BY <1>4, <2>1, <2>4
  <2>6. Typed
    BY <1>0, <2>1, <2>2, <2>3
  <2> QED BY <1>1, <1>2, <2>5, <2>6, TypesRest
<1>10. CASE WriteTemp(p)
  <2>1. at[p] = "write" /\ UNCHANGED <<todo, handle, path, temp, contended>> /\ Goto(p, "replace")
    BY <1>10 DEF WriteTemp
  <2>2. DOMAIN text' = DOMAIN text
    BY <1>10 DEF WriteTemp
  <2>3. "replace" \in PointsOf(plan[p].kind)
    BY <2>1, Kinds, KindPoints DEF Window
  <2>4. AtTyped
    BY <1>4, <2>1, <2>3
  <2>5. Typed
    BY <1>0, <2>1, <2>2
  <2> QED BY <1>1, <1>2, <2>4, <2>5, TypesRest
<1>11. CASE ReplaceFile(p)
  <2> DEFINE f == Head(todo[p])
  <2>1. /\ at[p] = "replace" /\ UNCHANGED <<handle, text, contended>>
        /\ \/ Goto(p, "failed") /\ UNCHANGED <<todo, path, temp>>
           \/ /\ path' = [path EXCEPT ![f] = temp[f]] /\ temp' = [temp EXCEPT ![f] = None]
              /\ Advance(p)
    BY <1>11 DEF ReplaceFile, Raise
  <2>2. f \in Files
    BY <2>1, AtFile DEF Window
  <2>3. AtTyped /\ todo' \in [Procs -> Seq(Files)]
    BY <1>0, <1>3, <1>4, <1>5, <2>1 DEF Window
  <2>4. Typed
    <3> HIDE DEF f
    <3> QED BY <1>0, <2>1, <2>2, <2>3
  <2> QED BY <1>1, <1>2, <2>3, <2>4, TypesRest
<1> QED BY <1>6, <1>7, <1>8, <1>9, <1>10, <1>11 DEF FileStep

LEMMA DamageTypes ==
  ASSUME Types, Damage
  PROVE  Types'
<1>1. PICK d \in Places : /\ exports[d] # None
                          /\ exports' = [exports EXCEPT ![d] = [payload |-> DamagedPayload,
                                                                digest |-> exports[d].digest]]
  BY DEF Damage
<1>2. UNCHANGED <<plan, at, fileVars, steps, loaded, totals, staging>> /\ faults' = faults + 1
  BY DEF Damage, Fault
<1>3. exports \in [Places -> Directories \cup {None}]
  BY DEF Types
<1>4. [payload |-> DamagedPayload, digest |-> exports[d].digest] \in Directories
  BY <1>1, <1>3 DEF Directories
<1>5. exports' \in [Places -> Directories \cup {None}]
  BY <1>1, <1>3, <1>4
<1>6. faults' \in Nat
  BY <1>2 DEF Types
<1> QED BY <1>2, <1>5, <1>6 DEF Types, fileVars, Procs, Inodes

-----------------------------------------------------------------------------
(* The files a process has still to write.                                 *)

LEMMA ListsMoved ==
  ASSUME Types, Lists, NEW p \in Procs, NEW a, NEW t, plan' = plan,
         at' = [at EXCEPT ![p] = a], todo' = [todo EXCEPT ![p] = t],
         WellListed(plan[p].kind, a, t, plan[p].receipt)
  PROVE  Lists'
<1>1. Procs' = Procs
  BY DEF Procs
<1>2. ASSUME NEW q \in Procs
      PROVE  WellListed(plan[q].kind, at'[q], todo'[q], plan[q].receipt)
  <2>1. CASE q = p
    <3>1. at'[q] = a /\ todo'[q] = t
      BY <2>1 DEF Types
    <3> QED BY <2>1, <3>1
  <2>2. CASE q # p
    <3>1. at'[q] = at[q] /\ todo'[q] = todo[q]
      BY <2>2 DEF Types
    <3> QED BY <3>1 DEF Lists
  <2> QED BY <2>1, <2>2
<1>3. \A q \in Procs : plan'[q].kind = plan[q].kind /\ plan'[q].receipt = plan[q].receipt
  OBVIOUS
<1> QED BY <1>1, <1>2, <1>3 DEF Lists

LEMMA ListsKept ==
  ASSUME Types, Lists, NEW p \in Procs, NEW a, plan' = plan, UNCHANGED todo,
         at' = [at EXCEPT ![p] = a],
         \/ a \in Ended
         \/ at[p] \in {"check"} \cup Window /\ a \in Window
  PROVE  Lists'
<1>1. todo' = [todo EXCEPT ![p] = todo[p]]
  BY DEF Types
<1>2. WellListed(plan[p].kind, at[p], todo[p], plan[p].receipt)
  BY DEF Lists
<1>3. WellListed(plan[p].kind, a, todo[p], plan[p].receipt)
  BY <1>2 DEF WellListed, Window, Ended
<1> QED BY <1>1, <1>3, ListsMoved

LEMMA ListsAdvanced ==
  ASSUME Types, Lists, NEW p \in Procs, at[p] \in {"check"} \cup Window, Advance(p), plan' = plan
  PROVE  Lists'
<1>1. PICK a : AdvancesTo(p, a)
  BY Advanced
<1> DEFINE t == Tail(todo[p])
<1>2. at' = [at EXCEPT ![p] = a] /\ todo' = [todo EXCEPT ![p] = t]
  BY <1>1 DEF AdvancesTo
<1>3. plan[p].kind = "train" => Rest(todo[p]) \subseteq Plain
  BY AtFile, FileSets
<1>4. /\ Once(t) /\ Rest(t) \subseteq Rest(todo[p])
      /\ \/ plan[p].kind = "train" /\ a = "check" /\ t # <<>> /\ t[Len(t)] = "location"
         \/ plan[p].kind = "train" /\ a = "start" /\ t = <<>>
         \/ plan[p].kind = "evaluate" /\ a = "done" /\ t = <<>>
  BY <1>1 DEF AdvancesTo
<1>5. WellListed(plan[p].kind, a, t, plan[p].receipt)
  <2> HIDE DEF t
  <2> QED BY <1>3, <1>4 DEF WellListed, Window
<1> QED BY <1>2, <1>5, ListsMoved

LEMMA ListsStep ==
  ASSUME Types, Lists, NEW p \in Procs, Begin(p) \/ FileStep(p) \/ OtherStep(p)
  PROVE  Lists'
<1>1. CASE Begin(p)
  <2> DEFINE a == CASE plan[p].kind = "train"  -> "check"
                    [] plan[p].kind = "import" -> "import"
                    [] OTHER                   -> "load"
             s == CASE plan[p].kind = "train" -> Append(IdentityFiles, "location")
                    [] plan[p].kind = "evaluate" -> <<plan[p].receipt>>
                    [] OTHER -> <<>>
  <2>1. at' = [at EXCEPT ![p] = a] /\ todo' = [todo EXCEPT ![p] = s] /\ plan' = plan
    BY <1>1 DEF Begin, Goto
  <2>2. WellListed(plan[p].kind, a, s, plan[p].receipt)
    <3>1. CASE plan[p].kind = "train"
      <4>1. a = "check" /\ s = Append(IdentityFiles, "location")
        BY <3>1
      <4> HIDE DEF a, s
      <4>2. s # <<>> /\ Once(s) /\ Rest(s) = Plain /\ s[Len(s)] = "location"
        BY <4>1, AllFiles
      <4> QED BY <3>1, <4>1, <4>2 DEF WellListed
    <3>2. CASE plan[p].kind = "evaluate"
      <4>1. a = "load" /\ s = <<plan[p].receipt>>
        BY <3>2
      <4> HIDE DEF a, s
      <4> QED BY <3>2, <4>1 DEF WellListed
    <3>3. CASE plan[p].kind \notin {"train", "evaluate"}
      BY <3>3 DEF WellListed
    <3> QED BY <3>1, <3>2, <3>3
  <2> HIDE DEF a, s
  <2> QED BY <2>1, <2>2, ListsMoved
<1>2. CASE OtherStep(p)
  <2>1. PICK a : QuietMove(p, a)
    BY <1>2, OthersAreQuiet
  <2>2. at' = [at EXCEPT ![p] = a] /\ todo' = [todo EXCEPT ![p] = todo[p]] /\ plan' = plan
    BY <2>1 DEF QuietMove, fileVars, Types
  <2>3. WellListed(plan[p].kind, at[p], todo[p], plan[p].receipt)
    BY DEF Lists
  <2>4. WellListed(plan[p].kind, a, todo[p], plan[p].receipt)
    BY <2>1, <2>3 DEF QuietMove, WellListed, Window, Ended
  <2> QED BY <2>2, <2>4, ListsMoved
<1>3. CASE CheckFile(p)
  <2>1. at[p] = "check" /\ plan' = plan
    BY <1>3 DEF CheckFile
  <2>2. \/ Advance(p)
        \/ UNCHANGED todo /\ (Goto(p, "open") \/ Goto(p, "failed") \/ Goto(p, "recheck"))
    BY <1>3 DEF CheckFile, Raise
  <2>3. CASE Advance(p)
    BY <2>1, <2>3, ListsAdvanced
  <2>4. CASE UNCHANGED todo /\ (Goto(p, "open") \/ Goto(p, "failed") \/ Goto(p, "recheck"))
    BY <2>1, <2>4, ListsKept DEF Goto, Window, Ended
  <2> QED BY <2>2, <2>3, <2>4
<1>4. CASE RecheckReceipt(p)
  <2>1. at[p] \in Window /\ plan' = plan
    BY <1>4 DEF RecheckReceipt, Window
  <2>2. CASE Advance(p)
    BY <2>1, <2>2, ListsAdvanced
  <2>3. CASE Goto(p, "open") /\ UNCHANGED todo
    BY <2>1, <2>3, ListsKept DEF Goto, Window
  <2> QED BY <1>4, <2>2, <2>3 DEF RecheckReceipt
<1>5. CASE OpenTemp(p) \/ WriteTemp(p)
  <2>1. at[p] \in Window /\ plan' = plan /\ UNCHANGED todo /\ (Goto(p, "write") \/ Goto(p, "replace"))
    BY <1>5 DEF OpenTemp, WriteTemp, Window
  <2> QED BY <2>1, ListsKept DEF Goto, Window
<1>6. CASE ReplaceFile(p)
  <2>1. at[p] \in Window /\ plan' = plan
    BY <1>6 DEF ReplaceFile, Window
  <2>2. CASE Advance(p)
    BY <2>1, <2>2, ListsAdvanced
  <2>3. CASE Goto(p, "failed") /\ UNCHANGED todo
    BY <2>1, <2>3, ListsKept DEF Goto, Ended
  <2> QED BY <1>6, <2>2, <2>3 DEF ReplaceFile, Raise
<1> QED BY <1>1, <1>2, <1>3, <1>4, <1>5, <1>6 DEF FileStep

-----------------------------------------------------------------------------
(* What names stand for.                                                   *)

(* How the steps but Begin change where a process is and its list.          *)
Proceeds(p) ==
  \E a, t :
    /\ at' = [at EXCEPT ![p] = a] /\ todo' = [todo EXCEPT ![p] = t] /\ a # "idle"
    /\ at[p] \notin {"idle"} \cup Ended
    /\ Rest(t) \subseteq Rest(todo[p])
    /\ \/ t = todo[p]
       \/ Rest(t) = Rest(todo[p]) \ {Head(todo[p])}
    /\ \/ a \in Ended
       \/ t = todo[p] /\ (at[p] \in {"write", "replace"} => a \in {"write", "replace"})
       \/ Rest(t) = Rest(todo[p]) \ {Head(todo[p])}

LEMMA AllProceed ==
  ASSUME Types, Lists, NEW p \in Procs, FileStep(p) \/ OtherStep(p)
  PROVE  Proceeds(p)
<1>1. todo = [todo EXCEPT ![p] = todo[p]]
  BY DEF Types
<1>2. ASSUME at[p] \in {"check"} \cup Window, Advance(p)
      PROVE  Proceeds(p)
  <2>1. PICK a : AdvancesTo(p, a)
    BY <1>2, Advanced
  <2> DEFINE t == Tail(todo[p])
  <2>2. /\ at' = [at EXCEPT ![p] = a] /\ todo' = [todo EXCEPT ![p] = t] /\ a # "idle"
        /\ Rest(t) = Rest(todo[p]) \ {Head(todo[p])}
    BY <2>1 DEF AdvancesTo
  <2>3. at[p] \notin {"idle"} \cup Ended
    BY <1>2 DEF Window, Ended
  <2> HIDE DEF t
  <2> QED BY <2>2, <2>3 DEF Proceeds
<1>3. ASSUME NEW a \in Ended \cup Window, Goto(p, a), UNCHANGED todo, at[p] \in {"check"} \cup Window,
             at[p] \in {"write", "replace"} => a \in Ended \cup {"write", "replace"}
      PROVE  Proceeds(p)
  <2>1. at' = [at EXCEPT ![p] = a] /\ todo' = [todo EXCEPT ![p] = todo[p]]
    BY <1>1, <1>3 DEF Goto
  <2>2. a # "idle" /\ at[p] \notin {"idle"} \cup Ended
    BY <1>3 DEF Window, Ended
  <2> QED BY <1>3, <2>1, <2>2 DEF Proceeds
<1>4. CASE OtherStep(p)
  <2>1. PICK a : QuietMove(p, a)
    BY <1>4, OthersAreQuiet
  <2>2. at' = [at EXCEPT ![p] = a] /\ todo' = [todo EXCEPT ![p] = todo[p]]
    BY <1>1, <2>1 DEF QuietMove, fileVars
  <2>3. a # "idle" /\ at[p] \notin {"idle"} \cup Ended
    BY <2>1 DEF QuietMove, Ended
  <2>4. a \notin Ended => at[p] \notin {"write", "replace"}
    <3>1. CASE plan[p].kind = "export"
      BY <3>1, Kinds DEF Window
    <3>2. CASE plan[p].kind = "import"
      BY <3>2, Kinds DEF Window
    <3>3. CASE plan[p].kind \notin {"export", "import"}
      BY <2>1, <3>3 DEF QuietMove, Ended
    <3> QED BY <3>1, <3>2, <3>3
  <2> QED BY <2>2, <2>3, <2>4 DEF Proceeds
<1>5. CASE CheckFile(p)
  <2>1. at[p] = "check"
    BY <1>5 DEF CheckFile
  <2>2. \/ Advance(p)
        \/ UNCHANGED todo /\ \E a \in {"open", "failed", "recheck"} : Goto(p, a)
    BY <1>5 DEF CheckFile, Raise
  <2> QED BY <1>2, <1>3, <2>1, <2>2 DEF Window, Ended
<1>6. CASE RecheckReceipt(p)
  <2>1. at[p] = "recheck" /\ (Advance(p) \/ (UNCHANGED todo /\ Goto(p, "open")))
    BY <1>6 DEF RecheckReceipt
  <2> QED BY <1>2, <1>3, <2>1 DEF Window
<1>7. CASE OpenTemp(p) \/ WriteTemp(p)
  <2>1. at[p] \in {"open", "write"} /\ UNCHANGED todo /\ \E a \in {"write", "replace"} : Goto(p, a)
    BY <1>7 DEF OpenTemp, WriteTemp
  <2> QED BY <1>3, <2>1 DEF Window
<1>8. CASE ReplaceFile(p)
  <2>1. at[p] = "replace" /\ (Advance(p) \/ (UNCHANGED todo /\ Goto(p, "failed")))
    BY <1>8 DEF ReplaceFile, Raise
  <2> QED BY <1>2, <1>3, <2>1 DEF Window, Ended
<1> QED BY <1>4, <1>5, <1>6, <1>7, <1>8 DEF FileStep

LEMMA OpenedStays ==
  ASSUME Types, Lists, NEW p \in Procs, Begin(p) \/ Proceeds(p),
         NEW q \in Procs, NEW f, Opened(q, f)
  PROVE  Opened(q, f)'
<1>1. CASE q # p
  <2>1. at'[q] = at[q] /\ todo'[q] = todo[q]
    BY <1>1 DEF Begin, Goto, Proceeds, Types
  <2>2. /\ at[q] \in Ended => at'[q] \in Ended
        /\ at[q] # "idle" /\ f \notin Rest(todo[q]) => at'[q] # "idle" /\ f \notin Rest(todo'[q])
        /\ at[q] \in {"write", "replace"} /\ f = Head(todo[q]) =>
             at'[q] \in {"write", "replace"} /\ f = Head(todo'[q])
    BY <2>1
  <2> QED BY <2>2 DEF Opened
<1>2. CASE q = p
  <2>1. at[p] # "idle"
    BY <1>2 DEF Opened, Ended
  <2>2. Proceeds(p)
    BY <2>1 DEF Begin
  <2>3. PICK a, t :
          /\ at' = [at EXCEPT ![p] = a] /\ todo' = [todo EXCEPT ![p] = t] /\ a # "idle"
          /\ at[p] \notin {"idle"} \cup Ended
          /\ Rest(t) \subseteq Rest(todo[p])
          /\ \/ t = todo[p]
             \/ Rest(t) = Rest(todo[p]) \ {Head(todo[p])}
          /\ \/ a \in Ended
             \/ t = todo[p] /\ (at[p] \in {"write", "replace"} => a \in {"write", "replace"})
             \/ Rest(t) = Rest(todo[p]) \ {Head(todo[p])}
    BY <2>2 DEF Proceeds
  <2>4. at'[p] = a /\ todo'[p] = t
    BY <2>3 DEF Types
  <2>5. \/ f \notin Rest(todo[p])
        \/ at[p] \in {"write", "replace"} /\ f = Head(todo[p])
    BY <1>2, <2>3 DEF Opened
  <2>6. \/ a \in Ended
        \/ f \notin Rest(t)
        \/ a \in {"write", "replace"} /\ f = Head(t)
    BY <2>3, <2>5
  <2> QED BY <1>2, <2>3, <2>4, <2>6 DEF Opened
<1> QED BY <1>1, <1>2

LEMMA NamesKept ==
  ASSUME Types, Lists, Names, NEW p \in Procs, Begin(p) \/ Proceeds(p),
         UNCHANGED <<plan, handle, path, temp>>,
         at'[p] \in {"write", "replace"} => at[p] = "write" /\ todo'[p] = todo[p]
  PROVE  Names'
<1>1. Procs' = Procs
  BY DEF Procs
<1>2. ASSUME NEW q \in Procs, at'[q] \in {"write", "replace"}
      PROVE  handle'[q] # None /\ handle'[q][2] = Head(todo'[q])
  <2>1. q # p => at'[q] = at[q] /\ todo'[q] = todo[q]
    BY DEF Begin, Goto, Proceeds, Types
  <2>2. at[q] \in {"write", "replace"} /\ todo'[q] = todo[q]
    BY <1>2, <2>1
  <2> QED BY <2>2 DEF Names
<1>3. ASSUME NEW q \in Procs, NEW f \in Files,
             path[f] = <<q, f>> \/ temp[f] = <<q, f>> \/ \E r \in Procs : handle[r] = <<q, f>>
      PROVE  Opened(q, f)'
  <2>1. Opened(q, f)
    BY <1>3 DEF Names
  <2> QED BY <2>1, OpenedStays
<1>4. \A f \in Files : /\ path[f] # None => path[f][2] = f /\ path[f] # temp[f]
                       /\ temp[f] # None => temp[f][2] = f
  BY DEF Names
<1> QED BY <1>1, <1>2, <1>3, <1>4 DEF Names

LEMMA NamesOpen ==
  ASSUME Types, Lists, Names, NEW p \in Procs, OpenTemp(p)
  PROVE  Names'
<1> DEFINE f == Head(todo[p])
           inode == IF temp[f] = None THEN <<p, f>> ELSE temp[f]
<1>1. /\ at[p] = "open" /\ UNCHANGED <<plan, todo, path>>
      /\ handle' = [handle EXCEPT ![p] = inode] /\ temp' = [temp EXCEPT ![f] = inode]
      /\ at' = [at EXCEPT ![p] = "write"]
  BY DEF OpenTemp, Goto
<1>2. f \in Files /\ f \in Rest(todo[p])
  BY <1>1, AtFile DEF Window
<1>3. ~Opened(p, f)
  BY <1>1, <1>2 DEF Opened, Ended
<1>4. /\ temp[f] = None => inode = <<p, f>>
      /\ temp[f] # None => inode = temp[f]
      /\ inode \in Inodes /\ inode[2] = f /\ inode # None
  <2>1. <<p, f>> \in Inodes
    BY <1>2 DEF Inodes, Procs
  <2>2. None \notin Inodes
    BY NoneAssumption DEF Types, Inodes
  <2>3. temp[f] # None => temp[f][2] = f /\ temp[f] \in Inodes
    BY <1>2 DEF Names, Types
  <2> QED BY <2>1, <2>2, <2>3
<1>5. path[f] # inode
  <2>1. path[f] # <<p, f>>
    BY <1>2, <1>3 DEF Names
  <2>2. path[f] # None => path[f] # temp[f]
    BY <1>2 DEF Names
  <2> QED BY <1>4, <2>1, <2>2
<1>6. Procs' = Procs
  BY <1>1 DEF Procs
<1>7. /\ \A q \in Procs : q # p => handle'[q] = handle[q] /\ at'[q] = at[q]
      /\ handle'[p] = inode /\ at'[p] = "write"
      /\ \A g \in Files : g # f => temp'[g] = temp[g]
      /\ temp'[f] = inode
  <2> HIDE DEF inode, f
  <2> QED BY <1>1, <1>2 DEF Types
<1>8. Proceeds(p)
  BY AllProceed DEF FileStep
<1> HIDE DEF inode, f
<1>9. ASSUME NEW q \in Procs, NEW g \in Files,
              path'[g] = <<q, g>> \/ temp'[g] = <<q, g>> \/ \E r \in Procs : handle'[r] = <<q, g>>
       PROVE  Opened(q, g)'
  <2>1. CASE path[g] = <<q, g>> \/ temp[g] = <<q, g>> \/ \E r \in Procs : handle[r] = <<q, g>>
    <3>1. Opened(q, g)
      BY <2>1 DEF Names
    <3> QED BY <1>8, <3>1, OpenedStays
  <2>2. CASE ~(path[g] = <<q, g>> \/ temp[g] = <<q, g>> \/ \E r \in Procs : handle[r] = <<q, g>>)
    <3>1. inode = <<q, g>>
      BY <1>1, <1>7, <1>9, <2>2
    <3>2. g = f
      BY <1>4, <3>1
    <3>3. temp[f] = None
      BY <1>2, <1>4, <2>2, <3>1, <3>2
    <3>4. q = p
      BY <1>4, <3>1, <3>3
    <3>5. at'[q] = "write" /\ g = Head(todo'[q])
      BY <1>1, <1>7, <3>2, <3>4 DEF f
    <3> QED BY <3>5 DEF Opened
  <2> QED BY <2>1, <2>2
<1>10. ASSUME NEW g \in Files
       PROVE  /\ path'[g] # None => path'[g][2] = g /\ path'[g] # temp'[g]
              /\ temp'[g] # None => temp'[g][2] = g
  <2>1. /\ path[g] # None => path[g][2] = g /\ path[g] # temp[g]
        /\ temp[g] # None => temp[g][2] = g
    BY DEF Names
  <2> QED BY <1>1, <1>4, <1>5, <1>7, <2>1
<1>11. ASSUME NEW q \in Procs, at'[q] \in {"write", "replace"}
       PROVE  handle'[q] # None /\ handle'[q][2] = Head(todo'[q])
  <2>1. CASE q = p
    BY <1>1, <1>4, <1>7, <2>1 DEF f
  <2>2. CASE q # p
    BY <1>1, <1>7, <1>11, <2>2 DEF Names
  <2> QED BY <2>1, <2>2
<1> QED BY <1>6, <1>9, <1>10, <1>11 DEF Names

LEMMA NamesReplace ==
  ASSUME Types, Lists, Names, NEW p \in Procs, ReplaceFile(p)
  PROVE  Names'
<1> DEFINE f == Head(todo[p])
<1>1. at[p] = "replace" /\ UNCHANGED <<plan, handle>> /\ Proceeds(p)
  BY AllProceed DEF ReplaceFile, FileStep
<1>2. f \in Files
  BY <1>1, AtFile DEF Window
<1>3. CASE Goto(p, "failed") /\ UNCHANGED <<path, temp>>
  <2>1. at'[p] = "failed"
    BY <1>3 DEF Goto, Types
  <2> QED BY <1>1, <1>3, <2>1, NamesKept
<1>4. CASE /\ path' = [path EXCEPT ![f] = temp[f]] /\ temp' = [temp EXCEPT ![f] = None]
           /\ temp[f] # None /\ Advance(p)
  <2>1. PICK a : AdvancesTo(p, a)
    BY <1>1, <1>4, Advanced DEF Window
  <2>2. at'[p] \notin {"write", "replace"} /\ \A q \in Procs : q # p => at'[q] = at[q] /\ todo'[q] = todo[q]
    BY <2>1 DEF AdvancesTo, Types
  <2> HIDE DEF f
  <2>3. /\ path'[f] = temp[f] /\ temp'[f] = None
        /\ \A g \in Files : g # f => path'[g] = path[g] /\ temp'[g] = temp[g]
    BY <1>2, <1>4 DEF Types
  <2>4. ASSUME NEW g \in Files
        PROVE  /\ path'[g] # None => path'[g][2] = g /\ path'[g] # temp'[g]
               /\ temp'[g] # None => temp'[g][2] = g
    <3>1. /\ path[g] # None => path[g][2] = g /\ path[g] # temp[g]
          /\ temp[g] # None => temp[g][2] = g
      BY DEF Names
    <3> QED BY <1>4, <2>3, <3>1
  <2>5. ASSUME NEW q \in Procs, at'[q] \in {"write", "replace"}
        PROVE  handle'[q] # None /\ handle'[q][2] = Head(todo'[q])
    BY <1>1, <2>2, <2>5 DEF Names
  <2>6. ASSUME NEW q \in Procs, NEW g \in Files,
               path'[g] = <<q, g>> \/ temp'[g] = <<q, g>> \/ \E r \in Procs : handle'[r] = <<q, g>>
        PROVE  Opened(q, g)'
    <3>1. None \notin Inodes /\ <<q, g>> \in Inodes
      BY NoneAssumption DEF Types, Inodes, Procs
    <3>2. path[g] = <<q, g>> \/ temp[g] = <<q, g>> \/ \E r \in Procs : handle[r] = <<q, g>>
      BY <1>1, <2>3, <2>6, <3>1
    <3>3. Opened(q, g)
      BY <3>2 DEF Names
    <3> QED BY <1>1, <3>3, OpenedStays
  <2>7. Procs' = Procs
    BY <1>1 DEF Procs
  <2> QED BY <2>4, <2>5, <2>6, <2>7 DEF Names
<1> QED BY <1>3, <1>4 DEF ReplaceFile, Raise

LEMMA NamesStep ==
  ASSUME Types, Lists, Names, NEW p \in Procs, Begin(p) \/ FileStep(p) \/ OtherStep(p)
  PROVE  Names'
<1>1. CASE Begin(p)
  <2>1. at'[p] \in {"check", "import", "load"} /\ UNCHANGED <<plan, handle, path, temp>>
    BY <1>1 DEF Begin, Goto, Types
  <2> QED BY <1>1, <2>1, NamesKept
<1>2. CASE OtherStep(p)
  <2>1. PICK a : QuietMove(p, a)
    BY <1>2, OthersAreQuiet
  <2>2. at'[p] \notin {"write", "replace"} /\ UNCHANGED <<plan, handle, path, temp>>
    BY <2>1 DEF QuietMove, fileVars, Types
  <2> QED BY <1>2, <2>2, NamesKept, AllProceed
<1>3. CASE CheckFile(p)
  <2>1. at[p] = "check" /\ UNCHANGED <<plan, handle, path, temp>>
    BY <1>3 DEF CheckFile
  <2>2. Advance(p) \/ Goto(p, "open") \/ Goto(p, "recheck") \/ Goto(p, "failed")
    BY <1>3 DEF CheckFile, Raise
  <2>3. Advance(p) => \E a : AdvancesTo(p, a)
    BY <2>1, Advanced
  <2>4. at'[p] \notin {"write", "replace"}
    BY <2>2, <2>3 DEF AdvancesTo, Goto, Types
  <2> QED BY <1>3, <2>1, <2>4, NamesKept, AllProceed DEF FileStep
<1>4. CASE RecheckReceipt(p)
  <2>1. at[p] = "recheck" /\ UNCHANGED <<plan, handle, path, temp>> /\ (Advance(p) \/ Goto(p, "open"))
    BY <1>4 DEF RecheckReceipt
  <2>2. Advance(p) => \E a : AdvancesTo(p, a)
    BY <2>1, Advanced DEF Window
  <2>3. at'[p] \notin {"write", "replace"}
    BY <2>1, <2>2 DEF AdvancesTo, Goto, Types
  <2> QED BY <1>4, <2>1, <2>3, NamesKept, AllProceed DEF FileStep
<1>5. CASE WriteTemp(p)
  <2>1. at[p] = "write" /\ UNCHANGED <<plan, handle, path, temp, todo>>
    BY <1>5 DEF WriteTemp
  <2> QED BY <1>5, <2>1, NamesKept, AllProceed DEF FileStep
<1> QED BY <1>1, <1>2, <1>3, <1>4, <1>5, NamesOpen, NamesReplace DEF FileStep

-----------------------------------------------------------------------------
(* Writers that are alone.                                                 *)

(* What a step of p leaves of another process.                             *)
LEMMA OthersKept ==
  ASSUME Types, Lists, NEW p \in Procs, Begin(p) \/ FileStep(p) \/ OtherStep(p),
         NEW q \in Procs, q # p
  PROVE  /\ at'[q] = at[q] /\ todo'[q] = todo[q] /\ handle'[q] = handle[q]
         /\ totals'[q] = totals[q] /\ plan' = plan
         /\ \A f : Wanted(q, f)' = Wanted(q, f)
<1>1. at'[q] = at[q] /\ todo'[q] = todo[q]
  <2>1. Begin(p) \/ Proceeds(p)
    BY AllProceed
  <2> QED BY <2>1 DEF Begin, Goto, Proceeds, Types
<1>2. plan' = plan /\ handle'[q] = handle[q]
  <2>1. OtherStep(p) => plan' = plan /\ handle' = handle
    BY OthersAreQuiet DEF QuietMove, fileVars
  <2>2. FileStep(p) => plan' = plan /\ handle'[q] = handle[q]
    BY DEF FileStep, CheckFile, RecheckReceipt, OpenTemp, WriteTemp, ReplaceFile, Types
  <2> QED BY <2>1, <2>2 DEF Begin
<1>3. totals'[q] = totals[q]
  <2>1. OtherStep(p) => totals' = totals \/ \E t : totals' = [totals EXCEPT ![p] = t]
    BY DEF OtherStep, StartTraining, SaveCheckpoint, LoadModel, EvaluateBatch, ComputeMetrics,
           CheckTarget, WritePayload, WriteExportManifest, PublishExport, ImportArtifact, Kill,
           OperationRaises
  <2>2. FileStep(p) \/ Begin(p) => totals' = totals
    BY DEF Begin, FileStep, CheckFile, RecheckReceipt, OpenTemp, WriteTemp, ReplaceFile
  <2> QED BY <2>1, <2>2 DEF Types
<1> QED BY <1>1, <1>2, <1>3 DEF Wanted, Config

LEMMA AloneKept ==
  ASSUME NEW f, NEW q, Alone(f, q), path'[f] = path[f], temp'[f] = temp[f],
         handle'[q] = handle[q], at'[q] = at[q], Wanted(q, f)' = Wanted(q, f),
         at[q] \in {"write", "replace"} => text'[handle[q]] = text[handle[q]],
         Writing(f)' \subseteq Writing(f)
  PROVE  Alone(f, q)'
BY DEF Alone

(* Only the file a process is at changes.                                  *)
LEMMA OtherFiles ==
  ASSUME Types, Lists, Names, NEW p \in Procs, Begin(p) \/ FileStep(p) \/ OtherStep(p)
  PROVE  /\ text' # text => at[p] \in {"open", "write"}
         /\ path' # path \/ temp' # temp => at[p] \in {"open", "replace"}
         /\ \A i \in Inodes : i[2] # Head(todo[p]) => text'[i] = text[i]
         /\ \A f \in Files : f # Head(todo[p]) => /\ path'[f] = path[f] /\ temp'[f] = temp[f]
                                                  /\ f \in contended' <=> f \in contended
         /\ contended \subseteq contended'
<1>1. CASE Begin(p)
  BY <1>1 DEF Begin
<1>2. CASE OtherStep(p)
  BY <1>2, OthersAreQuiet DEF QuietMove, fileVars
<1>3. CASE CheckFile(p)
  BY <1>3 DEF CheckFile, Enter
<1>4. CASE RecheckReceipt(p)
  BY <1>4 DEF RecheckReceipt
<1>5. CASE OpenTemp(p)
  <2> DEFINE f == Head(todo[p])
             inode == IF temp[f] = None THEN <<p, f>> ELSE temp[f]
  <2>1. /\ at[p] = "open" /\ UNCHANGED <<path, contended>>
        /\ temp' = [temp EXCEPT ![f] = inode] /\ text' = [text EXCEPT ![inode] = Partial]
    BY <1>5 DEF OpenTemp
  <2>2. f \in Files
    BY <2>1, AtFile DEF Window
  <2>3. inode[2] = f
    BY <2>2 DEF Names
  <2> HIDE DEF inode
  <2> QED BY <2>1, <2>2, <2>3 DEF Types
<1>6. CASE WriteTemp(p)
  <2>1. /\ at[p] = "write" /\ UNCHANGED <<path, temp, contended>>
        /\ \E x : text' = [text EXCEPT ![handle[p]] = x]
    BY <1>6 DEF WriteTemp
  <2>2. handle[p][2] = Head(todo[p])
    BY <2>1 DEF Names
  <2> QED BY <2>1, <2>2 DEF Types
<1>7. CASE ReplaceFile(p)
  <2>1. /\ at[p] = "replace" /\ UNCHANGED <<text, contended>>
        /\ \/ UNCHANGED <<path, temp>>
           \/ /\ path' = [path EXCEPT ![Head(todo[p])] = temp[Head(todo[p])]]
              /\ temp' = [temp EXCEPT ![Head(todo[p])] = None]
    BY <1>7 DEF ReplaceFile
  <2> QED BY <2>1 DEF Types
<1> QED BY <1>1, <1>2, <1>3, <1>4, <1>5, <1>6, <1>7 DEF FileStep

(* The writers after a step that leaves a process where it writes the same  *)
(* file, or lets it leave.                                                 *)
LEMMA WritersKept ==
  ASSUME Types, Lists, NEW p \in Procs, Begin(p) \/ FileStep(p) \/ OtherStep(p),
         at'[p] \in Window => at[p] \in Window /\ todo'[p] = todo[p]
  PROVE  \A f : Writing(f)' \subseteq Writing(f)
<1>1. Procs' = Procs
  <2>1. plan' = plan
    BY OthersAreQuiet
       DEF QuietMove, Begin, FileStep, CheckFile, RecheckReceipt, OpenTemp, WriteTemp, ReplaceFile
  <2> QED BY <2>1 DEF Procs
<1>2. ASSUME NEW f, NEW q \in Procs, at'[q] \in Window, Head(todo'[q]) = f
      PROVE  at[q] \in Window /\ Head(todo[q]) = f
  <2>1. q # p => at'[q] = at[q] /\ todo'[q] = todo[q]
    BY OthersKept
  <2> QED BY <1>2, <2>1
<1> QED BY <1>1, <1>2 DEF Writing

LEMMA UncontendedRest ==
  ASSUME Types, Lists, Names, Uncontended, NEW p \in Procs,
         Begin(p) \/ FileStep(p) \/ OtherStep(p),
         NEW f \in Files, f \notin contended', NEW q \in Writing(f), q # p,
         at[p] \in {"check"} \cup Window => Head(todo[p]) # f \/ at[p] = "check",
         Writing(f)' \subseteq Writing(f)
  PROVE  Alone(f, q)'
<1>1. q \in Procs /\ at[q] \in Window /\ Head(todo[q]) = f
  BY DEF Writing
<1>2. f \notin contended
  BY OtherFiles
<1>3. Alone(f, q)
  BY <1>2 DEF Uncontended
<1>4. path'[f] = path[f] /\ temp'[f] = temp[f]
  BY OtherFiles DEF Window
<1>5. ASSUME at[q] \in {"write", "replace"}
      PROVE  text'[handle[q]] = text[handle[q]]
  <2>1. handle[q] \in Inodes /\ handle[q][2] = f
    BY <1>1, <1>5 DEF Names, Types
  <2> QED BY <2>1, OtherFiles DEF Window
<1>6. at'[q] = at[q] /\ handle'[q] = handle[q] /\ Wanted(q, f)' = Wanted(q, f)
  BY <1>1, OthersKept
<1> QED BY <1>3, <1>4, <1>5, <1>6, AloneKept

LEMMA UncontendedStep ==
  ASSUME Types, Lists, Names, Uncontended, NEW p \in Procs,
         Begin(p) \/ FileStep(p) \/ OtherStep(p)
  PROVE  Uncontended'
<1>0. plan' = plan /\ Procs' = Procs
  <2>1. plan' = plan
    BY OthersAreQuiet
       DEF QuietMove, Begin, FileStep, CheckFile, RecheckReceipt, OpenTemp, WriteTemp, ReplaceFile
  <2> QED BY <2>1 DEF Procs
<1> SUFFICES ASSUME NEW f \in Files, f \notin contended', NEW q \in Writing(f)'
             PROVE  Alone(f, q)'
  BY DEF Uncontended
<1>1. q \in Procs /\ at'[q] \in Window /\ Head(todo'[q]) = f
  BY <1>0 DEF Writing
<1>2. f \notin contended
  BY OtherFiles
<1>3. ASSUME q # p
      PROVE  q \in Writing(f) /\ Alone(f, q)
  <2>1. at[q] \in Window /\ Head(todo[q]) = f
    BY <1>1, <1>3, OthersKept
  <2>2. q \in Writing(f)
    BY <1>1, <2>1 DEF Writing
  <2> QED BY <1>2, <2>2 DEF Uncontended
<1>4. ASSUME at'[p] \notin Window
      PROVE  Alone(f, q)'
  <2>1. q # p
    BY <1>1, <1>4
  <2>2. Writing(f)' \subseteq Writing(f)
    BY <1>4, WritersKept
  <2>3. p \notin Writing(f)
    <3>1. \A r \in Writing(f) : r = q
      BY <1>3, <2>1 DEF Alone
    <3> QED BY <2>1, <3>1
  <2>4. at[p] \in Window => Head(todo[p]) # f
    BY <2>3 DEF Writing
  <2>5. at[p] \in {"check"} \cup Window => Head(todo[p]) # f \/ at[p] = "check"
    BY <2>4
  <2> QED BY <1>3, <2>1, <2>2, <2>5, UncontendedRest
<1>5. CASE Begin(p)
  <2>1. at'[p] \notin Window
    BY <1>5 DEF Begin, Goto, Types, Window
  <2> QED BY <1>4, <2>1
<1>6. CASE OtherStep(p)
  <2>1. PICK a : QuietMove(p, a)
    BY <1>6, OthersAreQuiet
  <2>2. at'[p] \notin Window
    BY <2>1 DEF QuietMove, Types, Window
  <2> QED BY <1>4, <2>2
<1>7. ASSUME at[p] \in {"check"} \cup Window, Advance(p)
      PROVE  Alone(f, q)'
  <2>1. \E a : AdvancesTo(p, a)
    BY <1>7, Advanced
  <2>2. at'[p] \notin Window
    BY <2>1 DEF AdvancesTo, Types, Window
  <2> QED BY <1>4, <2>2
<1>8. CASE CheckFile(p)
  <2> DEFINE g == Head(todo[p])
  <2>1. at[p] = "check" /\ g \in Files
    BY <1>8, AtFile DEF CheckFile
  <2>2. CASE Advance(p)
    BY <1>7, <2>1, <2>2
  <2>3. CASE Raise(p)
    <3>1. at'[p] \notin Window
      BY <2>3 DEF Raise, Goto, Types, Window
    <3> QED BY <1>4, <3>1
  <2>4. CASE /\ path[g] = None \/ g = "location"
             /\ Goto(p, IF g \in Receipts THEN "recheck" ELSE "open")
             /\ Enter(p, g) /\ UNCHANGED <<todo, path>>
    <3>1. at'[p] \in {"recheck", "open"} /\ Head(todo'[p]) = g /\ at'[p] \in Window
      BY <2>4 DEF Goto, Types, Window
    <3>2. \A r \in Procs : r # p => at'[r] = at[r] /\ todo'[r] = todo[r]
      BY <1>8, OthersKept DEF FileStep
    <3>3. CASE f = g
      <4>1. Writing(f) \ {p} = {}
        BY <1>2, <2>4, <3>3 DEF Enter
      <4>2. ASSUME NEW r \in Writing(f)', r # p
            PROVE  FALSE
        <5>1. r \in Procs /\ at'[r] \in Window /\ Head(todo'[r]) = f
          BY <1>0, <4>2 DEF Writing
        <5>2. r \in Writing(f)
          BY <3>2, <4>2, <5>1 DEF Writing
        <5> QED BY <4>1, <4>2, <5>2
      <4>3. q = p
        BY <4>2
      <4>4. f \in WriteOnce => path'[f] = None
        BY <2>4, <3>3, FileSets
      <4>5. \A r \in Writing(f)' : r = q
        BY <4>2, <4>3
      <4> QED BY <3>1, <4>3, <4>4, <4>5 DEF Alone
    <3>4. CASE f # g
      <4>1. q # p
        BY <1>1, <3>1, <3>4
      <4>2. Writing(f)' \subseteq Writing(f)
        <5>1. ASSUME NEW r \in Writing(f)'
              PROVE  r \in Writing(f)
          <6>1. r \in Procs /\ at'[r] \in Window /\ Head(todo'[r]) = f
            BY <1>0, <5>1 DEF Writing
          <6>2. r # p
            BY <3>1, <3>4, <6>1
          <6> QED BY <3>2, <6>1, <6>2 DEF Writing
        <5> QED BY <5>1
      <4> QED BY <1>3, <2>1, <4>1, <4>2, UncontendedRest
    <3> QED BY <3>3, <3>4
  <2> QED BY <1>8, <2>2, <2>3, <2>4 DEF CheckFile
<1>9. ASSUME at[p] \in Window, at'[p] \in Window, UNCHANGED todo, FileStep(p),
             Head(todo[p]) = f => Alone(f, p)'
      PROVE  Alone(f, q)'
  <2>1. CASE Head(todo[p]) = f
    <3>1. p \in Writing(f) /\ Writing(f)' \subseteq Writing(f)
      BY <1>9, <2>1, WritersKept DEF Writing
    <3>2. \A r \in Writing(f) : r = p
      BY <1>2, <3>1 DEF Uncontended, Alone
    <3>3. q = p
      BY <3>1, <3>2
    <3> QED BY <1>9, <2>1, <3>3
  <2>2. CASE Head(todo[p]) # f
    <3>1. q # p
      BY <1>1, <1>9, <2>2
    <3>2. Writing(f)' \subseteq Writing(f)
      BY <1>9, WritersKept
    <3> QED BY <1>3, <2>2, <3>1, <3>2, UncontendedRest
  <2> QED BY <2>1, <2>2
<1>10. ASSUME at[p] \in Window, Head(todo[p]) = f
       PROVE  Alone(f, p)
  BY <1>2, <1>10 DEF Uncontended, Writing
<1>11. CASE RecheckReceipt(p)
  <2>1. at[p] = "recheck" /\ UNCHANGED <<path, temp, handle, text, plan, totals>>
    BY <1>11 DEF RecheckReceipt
  <2>2. CASE Advance(p)
    BY <1>7, <2>1, <2>2 DEF Window
  <2>3. CASE Goto(p, "open") /\ UNCHANGED todo
    <3>1. at'[p] = "open" /\ at[p] \in Window /\ at'[p] \in Window
      BY <2>1, <2>3 DEF Goto, Types, Window
    <3>2. Writing(f)' \subseteq Writing(f)
      BY <2>3, <3>1, WritersKept
    <3>3. ASSUME Head(todo[p]) = f
          PROVE  Alone(f, p)'
      <4>1. Alone(f, p)
        BY <1>10, <3>1, <3>3
      <4> QED BY <2>1, <3>1, <3>2, <4>1 DEF Alone
    <3> QED BY <1>9, <1>11, <2>3, <3>1, <3>3 DEF FileStep
  <2> QED BY <1>11, <2>2, <2>3 DEF RecheckReceipt
<1>12. CASE OpenTemp(p)
  <2> DEFINE g == Head(todo[p])
             inode == IF temp[g] = None THEN <<p, g>> ELSE temp[g]
  <2>1. /\ at[p] = "open" /\ UNCHANGED <<todo, path>>
        /\ handle' = [handle EXCEPT ![p] = inode] /\ temp' = [temp EXCEPT ![g] = inode]
        /\ text' = [text EXCEPT ![inode] = Partial] /\ at' = [at EXCEPT ![p] = "write"]
    BY <1>12 DEF OpenTemp, Goto
  <2>2. g \in Files
    BY <2>1, AtFile DEF Window
  <2>3. inode \in Inodes
    BY <2>2 DEF Inodes, Procs, Types
  <2> HIDE DEF inode
  <2>4. at'[p] = "write" /\ handle'[p] = inode /\ temp'[g] = inode /\ text'[inode] = Partial
    BY <2>1, <2>2, <2>3 DEF Types
  <2>5. at[p] \in Window /\ at'[p] \in Window
    BY <2>1, <2>4 DEF Window
  <2>6. Writing(f)' \subseteq Writing(f)
    BY <2>1, <2>5, WritersKept
  <2>7. ASSUME g = f
        PROVE  Alone(f, p)'
    <3>1. Alone(f, p)
      BY <1>10, <2>5, <2>7
    <3>2. \A r \in Writing(f)' : r = p
      BY <2>6, <3>1 DEF Alone
    <3>3. f \in WriteOnce => path'[f] = None
      BY <2>1, <3>1 DEF Alone
    <3> QED BY <2>4, <2>7, <3>2, <3>3 DEF Alone
  <2> QED BY <1>9, <1>12, <2>1, <2>5, <2>7 DEF FileStep
<1>13. CASE WriteTemp(p)
  <2>1. at[p] = "write" /\ UNCHANGED <<todo, path, temp, handle, plan, totals>>
        /\ at' = [at EXCEPT ![p] = "replace"]
    BY <1>13 DEF WriteTemp, Goto
  <2>2. at'[p] = "replace" /\ at[p] \in Window /\ at'[p] \in Window
    BY <2>1 DEF Types, Window
  <2>3. Writing(f)' \subseteq Writing(f)
    BY <2>1, <2>2, WritersKept
  <2>4. ASSUME Head(todo[p]) = f
        PROVE  Alone(f, p)'
    <3>1. Alone(f, p)
      BY <1>10, <2>2, <2>4
    <3>2. text[handle[p]] = Partial
      BY <2>1, <3>1 DEF Alone
    <3>3. text' = [text EXCEPT ![handle[p]] = Wanted(p, f)]
      BY <1>13, <2>4, <3>2 DEF WriteTemp
    <3>4. handle[p] \in Inodes
      BY <2>1 DEF Names, Types
    <3>5. text'[handle[p]] = Wanted(p, f) /\ Wanted(p, f)' = Wanted(p, f)
      BY <2>1, <3>3, <3>4 DEF Types, Wanted, Config
    <3> QED BY <2>1, <2>2, <2>3, <3>1, <3>5 DEF Alone
  <2> QED BY <1>9, <1>13, <2>1, <2>2, <2>4 DEF FileStep
<1>14. CASE ReplaceFile(p)
  <2>1. at[p] = "replace"
    BY <1>14 DEF ReplaceFile
  <2>2. CASE Raise(p)
    <3>1. at'[p] \notin Window
      BY <2>2 DEF Raise, Goto, Types, Window
    <3> QED BY <1>4, <3>1
  <2>3. CASE Advance(p)
    BY <1>7, <2>1, <2>3 DEF Window
  <2> QED BY <1>14, <2>2, <2>3 DEF ReplaceFile
<1> QED BY <1>5, <1>6, <1>8, <1>11, <1>12, <1>13, <1>14 DEF FileStep

(* What is written once does not change without contention.                *)
LEMMA PublishedStays ==
  ASSUME Types, Lists, Names, Uncontended, NEW p \in Procs,
         Begin(p) \/ FileStep(p) \/ OtherStep(p),
         NEW f \in WriteOnce, f \notin contended', path[f] # None
  PROVE  path'[f] = path[f] /\ text'[path[f]] = text[path[f]]
<1>1. f \in Files /\ f \notin contended /\ path[f] \in Inodes /\ path[f][2] = f
  BY OtherFiles, FileSets DEF Types, Names
<1>2. at[p] \in Window => Head(todo[p]) # f
  <2>1. p \notin Writing(f)
    BY <1>1 DEF Uncontended, Alone
  <2> QED BY <2>1 DEF Writing
<1>3. CASE at[p] \in Window
  BY <1>1, <1>2, <1>3, OtherFiles
<1>4. CASE at[p] \notin Window
  BY <1>4, OtherFiles DEF Window
<1> QED BY <1>3, <1>4

-----------------------------------------------------------------------------
(* Fragments.                                                              *)

LEMMA WantedIsWhole ==
  ASSUME NEW p, NEW f
  PROVE  Wanted(p, f) # Partial
<1>1. \A x : <<x>> # <<>>
  OBVIOUS
<1>2. \A x, y, z : <<x, y, z>> # <<>>
  OBVIOUS
<1>3. Metrics(totals[p]) # Partial
  BY <1>2 DEF Metrics, Partial
<1>4. Content(f, Config(p)) # Partial
  BY <1>1 DEF Content, Partial
<1> QED BY <1>3, <1>4 DEF Wanted

(* Who holds an inode stays, but for a process that goes on after replacing *)
(* the file.                                                               *)
LEMMA HoldersStay ==
  ASSUME Types, Lists, NEW p \in Procs, Begin(p) \/ FileStep(p) \/ OtherStep(p),
         NEW q \in Procs, at[q] \in {"write"} \cup Stopped,
         q # p \/ ~(ReplaceFile(p) /\ Advance(p))
  PROVE  /\ handle'[q] = handle[q] /\ at'[q] \in {"write"} \cup Stopped
         /\ at[q] \in Stopped => at'[q] \in Stopped
<1>1. CASE q # p
  <2>1. at'[q] = at[q] /\ handle'[q] = handle[q]
    BY <1>1, OthersKept
  <2> QED BY <2>1
<1>2. CASE q = p
  <2>1. ~Begin(p)
    BY <1>2 DEF Begin, Stopped
  <2>2. CASE OtherStep(p)
    <3>1. PICK a : QuietMove(p, a)
      BY <2>2, OthersAreQuiet
    <3>2. at'[p] = a /\ handle' = handle /\ at[p] \notin Ended
      BY <3>1 DEF QuietMove, fileVars, Types
    <3>3. plan[p].kind \in {"train", "evaluate"}
      BY <1>2, <3>2, Kinds DEF Stopped, Window, Ended
    <3>4. a \in {"failed", "killed"}
      BY <1>2, <3>1, <3>2, <3>3 DEF QuietMove, Stopped, Ended
    <3> QED BY <1>2, <3>2, <3>4 DEF Stopped
  <2>3. CASE FileStep(p)
    <3>1. at[p] \in {"write", "replace"}
      BY <1>2, <2>3
         DEF FileStep, CheckFile, RecheckReceipt, OpenTemp, WriteTemp, ReplaceFile, Stopped
    <3>2. WriteTemp(p) \/ (ReplaceFile(p) /\ Raise(p))
      BY <1>2, <2>3, <3>1
         DEF FileStep, CheckFile, RecheckReceipt, OpenTemp, ReplaceFile
    <3>3. handle' = handle /\ at'[p] \in {"replace", "failed"}
      BY <3>2 DEF WriteTemp, ReplaceFile, Raise, Goto, Types
    <3> QED BY <1>2, <3>3 DEF Stopped
  <2> QED BY <2>1, <2>2, <2>3
<1> QED BY <1>1, <1>2

(* The parts of Fragments, for one file.                                    *)
WholeFile(f) ==
  path[f] # None /\ text[path[f]] = Partial => f \in contended /\ Holders(path[f]) # {}
WholeTemp(f) ==
  /\ temp[f] # None => Holders(temp[f]) # {}
  /\ temp[f] # None /\ text[temp[f]] = Partial =>
       \A p \in Procs : at[p] = "replace" /\ handle[p] = temp[f] => Holders(temp[f]) \ {p} # {}
  /\ temp[f] # None /\ text[temp[f]] # Partial =>
       \E p \in Procs : handle[p] = temp[f] /\ at[p] \in Stopped

LEMMA FragmentsParts == Fragments <=> \A f \in Files : WholeFile(f) /\ WholeTemp(f)
BY DEF Fragments, WholeFile, WholeTemp

LEMMA PlanKept ==
  ASSUME Types, NEW p \in Procs, Begin(p) \/ FileStep(p) \/ OtherStep(p)
  PROVE  plan' = plan /\ Procs' = Procs /\ Inodes' = Inodes
<1>1. plan' = plan
  BY OthersAreQuiet
     DEF QuietMove, Begin, FileStep, CheckFile, RecheckReceipt, OpenTemp, WriteTemp, ReplaceFile
<1> QED BY <1>1 DEF Procs, Inodes

LEMMA HoldersGrow ==
  ASSUME Types, Lists, NEW p \in Procs, Begin(p) \/ FileStep(p) \/ OtherStep(p), NEW i,
         ~(ReplaceFile(p) /\ Advance(p)) \/ handle[p] # i
  PROVE  /\ Holders(i) \subseteq HeldBy(Procs, handle', at', i)
         /\ \A q \in Procs : handle[q] = i /\ at[q] \in Stopped =>
                               handle'[q] = i /\ at'[q] \in Stopped
<1>1. ASSUME NEW q \in Procs, handle[q] = i, at[q] \in {"write"} \cup Stopped
      PROVE  handle'[q] = i /\ at'[q] \in {"write"} \cup Stopped
             /\ (at[q] \in Stopped => at'[q] \in Stopped)
  BY <1>1, HoldersStay
<1>2. \A q \in Procs : handle[q] = i /\ at[q] \in Stopped => handle'[q] = i /\ at'[q] \in Stopped
  BY <1>1
<1>3. Holders(i) \subseteq HeldBy(Procs, handle', at', i)
  BY <1>1 DEF Holders, HeldBy
<1> QED BY <1>2, <1>3

(* The parts of Fragments in the next state.                                *)
LEMMA WholePrimed ==
  ASSUME Procs' = Procs, NEW f, NEW i, NEW t, path'[f] = i, temp'[f] = t,
         i # None /\ text'[i] = Partial =>
           f \in contended' /\ HeldBy(Procs, handle', at', i) # {},
         t # None => HeldBy(Procs, handle', at', t) # {},
         t # None /\ text'[t] = Partial =>
           \A q \in Procs : at'[q] = "replace" /\ handle'[q] = t =>
             HeldBy(Procs, handle', at', t) \ {q} # {},
         t # None /\ text'[t] # Partial => \E q \in Procs : handle'[q] = t /\ at'[q] \in Stopped
  PROVE  WholeFile(f)' /\ WholeTemp(f)'
<1>1. WholeFile(f)'
  BY DEF WholeFile, Holders
<1>2. WholeTemp(f)'
  BY DEF WholeTemp, Holders
<1> QED BY <1>1, <1>2

(* A file other than the one a process writes, or any when it writes none.  *)
LEMMA WholeElsewhere ==
  ASSUME Types, Lists, Names, NEW p \in Procs, Begin(p) \/ FileStep(p) \/ OtherStep(p),
         NEW f \in Files, WholeFile(f), WholeTemp(f),
         \/ at[p] \in {"open", "write", "replace"} /\ f # Head(todo[p])
         \/ at'[p] \notin {"replace"} /\ UNCHANGED <<path, temp, text>>
            /\ ~(ReplaceFile(p) /\ Advance(p))
  PROVE  WholeFile(f)' /\ WholeTemp(f)'
<1>1. plan' = plan /\ contended \subseteq contended'
  BY PlanKept, OtherFiles
<1>2. path'[f] = path[f] /\ temp'[f] = temp[f]
  BY OtherFiles
<1>3. ASSUME NEW i \in {path[f], temp[f]}, i # None
      PROVE  text'[i] = text[i] /\ i[2] = f
  <2>1. i \in Inodes /\ i[2] = f
    BY <1>3 DEF Types, Names
  <2> QED BY <2>1, OtherFiles
<1>4. ASSUME NEW i \in {path[f], temp[f]}, i # None
      PROVE  ~(ReplaceFile(p) /\ Advance(p)) \/ handle[p] # i
  <2>1. i[2] = f
    BY <1>3, <1>4
  <2>2. ReplaceFile(p) => handle[p][2] = Head(todo[p])
    BY DEF ReplaceFile, Names
  <2> QED BY <2>1, <2>2
<1>5. ASSUME NEW i, i = path[f] \/ i = temp[f], i # None
      PROVE  /\ Holders(i) \subseteq HeldBy(Procs, handle', at', i)
             /\ \A q \in Procs : handle[q] = i /\ at[q] \in Stopped =>
                                   handle'[q] = i /\ at'[q] \in Stopped
  BY <1>4, <1>5, HoldersGrow
<1>6. ASSUME temp[f] # None, NEW q \in Procs, at'[q] = "replace", handle'[q] = temp[f]
      PROVE  at[q] = "replace" /\ handle[q] = temp[f]
  <2>1. CASE q # p
    BY <1>6, <2>1, OthersKept
  <2>2. CASE q = p
    <3>1. at[p] \in {"open", "write", "replace"} /\ f # Head(todo[p])
      BY <1>6, <2>2
    <3>2. CASE at[p] = "open"
      <4>1. CASE OtherStep(p)
        <5>1. PICK a : QuietMove(p, a)
          BY <4>1, OthersAreQuiet
        <5> QED BY <1>6, <2>2, <5>1 DEF QuietMove, Types
      <4>2. CASE ~OtherStep(p)
        <5>1. OpenTemp(p)
          BY <3>2, <4>2 DEF Begin, FileStep, CheckFile, RecheckReceipt, WriteTemp, ReplaceFile
        <5>2. at'[p] = "write"
          BY <5>1 DEF OpenTemp, Goto, Types
        <5> QED BY <1>6, <2>2, <5>2
      <4> QED BY <4>1, <4>2
    <3>3. CASE at[p] \in {"write", "replace"}
      <4>1. CASE Begin(p)
        BY <3>3, <4>1 DEF Begin
      <4>2. CASE OtherStep(p)
        <5>1. PICK a : QuietMove(p, a)
          BY <4>2, OthersAreQuiet
        <5> QED BY <1>6, <2>2, <5>1 DEF QuietMove, Types
      <4>3. CASE FileStep(p)
        <5>1. handle' = handle
          BY <3>3, <4>3 DEF FileStep, CheckFile, RecheckReceipt, OpenTemp, WriteTemp, ReplaceFile
        <5>2. handle[p][2] = Head(todo[p]) /\ temp[f][2] = f
          BY <1>6, <3>3 DEF Names
        <5> QED BY <1>6, <2>2, <3>1, <5>1, <5>2
      <4> QED BY <4>1, <4>2, <4>3
    <3> QED BY <3>1, <3>2, <3>3
  <2> QED BY <2>1, <2>2
<1>7. Procs' = Procs
  BY PlanKept
<1>8. ASSUME path[f] # None, text'[path[f]] = Partial
      PROVE  f \in contended' /\ HeldBy(Procs, handle', at', path[f]) # {}
  <2>1. text[path[f]] = Partial
    BY <1>3, <1>8
  <2>2. f \in contended /\ Holders(path[f]) # {}
    BY <1>8, <2>1 DEF WholeFile
  <2>3. Holders(path[f]) \subseteq HeldBy(Procs, handle', at', path[f])
    BY <1>5, <1>8
  <2> QED BY <1>1, <2>2, <2>3
<1> DEFINE i == temp[f]
           H == HeldBy(Procs, handle', at', i)
<1>9. ASSUME i # None
      PROVE  /\ H # {}
             /\ text'[i] = Partial =>
                  \A q \in Procs : at'[q] = "replace" /\ handle'[q] = i => H \ {q} # {}
             /\ text'[i] # Partial => \E q \in Procs : handle'[q] = i /\ at'[q] \in Stopped
  <2>1. Holders(i) \subseteq H
    BY <1>5, <1>9
  <2>2. \A q \in Procs : handle[q] = i /\ at[q] \in Stopped =>
                          handle'[q] = i /\ at'[q] \in Stopped
    BY <1>5, <1>9
  <2>3. \A q \in Procs : at'[q] = "replace" /\ handle'[q] = i =>
                          at[q] = "replace" /\ handle[q] = i
    BY <1>6, <1>9
  <2>4. text'[i] = text[i]
    BY <1>3, <1>9
  <2>5. /\ Holders(i) # {}
        /\ text[i] = Partial =>
             \A q \in Procs : at[q] = "replace" /\ handle[q] = i => Holders(i) \ {q} # {}
        /\ text[i] # Partial => \E q \in Procs : handle[q] = i /\ at[q] \in Stopped
    BY <1>9 DEF WholeTemp
  <2> HIDE DEF i, H
  <2> QED BY <2>1, <2>2, <2>3, <2>4, <2>5
<1> HIDE DEF i, H
<1>10. temp'[f] = i
  BY <1>2 DEF i
<1> QED BY <1>2, <1>7, <1>8, <1>9, <1>10, WholePrimed DEF H

LEMMA FragmentsOpen ==
  ASSUME Types, Lists, Names, Fragments, NEW p \in Procs, OpenTemp(p),
         NEW f \in Files, f = Head(todo[p])
  PROVE  WholeFile(f)' /\ WholeTemp(f)'
<1> DEFINE inode == IF temp[f] = None THEN <<p, f>> ELSE temp[f]
<1>1. /\ at[p] = "open" /\ UNCHANGED <<plan, todo, path, contended>>
      /\ handle' = [handle EXCEPT ![p] = inode] /\ temp' = [temp EXCEPT ![f] = inode]
      /\ text' = [text EXCEPT ![inode] = Partial] /\ at' = [at EXCEPT ![p] = "write"]
  BY DEF OpenTemp, Goto
<1>2. f \in Files
  BY <1>1, AtFile DEF Window
<1>3. inode \in Inodes
  BY <1>2 DEF Inodes, Procs, Types
<1>4. path[f] # inode \/ path[f] = None
  <2>1. Names'
    BY NamesOpen
  <2>2. temp'[f] = inode
    <3> HIDE DEF inode
    <3> QED BY <1>1, <1>2 DEF Types
  <2> QED BY <1>1, <1>2, <2>1, <2>2 DEF Names
<1>5. WholeFile(f)
  BY <1>2, FragmentsParts
<1> HIDE DEF inode
<1>6. at'[p] = "write" /\ handle'[p] = inode /\ temp'[f] = inode /\ text'[inode] = Partial
  BY <1>1, <1>2, <1>3 DEF Types
<1>7. path[f] # None => text'[path[f]] = text[path[f]]
  BY <1>1, <1>2, <1>4 DEF Types
<1>8. Procs' = Procs
  BY <1>1 DEF Procs
<1>9. ASSUME path[f] # None, text'[path[f]] = Partial
      PROVE  f \in contended' /\ HeldBy(Procs, handle', at', path[f]) # {}
  <2>1. f \in contended /\ Holders(path[f]) # {}
    BY <1>5, <1>7, <1>9 DEF WholeFile
  <2>2. Holders(path[f]) \subseteq HeldBy(Procs, handle', at', path[f])
    <3>1. ~(ReplaceFile(p) /\ Advance(p))
      BY <1>1 DEF ReplaceFile
    <3> QED BY <3>1, HoldersGrow DEF FileStep
  <2> QED BY <1>1, <2>1, <2>2
<1>10. p \in HeldBy(Procs, handle', at', inode)
  BY <1>6 DEF HeldBy
<1>11. ASSUME NEW q \in Procs, at'[q] = "replace"
       PROVE  HeldBy(Procs, handle', at', inode) \ {q} # {}
  <2>1. q # p
    BY <1>6, <1>11
  <2> QED BY <1>10, <2>1
<1>12. path'[f] = path[f]
  BY <1>1
<1> QED
  BY <1>6, <1>8, <1>9, <1>10, <1>11, <1>12, WholePrimed

LEMMA FragmentsWrite ==
  ASSUME Types, Lists, Names, Uncontended, Fragments, NEW p \in Procs, WriteTemp(p),
         NEW f \in Files, f = Head(todo[p])
  PROVE  WholeFile(f)' /\ WholeTemp(f)'
<1> DEFINE h == handle[p]
           new == Wanted(p, f)
<1>1. /\ at[p] = "write" /\ UNCHANGED <<plan, todo, path, handle, temp, contended>>
      /\ at' = [at EXCEPT ![p] = "replace"]
      /\ \E left \in IF text[h] \in {Partial, new} THEN {new} ELSE {new, Partial} :
           text' = [text EXCEPT ![h] = left]
  BY DEF WriteTemp, Goto
<1>2. f \in Files
  BY <1>1, AtFile DEF Window
<1>3. new # Partial
  BY WantedIsWhole
<1>4. h \in Inodes
  BY <1>1 DEF Names, Types
<1>5. WholeFile(f) /\ WholeTemp(f)
  BY <1>2, FragmentsParts
<1>6. ASSUME path[f] = h
      PROVE  f \in contended
  <2>1. ASSUME f \notin contended
        PROVE  FALSE
    <3>1. p \in Writing(f)
      BY <1>1 DEF Writing, Window
    <3>2. temp[f] = h
      BY <1>1, <1>2, <2>1, <3>1 DEF Uncontended, Alone
    <3>3. path[f] # None
      BY <1>4, <1>6, NoneAssumption DEF Types, Inodes
    <3> QED BY <1>2, <1>6, <3>2, <3>3 DEF Names
  <2> QED BY <2>1
<1> HIDE DEF new, h
<1>7. /\ text'[h] = new \/ (text'[h] = Partial /\ text[h] # Partial)
      /\ \A i : i # h /\ i \in Inodes => text'[i] = text[i]
  BY <1>1, <1>4 DEF Types
<1>8. at'[p] = "replace" /\ \A q \in Procs : q # p => at'[q] = at[q]
  BY <1>1 DEF Types
<1>9. Procs' = Procs
  BY <1>1 DEF Procs
<1>10. ASSUME NEW i
       PROVE  Holders(i) \subseteq HeldBy(Procs, handle', at', i)
  <2>1. ~(ReplaceFile(p) /\ Advance(p))
    BY <1>1 DEF ReplaceFile
  <2> QED BY <2>1, HoldersGrow DEF FileStep
<1>11. p \in HeldBy(Procs, handle', at', h)
  BY <1>1, <1>8 DEF HeldBy, Stopped, h
<1>12. /\ path[f] # None => path[f] \in Inodes
       /\ temp[f] # None => temp[f] \in Inodes
  BY <1>2 DEF Types
<1>13. ASSUME path[f] # None, text'[path[f]] = Partial
       PROVE  f \in contended' /\ HeldBy(Procs, handle', at', path[f]) # {}
  <2>1. CASE path[f] = h
    BY <1>1, <1>6, <1>11, <2>1
  <2>2. CASE path[f] # h
    <3>1. text[path[f]] = Partial
      BY <1>7, <1>12, <1>13, <2>2
    <3>2. f \in contended /\ Holders(path[f]) # {}
      BY <1>5, <1>13, <3>1 DEF WholeFile
    <3> QED BY <1>1, <1>10, <3>2
  <2> QED BY <2>1, <2>2
<1> DEFINE t == temp[f]
           H == HeldBy(Procs, handle', at', t)
<1>14. ASSUME t # None
       PROVE  H # {}
  <2>1. Holders(t) # {}
    BY <1>5, <1>14 DEF WholeTemp
  <2> QED BY <1>10, <2>1
<1>15. ASSUME t # None, text'[t] = Partial, NEW q \in Procs, at'[q] = "replace", handle'[q] = t
       PROVE  H \ {q} # {}
  <2>1. CASE t = h /\ q # p
    BY <1>11, <2>1
  <2>2. CASE t = h /\ q = p
    <3>1. text[t] # Partial
      BY <1>3, <1>7, <1>15, <2>2
    <3>2. PICK r \in Procs : handle[r] = t /\ at[r] \in Stopped
      BY <1>5, <1>15, <3>1 DEF WholeTemp
    <3>3. r # p
      BY <1>1, <3>2 DEF Stopped
    <3>4. r \in H
      BY <1>1, <1>8, <3>2, <3>3 DEF HeldBy
    <3> QED BY <2>2, <3>3, <3>4
  <2>3. CASE t # h
    <3>1. text[t] = Partial /\ q # p
      BY <1>1, <1>7, <1>12, <1>15, <2>3 DEF h
    <3>2. at[q] = "replace" /\ handle[q] = t
      BY <1>1, <1>8, <1>15, <3>1
    <3>3. Holders(t) \ {q} # {}
      BY <1>5, <1>15, <3>1, <3>2 DEF WholeTemp
    <3> QED BY <1>10, <3>3
  <2> QED BY <2>1, <2>2, <2>3
<1>16. ASSUME t # None, text'[t] # Partial
       PROVE  \E q \in Procs : handle'[q] = t /\ at'[q] \in Stopped
  <2>1. CASE t = h
    BY <1>1, <1>8, <2>1 DEF h, Stopped
  <2>2. CASE t # h
    <3>1. text[t] # Partial
      BY <1>7, <1>12, <1>16, <2>2
    <3>2. PICK r \in Procs : handle[r] = t /\ at[r] \in Stopped
      BY <1>5, <1>16, <3>1 DEF WholeTemp
    <3>3. r # p
      BY <1>1, <3>2 DEF Stopped
    <3> QED BY <1>1, <1>8, <3>2, <3>3
  <2> QED BY <2>1, <2>2
<1>17. path'[f] = path[f] /\ temp'[f] = t
  BY <1>1
<1> HIDE DEF t
<1> QED
  BY <1>9, <1>13, <1>14, <1>15, <1>16, <1>17, WholePrimed

LEMMA FragmentsReplace ==
  ASSUME Types, Lists, Names, Uncontended, Fragments, NEW p \in Procs, ReplaceFile(p), Advance(p),
         NEW f \in Files, f = Head(todo[p])
  PROVE  WholeFile(f)' /\ WholeTemp(f)'
<1> DEFINE t == temp[f]
<1>0. PICK a : AdvancesTo(p, a)
  <2>1. at[p] \in {"check"} \cup Window
    BY DEF ReplaceFile, Window
  <2> QED BY <2>1, Advanced
<1>1. at[p] = "replace" /\ UNCHANGED <<plan, text, handle, contended>>
  BY DEF ReplaceFile
<1>2. f \in Files
  BY <1>1, AtFile DEF Window
<1>3. /\ path' = [path EXCEPT ![f] = t] /\ temp' = [temp EXCEPT ![f] = None] /\ t # None
  <2>1. at'[p] # "failed"
    BY <1>0 DEF AdvancesTo, Types
  <2>2. ~Raise(p)
    BY <2>1 DEF Raise, Goto, Types
  <2> QED BY <2>2 DEF ReplaceFile
<1>4. WholeTemp(f)
  BY <1>2, FragmentsParts
<1>5. ASSUME f \notin contended
      PROVE  text[t] # Partial
  <2>1. p \in Writing(f)
    BY <1>1 DEF Writing, Window
  <2>2. t = handle[p] /\ text[handle[p]] = Wanted(p, f)
    BY <1>1, <1>2, <1>5, <2>1 DEF Uncontended, Alone
  <2> QED BY <2>2, WantedIsWhole
<1>6. path'[f] = t /\ temp'[f] = None
  BY <1>2, <1>3 DEF Types
<1> HIDE DEF t
<1>7. ASSUME text'[t] = Partial
      PROVE  f \in contended' /\ HeldBy(Procs, handle', at', t) # {}
  <2>1. text[t] = Partial /\ f \in contended
    BY <1>1, <1>5, <1>7
  <2>2. \E r \in Holders(t) : r # p
    <3>1. CASE handle[p] = t
      <4>1. Holders(t) \ {p} # {}
        BY <1>1, <1>3, <1>4, <2>1, <3>1 DEF WholeTemp, t
      <4> QED BY <4>1
    <3>2. CASE handle[p] # t
      <4>1. Holders(t) # {}
        BY <1>3, <1>4 DEF WholeTemp, t
      <4>2. p \notin Holders(t)
        BY <3>2 DEF Holders, HeldBy
      <4> QED BY <4>1, <4>2
    <3> QED BY <3>1, <3>2
  <2>3. PICK r \in Holders(t) : r # p
    BY <2>2
  <2>4. r \in Procs /\ handle[r] = t /\ at[r] \in {"write"} \cup Stopped
    BY <2>3 DEF Holders, HeldBy
  <2>5. at'[r] = at[r] /\ handle'[r] = handle[r]
    BY <2>3, <2>4, OthersKept DEF FileStep
  <2>6. r \in HeldBy(Procs, handle', at', t)
    BY <2>4, <2>5 DEF HeldBy
  <2> QED BY <1>1, <2>1, <2>6
<1>8. Procs' = Procs
  BY <1>1 DEF Procs
<1> QED
  <2> DEFINE n == None
  <2>1. temp'[f] = n /\ n = None
    BY <1>6
  <2> HIDE DEF n
  <2> QED BY <1>6, <1>7, <1>8, <2>1, WholePrimed

LEMMA FragmentsStep ==
  ASSUME Types, Lists, Names, Uncontended, Fragments, NEW p \in Procs,
         Begin(p) \/ FileStep(p) \/ OtherStep(p)
  PROVE  Fragments'
<1> SUFFICES ASSUME NEW f \in Files
             PROVE  WholeFile(f)' /\ WholeTemp(f)'
  <2>1. Fragments' <=> \A f \in Files : WholeFile(f)' /\ WholeTemp(f)'
    BY DEF Fragments, WholeFile, WholeTemp
  <2> QED BY <2>1
<1>1. WholeFile(f) /\ WholeTemp(f)
  BY FragmentsParts
<1>2. ASSUME UNCHANGED <<path, temp, text>>, at'[p] # "replace", ~(ReplaceFile(p) /\ Advance(p))
      PROVE  WholeFile(f)' /\ WholeTemp(f)'
  BY <1>1, <1>2, WholeElsewhere
<1>3. ASSUME at[p] \in {"open", "write", "replace"}, f # Head(todo[p])
      PROVE  WholeFile(f)' /\ WholeTemp(f)'
  BY <1>1, <1>3, WholeElsewhere
<1>4. CASE Begin(p)
  <2>1. UNCHANGED <<path, temp, text>> /\ at'[p] # "replace" /\ at[p] = "idle"
    BY <1>4 DEF Begin, Goto, Types
  <2> QED BY <1>2, <2>1 DEF ReplaceFile
<1>5. CASE OtherStep(p)
  <2>1. PICK a : QuietMove(p, a)
    BY <1>5, OthersAreQuiet
  <2>2. UNCHANGED <<path, temp, text>> /\ at'[p] # "replace"
    BY <2>1 DEF QuietMove, fileVars, Types
  <2>3. ~(ReplaceFile(p) /\ Advance(p))
    <3>1. SUFFICES ASSUME ReplaceFile(p), Advance(p)
                   PROVE  FALSE
      OBVIOUS
    <3>2. PICK b : AdvancesTo(p, b)
      BY <3>1, Advanced DEF ReplaceFile, Window
    <3>3. todo' = todo
      BY <2>1 DEF QuietMove, fileVars
    <3>4. todo'[p] = Tail(todo[p]) /\ Rest(Tail(todo[p])) = Rest(todo[p]) \ {Head(todo[p])}
      BY <3>2 DEF AdvancesTo, Types
    <3>5. Head(todo[p]) \in Rest(todo[p])
      BY <3>1, AtFile DEF ReplaceFile, Window
    <3> QED BY <3>3, <3>4, <3>5
  <2> QED BY <1>2, <2>2, <2>3
<1>6. CASE CheckFile(p)
  <2>1. at[p] = "check" /\ UNCHANGED <<path, temp, text>>
    BY <1>6 DEF CheckFile
  <2>2. Advance(p) \/ Goto(p, "open") \/ Goto(p, "recheck") \/ Goto(p, "failed")
    BY <1>6 DEF CheckFile, Raise
  <2>3. Advance(p) => \E a : AdvancesTo(p, a)
    BY <2>1, Advanced
  <2>4. at'[p] # "replace"
    BY <2>2, <2>3 DEF AdvancesTo, Goto, Types
  <2> QED BY <1>2, <2>1, <2>4 DEF ReplaceFile
<1>7. CASE RecheckReceipt(p)
  <2>1. at[p] = "recheck" /\ UNCHANGED <<path, temp, text>> /\ (Advance(p) \/ Goto(p, "open"))
    BY <1>7 DEF RecheckReceipt
  <2>2. Advance(p) => \E a : AdvancesTo(p, a)
    BY <2>1, Advanced DEF Window
  <2>3. at'[p] # "replace"
    BY <2>1, <2>2 DEF AdvancesTo, Goto, Types
  <2> QED BY <1>2, <2>1, <2>3 DEF ReplaceFile
<1>8. CASE OpenTemp(p)
  <2>1. at[p] = "open"
    BY <1>8 DEF OpenTemp
  <2>2. CASE f # Head(todo[p])
    BY <1>3, <2>1, <2>2
  <2>3. CASE f = Head(todo[p])
    BY <1>8, <2>3, FragmentsOpen
  <2> QED BY <2>2, <2>3
<1>9. CASE WriteTemp(p)
  <2>1. at[p] = "write"
    BY <1>9 DEF WriteTemp
  <2>2. CASE f # Head(todo[p])
    BY <1>3, <2>1, <2>2
  <2>3. CASE f = Head(todo[p])
    BY <1>9, <2>3, FragmentsWrite
  <2> QED BY <2>2, <2>3
<1>10. CASE ReplaceFile(p) /\ Advance(p)
  <2>1. at[p] = "replace"
    BY <1>10 DEF ReplaceFile
  <2>2. CASE f # Head(todo[p])
    BY <1>3, <2>1, <2>2
  <2>3. CASE f = Head(todo[p])
    BY <1>10, <2>3, FragmentsReplace
  <2> QED BY <2>2, <2>3
<1>11. CASE ReplaceFile(p) /\ ~Advance(p)
  <2>1. UNCHANGED <<path, temp, text>> /\ Raise(p)
    BY <1>11 DEF ReplaceFile
  <2>2. at'[p] # "replace"
    BY <2>1 DEF Raise, Goto, Types
  <2> QED BY <1>2, <1>11, <2>1, <2>2
<1> QED BY <1>4, <1>5, <1>6, <1>7, <1>8, <1>9, <1>10, <1>11 DEF FileStep

-----------------------------------------------------------------------------
(* Identity.                                                               *)

LEMMA TextAfter ==
  ASSUME Types, Lists, Names, NEW p \in Procs, Begin(p) \/ FileStep(p) \/ OtherStep(p),
         NEW i \in Inodes
  PROVE  \/ text'[i] = text[i]
         \/ /\ at[p] \in {"open", "write"} /\ i[2] = Head(todo[p])
            /\ text'[i] \in {Partial, Wanted(p, Head(todo[p]))}
<1>1. i[2] # Head(todo[p]) => text'[i] = text[i]
  BY OtherFiles
<1>2. CASE OpenTemp(p)
  <2>1. at[p] = "open" /\ \E j : text' = [text EXCEPT ![j] = Partial]
    BY <1>2 DEF OpenTemp
  <2>2. text'[i] = text[i] \/ text'[i] = Partial
    BY <2>1 DEF Types
  <2> QED BY <1>1, <2>1, <2>2
<1>3. CASE WriteTemp(p)
  <2>1. at[p] = "write" /\ \E j, x : /\ text' = [text EXCEPT ![j] = x]
                                      /\ x \in {Partial, Wanted(p, Head(todo[p]))}
    BY <1>3 DEF WriteTemp
  <2>2. text'[i] = text[i] \/ text'[i] \in {Partial, Wanted(p, Head(todo[p]))}
    BY <2>1 DEF Types
  <2> QED BY <1>1, <2>1, <2>2
<1>4. CASE ~OpenTemp(p) /\ ~WriteTemp(p)
  <2>1. text' = text
    BY <1>4, OthersAreQuiet
       DEF QuietMove, fileVars, Begin, FileStep, CheckFile, RecheckReceipt, ReplaceFile
  <2> QED BY <2>1
<1> QED BY <1>2, <1>3, <1>4

(* A job at a file of its list.                                            *)
LEMMA JobAtFile ==
  ASSUME Types, Lists, NEW p \in Procs, at[p] \in {"check"} \cup Window,
         Head(todo[p]) \in Plain
  PROVE  /\ p \in Jobs /\ plan[p].kind = "train"
         /\ Wanted(p, Head(todo[p])) = Content(Head(todo[p]), Config(p))
<1>1. plan[p].kind = "train"
  BY AtFile, FileSets
<1>2. at[p] \notin {"idle"} \cup Ended
  BY DEF Window, Ended
<1>3. Head(todo[p]) \notin Receipts
  BY FileSets
<1> QED BY <1>1, <1>2, <1>3 DEF Jobs, Wanted

LEMMA JobsAfter ==
  ASSUME Types, Lists, NEW p \in Procs, Begin(p) \/ FileStep(p) \/ OtherStep(p), NEW q \in Jobs'
  PROVE  /\ q \in Procs /\ plan[q].kind = "train" /\ at'[q] \notin {"idle"} \cup Ended
         /\ Config(q)' = Config(q)
         /\ q \in Jobs \/ (q = p /\ Begin(p))
<1>1. q \in Procs /\ plan[q].kind = "train" /\ at'[q] \notin {"idle"} \cup Ended
  BY PlanKept DEF Jobs
<1>2. Config(q)' = Config(q)
  BY PlanKept DEF Config
<1>3. ASSUME q # p
      PROVE  q \in Jobs
  <2>1. at'[q] = at[q]
    BY <1>1, <1>3, OthersKept
  <2> QED BY <1>1, <2>1 DEF Jobs
<1>4. ASSUME q = p, ~Begin(p)
      PROVE  q \in Jobs
  <2>1. at[p] \notin {"idle"} \cup Ended
    BY <1>4, AllProceed DEF Proceeds
  <2> QED BY <1>1, <1>4, <2>1 DEF Jobs
<1> QED BY <1>1, <1>2, <1>3, <1>4

LEMMA JobFiles ==
  ASSUME Types, Lists, NEW p \in Jobs
  PROVE  /\ at[p] \in {"check"} \cup Window => Rest(todo[p]) \subseteq Plain /\ Head(todo[p]) \in Plain
         /\ at[p] \in {"check", "open", "write", "replace", "start", "training"}
         /\ p \in Procs
<1>1. p \in Procs /\ plan[p].kind = "train" /\ at[p] \notin {"idle"} \cup Ended
  BY DEF Jobs
<1>2. at[p] \in {"check", "open", "write", "replace", "start", "training"}
  BY <1>1, Kinds DEF PointsOf
<1>3. at[p] \in {"check"} \cup Window => Rest(todo[p]) \subseteq Plain /\ Head(todo[p]) \in Rest(todo[p])
  BY <1>1, AtFile
<1> QED BY <1>1, <1>2, <1>3

(* The content of a resolved file stays what it is, whoever writes it.      *)
LEMMA ContentStays ==
  ASSUME Types, Lists, Names, Identity, NEW p \in Procs,
         Begin(p) \/ FileStep(p) \/ OtherStep(p),
         NEW f \in Plain, NEW c, HasContent(f, c),
         at[p] \in {"open", "write", "replace"} /\ Head(todo[p]) = f =>
           Content(f, Config(p)) = Content(f, c)
  PROVE  path'[f] # None /\ text'[path'[f]] \in {Partial, Content(f, c)}
<1>1. path[f] # None /\ text[path[f]] \in {Partial, Content(f, c)} /\ f \in Files
  BY FileSets DEF HasContent
<1>2. path[f] \in Inodes /\ path[f][2] = f
  BY <1>1 DEF Types, Names
<1>3. CASE path'[f] = path[f]
  <2>1. \/ text'[path[f]] = text[path[f]]
        \/ /\ at[p] \in {"open", "write"} /\ f = Head(todo[p])
           /\ text'[path[f]] \in {Partial, Wanted(p, Head(todo[p]))}
    BY <1>2, TextAfter
  <2>2. at[p] \in {"open", "write"} /\ f = Head(todo[p]) =>
          Wanted(p, Head(todo[p])) = Content(f, Config(p))
    BY JobAtFile DEF Window
  <2> QED BY <1>1, <1>3, <2>1, <2>2
<1>4. CASE path'[f] # path[f]
  <2>1. f = Head(todo[p]) /\ at[p] \in {"open", "replace"}
    BY <1>1, <1>4, OtherFiles
  <2>2. ReplaceFile(p)
    <3>1. OtherStep(p) => path' = path
      BY OthersAreQuiet DEF QuietMove, fileVars
    <3> QED BY <1>4, <3>1 DEF Begin, FileStep, CheckFile, RecheckReceipt, OpenTemp, WriteTemp
  <2>3. /\ at[p] = "replace" /\ UNCHANGED text /\ temp[f] # None
        /\ path' = [path EXCEPT ![f] = temp[f]]
    BY <1>4, <2>1, <2>2 DEF ReplaceFile
  <2>4. p \in Jobs
    BY <2>1, <2>3, JobAtFile DEF Window
  <2>5. text[temp[f]] \in {Partial, Content(f, Config(p))}
    BY <2>1, <2>3, <2>4 DEF Identity
  <2>6. path'[f] = temp[f]
    BY <1>1, <2>3 DEF Types
  <2> QED BY <2>1, <2>3, <2>5, <2>6
<1> QED BY <1>3, <1>4

LEMMA Together ==
  ASSUME Types, Lists, Identity, NEW p \in Procs, Begin(p) \/ FileStep(p) \/ OtherStep(p),
         NEW q \in Jobs', NEW r \in Jobs'
  PROVE  Config(q) = Config(r)
<1>1. /\ q \in Procs /\ r \in Procs /\ plan[q].kind = "train" /\ plan[r].kind = "train"
      /\ q \in Jobs \/ (q = p /\ Begin(p))
      /\ r \in Jobs \/ (r = p /\ Begin(p))
  BY JobsAfter
<1>2. CASE q \in Jobs /\ r \in Jobs
  BY <1>2 DEF Identity
<1>3. CASE Begin(p)
  <2>1. \A s \in Procs : plan[s].kind = "train" /\ plan[p].kind = "train"
                           /\ at[s] \notin {"idle"} \cup Ended => Config(s) = Config(p)
    BY <1>3 DEF Begin
  <2>2. \A s \in Jobs : plan[p].kind = "train" => Config(s) = Config(p)
    BY <2>1 DEF Jobs
  <2> QED BY <1>1, <1>2, <2>2
<1> QED BY <1>1, <1>2, <1>3

(* The jobs at a file when a process writes it.                            *)
LEMMA SameJobConfig ==
  ASSUME Types, Lists, Identity, NEW p \in Procs, NEW q \in Jobs,
         at[p] \in {"check"} \cup Window, Head(todo[p]) \in Plain
  PROVE  p \in Jobs /\ Config(p) = Config(q)
BY JobAtFile DEF Identity

(* A job has gone past a file when it was there with its content, or when   *)
(* it has written it.                                                      *)
LEMMA JustPassed ==
  ASSUME Types, Lists, Names, Identity, NEW p \in Jobs, FileStep(p), Advance(p),
         NEW f, f = Head(todo[p])
  PROVE  path'[f] # None /\ text'[path'[f]] \in {Partial, Content(f, Config(p))}
<1>1. CASE CheckFile(p)
  <2>1. at[p] = "check" /\ UNCHANGED <<path, text>>
    BY <1>1 DEF CheckFile
  <2>2. p \in Procs /\ f \in Plain
    BY <2>1, JobFiles
  <2>3. at'[p] \notin {"open", "recheck", "failed"}
    <3>1. PICK a : AdvancesTo(p, a)
      BY <2>1, <2>2, Advanced
    <3> QED BY <2>2, <3>1 DEF AdvancesTo, Types
  <2>4. ~Goto(p, "open") /\ ~Goto(p, "recheck") /\ ~Raise(p)
    BY <2>2, <2>3 DEF Goto, Raise, Types
  <2>5. Holds(f, Wanted(p, f))
    BY <1>1, <2>4 DEF CheckFile
  <2>6. Wanted(p, f) = Content(f, Config(p))
    BY <2>1, <2>2, JobAtFile
  <2> QED BY <2>1, <2>5, <2>6 DEF Holds
<1>2. CASE RecheckReceipt(p)
  <2>1. at[p] = "recheck"
    BY <1>2 DEF RecheckReceipt
  <2> QED BY <2>1, JobFiles
<1>3. CASE OpenTemp(p) \/ WriteTemp(p)
  <2>1. at[p] \in Window /\ todo' = todo /\ p \in Procs
    BY <1>3 DEF OpenTemp, WriteTemp, Window, Jobs
  <2>2. PICK a : AdvancesTo(p, a)
    BY <2>1, Advanced
  <2>3. todo'[p] = Tail(todo[p]) /\ Rest(Tail(todo[p])) = Rest(todo[p]) \ {Head(todo[p])}
    BY <2>1, <2>2 DEF AdvancesTo, Types
  <2>4. Head(todo[p]) \in Rest(todo[p])
    BY <2>1, AtFile
  <2> QED BY <2>1, <2>3, <2>4
<1>4. CASE ReplaceFile(p)
  <2>1. at[p] = "replace" /\ UNCHANGED text
    BY <1>4 DEF ReplaceFile
  <2>2. p \in Procs /\ f \in Plain /\ f \in Files
    BY <2>1, JobFiles, FileSets DEF Window
  <2>3. ~Raise(p)
    <3>1. PICK a : AdvancesTo(p, a)
      BY <2>1, <2>2, Advanced DEF Window
    <3> QED BY <2>2, <3>1 DEF AdvancesTo, Raise, Goto, Types
  <2>4. temp[f] # None /\ path' = [path EXCEPT ![f] = temp[f]]
    BY <1>4, <2>3 DEF ReplaceFile
  <2>5. path'[f] = temp[f]
    BY <2>2, <2>4 DEF Types
  <2>6. text[temp[f]] \in {Partial, Content(f, Config(p))}
    BY <2>1, <2>4 DEF Identity
  <2> QED BY <2>1, <2>4, <2>5, <2>6
<1> QED BY <1>1, <1>2, <1>3, <1>4 DEF FileStep

LEMMA PassedStep ==
  ASSUME Types, Lists, Names, Identity, NEW p \in Procs,
         Begin(p) \/ FileStep(p) \/ OtherStep(p),
         NEW q \in Jobs', NEW f \in Plain, f \notin Rest(todo'[q])
  PROVE  path'[f] # None /\ text'[path'[f]] \in {Partial, Content(f, Config(q))}
<1>1. /\ q \in Procs /\ plan[q].kind = "train"
      /\ q \in Jobs \/ (q = p /\ Begin(p))
  BY JobsAfter
<1>2. CASE q = p /\ Begin(p)
  <2>1. todo'[q] = Append(IdentityFiles, "location")
    BY <1>1, <1>2 DEF Begin, Types
  <2>2. Rest(todo'[q]) = Plain
    BY <2>1, AllFiles
  <2> QED BY <2>2
<1>3. CASE q \in Jobs /\ f \notin Rest(todo[q])
  <2>1. HasContent(f, Config(q))
    BY <1>3 DEF Identity
  <2>2. at[p] \in {"open", "write", "replace"} /\ Head(todo[p]) = f =>
          Content(f, Config(p)) = Content(f, Config(q))
    BY <1>3, SameJobConfig DEF Window
  <2> QED BY <2>1, <2>2, ContentStays
<1>4. CASE q \in Jobs /\ f \in Rest(todo[q])
  <2>1. todo'[q] # todo[q]
    BY <1>4
  <2>2. q = p
    BY <1>1, <2>1, OthersKept
  <2>3. FileStep(p) /\ Advance(p)
    <3>1. ~Begin(p)
      BY <1>4, <2>2 DEF Begin, Jobs
    <3>2. OtherStep(p) => todo' = todo
      BY OthersAreQuiet DEF QuietMove, fileVars
    <3> QED BY <2>1, <2>2, <3>1, <3>2
            DEF FileStep, CheckFile, RecheckReceipt, OpenTemp, WriteTemp, ReplaceFile
  <2>4. at[p] \in {"check"} \cup Window
    BY <2>3, <2>1, <2>2
       DEF FileStep, CheckFile, RecheckReceipt, OpenTemp, WriteTemp, ReplaceFile, Window
  <2>5. PICK a : AdvancesTo(p, a)
    BY <2>3, <2>4, Advanced
  <2>6. Rest(todo'[p]) = Rest(todo[p]) \ {Head(todo[p])}
    BY <2>5 DEF AdvancesTo, Types
  <2>7. f = Head(todo[p])
    BY <1>4, <2>2, <2>6
  <2> QED BY <1>4, <2>2, <2>3, <2>7, JustPassed
<1> QED BY <1>1, <1>2, <1>3, <1>4

LEMMA DraftsStep ==
  ASSUME Types, Lists, Names, Identity, NEW p \in Procs,
         Begin(p) \/ FileStep(p) \/ OtherStep(p),
         NEW q \in Jobs', at'[q] \in {"write", "replace"}, NEW f, f = Head(todo'[q])
  PROVE  /\ text'[handle'[q]] \in {Partial, Content(f, Config(q))}
         /\ temp'[f] # None => text'[temp'[f]] \in {Partial, Content(f, Config(q))}
<1>1. /\ q \in Procs /\ plan[q].kind = "train"
      /\ q \in Jobs \/ (q = p /\ Begin(p))
  BY JobsAfter
<1>2. ~(q = p /\ Begin(p))
  BY DEF Begin, Goto, Types
<1>3. q \in Jobs
  BY <1>1, <1>2
<1>4. CASE q # p
  <2>1. /\ at[q] = at'[q] /\ f = Head(todo[q]) /\ handle'[q] = handle[q]
    BY <1>1, <1>4, OthersKept
  <2>2. f \in Plain /\ f \in Files
    BY <1>3, <2>1, JobFiles, FileSets DEF Window
  <2>3. /\ text[handle[q]] \in {Partial, Content(f, Config(q))}
        /\ temp[f] # None => text[temp[f]] \in {Partial, Content(f, Config(q))}
    BY <1>3, <2>1 DEF Identity
  <2>4. ASSUME at[p] \in {"open", "write"}, Head(todo[p]) = f
        PROVE  Wanted(p, Head(todo[p])) = Content(f, Config(q))
    <3>1. at[p] \in {"check"} \cup Window
      BY <2>4 DEF Window
    <3>2. Config(p) = Config(q)
      BY <1>3, <2>2, <2>4, <3>1, SameJobConfig
    <3> QED BY <2>2, <2>4, <3>1, <3>2, JobAtFile
  <2>5. ASSUME NEW i \in Inodes, i[2] = f, text[i] \in {Partial, Content(f, Config(q))}
        PROVE  text'[i] \in {Partial, Content(f, Config(q))}
    BY <2>4, <2>5, TextAfter
  <2>6. handle[q] \in Inodes /\ handle[q][2] = f
    BY <1>1, <2>1 DEF Types, Names
  <2>7. text'[handle'[q]] \in {Partial, Content(f, Config(q))}
    BY <2>1, <2>3, <2>5, <2>6
  <2>8. ASSUME temp'[f] # None
        PROVE  text'[temp'[f]] \in {Partial, Content(f, Config(q))}
    <3>1. CASE temp'[f] = temp[f]
      <4>1. temp[f] \in Inodes /\ temp[f][2] = f
        BY <2>2, <2>8, <3>1 DEF Types, Names
      <4> QED BY <2>3, <2>5, <2>8, <3>1, <4>1
    <3>2. CASE temp'[f] # temp[f]
      <4>1. f = Head(todo[p]) /\ at[p] \in {"open", "replace"}
        BY <2>2, <3>2, OtherFiles
      <4>2. OtherStep(p) => temp' = temp
        BY OthersAreQuiet DEF QuietMove, fileVars
      <4>3. OpenTemp(p) \/ ReplaceFile(p)
        BY <3>2, <4>2 DEF Begin, FileStep, CheckFile, RecheckReceipt, WriteTemp
      <4>4. CASE ReplaceFile(p)
        <5>1. temp' = [temp EXCEPT ![f] = None]
          BY <3>2, <4>1, <4>4 DEF ReplaceFile
        <5> QED BY <2>2, <2>8, <5>1 DEF Types
      <4>5. CASE OpenTemp(p)
        <5> DEFINE inode == IF temp[f] = None THEN <<p, f>> ELSE temp[f]
        <5>1. temp' = [temp EXCEPT ![f] = inode] /\ text' = [text EXCEPT ![inode] = Partial]
          BY <4>1, <4>5 DEF OpenTemp
        <5>2. inode \in Inodes
          BY <2>2 DEF Inodes, Procs, Types
        <5> HIDE DEF inode
        <5>3. temp'[f] = inode /\ text'[inode] = Partial
          BY <2>2, <5>1, <5>2 DEF Types
        <5> QED BY <5>3
      <4> QED BY <4>3, <4>4, <4>5
    <3> QED BY <3>1, <3>2
  <2> QED BY <2>7, <2>8
<1>5. CASE q = p
  <2>1. ~Begin(p) /\ (FileStep(p) \/ OtherStep(p))
    BY <1>2, <1>5
  <2>2. ~OtherStep(p) /\ ~CheckFile(p) /\ ~RecheckReceipt(p) /\ ~ReplaceFile(p)
    <3>1. ~OtherStep(p)
      BY <1>5, OthersAreQuiet DEF QuietMove, Types
    <3>2. Advance(p) /\ at[p] \in {"check"} \cup Window => at'[p] \notin {"write", "replace"}
      BY Advanced DEF AdvancesTo, Types
    <3>3. ~CheckFile(p)
      BY <1>5, <3>2 DEF CheckFile, Raise, Goto, Types
    <3>4. ~RecheckReceipt(p)
      BY <1>5, <3>2 DEF RecheckReceipt, Goto, Types, Window
    <3>5. ~ReplaceFile(p)
      BY <1>5, <3>2 DEF ReplaceFile, Raise, Goto, Types, Window
    <3> QED BY <3>1, <3>3, <3>4, <3>5
  <2>3. OpenTemp(p) \/ WriteTemp(p)
    BY <2>1, <2>2 DEF FileStep
  <2>4. at[p] \in {"open", "write"} /\ todo' = todo /\ f = Head(todo[p])
    BY <1>5, <2>3 DEF OpenTemp, WriteTemp
  <2>5. f \in Plain /\ f \in Files
    BY <1>3, <1>5, <2>4, JobFiles, FileSets DEF Window
  <2>6. CASE OpenTemp(p)
    <3> DEFINE inode == IF temp[f] = None THEN <<p, f>> ELSE temp[f]
    <3>1. /\ temp' = [temp EXCEPT ![f] = inode] /\ text' = [text EXCEPT ![inode] = Partial]
          /\ handle' = [handle EXCEPT ![p] = inode]
      BY <2>4, <2>6 DEF OpenTemp
    <3>2. inode \in Inodes
      BY <2>5 DEF Inodes, Procs, Types
    <3> HIDE DEF inode
    <3>3. temp'[f] = inode /\ text'[inode] = Partial /\ handle'[p] = inode
      BY <2>5, <3>1, <3>2 DEF Types
    <3> QED BY <1>5, <3>3
  <2>7. CASE WriteTemp(p)
    <3>1. at[p] = "write" /\ UNCHANGED <<handle, temp>>
      BY <2>7 DEF WriteTemp
    <3>2. Wanted(p, f) = Content(f, Config(p))
      BY <2>4, <2>5, <3>1, JobAtFile DEF Window
    <3>3. handle[p] \in Inodes
      BY <3>1 DEF Types, Names
    <3>4. /\ text[handle[p]] \in {Partial, Content(f, Config(p))}
          /\ temp[f] # None => text[temp[f]] \in {Partial, Content(f, Config(p))}
      BY <1>3, <1>5, <2>4, <3>1 DEF Identity
    <3>5. ASSUME NEW i \in Inodes, text[i] \in {Partial, Content(f, Config(p))}
          PROVE  text'[i] \in {Partial, Content(f, Config(p))}
      BY <2>4, <3>2, <3>5, TextAfter
    <3>6. temp[f] # None => temp[f] \in Inodes
      BY <2>5 DEF Types
    <3> QED BY <1>5, <3>1, <3>3, <3>4, <3>5, <3>6
  <2> QED BY <2>3, <2>6, <2>7
<1> QED BY <1>4, <1>5

LEMMA NewCheckpoint ==
  ASSUME NEW p \in Procs, Begin(p) \/ FileStep(p) \/ OtherStep(p), NEW c \in steps'
  PROVE  c \in steps \/ (SaveCheckpoint(p) /\ at[p] = "training" /\ c.config = Config(p)
                         /\ at' = at /\ UNCHANGED fileVars)
<1>1. CASE SaveCheckpoint(p)
  BY <1>1 DEF SaveCheckpoint
<1>2. CASE ~SaveCheckpoint(p)
  <2>1. steps' = steps
    BY <1>2 DEF Begin, FileStep, CheckFile, RecheckReceipt, OpenTemp, WriteTemp, ReplaceFile,
                OtherStep, StartTraining, LoadModel, EvaluateBatch, ComputeMetrics, CheckTarget,
                WritePayload, WriteExportManifest, PublishExport, ImportArtifact, Kill,
                OperationRaises
  <2> QED BY <2>1
<1> QED BY <1>1, <1>2

LEMMA Training ==
  ASSUME Types, Lists, NEW p \in Procs, at[p] = "training"
  PROVE  p \in Jobs /\ Rest(todo[p]) = {}
<1>1. plan[p].kind = "train"
  BY Kinds
<1>2. todo[p] = <<>>
  BY <1>1 DEF Lists, WellListed
<1>3. Rest(<<>>) = {}
  BY DEF Rest
<1> QED BY <1>1, <1>2, <1>3 DEF Jobs, Ended

LEMMA SavedStep ==
  ASSUME Types, Lists, Names, Identity, NEW p \in Procs,
         Begin(p) \/ FileStep(p) \/ OtherStep(p), NEW c \in steps', NEW f \in Plain
  PROVE  path'[f] # None /\ text'[path'[f]] \in {Partial, Content(f, c.config)}
<1>1. CASE c \in steps
  <2>1. HasContent(f, c.config)
    BY <1>1 DEF Identity
  <2>2. ASSUME at[p] \in {"open", "write", "replace"}, Head(todo[p]) = f
        PROVE  Config(p) = c.config
    <3>1. p \in Jobs
      BY <2>2, JobAtFile DEF Window
    <3> QED BY <1>1, <2>2, <3>1 DEF Identity
  <2> QED BY <2>1, <2>2, ContentStays
<1>2. CASE at[p] = "training" /\ c.config = Config(p)
  <2>1. HasContent(f, c.config)
    BY <1>2, Training DEF Identity
  <2> QED BY <1>2, <2>1, ContentStays
<1> QED BY <1>1, <1>2, NewCheckpoint

LEMMA StrangersStep ==
  ASSUME Types, Lists, Names, Identity, NEW p \in Procs,
         Begin(p) \/ FileStep(p) \/ OtherStep(p), NEW c \in steps', NEW q \in Jobs'
  PROVE  \/ Config(q) = c.config
         \/ at'[q] = "check" /\ "run" \in Rest(todo'[q])
<1>1. /\ q \in Procs /\ plan[q].kind = "train" /\ at'[q] \notin {"idle"} \cup Ended
      /\ q \in Jobs \/ (q = p /\ Begin(p))
  BY JobsAfter
<1>2. CASE q = p /\ Begin(p)
  <2>1. todo'[q] = Append(IdentityFiles, "location") /\ at'[q] = "check"
    BY <1>1, <1>2 DEF Begin, Goto, Types
  <2>2. Rest(todo'[q]) = Plain
    BY <2>1, AllFiles
  <2> QED BY <2>1, <2>2, FileSets
<1>3. CASE q \in Jobs /\ c \notin steps
  <2>1. at[p] = "training" /\ c.config = Config(p)
    BY <1>3, NewCheckpoint
  <2>2. p \in Jobs
    BY <2>1, Training
  <2> QED BY <1>3, <2>1, <2>2 DEF Identity
<1>4. CASE q \in Jobs /\ c \in steps /\ Config(q) # c.config
  <2>1. at[q] = "check" /\ "run" \in Rest(todo[q])
    BY <1>4 DEF Identity
  <2>2. CASE q # p
    BY <1>1, <2>1, <2>2, OthersKept
  <2>3. CASE q = p
    <3> DEFINE f == Head(todo[p])
    <3>1. f \in Plain /\ HasContent(f, c.config) /\ f \notin Receipts
      <4>1. f \in Plain
        BY <1>4, <2>1, <2>3, JobFiles
      <4> QED BY <1>4, <4>1, FileSets DEF Identity
    <3>2. f # "location"
      <4>1. /\ todo[p] \in Seq(Files) /\ todo[p] # <<>> /\ Once(todo[p])
            /\ todo[p][Len(todo[p])] = "location"
        BY <1>1, <2>1, <2>3, AtFile, FileSets
      <4>2. f = todo[p][1] /\ Len(todo[p]) \in Nat \ {0}
        BY <4>1
      <4>3. ASSUME f = "location"
            PROVE  FALSE
        <5>1. Len(todo[p]) = 1
          <6> DEFINE s == todo[p]
          <6>1. /\ 1 \in 1..Len(s) /\ Len(s) \in 1..Len(s)
                /\ s[1] = s[Len(s)]
            BY <4>1, <4>2, <4>3
          <6>2. Once(s)
            BY <4>1
          <6> HIDE DEF s
          <6>3. Len(s) = 1
            BY <6>1, <6>2 DEF Once
          <6> QED BY <6>3 DEF s
        <5>2. Rest(todo[p]) = {"location"}
          BY <4>2, <4>3, <5>1 DEF Rest
        <5> QED BY <2>1, <2>3, <5>2
      <4> QED BY <4>3
    <3>3. CheckFile(p)
      <4>1. ~Begin(p)
        BY <2>1, <2>3 DEF Begin
      <4>2. ~OtherStep(p)
        BY <1>1, <2>1, <2>3, OthersAreQuiet DEF QuietMove, Types, Ended
      <4> QED BY <2>1, <2>3, <4>1, <4>2
              DEF FileStep, RecheckReceipt, OpenTemp, WriteTemp, ReplaceFile
    <3>4. ~Raise(p)
      BY <1>1, <2>3 DEF Raise, Goto, Types, Ended
    <3>5. Holds(f, Wanted(p, f)) /\ Advance(p)
      BY <3>1, <3>2, <3>3, <3>4 DEF CheckFile, HasContent
    <3>6. Wanted(p, f) = Content(f, Config(p))
      BY <2>1, <2>3, <3>1, JobAtFile
    <3>7. f # "run"
      <4>1. ASSUME f = "run"
            PROVE  FALSE
        <5>1. f \notin Shared
          BY <4>1, ConstantsAssumption
        <5>2. \A x, y : <<x>> = <<y>> => x = y
          OBVIOUS
        <5>3. Content(f, Config(p)) = <<Config(p)>> /\ Content(f, c.config) = <<c.config>>
          BY <5>1 DEF Content
        <5>4. Wanted(p, f) \in {Partial, Content(f, c.config)}
          BY <3>1, <3>5 DEF Holds, HasContent
        <5>5. Wanted(p, f) # Partial
          BY WantedIsWhole
        <5> QED BY <1>4, <2>3, <3>6, <5>2, <5>3, <5>4, <5>5
      <4> QED BY <4>1
    <3>8. PICK a : AdvancesTo(p, a)
      BY <2>1, <2>3, <3>5, Advanced
    <3>9. "run" \in Rest(Tail(todo[p]))
      BY <2>1, <2>3, <3>7, <3>8 DEF AdvancesTo
    <3>10. Tail(todo[p]) # <<>>
      <4>1. Rest(<<>>) = {}
        BY DEF Rest
      <4> QED BY <3>9, <4>1
    <3>11. a = "check"
      BY <1>1, <2>3, <3>8, <3>10 DEF AdvancesTo
    <3>12. at'[p] = "check" /\ todo'[p] = Tail(todo[p])
      BY <3>8, <3>11 DEF AdvancesTo, Types
    <3> QED BY <2>3, <3>9, <3>12
  <2> QED BY <2>2, <2>3
<1> QED BY <1>1, <1>2, <1>3, <1>4

LEMMA IdentityStep ==
  ASSUME Types, Lists, Names, Identity, NEW p \in Procs,
         Begin(p) \/ FileStep(p) \/ OtherStep(p)
  PROVE  Identity'
<1>1. \A q \in Procs : Config(q)' = Config(q)
  BY PlanKept DEF Config
<1>2. Jobs' \subseteq Procs
  BY JobsAfter
<1>3. \A q, r \in Jobs' : Config(q)' = Config(r)'
  BY <1>1, <1>2, Together
<1>4. ASSUME NEW q \in Jobs', NEW f \in Plain \ Rest(todo'[q])
      PROVE  path'[f] # None /\ text'[path'[f]] \in {Partial, Content(f, Config(q)')}
  BY <1>1, <1>2, PassedStep
<1>5. ASSUME NEW q \in Jobs', at'[q] \in {"write", "replace"}
      PROVE  LET f == Head(todo'[q]) IN
               /\ text'[handle'[q]] \in {Partial, Content(f, Config(q)')}
               /\ temp'[f] # None => text'[temp'[f]] \in {Partial, Content(f, Config(q)')}
  BY <1>1, <1>2, <1>5, DraftsStep
<1>6. \A c \in steps', f \in Plain :
        path'[f] # None /\ text'[path'[f]] \in {Partial, Content(f, c.config)}
  BY SavedStep
<1>7. \A c \in steps', q \in Jobs' :
        Config(q)' = c.config \/ (at'[q] = "check" /\ "run" \in Rest(todo'[q]))
  BY <1>1, <1>2, StrangersStep
<1> QED BY <1>3, <1>4, <1>5, <1>6, <1>7 DEF Identity, HasContent


-----------------------------------------------------------------------------
(* Evaluation.                                                             *)

LEMMA TotalNext ==
  ASSUME NEW v, NEW n \in Nat, \A i \in 1..(n + 1) : v[i] \in Int
  PROVE  Total(v, n + 1) = Total(v, n) + v[n + 1] /\ Total(v, n) \in Int
<1>1. IsFiniteSet(1..(n + 1)) /\ IsFiniteSet(1..n)
  BY FS_Interval
<1>2. n + 1 \in 1..(n + 1) /\ (1..(n + 1)) \ {n + 1} = 1..n /\ v[n + 1] \in Int
  OBVIOUS
<1>3. \A i \in 1..n : v[i] \in Int
  OBVIOUS
<1>4. SumOf(v, 1..(n + 1)) = v[n + 1] + SumOf(v, (1..(n + 1)) \ {n + 1})
  BY <1>1, <1>2, SumRemove
<1>5. SumOf(v, 1..n) \in Int
  BY <1>1, <1>3, SumInteger
<1>6. Total(v, n + 1) = SumOf(v, 1..(n + 1)) /\ Total(v, n) = SumOf(v, 1..n)
  BY DEF Total, SumOf
<1> QED
  <2>1. SumOf(v, 1..(n + 1)) = v[n + 1] + SumOf(v, 1..n)
    BY <1>2, <1>4
  <2> QED BY <1>2, <1>5, <1>6, <2>1

LEMMA MetricStart ==
  ASSUME NEW data
  PROVE  Metric(data, 0) = <<0, 0, 0>>
<1>1. ASSUME NEW v
      PROVE  Total(v, 0) = 0
  <2>1. 1..0 = {}
    OBVIOUS
  <2>2. Total(v, 0) = SumOf(v, {})
    BY <2>1 DEF Total, SumOf
  <2> QED BY <2>2, SumEmpty
<1> QED BY <1>1 DEF Metric

(* One batch more.                                                         *)
LEMMA MetricNext ==
  ASSUME NEW data \in Seq(Batches), NEW t \in Tallies, t.batches < Len(data),
         Metrics(t) = Metric(data, t.batches), NEW u, u = Accumulate(t, data[t.batches + 1])
  PROVE  u \in Tallies /\ u.batches = t.batches + 1 /\ Metrics(u) = Metric(data, u.batches)
<1> DEFINE n == t.batches
           b == data[n + 1]
           s == [i \in DOMAIN data |-> data[i].samples]
           m == [i \in DOMAIN data |-> data[i].num]
           d == [i \in DOMAIN data |-> data[i].den]
<1>1. n \in Nat /\ Len(data) \in Nat /\ DOMAIN data = 1..Len(data) /\ n + 1 <= Len(data)
  BY DEF Tallies
<1>2. \A i \in 1..(n + 1) : i \in DOMAIN data /\ data[i] \in Batches
  BY <1>1
<1>3. \A i \in 1..(n + 1) : s[i] = data[i].samples /\ m[i] = data[i].num /\ d[i] = data[i].den
  BY <1>2
<1>4. \A i \in 1..(n + 1) : s[i] \in Int /\ m[i] \in Int /\ d[i] \in Int
  BY <1>2, <1>3 DEF Batches
<1>5. n + 1 \in 1..(n + 1)
  BY <1>1
<1>6. /\ u.samples = t.samples + b.samples /\ u.num = t.num + b.num /\ u.den = t.den + b.den
      /\ u.batches = n + 1 /\ u \in Tallies
  <2>1. b \in Batches
    BY <1>2, <1>5
  <2> HIDE DEF b, n
  <2>2. u = [samples |-> t.samples + b.samples, num |-> t.num + b.num,
             den |-> t.den + b.den, batches |-> n + 1]
    BY DEF Accumulate, b, n
  <2>3. t.samples \in Nat /\ t.num \in Int /\ t.den \in Nat /\ n \in Nat
    BY <1>1 DEF Tallies
  <2>4. b.samples \in Nat /\ b.num \in Int /\ b.den \in Nat
    BY <2>1 DEF Batches
  <2> QED BY <2>2, <2>3, <2>4 DEF Tallies
<1>7. <<t.samples, t.num, t.den>> = <<Total(s, n), Total(m, n), Total(d, n)>>
  BY DEF Metrics, Metric
<1>8. t.samples = Total(s, n) /\ t.num = Total(m, n) /\ t.den = Total(d, n)
  BY <1>7
<1> HIDE DEF n, s, m, d, b
<1>9. /\ Total(s, n + 1) = Total(s, n) + s[n + 1]
      /\ Total(m, n + 1) = Total(m, n) + m[n + 1]
      /\ Total(d, n + 1) = Total(d, n) + d[n + 1]
  BY <1>1, <1>4, TotalNext
<1>10. s[n + 1] = b.samples /\ m[n + 1] = b.num /\ d[n + 1] = b.den
  BY <1>3, <1>5 DEF b
<1>11. u.samples = Total(s, n + 1) /\ u.num = Total(m, n + 1) /\ u.den = Total(d, n + 1)
  BY <1>6, <1>8, <1>9, <1>10
<1> QED BY <1>6, <1>11 DEF Metrics, Metric, s, m, d, n

(* The part of one evaluation.                                             *)
Evaluated(asked, data, t, a) ==
  /\ t.batches <= asked /\ t.batches <= Len(data)
  /\ Metrics(t) = Metric(data, t.batches)
  /\ a \in {"idle", "load"} => t.batches = 0
  /\ a \in {"check", "done"} \cup Window => t.batches = asked

LEMMA TotalsMoved ==
  ASSUME Types, Evaluations, NEW p \in Evaluators, Begin(p) \/ FileStep(p) \/ OtherStep(p), Lists
  PROVE  Evaluated(plan[p].asked, plan[p].data, totals'[p], at'[p])
<1>1. /\ p \in Procs /\ plan[p].kind = "evaluate"
      /\ Evaluated(plan[p].asked, plan[p].data, totals[p], at[p])
  BY DEF Evaluated, Evaluations, Evaluators
<1>2. CASE Begin(p)
  <2>1. at[p] = "idle" /\ at'[p] = "load" /\ totals' = totals
    BY <1>1, <1>2 DEF Begin, Goto, Types
  <2> QED BY <1>1, <2>1 DEF Evaluated, Window
<1>3. CASE FileStep(p)
  <2>1. totals' = totals /\ at[p] \in {"check"} \cup Window
    BY <1>3 DEF FileStep, CheckFile, RecheckReceipt, OpenTemp, WriteTemp, ReplaceFile, Window
  <2>2. at'[p] \notin {"idle", "load"}
    <3>1. Advance(p) => \E a : a \notin {"idle", "load"} /\ at' = [at EXCEPT ![p] = a]
      <4>1. ASSUME Advance(p)
            PROVE  \E a : a \notin {"idle", "load"} /\ at' = [at EXCEPT ![p] = a]
        <5>1. PICK a : AdvancesTo(p, a)
          BY <1>1, <2>1, <4>1, Advanced
        <5> QED BY <5>1 DEF AdvancesTo
      <4> QED BY <4>1
    <3>2. \E a : a \notin {"idle", "load"} /\ at' = [at EXCEPT ![p] = a]
      <4> DEFINE Moves(a) == at' = [at EXCEPT ![p] = a]
      <4>1. Advance(p) \/ Moves("failed") \/ Moves("open") \/ Moves("recheck")
              \/ Moves("write") \/ Moves("replace")
        BY <1>3 DEF FileStep, CheckFile, RecheckReceipt, OpenTemp, WriteTemp, ReplaceFile,
                    Goto, Raise
      <4> QED BY <3>1, <4>1
    <3> QED BY <1>1, <3>2 DEF Types
  <2>3. totals[p].batches = plan[p].asked
    BY <1>1, <2>1 DEF Evaluated
  <2> QED BY <1>1, <2>1, <2>2, <2>3 DEF Evaluated
<1>4. CASE OtherStep(p)
  <2>1. at[p] \in {"load", "batch"} \/ Kill(p) \/ OperationRaises(p)
    BY <1>1, <1>4, Kinds
       DEF OtherStep, StartTraining, SaveCheckpoint, LoadModel, EvaluateBatch, ComputeMetrics,
           CheckTarget, WritePayload, WriteExportManifest, PublishExport, ImportArtifact
  <2>2. CASE LoadModel(p)
    <3>1. totals' = totals /\ at'[p] \in {"batch", "failed"}
      BY <1>1, <2>2 DEF LoadModel, Goto, Raise, Types
    <3> QED BY <1>1, <3>1 DEF Evaluated, Window
  <2>3. CASE Kill(p) \/ OperationRaises(p)
    <3>1. totals' = totals /\ at'[p] \in {"killed", "failed"}
      BY <1>1, <2>3 DEF Kill, OperationRaises, Goto, Raise, Types
    <3> QED BY <1>1, <3>1 DEF Evaluated, Window
  <2>4. CASE ComputeMetrics(p)
    <3>1. totals' = totals /\ at'[p] \in {"check", "failed"} /\ totals[p].batches = plan[p].asked
      BY <1>1, <2>4 DEF ComputeMetrics, Goto, Types
    <3> QED BY <1>1, <3>1 DEF Evaluated, Window
  <2>5. CASE EvaluateBatch(p)
    <3>1. CASE totals' = totals
      <4>1. at[p] = "batch" /\ at'[p] \in {"batch", "failed"}
        BY <1>1, <2>5 DEF EvaluateBatch, Goto, Raise, Types
      <4> QED BY <1>1, <3>1, <4>1 DEF Evaluated, Window
    <3>2. CASE totals' # totals
      <4>1. /\ at[p] = "batch" /\ at' = at
            /\ totals[p].batches < plan[p].asked /\ totals[p].batches < Len(plan[p].data)
            /\ totals' = [totals EXCEPT ![p] = Accumulate(@, plan[p].data[@.batches + 1])]
        BY <2>5, <3>2 DEF EvaluateBatch
      <4> DEFINE t == totals[p]
                 u == Accumulate(t, plan[p].data[t.batches + 1])
      <4>2. t \in Tallies /\ totals'[p] = u
        BY <1>1, <4>1 DEF Types
      <4>3. plan[p].data \in Seq(Batches) /\ plan[p].asked \in Nat
        BY <1>1, ScenariosAssumption DEF Types, Procs
      <4>4. Metrics(t) = Metric(plan[p].data, t.batches) /\ t.batches < Len(plan[p].data)
        BY <1>1, <4>1 DEF Evaluated
      <4>5. u.batches = t.batches + 1 /\ Metrics(u) = Metric(plan[p].data, u.batches)
        <5> HIDE DEF t
        <5> QED BY <4>2, <4>3, <4>4, MetricNext
      <4>6. t.batches \in Nat /\ Len(plan[p].data) \in Nat
        BY <4>2, <4>3 DEF Tallies
      <4>7. u.batches <= plan[p].asked /\ u.batches <= Len(plan[p].data)
        <5>1. t.batches < plan[p].asked
          BY <4>1
        <5> HIDE DEF t, u
        <5> QED BY <4>3, <4>4, <4>5, <4>6, <5>1
      <4> QED BY <4>1, <4>2, <4>5, <4>7 DEF Evaluated, Window
    <3> QED BY <3>1, <3>2
  <2> QED BY <1>4, <2>1, <2>2, <2>3, <2>4, <2>5
          DEF OtherStep, StartTraining, SaveCheckpoint, CheckTarget, WritePayload,
              WriteExportManifest, PublishExport, ImportArtifact
<1> QED BY <1>2, <1>3, <1>4

(* A receipt no other process was writing holds what its evaluation        *)
(* returned.                                                               *)
LEMMA ReceiptWritten ==
  ASSUME Types, Lists, Names, Uncontended, Evaluations, NEW p \in Evaluators,
         Begin(p) \/ FileStep(p) \/ OtherStep(p), at'[p] = "done",
         NEW r, r = plan[p].receipt, r \notin contended'
  PROVE  path'[r] # None /\ text'[path'[r]] = Metrics(totals'[p])
<1>1. p \in Procs /\ plan[p].kind = "evaluate" /\ r \in Receipts /\ r \in Files /\ r \in WriteOnce
  BY ScenariosAssumption, FileSets DEF Evaluators, Types, Procs, WriteOnce
<1>2. FileStep(p)
  <2>1. ~Begin(p)
    BY <1>1 DEF Begin, Goto, Types
  <2>2. ~OtherStep(p)
    BY <1>1, OthersAreQuiet DEF QuietMove, Types
  <2> QED BY <2>1, <2>2
<1>3. at[p] \in {"check"} \cup Window
  BY <1>2 DEF FileStep, CheckFile, RecheckReceipt, OpenTemp, WriteTemp, ReplaceFile, Window
<1>4. Head(todo[p]) = r
  BY <1>1, <1>3, AtFile
<1>5. totals' = totals /\ Wanted(p, r) = Metrics(totals[p])
  BY <1>1, <1>2 DEF FileStep, CheckFile, RecheckReceipt, OpenTemp, WriteTemp, ReplaceFile, Wanted
<1>6. r \notin contended
  BY OtherFiles, <1>1
<1>7. CASE CheckFile(p)
  <2>1. UNCHANGED <<path, text>> /\ ~Goto(p, "recheck") /\ ~Goto(p, "open") /\ ~Raise(p)
    BY <1>1, <1>7 DEF CheckFile, Goto, Raise, Types
  <2>2. Holds(r, Wanted(p, r))
    BY <1>4, <1>7, <2>1 DEF CheckFile
  <2> QED BY <1>5, <2>1, <2>2 DEF Holds
<1>8. ASSUME at[p] \in Window
      PROVE  Alone(r, p)
  <2>1. p \in Writing(r)
    BY <1>1, <1>4, <1>8 DEF Writing
  <2> QED BY <1>1, <1>6, <2>1 DEF Uncontended
<1>9. CASE RecheckReceipt(p)
  <2>1. at[p] \in Window /\ ~Goto(p, "open")
    BY <1>1, <1>9 DEF RecheckReceipt, Window, Goto, Types
  <2>2. path[r] # None
    BY <1>4, <1>9, <2>1 DEF RecheckReceipt
  <2> QED BY <1>1, <1>8, <2>1, <2>2 DEF Alone
<1>10. CASE ReplaceFile(p)
  <2>1. at[p] = "replace" /\ at[p] \in Window /\ UNCHANGED text /\ ~Raise(p)
    BY <1>1, <1>10 DEF ReplaceFile, Window, Raise, Goto, Types
  <2>2. temp[r] # None /\ path' = [path EXCEPT ![r] = temp[r]]
    BY <1>4, <1>10, <2>1 DEF ReplaceFile
  <2>3. temp[r] = handle[p] /\ text[handle[p]] = Wanted(p, r)
    BY <1>8, <2>1 DEF Alone
  <2>4. path'[r] = temp[r]
    BY <1>1, <2>2 DEF Types
  <2> QED BY <1>5, <2>1, <2>2, <2>3, <2>4
<1>11. CASE OpenTemp(p) \/ WriteTemp(p)
  <2>1. FALSE
    BY <1>1, <1>11 DEF OpenTemp, WriteTemp, Goto, Types
  <2> QED BY <2>1
<1> QED BY <1>2, <1>7, <1>9, <1>10, <1>11 DEF FileStep

LEMMA EvaluationsStep ==
  ASSUME Types, Lists, Names, Uncontended, Evaluations, NEW p \in Procs,
         Begin(p) \/ FileStep(p) \/ OtherStep(p)
  PROVE  Evaluations'
<1>1. plan' = plan /\ Procs' = Procs /\ Evaluators' = Evaluators
  BY PlanKept DEF Evaluators
<1>2. ASSUME NEW q \in Evaluators
      PROVE  Evaluated(plan[q].asked, plan[q].data, totals'[q], at'[q])
  <2>1. CASE q = p
    BY <1>2, <2>1, TotalsMoved
  <2>2. CASE q # p
    <3>1. totals'[q] = totals[q] /\ at'[q] = at[q]
      BY <1>2, <2>2, OthersKept DEF Evaluators
    <3> QED BY <1>2, <3>1 DEF Evaluations, Evaluated
  <2> QED BY <2>1, <2>2
<1>3. ASSUME NEW q \in Evaluators, at'[q] = "done", NEW r, r = plan[q].receipt, r \notin contended'
      PROVE  path'[r] # None /\ text'[path'[r]] = Metrics(totals'[q])
  <2>1. CASE q = p
    BY <1>3, <2>1, ReceiptWritten
  <2>2. CASE q # p
    <3>1. totals'[q] = totals[q] /\ at'[q] = at[q]
      BY <2>2, OthersKept DEF Evaluators
    <3>2. r \notin contended
      BY <1>3, OtherFiles
    <3>3. path[r] # None /\ text[path[r]] = Metrics(totals[q])
      BY <1>3, <3>1, <3>2 DEF Evaluations, Holds
    <3>4. r \in WriteOnce
      BY <1>3, ScenariosAssumption DEF Evaluators, Types, Procs, WriteOnce
    <3> QED BY <1>3, <3>1, <3>3, <3>4, PublishedStays
  <2> QED BY <2>1, <2>2
<1> QED BY <1>1, <1>2, <1>3 DEF Evaluations, Evaluated, Holds, Metrics, Window

-----------------------------------------------------------------------------
(* Exports.                                                                *)

StagedAs(a, g, l, S) ==
  /\ g # None => a \in {"payload", "describe", "publish", "killed"}
  /\ a \in {"target", "payload"} => l \in S
  /\ a \in {"payload", "describe", "publish"} => g # None
  /\ a = "describe" => g.payload \in S
  /\ a = "publish" => g.digest \in S

LEMMA StepsGrow ==
  ASSUME NEW p \in Procs, Begin(p) \/ FileStep(p) \/ OtherStep(p)
  PROVE  steps \subseteq steps'
<1>1. CASE SaveCheckpoint(p)
  BY <1>1 DEF SaveCheckpoint
<1>2. CASE ~SaveCheckpoint(p)
  BY <1>2 DEF Begin, FileStep, CheckFile, RecheckReceipt, OpenTemp, WriteTemp, ReplaceFile,
              OtherStep, StartTraining, LoadModel, EvaluateBatch, ComputeMetrics, CheckTarget,
              WritePayload, WriteExportManifest, PublishExport, ImportArtifact, Kill,
              OperationRaises
<1> QED BY <1>1, <1>2

LEMMA OthersStaged ==
  ASSUME Types, NEW p \in Procs, Begin(p) \/ FileStep(p) \/ OtherStep(p), NEW q \in Procs, q # p
  PROVE  loaded'[q] = loaded[q] /\ staging'[q] = staging[q]
<1>1. loaded' = loaded \/ \E x : loaded' = [loaded EXCEPT ![p] = x]
  BY DEF Begin, FileStep, CheckFile, RecheckReceipt, OpenTemp, WriteTemp, ReplaceFile,
         OtherStep, StartTraining, SaveCheckpoint, LoadModel, EvaluateBatch, ComputeMetrics,
         CheckTarget, WritePayload, WriteExportManifest, PublishExport, ImportArtifact, Kill,
         OperationRaises
<1>2. staging' = staging \/ \E x : staging' = [staging EXCEPT ![p] = x]
  BY DEF Begin, FileStep, CheckFile, RecheckReceipt, OpenTemp, WriteTemp, ReplaceFile,
         OtherStep, StartTraining, SaveCheckpoint, LoadModel, EvaluateBatch, ComputeMetrics,
         CheckTarget, WritePayload, WriteExportManifest, PublishExport, ImportArtifact, Kill,
         OperationRaises
<1> QED BY <1>1, <1>2 DEF Types

LEMMA StagedStep ==
  ASSUME Types, Lists, Exporting, NEW p \in Procs, Begin(p) \/ FileStep(p) \/ OtherStep(p)
  PROVE  StagedAs(at'[p], staging'[p], loaded'[p], steps')
<1>0. StagedAs(at[p], staging[p], loaded[p], steps) /\ steps \subseteq steps'
  BY StepsGrow DEF Exporting, Staged, StagedAs
<1>1. CASE Begin(p)
  <2>1. at[p] = "idle" /\ at'[p] \in {"check", "import", "load"}
        /\ UNCHANGED <<loaded, staging>>
    <3>1. at[p] = "idle" /\ UNCHANGED <<loaded, staging>>
      BY <1>1 DEF Begin
    <3>2. at'[p] = CASE plan[p].kind = "train"  -> "check"
                     [] plan[p].kind = "import" -> "import"
                     [] OTHER                   -> "load"
      BY <1>1 DEF Begin, Goto, Types
    <3> QED BY <3>1, <3>2
  <2> QED BY <1>0, <2>1 DEF StagedAs
<1>2. CASE FileStep(p)
  <2>1. UNCHANGED <<loaded, staging>> /\ at[p] \in {"check"} \cup Window
    BY <1>2 DEF FileStep, CheckFile, RecheckReceipt, OpenTemp, WriteTemp, ReplaceFile, Window
  <2>2. at'[p] \in {"check", "start", "done"} \cup Window \cup {"failed"}
    <3>1. ASSUME Advance(p)
          PROVE  at'[p] \in {"check", "start", "done"}
      <4>1. PICK a : AdvancesTo(p, a)
        BY <2>1, <3>1, Advanced
      <4> QED BY <4>1 DEF AdvancesTo, Types
    <3> DEFINE Moves(a) == at' = [at EXCEPT ![p] = a]
    <3>2. Advance(p) \/ Moves("failed") \/ Moves("open") \/ Moves("recheck")
            \/ Moves("write") \/ Moves("replace")
      BY <1>2 DEF FileStep, CheckFile, RecheckReceipt, OpenTemp, WriteTemp, ReplaceFile,
                  Goto, Raise
    <3> QED BY <3>1, <3>2 DEF Types, Window
  <2>3. staging[p] = None
    BY <1>0, <2>1 DEF StagedAs, Window
  <2> QED BY <2>1, <2>2, <2>3 DEF StagedAs, Window
<1>3. CASE StartTraining(p) \/ SaveCheckpoint(p) \/ EvaluateBatch(p) \/ ComputeMetrics(p)
  <2>1. /\ staging' = staging /\ at[p] \in {"start", "training", "batch"}
        /\ at'[p] \in {"training", "batch", "failed", "done", "check"}
    BY <1>3 DEF StartTraining, SaveCheckpoint, EvaluateBatch, ComputeMetrics, Goto, Raise, Types
  <2> QED BY <1>0, <2>1 DEF StagedAs
<1>4. CASE LoadModel(p)
  <2>1. /\ at[p] = "load" /\ UNCHANGED <<staging, steps>>
        /\ \/ at'[p] \in {"batch", "target"} /\ loaded'[p] \in steps
           \/ at'[p] = "failed"
    <3>1. /\ at[p] = "load" /\ UNCHANGED <<staging, steps>>
          /\ \/ \E c \in steps : /\ loaded' = [loaded EXCEPT ![p] = c]
                                 /\ at' = [at EXCEPT ![p] = IF plan[p].kind = "evaluate"
                                                            THEN "batch" ELSE "target"]
             \/ at' = [at EXCEPT ![p] = "failed"]
      BY <1>4 DEF LoadModel, Readable, Goto, Raise
    <3> QED BY <3>1 DEF Types
  <2> QED BY <1>0, <2>1 DEF StagedAs
<1>5. CASE CheckTarget(p)
  <2>1. /\ at[p] = "target" /\ UNCHANGED <<loaded, steps>>
        /\ \/ at'[p] = "payload" /\ staging'[p] = [payload |-> None, digest |-> None]
           \/ at'[p] = "failed" /\ staging' = staging
    BY <1>5 DEF CheckTarget, Goto, Raise, Types
  <2>2. [payload |-> None, digest |-> None] # None
    <3>1. [payload |-> None, digest |-> None] \in Directories
      BY DEF Directories
    <3> QED BY <3>1, NoneAssumption
  <2> QED BY <1>0, <2>1, <2>2 DEF StagedAs
<1>6. CASE WritePayload(p)
  <2> DEFINE d == [payload |-> loaded[p], digest |-> None]
  <2>1. /\ at[p] = "payload" /\ UNCHANGED <<loaded, steps>>
        /\ at'[p] = "describe" /\ staging'[p] = d
    BY <1>6 DEF WritePayload, Goto, Types
  <2>2. d # None
    <3>1. d \in Directories
      BY DEF Directories, Types
    <3> QED BY <3>1, NoneAssumption
  <2>3. d.payload \in steps
    BY <1>0, <2>1 DEF StagedAs
  <2> QED BY <2>1, <2>2, <2>3 DEF StagedAs
<1>7. CASE WriteExportManifest(p)
  <2> DEFINE m == staging[p].payload
             d == [payload |-> m, digest |-> m]
  <2>1. /\ at[p] = "describe" /\ UNCHANGED <<loaded, steps>>
        /\ at'[p] = "publish" /\ staging'[p] = d
    BY <1>7 DEF WriteExportManifest, Goto, Types
  <2>2. m \in steps
    BY <1>0, <2>1 DEF StagedAs
  <2>3. d # None
    <3>1. m \in Checkpoints
      BY <2>2 DEF Types
    <3>2. d \in Directories
      BY <3>1 DEF Directories
    <3> QED BY <3>2, NoneAssumption
  <2> QED BY <2>1, <2>2, <2>3 DEF StagedAs
<1>8. CASE PublishExport(p)
  <2>1. staging'[p] = None /\ at'[p] \in {"done", "failed"}
    BY <1>8 DEF PublishExport, Goto, Raise, Types
  <2> QED BY <2>1 DEF StagedAs
<1>9. CASE ImportArtifact(p)
  <2>1. at[p] = "import" /\ staging' = staging /\ at'[p] \in {"done", "failed"}
    BY <1>9 DEF ImportArtifact, Goto, Raise, Types
  <2> QED BY <1>0, <2>1 DEF StagedAs
<1>10. CASE Kill(p)
  <2>1. at'[p] = "killed"
    BY <1>10 DEF Kill, Goto, Types
  <2> QED BY <2>1 DEF StagedAs
<1>11. CASE OperationRaises(p)
  <2>1. staging'[p] = None /\ at'[p] = "failed"
    BY <1>11 DEF OperationRaises, Goto, Raise, Types
  <2> QED BY <2>1 DEF StagedAs
<1> QED BY <1>1, <1>2, <1>3, <1>4, <1>5, <1>6, <1>7, <1>8, <1>9, <1>10, <1>11 DEF OtherStep

(* What an import accepts is intact, so its payload is the checkpoint whose *)
(* digest the export has.                                                  *)
LEMMA Imported ==
  ASSUME Types, Lists, Exporting, NEW p \in Procs, Begin(p) \/ FileStep(p) \/ OtherStep(p),
         plan[p].kind = "import", at'[p] = "done"
  PROVE  loaded'[p] \in steps
<1>1. ImportArtifact(p)
  <2>1. at[p] \in PointsOf("import")
    BY Kinds
  <2>2. ~Begin(p)
    BY DEF Begin, Goto, Types
  <2>3. ~FileStep(p)
    BY <2>1 DEF PointsOf, Ended, FileStep, CheckFile, RecheckReceipt, OpenTemp, WriteTemp,
                ReplaceFile
  <2>4. at[p] \notin {"idle"} \cup Ended
    BY <2>2, <2>3, AllProceed DEF Proceeds
  <2>5. at[p] = "import"
    BY <2>1, <2>4 DEF PointsOf
  <2>6. ~Kill(p) /\ ~OperationRaises(p)
    BY DEF Kill, OperationRaises, Goto, Raise, Types
  <2> QED BY <2>2, <2>3, <2>5, <2>6
          DEF OtherStep, StartTraining, SaveCheckpoint, LoadModel, EvaluateBatch, ComputeMetrics,
              CheckTarget, WritePayload, WriteExportManifest, PublishExport
<1>2. ~Raise(p)
  BY DEF Raise, Goto, Types
<1>3. /\ Intact(plan[p].place)
      /\ loaded' = [loaded EXCEPT ![p] = exports[plan[p].place].payload]
  BY <1>1, <1>2 DEF ImportArtifact
<1>4. plan[p].place \in Places
  BY ScenariosAssumption DEF Types, Procs
<1>5. exports[plan[p].place].payload \in steps
  BY <1>3, <1>4 DEF Intact, Exporting
<1> QED BY <1>3, <1>5 DEF Types

LEMMA Published ==
  ASSUME Types, Exporting, NEW p \in Procs, Begin(p) \/ FileStep(p) \/ OtherStep(p),
         NEW d \in Places
  PROVE  /\ exports'[d] # None => exports'[d].digest \in steps'
         /\ exports[d] # None => exports'[d] = exports[d]
<1>1. exports[d] # None => exports[d].digest \in steps'
  BY StepsGrow DEF Exporting
<1>2. CASE PublishExport(p)
  <2>1. \/ exports' = exports
        \/ /\ exports[plan[p].place] = None
           /\ exports' = [exports EXCEPT ![plan[p].place] = staging[p]]
    BY <1>2 DEF PublishExport
  <2>2. staging[p].digest \in steps /\ steps' = steps
    BY <1>2 DEF PublishExport, Exporting, Staged
  <2> QED BY <1>1, <2>1, <2>2 DEF Types
<1>3. CASE ~PublishExport(p)
  <2>1. exports' = exports
    BY <1>3 DEF Begin, FileStep, CheckFile, RecheckReceipt, OpenTemp, WriteTemp, ReplaceFile,
                OtherStep, StartTraining, SaveCheckpoint, LoadModel, EvaluateBatch,
                ComputeMetrics, CheckTarget, WritePayload, WriteExportManifest, ImportArtifact,
                Kill, OperationRaises
  <2> QED BY <1>1, <2>1
<1> QED BY <1>2, <1>3

LEMMA ExportingStep ==
  ASSUME Types, Lists, Exporting, NEW p \in Procs, Begin(p) \/ FileStep(p) \/ OtherStep(p)
  PROVE  Exporting'
<1>0. plan' = plan /\ Procs' = Procs /\ steps \subseteq steps'
  BY PlanKept, StepsGrow
<1>1. ASSUME NEW q \in Procs
      PROVE  /\ StagedAs(at'[q], staging'[q], loaded'[q], steps')
             /\ plan[q].kind = "import" /\ at'[q] = "done" => loaded'[q] \in steps'
  <2>1. CASE q = p
    BY <1>0, <2>1, StagedStep, Imported
  <2>2. CASE q # p
    <3>1. /\ loaded'[q] = loaded[q] /\ staging'[q] = staging[q] /\ at'[q] = at[q]
      BY <1>1, <2>2, OthersStaged, OthersKept
    <3>2. Staged(q) /\ (plan[q].kind = "import" /\ at[q] = "done" => loaded[q] \in steps)
      BY <1>1 DEF Exporting
    <3> QED BY <1>0, <3>1, <3>2 DEF Staged, StagedAs
  <2> QED BY <2>1, <2>2
<1>2. \A d \in Places : exports'[d] # None => exports'[d].digest \in steps'
  BY Published
<1> QED BY <1>0, <1>1, <1>2 DEF Exporting, Staged, StagedAs

-----------------------------------------------------------------------------
(* Damage is to the payload of an export.                                  *)

LEMMA DamageKeeps ==
  ASSUME Types, Damage
  PROVE  /\ UNCHANGED <<plan, at, fileVars, steps, loaded, totals, staging>>
         /\ \A d \in Places :
              /\ exports'[d] # None <=> exports[d] # None
              /\ exports[d] # None => exports'[d].digest = exports[d].digest
<1>1. PICK e \in Places : /\ exports[e] # None
                          /\ exports' = [exports EXCEPT ![e] = [payload |-> DamagedPayload,
                                                                digest |-> exports[e].digest]]
  BY DEF Damage
<1>2. UNCHANGED <<plan, at, fileVars, steps, loaded, totals, staging>>
  BY DEF Damage
<1> DEFINE broken == [payload |-> DamagedPayload, digest |-> exports[e].digest]
<1>3. broken # None
  <2>1. exports[e] \in Directories
    BY <1>1 DEF Types
  <2>2. broken \in Directories
    BY <2>1 DEF Directories
  <2> QED BY <2>2, NoneAssumption
<1>4. broken.digest = exports[e].digest
  OBVIOUS
<1>5. exports' = [exports EXCEPT ![e] = broken]
  BY <1>1
<1> HIDE DEF broken
<1> QED BY <1>1, <1>2, <1>3, <1>4, <1>5 DEF Types

LEMMA RestUnchanged ==
  ASSUME UNCHANGED <<plan, at, fileVars, steps, totals>>
  PROVE  /\ Lists => Lists'
         /\ Names => Names'
         /\ Uncontended => Uncontended'
         /\ Fragments => Fragments'
         /\ Identity => Identity'
         /\ Evaluations => Evaluations'
<1>0. UNCHANGED <<plan, at, todo, handle, path, temp, text, contended, steps, totals>>
  BY DEF fileVars
<1>1. Lists => Lists'
  BY <1>0 DEF Lists, Procs
<1>2. Names => Names'
  BY <1>0 DEF Names, Opened, Procs
<1>3. Uncontended => Uncontended'
  BY <1>0 DEF Uncontended, Alone, Writing, Procs, Wanted, Metrics, Config
<1>4. Fragments => Fragments'
  BY <1>0 DEF Fragments, Holders, Procs
<1>5. Identity => Identity'
  BY <1>0 DEF Identity, Jobs, HasContent, Procs, Config
<1>6. Evaluations => Evaluations'
  BY <1>0 DEF Evaluations, Evaluators, Holds, Metrics, Procs
<1> QED BY <1>1, <1>2, <1>3, <1>4, <1>5, <1>6

LEMMA DamageInvariant ==
  ASSUME IInv, Damage
  PROVE  IInv'
<1>1. Types'
  BY DamageTypes DEF IInv
<1>2. UNCHANGED <<plan, at, fileVars, steps, loaded, totals, staging>>
  BY DamageKeeps DEF IInv
<1>3. Exporting'
  <2>1. Types /\ Exporting
    BY DEF IInv
  <2>2. UNCHANGED <<plan, at, steps, loaded, staging>>
    BY <1>2
  <2>3. \A d \in Places : exports'[d] # None => exports'[d].digest \in steps
    BY <2>1, DamageKeeps DEF Exporting
  <2> QED BY <2>1, <2>2, <2>3 DEF Exporting, Staged, Procs
<1>4. Lists' /\ Names' /\ Uncontended' /\ Fragments' /\ Identity' /\ Evaluations'
  BY <1>2, RestUnchanged DEF IInv
<1> QED BY <1>1, <1>3, <1>4 DEF IInv

LEMMA Stuttering ==
  ASSUME IInv, UNCHANGED vars
  PROVE  IInv'
<1>1. UNCHANGED <<plan, at, fileVars, steps, loaded, totals, staging, exports, faults>>
  BY DEF vars
<1>2. Types'
  <2>1. Types
    BY DEF IInv
  <2> QED BY <1>1, <2>1, TypesRest DEF Types, Procs, Inodes, fileVars
<1>3. Exporting'
  <2>1. Exporting
    BY DEF IInv
  <2> QED BY <1>1, <2>1 DEF Exporting, Staged, Procs
<1>4. Lists' /\ Names' /\ Uncontended' /\ Fragments' /\ Identity' /\ Evaluations'
  BY <1>1, RestUnchanged DEF IInv
<1> QED BY <1>2, <1>3, <1>4 DEF IInv

-----------------------------------------------------------------------------
(* The invariant, and what follows from it.                                *)

LEMMA Initially ==
  ASSUME Init
  PROVE  IInv
<1>1. /\ plan \in Scenarios /\ Procs = DOMAIN plan
      /\ \A p \in Procs : /\ at[p] = "idle" /\ todo[p] = <<>> /\ handle[p] = None
                          /\ loaded[p] = None /\ totals[p] = NoTotals /\ staging[p] = None
      /\ \A f \in Files : path[f] = None /\ temp[f] = None
      /\ \A d \in Places : exports[d] = None
      /\ steps = {} /\ contended = {}
  BY DEF Init, Procs
<1>2. Types
  <2>1. /\ at \in [Procs -> Points] /\ \A p \in Procs : at[p] \in PointsOf(plan[p].kind)
    BY <1>1 DEF Init, Points, PointsOf, Procs
  <2>2. NoTotals \in Tallies
    BY DEF NoTotals, Tallies
  <2>3. /\ todo \in [Procs -> Seq(Files)] /\ handle \in [Procs -> Inodes \cup {None}]
        /\ path \in [Files -> Inodes \cup {None}] /\ temp \in [Files -> Inodes \cup {None}]
        /\ DOMAIN text = Inodes
    BY DEF Init, Procs
  <2>4. /\ steps \in SUBSET Checkpoints /\ loaded \in [Procs -> Checkpoints \cup {None}]
        /\ totals \in [Procs -> Tallies]
        /\ staging \in [Procs -> Directories \cup {None}]
        /\ exports \in [Places -> Directories \cup {None}]
        /\ contended \in SUBSET Files /\ faults \in Nat
    BY <2>2 DEF Init, Procs
  <2> QED BY <1>1, <2>1, <2>3, <2>4 DEF Types
<1>3. Lists
  BY <1>1 DEF Lists, WellListed, Window
<1>4. Names
  <2>1. None \notin Inodes
    BY <1>1, NoneAssumption DEF Inodes
  <2>2. \A p \in Procs, f \in Files : <<p, f>> # None
    BY <2>1 DEF Inodes, Procs
  <2> QED BY <1>1, <2>2 DEF Names
<1>5. Uncontended
  BY <1>1 DEF Uncontended, Writing, Window
<1>6. Fragments
  BY <1>1 DEF Fragments
<1>7. Identity
  BY <1>1 DEF Identity, Jobs
<1>8. Evaluations
  <2>1. ASSUME NEW p \in Evaluators
        PROVE  /\ p \in Procs /\ plan[p].asked \in Nat /\ Len(plan[p].data) \in Nat
    BY <1>1, <2>1, ScenariosAssumption DEF Evaluators, Procs
  <2>2. NoTotals.batches = 0 /\ Metrics(NoTotals) = <<0, 0, 0>>
    BY DEF NoTotals, Metrics
  <2> QED BY <1>1, <2>1, <2>2, MetricStart DEF Evaluations, Evaluators, Window
<1>9. Exporting
  BY <1>1 DEF Exporting, Staged
<1> QED BY <1>2, <1>3, <1>4, <1>5, <1>6, <1>7, <1>8, <1>9 DEF IInv

LEMMA StepInvariant ==
  ASSUME IInv, NEW p \in Procs, Begin(p) \/ FileStep(p) \/ OtherStep(p)
  PROVE  IInv'
<1>1. /\ Types /\ Lists /\ Names /\ Uncontended
      /\ Fragments /\ Identity /\ Evaluations /\ Exporting
  BY DEF IInv
<1>2. Types'
  BY <1>1, QuietTypes, FileTypes
<1>3. Lists' /\ Names' /\ Uncontended'
  BY <1>1, ListsStep, NamesStep, UncontendedStep
<1>4. Fragments' /\ Identity' /\ Evaluations' /\ Exporting'
  BY <1>1, FragmentsStep, IdentityStep, EvaluationsStep, ExportingStep
<1> QED BY <1>2, <1>3, <1>4 DEF IInv

LEMMA NextInvariant ==
  ASSUME IInv, [Next]_vars
  PROVE  IInv'
<1>1. CASE Damage
  BY <1>1, DamageInvariant
<1>2. CASE \E p \in Procs : Begin(p) \/ FileStep(p) \/ OtherStep(p)
  BY <1>2, StepInvariant
<1>3. CASE UNCHANGED vars
  BY <1>3, Stuttering
<1> QED BY <1>1, <1>2, <1>3, NextSteps

(* The inductive invariant holds of every behaviour, whatever the scenario. *)
THEOREM Invariant == Spec => []IInv
<1>1. Init => IInv
  BY Initially
<1>2. IInv /\ [Next]_vars => IInv'
  BY NextInvariant
<1> QED BY <1>1, <1>2, PTL DEF Spec

LEMMA IdentityFollows ==
  ASSUME IInv
  PROVE  IdentityHolds
<1>1. Fragments /\ Identity
  BY DEF IInv
<1>2. ASSUME NEW f \in Files, path[f] # None, text[path[f]] = Partial
      PROVE  /\ f \in contended
             /\ \E p \in Procs : /\ handle[p] = path[f]
                                 /\ at[p] \in {"write", "replace", "killed", "failed"}
  <2>1. f \in contended /\ Holders(path[f]) # {}
    BY <1>1, <1>2 DEF Fragments
  <2> QED BY <2>1 DEF Holders, HeldBy, Stopped
<1>3. \A c \in steps, f \in Files \ Receipts :
        path[f] # None /\ text[path[f]] \in {Partial, Content(f, c.config)}
  BY <1>1 DEF Identity, HasContent, Plain
<1> QED BY <1>2, <1>3 DEF IdentityHolds

(* The resolved files are those of every checkpoint beside them and no      *)
(* published file is a fragment, except where two writers met.             *)
THEOREM IdentityAlways == Spec => []IdentityHolds
BY Invariant, IdentityFollows, PTL

LEMMA EvaluationFollows ==
  ASSUME IInv
  PROVE  EvaluationExact
<1>1. Evaluations
  BY DEF IInv
<1>2. ASSUME NEW p \in Procs, plan[p].kind = "evaluate", at[p] = "done"
      PROVE  /\ plan[p].asked <= Len(plan[p].data)
             /\ plan[p].receipt \notin contended =>
                  Holds(plan[p].receipt, Metric(plan[p].data, plan[p].asked))
  BY <1>1, <1>2 DEF Evaluations, Evaluators
<1> QED BY <1>2 DEF EvaluationExact

(* A receipt that evaluate() returned holds the sums over every batch it    *)
(* was asked for.                                                          *)
THEOREM EvaluationAlways == Spec => []EvaluationExact
BY Invariant, EvaluationFollows, PTL

LEMMA ExportsFollow ==
  ASSUME IInv
  PROVE  ExportsWhole
<1>1. Exporting
  BY DEF IInv
<1> QED BY <1>1 DEF Exporting, Staged, ExportsWhole

(* A published export has the digest of one checkpoint, an import accepts   *)
(* nothing else, and only a kill leaves a staging directory.               *)
THEOREM ExportsAlways == Spec => []ExportsWhole
BY Invariant, ExportsFollow, PTL

Unwritten ==
  /\ \A f \in WriteOnce \ contended' :
       path[f] # None => path'[f] = path[f] /\ text'[path[f]] = text[path[f]]
  /\ \A d \in Places :
       exports[d] # None => exports'[d] # None /\ exports'[d].digest = exports[d].digest

LEMMA StepKeepsPublished ==
  ASSUME IInv, [Next]_vars
  PROVE  [Unwritten]_vars
<1>1. /\ Types /\ Lists /\ Names /\ Uncontended /\ Exporting
  BY DEF IInv
<1>2. CASE Damage
  <2>1. UNCHANGED <<path, text>>
    BY <1>2 DEF Damage, fileVars
  <2> QED BY <1>1, <1>2, <2>1, DamageKeeps DEF Unwritten
<1>3. ASSUME NEW p \in Procs, Begin(p) \/ FileStep(p) \/ OtherStep(p)
      PROVE  Unwritten
  <2>1. \A f \in WriteOnce \ contended' :
          path[f] # None => path'[f] = path[f] /\ text'[path[f]] = text[path[f]]
    BY <1>1, <1>3, PublishedStays
  <2>2. \A d \in Places :
          exports[d] # None => exports'[d] # None /\ exports'[d].digest = exports[d].digest
    BY <1>1, <1>3, Published
  <2> QED BY <2>1, <2>2 DEF Unwritten
<1>4. CASE UNCHANGED vars
  BY <1>4
<1> QED BY <1>2, <1>3, <1>4, NextSteps

(* No step changes an identity file, a receipt or an export that has been   *)
(* published, where no two writers met.                                    *)
THEOREM NeverRewrites == Spec => NeverRewritten
<1>1. IInv /\ [Next]_vars => [Unwritten]_vars
  BY StepKeepsPublished
<1>2. Spec => [][Unwritten]_vars
  BY <1>1, Invariant, PTL DEF Spec
<1> QED BY <1>2 DEF Unwritten, NeverRewritten
=============================================================================
