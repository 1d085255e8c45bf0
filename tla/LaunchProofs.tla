--------------------------- MODULE LaunchProofs -----------------------------
(***************************************************************************)
(* Proofs about Launch: open engines hold their process group, closing     *)
(* them restores the process, and no rank trains on an identity the        *)
(* primary did not write, for any launch.                                  *)
(***************************************************************************)
EXTENDS Launch, SequenceTheorems, TLAPS

-----------------------------------------------------------------------------
(* The invariant.                                                          *)

Building == {"build", "wrap", "loader", "finish", "identity"}
Points   == Building \cup {"idle", "rendezvous", "killed", "absent"}

Contexts == [distributed : BOOLEAN, group : Group \cup {None}, owns : BOOLEAN,
             injected : SUBSET RankEnv]
Engines  == [engine : Nat \ {0}, context : Contexts]

Types ==
  /\ launch \in Launches
  /\ env \in [Procs -> SUBSET RankEnv]
  /\ group \in [Procs -> Group \cup {None}]
  /\ next \in [Procs -> Nat \ {0}]
  /\ at \in [Processes -> Points]
  /\ \A p \in Processes \ Procs : at[p] = "absent"
  /\ context \in [Procs -> Contexts]
  /\ open \in [Procs -> Seq(Engines)]
  /\ arrived \in [Procs -> SUBSET ((Nat \ {0}) \X {"rendezvous", "wrap"})]
  /\ identity \in [UNION {DOMAIN launch[p].engines : p \in Procs} ->
                     {"unknown", "written", "failed"}]
  /\ leaked \in SUBSET Procs

(* The contexts a process has not closed, the latest first: that of the    *)
(* engine under construction at 0, those of the open engines after it.     *)
Places(o, a) == {i \in 0..Len(o) : i = 0 => a \in Building}
Held(o, a, c) == [i \in Places(o, a) |-> IF i = 0 THEN c ELSE o[i].context]

(* Only a distributed context owns the group, and only an owner has put    *)
(* variables into the environment.                                         *)
Consistent(H) ==
  \A i \in DOMAIN H : /\ H[i].owns => H[i].distributed
                      /\ ~H[i].owns => H[i].injected = {}

(* A distributed context that is not closed has the group of the process.  *)
HasGroup(H, g) ==
  \A i \in DOMAIN H : H[i].distributed => g # None /\ H[i].group = g

(* The context that owns the group is the first distributed one: what is   *)
(* older, and closed after it, uses no group.                              *)
OwnerFirst(H) ==
  \A i, j \in DOMAIN H : H[i].owns /\ i < j => ~H[j].distributed

(* Closing them leads back to the group and the environment the process    *)
(* was started with.                                                       *)
Restores(H, g, e, l) ==
  \/ \E i \in DOMAIN H : /\ H[i].owns /\ l.host = None
                         /\ e = l.vars \cup H[i].injected
                         /\ l.vars \cap H[i].injected = {}
  \/ /\ \A i \in DOMAIN H : ~H[i].owns
     /\ g = l.host /\ e = l.vars

Sound(H, g, e, l, whole) ==
  /\ Consistent(H) /\ HasGroup(H, g) /\ OwnerFirst(H)
  /\ whole => Restores(H, g, e, l)

HeldBy(p) == Held(open[p], at[p], context[p])

(* Neither killed nor left with an engine nobody can close.                *)
Whole(p) == p \notin leaked /\ at[p] # "killed"

(* A process that waits for its group has none and knows which it wants.   *)
AtRendezvous(p) ==
  at[p] = "rendezvous" =>
    group[p] = None /\ WantedGroup(p) \in Group /\ Engine(p).backend # "single"

(* The engine under construction is one of the launch.                     *)
MakesEngine(p) ==
  at[p] \in Building \cup {"rendezvous"} => next[p] \in DOMAIN launch[p].engines

GroupInv ==
  \A p \in Procs : /\ Sound(HeldBy(p), group[p], env[p], launch[p], Whole(p))
                   /\ AtRendezvous(p) /\ MakesEngine(p)

(* Every rank has come to wrap the engine that another has behind it.      *)
Wrapped(p, e, c) ==
  c.distributed /\ WorldOf(p) > 1 => \A q \in Procs : <<e, "wrap">> \in arrived[q]

OpenInv ==
  \A p \in Procs :
    /\ \A i \in DOMAIN open[p] :
         /\ open[p][i].engine \in DOMAIN identity
         /\ identity[open[p][i].engine] = "written"
         /\ Wrapped(p, open[p][i].engine, open[p][i].context)
    /\ at[p] \in {"loader", "finish", "identity"} => Wrapped(p, next[p], context[p])

(* The primary has told nothing yet of the engines it has still to make.   *)
Announced ==
  \A p \in Procs : RankOf(p) = 0 =>
    \A i \in DOMAIN identity : identity[i] # "unknown" => i < next[p]

IInv == Types /\ GroupInv /\ OpenInv /\ Announced
-----------------------------------------------------------------------------
(* What is done to the contexts of one process.                            *)

ContextMaps == UNION {[P -> Contexts] : P \in SUBSET Nat}

(* I is H with a context before the others, with all of them moved by one, *)
(* or without its first, m, and the others moved up by s.                  *)
Begun(H, I)  == /\ 0 \notin DOMAIN H /\ DOMAIN I = DOMAIN H \cup {0}
                /\ \A i \in DOMAIN H : I[i] = H[i]
Moved(H, I)  == /\ DOMAIN I = {i \in Nat : i - 1 \in DOMAIN H}
                /\ \A i \in DOMAIN I : I[i] = H[i - 1]
Closed(H, I, m, s) ==
  /\ m \in DOMAIN H /\ s \in 0..1 /\ \A i \in DOMAIN H : m <= i
  /\ DOMAIN I = {i \in Nat : i + s \in DOMAIN H \ {m}}
  /\ \A i \in DOMAIN I : I[i] = H[i + s]

(* A context is put before the others that owns nothing and uses the group *)
(* that is there.                                                          *)
LEMMA Borrowing ==
  ASSUME NEW H \in ContextMaps, NEW I \in ContextMaps, NEW g, NEW e, NEW l, NEW whole \in BOOLEAN,
         Sound(H, g, e, l, whole), Begun(H, I),
         ~I[0].owns, I[0].injected = {}, I[0].distributed => g # None /\ I[0].group = g
  PROVE  Sound(I, g, e, l, whole)
<1> USE DEF Begun
<1>0. DOMAIN H \in SUBSET Nat /\ DOMAIN I \in SUBSET Nat
  BY DEF ContextMaps
<1>1. Consistent(I)
  BY DEF Consistent, Sound
<1>2. HasGroup(I, g)
  BY DEF HasGroup, Sound
<1>3. OwnerFirst(I)
  BY <1>0 DEF OwnerFirst, Sound
<1>4. whole => Restores(I, g, e, l)
  BY DEF Restores, Sound
<1> QED BY <1>1, <1>2, <1>3, <1>4 DEF Sound

(* A context is put before the others that made the group.                 *)
LEMMA Owning ==
  ASSUME NEW H \in ContextMaps, NEW I \in ContextMaps, NEW g, NEW e, NEW f, NEW l,
         NEW whole \in BOOLEAN,
         Sound(H, None, e, l, whole), Begun(H, I),
         I[0].owns, I[0].distributed, I[0].group = g, g # None,
         f = e \cup I[0].injected, e \cap I[0].injected = {}
  PROVE  Sound(I, g, f, l, whole)
<1> USE DEF Begun
<1>0. DOMAIN H \in SUBSET Nat /\ DOMAIN I \in SUBSET Nat
  BY DEF ContextMaps
<1>1. \A i \in DOMAIN H : ~H[i].distributed /\ ~H[i].owns
  BY DEF HasGroup, Consistent, Sound
<1>2. Consistent(I)
  BY DEF Consistent, Sound
<1>3. HasGroup(I, g)
  BY <1>1 DEF HasGroup
<1>4. OwnerFirst(I)
  BY <1>0, <1>1 DEF OwnerFirst
<1>5. ASSUME whole PROVE Restores(I, g, f, l)
  <2>1. None = l.host /\ e = l.vars
    BY <1>1, <1>5 DEF Restores, Sound
  <2> QED BY <2>1 DEF Restores
<1> QED BY <1>2, <1>3, <1>4, <1>5 DEF Sound

(* The context of the engine that opens is now the first of the open ones. *)
LEMMA Shifting ==
  ASSUME NEW H \in ContextMaps, NEW I \in ContextMaps, NEW g, NEW e, NEW l, NEW whole \in BOOLEAN,
         Sound(H, g, e, l, whole), Moved(H, I)
  PROVE  Sound(I, g, e, l, whole)
<1> USE DEF Moved
<1>0. /\ DOMAIN H \in SUBSET Nat /\ DOMAIN I \in SUBSET Nat
      /\ \A i \in DOMAIN I : i - 1 \in DOMAIN H
      /\ \A i \in DOMAIN H : i + 1 \in DOMAIN I /\ I[i + 1] = H[i]
  <2>1. DOMAIN H \in SUBSET Nat /\ DOMAIN I \in SUBSET Nat
    BY DEF ContextMaps
  <2>2. \A i \in DOMAIN I : i - 1 \in DOMAIN H
    OBVIOUS
  <2>3. ASSUME NEW i \in DOMAIN H PROVE i + 1 \in DOMAIN I /\ I[i + 1] = H[i]
    <3>1. i + 1 \in Nat /\ (i + 1) - 1 = i
      BY <2>1
    <3> QED BY <3>1
  <2> QED BY <2>1, <2>2, <2>3
<1>1. Consistent(I)
  BY <1>0 DEF Consistent, Sound
<1>2. HasGroup(I, g)
  BY <1>0 DEF HasGroup, Sound
<1>3. OwnerFirst(I)
  <2> SUFFICES ASSUME NEW i \in DOMAIN I, NEW j \in DOMAIN I, I[i].owns, i < j
               PROVE  ~I[j].distributed
    BY DEF OwnerFirst
  <2>1. i - 1 < j - 1 /\ i - 1 \in DOMAIN H /\ j - 1 \in DOMAIN H
    BY <1>0
  <2> QED BY <2>1 DEF OwnerFirst, Sound
<1>4. ASSUME whole PROVE Restores(I, g, e, l)
  <2>1. Restores(H, g, e, l)
    BY <1>4 DEF Sound
  <2> QED BY <1>0, <2>1 DEF Restores
<1> QED BY <1>1, <1>2, <1>3, <1>4 DEF Sound

(* What close leaves of the group and of the environment.                  *)
GroupLeft(c, g) == IF c.owns THEN None ELSE g
EnvLeft(c, e)   == e \ c.injected

(* The first context is closed; what was behind it may move up.            *)
LEMMA Releasing ==
  ASSUME NEW H \in ContextMaps, NEW I \in ContextMaps, NEW g, NEW e, NEW l, NEW whole \in BOOLEAN,
         NEW m, NEW s, Sound(H, g, e, l, whole), Closed(H, I, m, s)
  PROVE  Sound(I, GroupLeft(H[m], g), EnvLeft(H[m], e), l, whole)
<1> DEFINE h == IF H[m].owns THEN None ELSE g
           f == e \ H[m].injected
<1> USE DEF Closed
<1>0. /\ DOMAIN H \in SUBSET Nat /\ DOMAIN I \in SUBSET Nat
      /\ \A i \in DOMAIN I : i + s \in DOMAIN H /\ i + s # m /\ m < i + s
  <2>1. DOMAIN H \in SUBSET Nat /\ DOMAIN I \in SUBSET Nat
    BY DEF ContextMaps
  <2>2. \A i \in DOMAIN I : i + s \in DOMAIN H /\ i + s # m /\ m <= i + s
    OBVIOUS
  <2>3. \A i \in DOMAIN I : i + s \in Nat /\ m \in Nat
    BY <2>1
  <2> QED BY <2>1, <2>2, <2>3
<1>a. \A k \in DOMAIN H \ {m} : k - s \in DOMAIN I /\ I[k - s] = H[k]
  <2> SUFFICES ASSUME NEW k \in DOMAIN H \ {m} PROVE k - s \in DOMAIN I /\ I[k - s] = H[k]
    OBVIOUS
  <2>1. k \in Nat /\ m \in Nat /\ m < k
    BY <1>0
  <2>2. k - s \in Nat /\ (k - s) + s = k
    BY <2>1
  <2> QED BY <2>2
<1>1. Consistent(I)
  BY <1>0 DEF Consistent, Sound
<1>2. HasGroup(I, h)
  BY <1>0 DEF HasGroup, OwnerFirst, Sound
<1>3. OwnerFirst(I)
  <2> SUFFICES ASSUME NEW i \in DOMAIN I, NEW j \in DOMAIN I, I[i].owns, i < j
               PROVE  ~I[j].distributed
    BY DEF OwnerFirst
  <2>1. i + s < j + s /\ i + s \in DOMAIN H /\ j + s \in DOMAIN H
    BY <1>0
  <2> QED BY <2>1 DEF OwnerFirst, Sound
<1>4. ASSUME whole PROVE Restores(I, h, f, l)
  <2>1. Restores(H, g, e, l)
    BY <1>4 DEF Sound
  <2>2. CASE H[m].owns
    <3>1. \A i \in DOMAIN H : i # m => ~H[i].owns
      BY <1>0, <2>2 DEF OwnerFirst, Consistent, Sound
    <3>2. l.host = None /\ f = l.vars
      BY <2>1, <2>2, <3>1 DEF Restores
    <3> QED BY <1>0, <2>2, <3>1, <3>2 DEF Restores
  <2>3. CASE ~H[m].owns
    <3>1. h = g /\ f = e
      BY <2>3 DEF Consistent, Sound
    <3>2. CASE \A i \in DOMAIN H : ~H[i].owns
      BY <1>0, <2>1, <3>1, <3>2 DEF Restores
    <3>3. CASE \E i \in DOMAIN H : H[i].owns
      <4>1. PICK k \in DOMAIN H : /\ H[k].owns /\ l.host = None
                                  /\ e = l.vars \cup H[k].injected
                                  /\ l.vars \cap H[k].injected = {}
        BY <2>1, <3>3 DEF Restores
      <4>2. k - s \in DOMAIN I /\ I[k - s] = H[k]
        BY <1>a, <2>3, <4>1
      <4> QED BY <3>1, <4>1, <4>2 DEF Restores
    <3> QED BY <3>2, <3>3
  <2> QED BY <2>2, <2>3
<1> QED BY <1>1, <1>2, <1>3, <1>4 DEF Sound, GroupLeft, EnvLeft
-----------------------------------------------------------------------------
(* The contexts of one process, before and after a step.                   *)

LEMMA HeldMaps ==
  ASSUME NEW o \in Seq(Engines), NEW a, NEW c \in Contexts
  PROVE  /\ Held(o, a, c) \in ContextMaps /\ DOMAIN Held(o, a, c) = Places(o, a)
         /\ \A i \in Places(o, a) : Held(o, a, c)[i] = IF i = 0 THEN c ELSE o[i].context
<1>1. Places(o, a) \in SUBSET Nat
  BY DEF Places
<1>2. ASSUME NEW i \in Places(o, a)
      PROVE  (IF i = 0 THEN c ELSE o[i].context) \in Contexts
  <2>1. i # 0 => o[i] \in Engines
    BY DEF Places
  <2> QED BY <2>1 DEF Engines
<1> QED BY <1>1, <1>2 DEF Held, ContextMaps

(* A context is made.                                                      *)
LEMMA HeldBegun ==
  ASSUME NEW o \in Seq(Engines), NEW c \in Contexts, NEW d \in Contexts,
         NEW a, NEW b \in Building, a \notin Building
  PROVE  Begun(Held(o, a, c), Held(o, b, d)) /\ Held(o, b, d)[0] = d
<1>1. 0 \notin Places(o, a) /\ Places(o, b) = Places(o, a) \cup {0}
  BY DEF Places
<1>2. /\ DOMAIN Held(o, a, c) = Places(o, a)
      /\ \A i \in Places(o, a) : Held(o, a, c)[i] = IF i = 0 THEN c ELSE o[i].context
  BY HeldMaps
<1>3. /\ DOMAIN Held(o, b, d) = Places(o, b)
      /\ \A i \in Places(o, b) : Held(o, b, d)[i] = IF i = 0 THEN d ELSE o[i].context
  BY HeldMaps
<1> QED BY <1>1, <1>2, <1>3 DEF Begun

(* The engine of the context opens.                                        *)
LEMMA HeldOpened ==
  ASSUME NEW o \in Seq(Engines), NEW e \in Engines, NEW a \in Building
  PROVE  Moved(Held(o, a, e.context), Held(<<e>> \o o, "idle", e.context))
<1> DEFINE u == <<e>> \o o
<1>1. /\ u \in Seq(Engines) /\ Len(o) \in Nat /\ Len(u) = Len(o) + 1 /\ u[1] = e
      /\ \A i \in 2..Len(u) : u[i] = o[i - 1]
  OBVIOUS
<1>2. e.context \in Contexts
  BY DEF Engines
<1> HIDE DEF u
<1>3. Places(u, "idle") = 1..Len(u) /\ Places(o, a) = 0..Len(o)
  BY <1>1 DEF Places, Building
<1>4. Places(u, "idle") = {i \in Nat : i - 1 \in Places(o, a)}
  BY <1>1, <1>3
<1>5. ASSUME NEW i \in Places(u, "idle")
      PROVE  Held(u, "idle", e.context)[i] = Held(o, a, e.context)[i - 1]
  <2>1. i \in 1..Len(u) /\ i - 1 \in Places(o, a) /\ (i # 1 => i \in 2..Len(u) /\ i - 1 # 0)
    BY <1>1, <1>3, <1>4
  <2>2. Held(u, "idle", e.context)[i] = u[i].context
    BY <1>1, <1>2, <1>5, <2>1, HeldMaps
  <2>3. Held(o, a, e.context)[i - 1] = IF i - 1 = 0 THEN e.context ELSE o[i - 1].context
    BY <1>2, <2>1, HeldMaps
  <2> QED BY <1>1, <2>1, <2>2, <2>3
<1>6. /\ DOMAIN Held(u, "idle", e.context) = Places(u, "idle")
      /\ DOMAIN Held(o, a, e.context) = Places(o, a)
  BY <1>1, <1>2, HeldMaps
<1> QED BY <1>4, <1>5, <1>6 DEF u, Moved

(* The engine under construction is given up.                              *)
LEMMA HeldGivenUp ==
  ASSUME NEW o \in Seq(Engines), NEW c \in Contexts, NEW a \in Building
  PROVE  Closed(Held(o, a, c), Held(o, "idle", c), 0, 0) /\ Held(o, a, c)[0] = c
<1>1. Places(o, a) = 0..Len(o) /\ Places(o, "idle") = 1..Len(o)
  BY DEF Places, Building
<1>2. Places(o, "idle") = {i \in Nat : i + 0 \in Places(o, a) \ {0}}
  BY <1>1
<1>3. \A i \in Places(o, "idle") : i \in Places(o, a) /\ i # 0 /\ i + 0 = i
  BY <1>1
<1>4. 0 \in Places(o, a) /\ \A i \in Places(o, a) : 0 <= i
  BY <1>1
<1>5. /\ DOMAIN Held(o, a, c) = Places(o, a)
      /\ \A i \in Places(o, a) : Held(o, a, c)[i] = IF i = 0 THEN c ELSE o[i].context
  BY HeldMaps
<1>6. /\ DOMAIN Held(o, "idle", c) = Places(o, "idle")
      /\ \A i \in Places(o, "idle") : Held(o, "idle", c)[i] = IF i = 0 THEN c ELSE o[i].context
  BY HeldMaps
<1> DEFINE H == Held(o, a, c)
           I == Held(o, "idle", c)
<1>7. DOMAIN I = {i \in Nat : i + 0 \in DOMAIN H \ {0}}
  BY <1>2, <1>5, <1>6
<1>8. 0 \in DOMAIN H /\ (\A i \in DOMAIN H : 0 <= i) /\ H[0] = c
  BY <1>4, <1>5
<1>9. \A i \in DOMAIN I : I[i] = H[i + 0]
  BY <1>3, <1>5, <1>6
<1> HIDE DEF H, I
<1>10. Closed(H, I, 0, 0) /\ H[0] = c
  BY <1>7, <1>8, <1>9 DEF Closed
<1> QED BY <1>10 DEF H, I

(* The engine that opened last is closed.                                  *)
LEMMA HeldClosed ==
  ASSUME NEW o \in Seq(Engines), NEW c \in Contexts, o # <<>>
  PROVE  /\ Closed(Held(o, "idle", c), Held(Tail(o), "idle", c), 1, 1)
         /\ Held(o, "idle", c)[1] = Head(o).context
<1> DEFINE t == Tail(o)
<1>1. /\ t \in Seq(Engines) /\ Len(o) \in Nat \ {0} /\ Len(t) = Len(o) - 1 /\ Head(o) = o[1]
      /\ \A i \in 1..Len(t) : t[i] = o[i + 1]
  OBVIOUS
<1> HIDE DEF t
<1>2. Places(o, "idle") = 1..Len(o) /\ Places(t, "idle") = 1..Len(t)
  BY <1>1 DEF Places, Building
<1>3. Places(t, "idle") = {i \in Nat : i + 1 \in Places(o, "idle") \ {1}}
  BY <1>1, <1>2
<1>4. 1 \in Places(o, "idle") /\ \A i \in Places(o, "idle") : 1 <= i
  BY <1>1, <1>2
<1>5. ASSUME NEW i \in Places(t, "idle")
      PROVE  Held(t, "idle", c)[i] = Held(o, "idle", c)[i + 1]
  <2>1. i \in 1..Len(t) /\ i # 0 /\ i + 1 # 0 /\ i + 1 \in Places(o, "idle")
    BY <1>1, <1>2
  <2>2. Held(t, "idle", c)[i] = t[i].context /\ Held(o, "idle", c)[i + 1] = o[i + 1].context
    BY <1>1, <2>1, HeldMaps
  <2> QED BY <1>1, <2>1, <2>2
<1>6. Held(o, "idle", c)[1] = Head(o).context
  BY <1>1, <1>4, HeldMaps
<1>7. /\ DOMAIN Held(t, "idle", c) = Places(t, "idle")
      /\ DOMAIN Held(o, "idle", c) = Places(o, "idle")
  BY <1>1, HeldMaps
<1> DEFINE H == Held(o, "idle", c)
           I == Held(t, "idle", c)
<1>8. DOMAIN I = {i \in Nat : i + 1 \in DOMAIN H \ {1}}
  BY <1>3, <1>7
<1>9. 1 \in DOMAIN H /\ (\A i \in DOMAIN H : 1 <= i) /\ H[1] = Head(o).context
  BY <1>4, <1>6, <1>7
<1>10. \A i \in DOMAIN I : I[i] = H[i + 1]
  BY <1>5, <1>7
<1> HIDE DEF H, I
<1>11. Closed(H, I, 1, 1) /\ H[1] = Head(o).context
  BY <1>8, <1>9, <1>10 DEF Closed
<1> QED BY <1>11 DEF H, I, t
-----------------------------------------------------------------------------
(* Types, and which process takes a step.                                  *)

LEMMA ProcessTypes ==
  ASSUME Types, NEW p \in Procs
  PROVE  /\ p \in Processes /\ launch[p] \in ProcessSettings
         /\ env[p] \in SUBSET RankEnv /\ group[p] \in Group \cup {None}
         /\ next[p] \in Nat \ {0} /\ at[p] \in Points
         /\ context[p] \in Contexts /\ open[p] \in Seq(Engines)
         /\ arrived[p] \in SUBSET ((Nat \ {0}) \X {"rendezvous", "wrap"})
BY LaunchAssumption DEF Types, Procs

LEMMA Wants ==
  ASSUME Types, NEW p \in Procs, next[p] \in DOMAIN launch[p].engines, CanCreate(p),
         Engine(p).backend # "single"
  PROVE  WantedGroup(p) \in Group /\ WantedGroup(p) # None
<1>1. launch[p] \in ProcessSettings
  BY ProcessTypes
<1>2. Engine(p) \in EngineSettings
  BY <1>1 DEF Engine, ProcessSettings
<1>3. RankOf(p) \in Nat /\ WorldOf(p) \in Nat
  BY <1>1 DEF RankOf, RankIn, WorldOf, ProcessSettings
<1>4. GroupBackend(p) # None
  BY DEF CanCreate
<1>5. GroupBackend(p) \in Backends
  BY <1>2, <1>4 DEF GroupBackend, EngineSettings, Backends
<1>6. WantedGroup(p) \in Group
  BY <1>3, <1>5 DEF WantedGroup, Group
<1> QED BY <1>6, LaunchAssumption

Others(p) ==
  /\ launch' = launch
  /\ \A q \in Procs \ {p} :
       /\ env'[q] = env[q] /\ group'[q] = group[q] /\ next'[q] = next[q] /\ at'[q] = at[q]
       /\ context'[q] = context[q] /\ open'[q] = open[q]
       /\ q \in leaked' <=> q \in leaked
  /\ \A q \in Procs : arrived[q] \subseteq arrived'[q]

Moves(p) == Step(p) \/ LocalFailure(p) \/ Kill(p)

LEMMA Acting ==
  ASSUME Types, Next
  PROVE  \E p \in Procs : Moves(p)
<1>1. PICK p \in Processes : Moves(p)
  BY DEF Next, Moves
<1>2. at[p] # "absent"
  BY <1>1 DEF Moves, Step, Create, RefuseCreate, CreateSingle, CreateBorrowed, CreateStandalone,
              CreateRendezvous, Making, FinishRendezvous, BuildBackend, WrapModel, BuildLoader,
              FinishEngine, Materialize, HearOutcome, CloseEngine, GiveUp, Waiting,
              LocalFailure, Kill
<1>3. p \in Procs
  BY <1>2 DEF Types
<1> QED BY <1>1, <1>3

(* What a step may do to the variables of the process that takes it.       *)
Changes(p) ==
  /\ launch' = launch
  /\ \E e \in SUBSET RankEnv : env' = [env EXCEPT ![p] = e]
  /\ \E g \in Group \cup {None} : group' = [group EXCEPT ![p] = g]
  /\ \E n \in Nat \ {0} : next' = [next EXCEPT ![p] = n]
  /\ \E a \in Points \ {"absent"} : at' = [at EXCEPT ![p] = a]
  /\ \E c \in Contexts : context' = [context EXCEPT ![p] = c]
  /\ \E o \in Seq(Engines) : open' = [open EXCEPT ![p] = o]
  /\ \E r \in SUBSET ((Nat \ {0}) \X {"rendezvous", "wrap"}) :
       arrived' = [arrived EXCEPT ![p] = r] /\ arrived[p] \subseteq r
  /\ leaked' \in {leaked, leaked \cup {p}}

LEMMA Same ==
  ASSUME Types, NEW p \in Procs
  PROVE  /\ env = [env EXCEPT ![p] = env[p]] /\ group = [group EXCEPT ![p] = group[p]]
         /\ next = [next EXCEPT ![p] = next[p]] /\ at = [at EXCEPT ![p] = at[p]]
         /\ context = [context EXCEPT ![p] = context[p]] /\ open = [open EXCEPT ![p] = open[p]]
         /\ arrived = [arrived EXCEPT ![p] = arrived[p]]
BY ProcessTypes DEF Types

LEMMA ChangesOthers ==
  ASSUME Types, NEW p \in Procs, Changes(p)
  PROVE  Others(p)
BY ProcessTypes DEF Types, Others, Changes, Procs

LEMMA ChangesTypes ==
  ASSUME Types, NEW p \in Procs, Changes(p),
         identity' \in [UNION {DOMAIN launch[q].engines : q \in Procs} ->
                          {"unknown", "written", "failed"}]
  PROVE  Types'
<1>1. launch' = launch /\ Procs' = Procs
  BY DEF Changes, Procs
<1>2. /\ env' \in [Procs -> SUBSET RankEnv] /\ group' \in [Procs -> Group \cup {None}]
      /\ next' \in [Procs -> Nat \ {0}] /\ context' \in [Procs -> Contexts]
      /\ open' \in [Procs -> Seq(Engines)] /\ leaked' \in SUBSET Procs
  BY DEF Types, Changes
<1>3. at' \in [Processes -> Points] /\ \A q \in Processes \ Procs : at'[q] = "absent"
  BY ProcessTypes DEF Types, Changes
<1>4. arrived' \in [Procs -> SUBSET ((Nat \ {0}) \X {"rendezvous", "wrap"})]
  BY DEF Types, Changes
<1> QED BY <1>1, <1>2, <1>3, <1>4 DEF Types

(* What the parts of an action leave alone.                                *)
Keeps(p) ==
  /\ env' = env \/ \E e \in SUBSET RankEnv : env' = [env EXCEPT ![p] = e]
  /\ group' = group \/ \E g \in Group \cup {None} : group' = [group EXCEPT ![p] = g]
  /\ next' = next \/ next' = [next EXCEPT ![p] = @ + 1]
  /\ at' = at \/ \E a \in Points \ {"absent"} : at' = [at EXCEPT ![p] = a]
  /\ context' = context \/ \E c \in Contexts : context' = [context EXCEPT ![p] = c]
  /\ open' = open \/ \E o \in Seq(Engines) : open' = [open EXCEPT ![p] = o]
  /\ arrived' = arrived \/ \E point \in {"rendezvous", "wrap"} : ComeTo(p, point)
  /\ launch' = launch /\ leaked' \in {leaked, leaked \cup {p}}

LEMMA KeepsChanges ==
  ASSUME Types, NEW p \in Procs, Keeps(p), at[p] # "absent"
  PROVE  Changes(p)
<1>1. launch' = launch /\ leaked' \in {leaked, leaked \cup {p}}
  BY DEF Keeps
<1>2. \E e \in SUBSET RankEnv : env' = [env EXCEPT ![p] = e]
  <2>1. CASE env' = env
    <3>1. env' = [env EXCEPT ![p] = env[p]] /\ env[p] \in SUBSET RankEnv
      BY <2>1, ProcessTypes, Same
    <3> QED BY <3>1, Zenon
  <2> QED BY <2>1 DEF Keeps
<1>3. \E g \in Group \cup {None} : group' = [group EXCEPT ![p] = g]
  <2>1. CASE group' = group
    <3>1. group' = [group EXCEPT ![p] = group[p]] /\ group[p] \in Group \cup {None}
      BY <2>1, ProcessTypes, Same
    <3> QED BY <3>1, Zenon
  <2> QED BY <2>1 DEF Keeps
<1>4. \E n \in Nat \ {0} : next' = [next EXCEPT ![p] = n]
  <2>1. next[p] \in Nat \ {0} /\ next[p] + 1 \in Nat \ {0}
    BY ProcessTypes
  <2> QED BY <2>1, Same DEF Keeps
<1>5. \E a \in Points \ {"absent"} : at' = [at EXCEPT ![p] = a]
  BY ProcessTypes, Same DEF Keeps
<1>6. \E c \in Contexts : context' = [context EXCEPT ![p] = c]
  BY ProcessTypes, Same DEF Keeps
<1>7. \E o \in Seq(Engines) : open' = [open EXCEPT ![p] = o]
  BY ProcessTypes, Same DEF Keeps
<1>8. \E r \in SUBSET ((Nat \ {0}) \X {"rendezvous", "wrap"}) :
        arrived' = [arrived EXCEPT ![p] = r] /\ arrived[p] \subseteq r
  <2>1. CASE arrived' = arrived
    BY <2>1, ProcessTypes, Same
  <2>2. CASE \E point \in {"rendezvous", "wrap"} : ComeTo(p, point)
    <3>1. PICK point \in {"rendezvous", "wrap"} : arrived' = [arrived EXCEPT ![p] = @ \cup {<<next[p], point>>}]
      BY <2>2 DEF ComeTo
    <3>2. <<next[p], point>> \in (Nat \ {0}) \X {"rendezvous", "wrap"}
      BY ProcessTypes
    <3>3. arrived[p] \cup {<<next[p], point>>} \in SUBSET ((Nat \ {0}) \X {"rendezvous", "wrap"})
      BY <3>2, ProcessTypes
    <3> QED BY <3>1, <3>3
  <2> QED BY <2>1, <2>2 DEF Keeps
<1> QED BY <1>1, <1>2, <1>3, <1>4, <1>5, <1>6, <1>7, <1>8 DEF Changes

LEMMA Releases ==
  ASSUME Types, NEW p \in Procs, NEW c \in Contexts, Release(p, c)
  PROVE  /\ \E e \in SUBSET RankEnv : env' = [env EXCEPT ![p] = e]
         /\ \E g \in Group \cup {None} : group' = [group EXCEPT ![p] = g]
<1>1. env[p] \ c.injected \in SUBSET RankEnv
  BY ProcessTypes
<1>2. (IF c.owns THEN None ELSE group[p]) \in Group \cup {None}
  BY ProcessTypes
<1> QED BY <1>1, <1>2 DEF Release


LEMMA StepChanges ==
  ASSUME Types, GroupInv, NEW p \in Procs, Moves(p)
  PROVE  Changes(p)
<1> USE DEF Points, Building
<1>0. at[p] # "absent"
  BY DEF Moves, Step, Create, RefuseCreate, CreateSingle, CreateBorrowed, CreateStandalone,
         CreateRendezvous, Making, FinishRendezvous, BuildBackend, WrapModel, BuildLoader,
         FinishEngine, Materialize, HearOutcome, CloseEngine, GiveUp, Waiting,
         LocalFailure, Kill
<1> SUFFICES Keeps(p)
  BY <1>0, KeepsChanges
<1>a. ASSUME NEW g \in Group \cup {None}, NEW d \in BOOLEAN, NEW i \in SUBSET RankEnv
      PROVE  Context(p, g, d, i) \in Contexts
  BY <1>a DEF Context, Contexts
<1>b. ASSUME Abandoned(p) PROVE Keeps(p) \/ (launch' # launch \/ context' # context
                                             \/ arrived' # arrived)
  BY <1>b, Releases, ProcessTypes DEF Abandoned, Fail, Keeps
<1>c. ASSUME Opened(p) PROVE Keeps(p) \/ (launch' # launch \/ context' # context
                                          \/ arrived' # arrived)
  <2> DEFINE e == [engine |-> next[p], context |-> context[p]]
  <2>1. <<e>> \o open[p] \in Seq(Engines)
    <3>1. e \in Engines
      BY ProcessTypes DEF Engines
    <3>2. open[p] \in Seq(Engines)
      BY ProcessTypes
    <3> HIDE DEF e
    <3> QED BY <3>1, <3>2
  <2>2. open' = [open EXCEPT ![p] = <<e>> \o open[p]]
    BY <1>c DEF Opened
  <2> HIDE DEF e
  <2> QED BY <1>c, <2>1, <2>2 DEF Opened, resources, Keeps
<1>1. CASE RefuseCreate(p)
  BY <1>1 DEF RefuseCreate, Fail, resources, Keeps
<1>2. CASE CreateSingle(p)
  BY <1>2, <1>a DEF CreateSingle, resources, Keeps
<1>3. CASE CreateBorrowed(p)
  BY <1>3, <1>a, ProcessTypes DEF CreateBorrowed, resources, Keeps
<1>4. CASE CreateStandalone(p)
  <2>1. WantedGroup(p) \in Group
    <3>1. next[p] \in DOMAIN launch[p].engines
      BY <1>4, ProcessTypes DEF CreateStandalone, Making, ProcessSettings
    <3> QED BY <1>4, <3>1, Wants DEF CreateStandalone
  <2>2. Context(p, WantedGroup(p), TRUE, RankEnv \ env[p]) \in Contexts
    BY <1>a, <2>1
  <2>3. env[p] \cup RankEnv \in SUBSET RankEnv
    BY ProcessTypes
  <2> QED BY <1>4, <2>1, <2>2, <2>3 DEF CreateStandalone, Keeps
<1>5. CASE CreateRendezvous(p)
  <2>1. \E point \in {"rendezvous", "wrap"} : ComeTo(p, point)
    BY <1>5 DEF CreateRendezvous
  <2> QED BY <1>5, <2>1 DEF CreateRendezvous, resources, Keeps
<1>6. CASE FinishRendezvous(p)
  <2>1. WantedGroup(p) \in Group
    BY <1>6 DEF FinishRendezvous, GroupInv, AtRendezvous
  <2>2. Context(p, WantedGroup(p), TRUE, {}) \in Contexts
    BY <1>a, <2>1
  <2> QED BY <1>6, <2>1, <2>2 DEF FinishRendezvous, Keeps
<1>7. CASE BuildBackend(p)
  <2>1. arrived' = arrived \/ \E point \in {"rendezvous", "wrap"} : ComeTo(p, point)
    BY <1>7 DEF BuildBackend
  <2>2. at' \in {[at EXCEPT ![p] = "wrap"], [at EXCEPT ![p] = "loader"]}
    BY <1>7 DEF BuildBackend
  <2> QED BY <1>7, <2>1, <2>2 DEF BuildBackend, resources, Keeps
<1>8. CASE WrapModel(p) \/ BuildLoader(p) \/ FinishEngine(p)
  BY <1>8 DEF WrapModel, BuildLoader, FinishEngine, resources, Keeps
<1>9. CASE Materialize(p)
  <2>1. launch' = launch /\ context' = context /\ arrived' = arrived /\ (Opened(p) \/ Abandoned(p))
    BY <1>9 DEF Materialize
  <2> QED BY <1>b, <1>c, <2>1
<1>10. CASE HearOutcome(p)
  <2>1. launch' = launch /\ context' = context /\ arrived' = arrived /\ (Opened(p) \/ Abandoned(p))
    BY <1>10 DEF HearOutcome
  <2> QED BY <1>b, <1>c, <2>1
<1>11. CASE CloseEngine(p)
  <2>1. Head(open[p]).context \in Contexts /\ Tail(open[p]) \in Seq(Engines)
    <3>1. open[p] \in Seq(Engines) /\ open[p] # <<>>
      BY <1>11, ProcessTypes DEF CloseEngine
    <3>2. Head(open[p]) \in Engines /\ Tail(open[p]) \in Seq(Engines)
      BY <3>1
    <3> QED BY <3>2 DEF Engines
  <2>2. Release(p, Head(open[p]).context)
    BY <1>11 DEF CloseEngine
  <2>3. /\ \E e \in SUBSET RankEnv : env' = [env EXCEPT ![p] = e]
        /\ \E g \in Group \cup {None} : group' = [group EXCEPT ![p] = g]
    BY <2>1, <2>2, Releases
  <2> QED BY <1>11, <2>1, <2>3 DEF CloseEngine, Keeps
<1>12. CASE GiveUp(p)
  <2>1. CASE at[p] = "rendezvous"
    BY <1>12, <2>1 DEF GiveUp, Fail, resources, Keeps
  <2>2. CASE at[p] # "rendezvous"
    BY <1>12, <2>2, Releases, ProcessTypes DEF GiveUp, Fail, Keeps
  <2> QED BY <2>1, <2>2
<1>13. CASE LocalFailure(p)
  <2>1. CASE Abandoned(p)
    BY <1>13, <1>b, <2>1 DEF LocalFailure
  <2>2. CASE Fail(p) /\ leaked' = leaked \cup {p} /\ UNCHANGED <<env, group, open>>
    BY <1>13, <2>2 DEF LocalFailure, Fail, Keeps
  <2> QED BY <1>13, <2>1, <2>2 DEF LocalFailure
<1>14. CASE Kill(p)
  <2>1. None \in Group \cup {None} /\ {} \in SUBSET RankEnv /\ <<>> \in Seq(Engines)
    OBVIOUS
  <2> QED BY <1>14, <2>1 DEF Kill, Keeps
<1> QED BY <1>1, <1>2, <1>3, <1>4, <1>5, <1>6, <1>7, <1>8, <1>9, <1>10, <1>11, <1>12, <1>13,
           <1>14 DEF Moves, Step, Create
-----------------------------------------------------------------------------
(* The process group.                                                      *)

OneProcess(p) ==
  /\ Sound(HeldBy(p), group[p], env[p], launch[p], Whole(p))
  /\ AtRendezvous(p) /\ MakesEngine(p)

LEMMA OthersSound ==
  ASSUME Types, NEW p \in Procs, Others(p), NEW q \in Procs \ {p}, OneProcess(q)
  PROVE  OneProcess(q)'
<1>1. /\ launch' = launch /\ env'[q] = env[q] /\ group'[q] = group[q] /\ next'[q] = next[q]
      /\ at'[q] = at[q] /\ context'[q] = context[q] /\ open'[q] = open[q]
      /\ q \in leaked' <=> q \in leaked
  BY DEF Others
<1>2. HeldBy(q)' = HeldBy(q) /\ Whole(q)' = Whole(q)
  BY <1>1 DEF HeldBy, Whole
<1>3. WantedGroup(q)' = WantedGroup(q) /\ Engine(q)' = Engine(q)
  BY <1>1 DEF WantedGroup, GroupBackend, Engine, RankOf, RankIn, WorldOf
<1>4. Sound(HeldBy(q), group[q], env[q], launch[q], Whole(q))'
  BY <1>1, <1>2 DEF OneProcess
<1>5. AtRendezvous(q)'
  BY <1>1, <1>3 DEF OneProcess, AtRendezvous
<1>6. MakesEngine(q)'
  BY <1>1 DEF OneProcess, MakesEngine
<1> QED BY <1>4, <1>5, <1>6 DEF OneProcess

(* The same process, a step later, by what the step does to it.            *)
NowAt(p, a) == at'[p] = a /\ leaked' = leaked

LEMMA AtBuild ==
  ASSUME Types, Types', NEW p \in Procs, launch' = launch,
         at[p] \notin Building, at'[p] = "build", open'[p] = open[p]
  PROVE  /\ HeldBy(p) \in ContextMaps /\ HeldBy(p)' \in ContextMaps
         /\ Begun(HeldBy(p), HeldBy(p)') /\ HeldBy(p)'[0] = context'[p]
<1>1. open[p] \in Seq(Engines) /\ context[p] \in Contexts /\ context'[p] \in Contexts
  <2>1. p \in Procs'
    BY DEF Procs
  <2> QED BY <2>1, ProcessTypes DEF Types
<1>2. "build" \in Building
  BY DEF Building
<1>3. HeldBy(p)' = Held(open[p], "build", context'[p])
  BY DEF HeldBy
<1> QED BY <1>1, <1>2, <1>3, HeldBegun, HeldMaps DEF HeldBy

LEMMA AfterBorrowing ==
  ASSUME Types, Types', NEW p \in Procs, OneProcess(p), launch' = launch,
         at[p] \notin Building, at[p] # "killed", NowAt(p, "build"),
         open'[p] = open[p], group'[p] = group[p], env'[p] = env[p],
         ~context'[p].owns, context'[p].injected = {},
         context'[p].distributed => group[p] # None /\ context'[p].group = group[p]
  PROVE  Sound(HeldBy(p), group[p], env[p], launch[p], Whole(p))'
<1>1. /\ HeldBy(p) \in ContextMaps /\ HeldBy(p)' \in ContextMaps
      /\ Begun(HeldBy(p), HeldBy(p)') /\ HeldBy(p)'[0] = context'[p]
  BY AtBuild DEF NowAt
<1>2. Whole(p)' = Whole(p) /\ Whole(p) \in BOOLEAN
  BY DEF Whole, NowAt
<1>3. Sound(HeldBy(p), group[p], env[p], launch[p], Whole(p))
  BY DEF OneProcess
<1> DEFINE I == HeldBy(p)'
<1> HIDE DEF I
<1>4. Sound(I, group[p], env[p], launch[p], Whole(p))
  BY <1>1, <1>2, <1>3, Borrowing DEF I
<1> QED BY <1>2, <1>4 DEF I

LEMMA AfterOwning ==
  ASSUME Types, Types', NEW p \in Procs, OneProcess(p), launch' = launch,
         at[p] \notin Building, at[p] # "killed", NowAt(p, "build"),
         open'[p] = open[p], group[p] = None, group'[p] # None,
         context'[p].owns, context'[p].distributed, context'[p].group = group'[p],
         env'[p] = env[p] \cup context'[p].injected, env[p] \cap context'[p].injected = {}
  PROVE  Sound(HeldBy(p), group[p], env[p], launch[p], Whole(p))'
<1>1. /\ HeldBy(p) \in ContextMaps /\ HeldBy(p)' \in ContextMaps
      /\ Begun(HeldBy(p), HeldBy(p)') /\ HeldBy(p)'[0] = context'[p]
  BY AtBuild DEF NowAt
<1>2. Whole(p)' = Whole(p) /\ Whole(p) \in BOOLEAN
  BY DEF Whole, NowAt
<1>3. Sound(HeldBy(p), group[p], env[p], launch[p], Whole(p))
  BY DEF OneProcess
<1> DEFINE I == HeldBy(p)'
<1> HIDE DEF I
<1>4. Sound(I, group'[p], env'[p], launch[p], Whole(p))
  BY <1>1, <1>2, <1>3, Owning DEF I
<1> QED BY <1>2, <1>4 DEF I

LEMMA AfterOpening ==
  ASSUME Types, NEW p \in Procs, OneProcess(p), launch' = launch,
         at[p] \in Building, NowAt(p, "idle"), group'[p] = group[p], env'[p] = env[p],
         context'[p] = context[p],
         open'[p] = <<[engine |-> next[p], context |-> context[p]]>> \o open[p]
  PROVE  Sound(HeldBy(p), group[p], env[p], launch[p], Whole(p))'
<1> DEFINE e == [engine |-> next[p], context |-> context[p]]
           H == Held(open[p], at[p], e.context)
           I == Held(<<e>> \o open[p], "idle", e.context)
<1>1. open[p] \in Seq(Engines) /\ context[p] \in Contexts /\ e \in Engines
  BY ProcessTypes DEF Engines
<1>2. e.context = context[p]
  OBVIOUS
<1>3. HeldBy(p) = H /\ HeldBy(p)' = I /\ Whole(p)' = Whole(p) /\ Whole(p) \in BOOLEAN
  BY <1>2 DEF HeldBy, Whole, NowAt, Building
<1>4. Sound(H, group[p], env[p], launch[p], Whole(p))
  BY <1>3 DEF OneProcess
<1> HIDE DEF e
<1>5. H \in ContextMaps /\ I \in ContextMaps
  <2>1. <<e>> \o open[p] \in Seq(Engines) /\ e.context \in Contexts
    BY <1>1 DEF Engines
  <2> QED BY <1>1, <2>1, HeldMaps
<1>6. Moved(H, I)
  BY <1>1, HeldOpened
<1> HIDE DEF H, I
<1>7. Sound(I, group[p], env[p], launch[p], Whole(p))
  BY <1>3, <1>4, <1>5, <1>6, Shifting
<1> QED BY <1>3, <1>7

LEMMA AfterGivingUp ==
  ASSUME Types, NEW p \in Procs, OneProcess(p), launch' = launch,
         at[p] \in Building, NowAt(p, "idle"), Release(p, context[p]),
         context'[p] = context[p], open'[p] = open[p]
  PROVE  Sound(HeldBy(p), group[p], env[p], launch[p], Whole(p))'
<1> DEFINE H == Held(open[p], at[p], context[p])
           I == Held(open[p], "idle", context[p])
<1>1. open[p] \in Seq(Engines) /\ context[p] \in Contexts
  BY ProcessTypes
<1>2. H \in ContextMaps /\ I \in ContextMaps
  BY <1>1, HeldMaps
<1>3. Closed(H, I, 0, 0) /\ H[0] = context[p]
  BY <1>1, HeldGivenUp
<1>4. Sound(H, group[p], env[p], launch[p], Whole(p)) /\ Whole(p) \in BOOLEAN
  BY DEF OneProcess, HeldBy, Whole
<1>5. HeldBy(p)' = I /\ Whole(p)' = Whole(p)
  BY DEF HeldBy, Whole, NowAt, Building
<1>6. group'[p] = (IF H[0].owns THEN None ELSE group[p]) /\ env'[p] = env[p] \ H[0].injected
  <2>1. group'[p] = (IF context[p].owns THEN None ELSE group[p]) /\ env'[p] = env[p] \ context[p].injected
    BY DEF Release, Types
  <2> HIDE DEF H
  <2> QED BY <1>3, <2>1
<1> HIDE DEF H, I
<1>7. Sound(I, GroupLeft(H[0], group[p]), EnvLeft(H[0], env[p]), launch[p], Whole(p))
  BY <1>2, <1>3, <1>4, Releasing
<1>8. Sound(I, group'[p], env'[p], launch[p], Whole(p))
  BY <1>6, <1>7 DEF GroupLeft, EnvLeft
<1> QED BY <1>5, <1>8

LEMMA AfterClosing ==
  ASSUME Types, NEW p \in Procs, OneProcess(p), launch' = launch,
         at[p] = "idle", NowAt(p, "idle"), open[p] # <<>>, Release(p, Head(open[p]).context),
         context'[p] = context[p], open'[p] = Tail(open[p])
  PROVE  Sound(HeldBy(p), group[p], env[p], launch[p], Whole(p))'
<1> DEFINE H == Held(open[p], "idle", context[p])
           I == Held(Tail(open[p]), "idle", context[p])
<1>1. open[p] \in Seq(Engines) /\ context[p] \in Contexts /\ Tail(open[p]) \in Seq(Engines)
  BY ProcessTypes
<1>2. H \in ContextMaps /\ I \in ContextMaps
  BY <1>1, HeldMaps
<1>3. Closed(H, I, 1, 1) /\ H[1] = Head(open[p]).context
  BY <1>1, HeldClosed
<1>4. Sound(H, group[p], env[p], launch[p], Whole(p)) /\ Whole(p) \in BOOLEAN
  BY DEF OneProcess, HeldBy, Whole
<1>5. HeldBy(p)' = I /\ Whole(p)' = Whole(p)
  BY DEF HeldBy, Whole, NowAt
<1>6. group'[p] = (IF H[1].owns THEN None ELSE group[p]) /\ env'[p] = env[p] \ H[1].injected
  <2>1. /\ group'[p] = (IF Head(open[p]).context.owns THEN None ELSE group[p])
        /\ env'[p] = env[p] \ Head(open[p]).context.injected
    BY DEF Release, Types
  <2> HIDE DEF H
  <2> QED BY <1>3, <2>1
<1> HIDE DEF H, I
<1>7. Sound(I, GroupLeft(H[1], group[p]), EnvLeft(H[1], env[p]), launch[p], Whole(p))
  BY <1>2, <1>3, <1>4, Releasing
<1>8. Sound(I, group'[p], env'[p], launch[p], Whole(p))
  BY <1>6, <1>7 DEF GroupLeft, EnvLeft
<1> QED BY <1>5, <1>8

LEMMA AfterStaying ==
  ASSUME Types, NEW p \in Procs, OneProcess(p), launch' = launch,
         at[p] \in Building <=> at'[p] \in Building, at[p] # "killed", at'[p] # "killed",
         leaked' = leaked, group'[p] = group[p], env'[p] = env[p],
         context'[p] = context[p], open'[p] = open[p]
  PROVE  Sound(HeldBy(p), group[p], env[p], launch[p], Whole(p))'
<1>1. HeldBy(p)' = HeldBy(p)
  BY DEF HeldBy, Held, Places
<1>2. Whole(p)' = Whole(p)
  BY DEF Whole
<1> QED BY <1>1, <1>2 DEF OneProcess

(* The context of an engine is lost, or the process is killed.             *)
LEMMA AfterLosing ==
  ASSUME Types, NEW p \in Procs, OneProcess(p), launch' = launch, context'[p] = context[p],
         \/ at'[p] = "idle" /\ open'[p] = open[p] /\ group'[p] = group[p] /\ p \in leaked'
         \/ at'[p] = "killed" /\ open'[p] = <<>>
  PROVE  Sound(HeldBy(p), group[p], env[p], launch[p], Whole(p))'
<1>1. open[p] \in Seq(Engines) /\ context[p] \in Contexts /\ <<>> \in Seq(Engines)
  BY ProcessTypes
<1>2. HeldBy(p) \in ContextMaps /\ DOMAIN HeldBy(p) = Places(open[p], at[p])
  BY <1>1, HeldMaps DEF HeldBy
<1>3. Sound(HeldBy(p), group[p], env[p], launch[p], Whole(p)) /\ Whole(p) \in BOOLEAN
  BY DEF OneProcess, Whole
<1>4. Whole(p)' = FALSE
  BY DEF Whole
<1>5. CASE at'[p] = "idle" /\ open'[p] = open[p] /\ group'[p] = group[p]
  <2>1. HeldBy(p)' = Held(open[p], "idle", context[p])
    BY <1>5 DEF HeldBy
  <2>2. HeldBy(p)' \in ContextMaps /\ DOMAIN (HeldBy(p)') = Places(open[p], "idle")
    BY <1>1, <2>1, HeldMaps
  <2>3. Places(open[p], "idle") \subseteq Places(open[p], at[p])
    BY <1>1 DEF Places, Building
  <2>4. \A i \in Places(open[p], "idle") : HeldBy(p)'[i] = HeldBy(p)[i]
    BY <2>1, <2>3 DEF HeldBy, Held
  <2> DEFINE H == HeldBy(p)
             I == HeldBy(p)'
  <2>5. H \in ContextMaps /\ I \in ContextMaps /\ DOMAIN I \subseteq DOMAIN H
        /\ \A i \in DOMAIN I : I[i] = H[i]
    BY <1>2, <2>2, <2>3, <2>4
  <2>6. Sound(H, group[p], env[p], launch[p], Whole(p))
    BY <1>3
  <2> HIDE DEF H, I
  <2>7. Sound(I, group[p], env'[p], launch[p], FALSE)
    BY <2>5, <2>6 DEF Sound, Consistent, HasGroup, OwnerFirst
  <2> QED BY <1>4, <1>5, <2>7 DEF I
<1>6. CASE at'[p] = "killed" /\ open'[p] = <<>>
  <2> DEFINE o == open'[p]
  <2>1. HeldBy(p)' = Held(o, "killed", context[p]) /\ o \in Seq(Engines) /\ o = <<>>
    BY <1>1, <1>6 DEF HeldBy
  <2> HIDE DEF o
  <2>2. /\ Held(o, "killed", context[p]) \in ContextMaps
        /\ DOMAIN Held(o, "killed", context[p]) = Places(o, "killed")
    BY <1>1, <2>1, HeldMaps
  <2>3. Places(o, "killed") = {}
    BY <2>1 DEF Places, Building
  <2> DEFINE I == HeldBy(p)'
  <2>4. I \in ContextMaps /\ DOMAIN I = {}
    BY <2>1, <2>2, <2>3
  <2> HIDE DEF I
  <2>5. Sound(I, group'[p], env'[p], launch[p], FALSE)
    BY <2>4 DEF Sound, Consistent, HasGroup, OwnerFirst
  <2> QED BY <1>4, <2>5 DEF I
<1> QED BY <1>5, <1>6

(* One step of a process: what it does to its group and its contexts.      *)
LEMMA StepSound ==
  ASSUME Types, Types', GroupInv, NEW p \in Procs, Moves(p)
  PROVE  Sound(HeldBy(p), group[p], env[p], launch[p], Whole(p))'
<1>a. OneProcess(p) /\ launch' = launch
  BY StepChanges DEF GroupInv, OneProcess, Changes
<1>b. p \in Processes /\ open[p] \in Seq(Engines) /\ context[p] \in Contexts
  BY ProcessTypes
<1>c. /\ DOMAIN at = Processes /\ DOMAIN env = Procs /\ DOMAIN group = Procs
      /\ DOMAIN context = Procs /\ DOMAIN open = Procs
  BY DEF Types
<1>d. ASSUME Abandoned(p), at[p] \in Building, context' = context
      PROVE  Sound(HeldBy(p), group[p], env[p], launch[p], Whole(p))'
  BY <1>a, <1>b, <1>c, <1>d, AfterGivingUp DEF Abandoned, Fail, NowAt
<1>e. ASSUME Opened(p), at[p] \in Building, context' = context
      PROVE  Sound(HeldBy(p), group[p], env[p], launch[p], Whole(p))'
  <2>1. open'[p] = <<[engine |-> next[p], context |-> context[p]]>> \o open[p]
    BY <1>c, <1>e DEF Opened
  <2>2. NowAt(p, "idle") /\ group'[p] = group[p] /\ env'[p] = env[p] /\ context'[p] = context[p]
    BY <1>b, <1>c, <1>e DEF Opened, resources, NowAt
  <2> QED BY <1>a, <1>e, <2>1, <2>2, AfterOpening
<1>1. CASE RefuseCreate(p)
  BY <1>1, <1>a, <1>b, <1>c, AfterStaying DEF RefuseCreate, Making, Fail, resources, Building
<1>2. CASE CreateSingle(p)
  <2> DEFINE c == context'[p]
  <2>1. c = Context(p, None, FALSE, {})
    BY <1>2, <1>c DEF CreateSingle
  <2> HIDE DEF c
  <2>2. ~c.owns /\ c.injected = {} /\ ~c.distributed
    <3>1. Engine(p).backend = "single"
      BY <1>2 DEF CreateSingle
    <3> QED BY <2>1, <3>1, Zenon DEF Context
  <2>3. /\ at[p] \notin Building /\ at[p] # "killed" /\ NowAt(p, "build")
        /\ open'[p] = open[p] /\ group'[p] = group[p] /\ env'[p] = env[p]
    BY <1>2, <1>b, <1>c DEF CreateSingle, Making, Building, NowAt, resources
  <2> QED BY <1>a, <2>2, <2>3, AfterBorrowing DEF c
<1>3. CASE CreateBorrowed(p)
  <2> DEFINE c == context'[p]
  <2>1. c = Context(p, group[p], FALSE, {})
    BY <1>3, <1>c DEF CreateBorrowed
  <2> HIDE DEF c
  <2>2. ~c.owns /\ c.injected = {} /\ c.group = group[p]
    BY <2>1, Zenon DEF Context
  <2>3. group[p] # None
    <3>1. next[p] \in DOMAIN launch[p].engines
      BY <1>3, ProcessTypes DEF CreateBorrowed, Making, ProcessSettings
    <3> QED BY <1>3, <3>1, Wants DEF CreateBorrowed
  <2>4. /\ at[p] \notin Building /\ at[p] # "killed" /\ NowAt(p, "build")
        /\ open'[p] = open[p] /\ group'[p] = group[p] /\ env'[p] = env[p]
    BY <1>3, <1>b, <1>c DEF CreateBorrowed, Making, Building, NowAt, resources
  <2> QED BY <1>a, <2>2, <2>3, <2>4, AfterBorrowing DEF c
<1>4. CASE CreateStandalone(p)
  <2> DEFINE c == context'[p]
  <2>1. c = Context(p, WantedGroup(p), TRUE, RankEnv \ env[p])
    BY <1>4, <1>c DEF CreateStandalone
  <2> HIDE DEF c
  <2>2. /\ c.owns /\ c.distributed /\ c.group = WantedGroup(p)
        /\ c.injected = RankEnv \ env[p]
    <3>1. Engine(p).backend # "single"
      BY <1>4 DEF CreateStandalone
    <3> QED BY <2>1, <3>1, Zenon DEF Context
  <2>3. WantedGroup(p) # None
    <3>1. next[p] \in DOMAIN launch[p].engines
      BY <1>4, ProcessTypes DEF CreateStandalone, Making, ProcessSettings
    <3> QED BY <1>4, <3>1, Wants DEF CreateStandalone
  <2>4. /\ at[p] \notin Building /\ at[p] # "killed" /\ NowAt(p, "build") /\ open'[p] = open[p]
        /\ group[p] = None /\ group'[p] = WantedGroup(p) /\ env'[p] = env[p] \cup RankEnv
    BY <1>4, <1>b, <1>c DEF CreateStandalone, Making, Building, NowAt
  <2>5. env[p] \cup RankEnv = env[p] \cup (RankEnv \ env[p]) /\ env[p] \cap (RankEnv \ env[p]) = {}
    OBVIOUS
  <2> QED BY <1>a, <2>2, <2>3, <2>4, <2>5, AfterOwning DEF c
<1>5. CASE CreateRendezvous(p)
  BY <1>5, <1>a, <1>b, <1>c, AfterStaying DEF CreateRendezvous, Making, resources, Building
<1>6. CASE FinishRendezvous(p)
  <2>0. group[p] = None /\ WantedGroup(p) # None /\ Engine(p).backend # "single"
    BY <1>6, <1>a, LaunchAssumption DEF FinishRendezvous, OneProcess, AtRendezvous
  <2> DEFINE c == context'[p]
  <2>1. c = Context(p, WantedGroup(p), TRUE, {})
    BY <1>6, <1>c DEF FinishRendezvous
  <2> HIDE DEF c
  <2>2. /\ c.owns /\ c.distributed /\ c.group = WantedGroup(p)
        /\ c.injected = {}
    BY <2>0, <2>1, Zenon DEF Context
  <2>4. /\ at[p] \notin Building /\ at[p] # "killed" /\ NowAt(p, "build") /\ open'[p] = open[p]
        /\ group'[p] = WantedGroup(p) /\ env'[p] = env[p]
    BY <1>6, <1>b, <1>c DEF FinishRendezvous, Building, NowAt
  <2>5. env[p] = env[p] \cup {} /\ env[p] \cap {} = {}
    BY ProcessTypes
  <2> QED BY <1>a, <2>0, <2>2, <2>4, <2>5, AfterOwning DEF c
<1>7. CASE BuildBackend(p)
  <2>1. /\ at[p] = "build" /\ at'[p] \in {"wrap", "loader"} /\ leaked' = leaked
        /\ group'[p] = group[p] /\ env'[p] = env[p] /\ context'[p] = context[p] /\ open'[p] = open[p]
    BY <1>7, <1>b, <1>c DEF BuildBackend, resources
  <2> QED BY <1>a, <2>1, AfterStaying DEF Building
<1>8. CASE WrapModel(p) \/ BuildLoader(p) \/ FinishEngine(p)
  <2>1. /\ at[p] \in {"wrap", "loader", "finish"} /\ at'[p] \in {"loader", "finish", "identity"}
        /\ leaked' = leaked
        /\ group'[p] = group[p] /\ env'[p] = env[p] /\ context'[p] = context[p] /\ open'[p] = open[p]
    BY <1>8, <1>b, <1>c DEF WrapModel, BuildLoader, FinishEngine, resources
  <2> QED BY <1>a, <2>1, AfterStaying DEF Building
<1>9. CASE Materialize(p) \/ HearOutcome(p)
  <2>1. at[p] \in Building /\ context' = context /\ (Opened(p) \/ Abandoned(p))
    BY <1>9 DEF Materialize, HearOutcome, Building
  <2> QED BY <1>d, <1>e, <2>1
<1>11. CASE CloseEngine(p)
  <2>1. /\ at[p] = "idle" /\ NowAt(p, "idle") /\ open[p] # <<>>
        /\ Release(p, Head(open[p]).context) /\ context'[p] = context[p]
        /\ open'[p] = Tail(open[p])
    BY <1>11, <1>b, <1>c DEF CloseEngine, NowAt
  <2> QED BY <1>a, <2>1, AfterClosing
<1>12. CASE GiveUp(p)
  <2>1. CASE at[p] = "rendezvous"
    BY <1>12, <2>1, <1>a, <1>b, <1>c, AfterStaying DEF GiveUp, Fail, resources, Building
  <2>2. CASE at[p] # "rendezvous"
    <3>1. at[p] \in Building /\ context' = context /\ Abandoned(p)
      BY <1>12, <2>2 DEF GiveUp, Waiting, Building, Abandoned
    <3> QED BY <1>d, <3>1
  <2> QED BY <2>1, <2>2
<1>13. CASE LocalFailure(p)
  <2>1. CASE at[p] \in {"build", "loader"} /\ Abandoned(p)
    BY <1>13, <1>d, <2>1 DEF LocalFailure, Building
  <2>2. CASE Fail(p) /\ leaked' = leaked \cup {p} /\ UNCHANGED <<env, group, open>>
    BY <1>13, <2>2, <1>a, <1>b, <1>c, AfterLosing DEF LocalFailure, Fail
  <2> QED BY <1>13, <2>1, <2>2 DEF LocalFailure
<1>14. CASE Kill(p)
  <2>1. at'[p] = "killed" /\ open'[p] = <<>> /\ context'[p] = context[p]
    BY <1>14, <1>b, <1>c DEF Kill
  <2> QED BY <1>a, <2>1, AfterLosing
<1> QED BY <1>1, <1>2, <1>3, <1>4, <1>5, <1>6, <1>7, <1>8, <1>9, <1>11, <1>12, <1>13, <1>14
        DEF Moves, Step, Create

(* A process that waits for its group, or builds an engine.                *)
LEMMA StepPlace ==
  ASSUME Types, GroupInv, NEW p \in Procs, Moves(p)
  PROVE  AtRendezvous(p)' /\ MakesEngine(p)'
<1>a. /\ p \in Processes /\ DOMAIN at = Processes /\ DOMAIN next = Procs /\ launch' = launch
      /\ DOMAIN group = Procs
  BY ProcessTypes, StepChanges DEF Types, Changes
<1>b. Making(p) => next[p] \in DOMAIN launch[p].engines
  BY ProcessTypes DEF Making, ProcessSettings
<1>c. MakesEngine(p) /\ AtRendezvous(p)
  BY DEF GroupInv
<1>d. ASSUME at'[p] \in {"idle", "killed"}
      PROVE  AtRendezvous(p)' /\ MakesEngine(p)'
  BY <1>d DEF AtRendezvous, MakesEngine, Building
<1>e. ASSUME at'[p] \in Building, next'[p] = next[p], next[p] \in DOMAIN launch[p].engines
      PROVE  AtRendezvous(p)' /\ MakesEngine(p)'
  BY <1>a, <1>e DEF AtRendezvous, MakesEngine, Building
<1>1. CASE RefuseCreate(p) \/ LocalFailure(p) \/ GiveUp(p) \/ Materialize(p) \/ HearOutcome(p)
  <2>1. at'[p] = "idle"
    BY <1>1, <1>a DEF RefuseCreate, LocalFailure, GiveUp, Materialize, HearOutcome, Opened,
                      Abandoned, Fail
  <2> QED BY <1>d, <2>1
<1>2. CASE CreateSingle(p) \/ CreateBorrowed(p) \/ CreateStandalone(p)
  <2>1. at'[p] \in Building /\ next'[p] = next[p] /\ Making(p)
    BY <1>2, <1>a DEF CreateSingle, CreateBorrowed, CreateStandalone, resources, Building
  <2> QED BY <1>b, <1>e, <2>1
<1>3. CASE CreateRendezvous(p)
  <2>1. /\ at'[p] = "rendezvous" /\ next' = next /\ Making(p) /\ group[p] = None /\ group' = group
        /\ CanCreate(p) /\ Engine(p).backend # "single"
    BY <1>3, <1>a DEF CreateRendezvous, resources
  <2>2. WantedGroup(p) \in Group
    BY <1>b, <2>1, Wants
  <2>3. WantedGroup(p)' = WantedGroup(p) /\ Engine(p)' = Engine(p)
    BY <1>a, <2>1 DEF WantedGroup, GroupBackend, Engine, RankOf, RankIn, WorldOf
  <2>4. AtRendezvous(p)'
    BY <2>1, <2>2, <2>3 DEF AtRendezvous
  <2>5. MakesEngine(p)'
    BY <1>a, <1>b, <2>1 DEF MakesEngine
  <2> QED BY <2>4, <2>5
<1>4. CASE FinishRendezvous(p) \/ BuildBackend(p) \/ WrapModel(p) \/ BuildLoader(p) \/ FinishEngine(p)
  <2>1. /\ at'[p] \in Building /\ next'[p] = next[p] /\ at[p] \in Building \cup {"rendezvous"}
    BY <1>4, <1>a DEF FinishRendezvous, BuildBackend, WrapModel, BuildLoader, FinishEngine, Building
  <2> QED BY <1>c, <1>e, <2>1 DEF MakesEngine
<1>5. CASE CloseEngine(p) \/ Kill(p)
  <2>1. at'[p] \in {"idle", "killed"}
    BY <1>5, <1>a DEF CloseEngine, Kill
  <2> QED BY <1>d, <2>1
<1> QED BY <1>1, <1>2, <1>3, <1>4, <1>5 DEF Moves, Step, Create

LEMMA GroupNext ==
  ASSUME Types, Types', GroupInv, Next
  PROVE  GroupInv'
<1>1. PICK p \in Procs : Moves(p)
  BY Acting
<1>2. Changes(p) /\ Others(p)
  BY <1>1, StepChanges, ChangesOthers
<1>3. Procs' = Procs
  BY <1>2 DEF Changes, Procs
<1>4. OneProcess(p)'
  BY <1>1, StepSound, StepPlace DEF OneProcess
<1>5. \A q \in Procs \ {p} : OneProcess(q)'
  BY <1>2, OthersSound DEF GroupInv, OneProcess
<1>6. \A q \in Procs : OneProcess(q)'
  BY <1>4, <1>5
<1> QED BY <1>3, <1>6 DEF GroupInv, OneProcess

-----------------------------------------------------------------------------
(* The identity of the run.                                                *)

LEMMA IdentityNext ==
  ASSUME Types, GroupInv, Announced, NEW p \in Procs, Moves(p)
  PROVE  /\ identity' \in [DOMAIN identity -> {"unknown", "written", "failed"}]
         /\ \A i \in DOMAIN identity : identity[i] = "written" => identity'[i] = "written"
         /\ identity' = identity
              \/ /\ RankOf(p) = 0 /\ next'[p] = next[p] + 1
                 /\ \A i \in DOMAIN identity : i # next[p] => identity'[i] = identity[i]
<1>1. CASE identity' = identity
  BY <1>1 DEF Types
<1>2. CASE Materialize(p)
  <2>1. /\ RankOf(p) = 0 /\ at[p] = "identity"
        /\ \E v \in {"written", "failed"} : identity' = [identity EXCEPT ![next[p]] = v]
    BY <1>2 DEF Materialize
  <2>2. next' = [next EXCEPT ![p] = @ + 1] /\ next[p] \in Nat /\ DOMAIN next = Procs
    BY <1>2, ProcessTypes DEF Materialize, Opened, Abandoned, Fail, Types
  <2>3. identity \in [DOMAIN identity -> {"unknown", "written", "failed"}]
    BY DEF Types
  <2>4. \A i \in DOMAIN identity : identity[i] = "written" => i # next[p]
    <3>1. \A i \in DOMAIN identity : identity[i] # "unknown" => i < next[p]
      BY <2>1 DEF Announced
    <3>2. ~(next[p] < next[p])
      BY <2>2
    <3> QED BY <3>1, <3>2
  <2>5. next'[p] = next[p] + 1
    BY <2>2
  <2> QED BY <2>1, <2>3, <2>4, <2>5
<1>3. identity' = identity \/ Materialize(p)
  BY DEF Moves, Step, Create, RefuseCreate, CreateSingle, CreateBorrowed, CreateStandalone,
         CreateRendezvous, FinishRendezvous, BuildBackend, WrapModel, BuildLoader,
         FinishEngine, HearOutcome, CloseEngine, GiveUp, LocalFailure, Kill
<1> QED BY <1>1, <1>2, <1>3

LEMMA NextEngine ==
  ASSUME Types, NEW p \in Procs, Moves(p)
  PROVE  next[p] \in Nat /\ next'[p] \in {next[p], next[p] + 1}
<1>1. next' = next \/ next' = [next EXCEPT ![p] = @ + 1]
  BY DEF Moves, Step, Create, RefuseCreate, CreateSingle, CreateBorrowed, CreateStandalone,
         CreateRendezvous, FinishRendezvous, BuildBackend, WrapModel, BuildLoader,
         FinishEngine, Materialize, HearOutcome, CloseEngine, GiveUp, LocalFailure, Kill,
         Opened, Abandoned, Fail
<1> QED BY <1>1, ProcessTypes DEF Types

LEMMA AnnouncedNext ==
  ASSUME Types, GroupInv, Announced, NEW p \in Procs, Moves(p)
  PROVE  Announced'
<1>1. launch' = launch /\ Others(p) /\ Procs' = Procs
  BY StepChanges, ChangesOthers DEF Changes, Procs
<1>2. DOMAIN identity' = DOMAIN identity
  BY IdentityNext
<1> SUFFICES ASSUME NEW q \in Procs, RankOf(q) = 0, NEW i \in DOMAIN identity, identity'[i] # "unknown"
             PROVE  i < next'[q]
  BY <1>1, <1>2 DEF Announced, RankOf
<1>3. next'[q] \in {next[q], next[q] + 1} /\ next[q] \in Nat
  BY <1>1, NextEngine, ProcessTypes DEF Others
<1>4. i \in Nat
  <2>1. i \in UNION {DOMAIN launch[r].engines : r \in Procs}
    BY DEF Types
  <2>2. PICK r \in Procs : i \in DOMAIN launch[r].engines
    BY <2>1
  <2> QED BY <2>2, ProcessTypes DEF ProcessSettings
<1>5. CASE identity'[i] = identity[i]
  <2>1. i < next[q]
    BY <1>5 DEF Announced
  <2> QED BY <1>3, <1>4, <2>1
<1>6. CASE identity'[i] # identity[i]
  <2>1. RankOf(p) = 0 /\ next'[p] = next[p] + 1 /\ i = next[p]
    BY <1>6, IdentityNext
  <2>2. q = p
    <3>1. launch \in Launches /\ RankIn(launch, p) = RankIn(launch, q)
      BY <2>1 DEF Types, RankOf
    <3> QED BY <3>1, LaunchAssumption DEF Procs
  <2> QED BY <1>3, <2>1, <2>2
<1> QED BY <1>5, <1>6

LEMMA WrappedStays ==
  ASSUME Types, NEW p \in Procs, Others(p), NEW q \in Procs, NEW e, NEW c, Wrapped(q, e, c)
  PROVE  Wrapped(q, e, c)'
<1>1. launch' = launch /\ \A r \in Procs : arrived[r] \subseteq arrived'[r]
  BY DEF Others
<1> QED BY <1>1 DEF Wrapped, WorldOf, Procs

(* What OpenInv says of one process.                                       *)
Agreed(p, o) ==
  \A i \in DOMAIN o : /\ o[i].engine \in DOMAIN identity /\ identity[o[i].engine] = "written"
                      /\ Wrapped(p, o[i].engine, o[i].context)
Underway(p) == at[p] \in {"loader", "finish", "identity"} => Wrapped(p, next[p], context[p])

LEMMA AgreedStays ==
  ASSUME Types, GroupInv, Announced, NEW p \in Procs, Moves(p), NEW q \in Procs,
         NEW o, Agreed(q, o)
  PROVE  Agreed(q, o)'
<1>1. Others(p)
  BY StepChanges, ChangesOthers
<1>2. /\ DOMAIN identity' = DOMAIN identity
      /\ \A i \in DOMAIN identity : identity[i] = "written" => identity'[i] = "written"
  BY IdentityNext
<1> SUFFICES ASSUME NEW i \in DOMAIN o
             PROVE  /\ o[i].engine \in DOMAIN identity' /\ identity'[o[i].engine] = "written"
                    /\ Wrapped(q, o[i].engine, o[i].context)'
  BY DEF Agreed
<1>3. /\ o[i].engine \in DOMAIN identity /\ identity[o[i].engine] = "written"
      /\ Wrapped(q, o[i].engine, o[i].context)
  BY DEF Agreed
<1>4. Wrapped(q, o[i].engine, o[i].context)'
  BY <1>1, <1>3, WrappedStays
<1> QED BY <1>2, <1>3, <1>4

LEMMA UnderwayNext ==
  ASSUME Types, GroupInv, Announced, NEW p \in Procs, Moves(p), Underway(p)
  PROVE  Underway(p)'
<1>a. /\ p \in Processes /\ DOMAIN at = Processes /\ Others(p)
      /\ launch' = launch /\ Procs' = Procs /\ WorldOf(p)' = WorldOf(p)
  BY ProcessTypes, StepChanges, ChangesOthers DEF Types, Changes, Procs, WorldOf
<1> SUFFICES ASSUME at'[p] \in {"loader", "finish", "identity"}
             PROVE  Wrapped(p, next[p], context[p])'
  BY DEF Underway
<1>1. CASE BuildBackend(p)
  <2>1. ~(context[p].distributed /\ WorldOf(p) > 1) /\ context' = context
    BY <1>1, <1>a DEF BuildBackend
  <2> QED BY <1>a, <2>1 DEF Wrapped
<1>2. CASE WrapModel(p)
  <2>1. arrived' = arrived /\ next' = next /\ \A q \in Procs : <<next[p], "wrap">> \in arrived[q]
    BY <1>2 DEF WrapModel, AllAt
  <2> QED BY <1>a, <2>1 DEF Wrapped
<1>3. CASE BuildLoader(p) \/ FinishEngine(p)
  <2>1. context' = context /\ next' = next /\ at[p] \in {"loader", "finish"}
    BY <1>3 DEF BuildLoader, FinishEngine
  <2>2. Wrapped(p, next[p], context[p])
    BY <2>1 DEF Underway
  <2>3. next'[p] = next[p] /\ context'[p] = context[p]
    BY <2>1
  <2>4. \A q \in Procs : arrived[q] \subseteq arrived'[q]
    BY <1>a DEF Others
  <2> QED BY <1>a, <2>2, <2>3, <2>4 DEF Wrapped
<1>4. BuildBackend(p) \/ WrapModel(p) \/ BuildLoader(p) \/ FinishEngine(p)
  <2>1. at'[p] \notin {"idle", "killed", "build", "rendezvous"}
    OBVIOUS
  <2> QED BY <1>a, <2>1 DEF Moves, Step, Create, RefuseCreate, CreateSingle, CreateBorrowed,
         CreateStandalone, CreateRendezvous, FinishRendezvous, Materialize, HearOutcome,
         CloseEngine, GiveUp, LocalFailure, Kill, Opened, Abandoned, Fail
<1> QED BY <1>1, <1>2, <1>3, <1>4

LEMMA AgreedNext ==
  ASSUME Types, GroupInv, Announced, NEW p \in Procs, Moves(p), Underway(p), Agreed(p, open[p])
  PROVE  Agreed(p, open[p])'
<1>a. /\ p \in Processes /\ DOMAIN at = Processes /\ DOMAIN open = Procs
      /\ launch' = launch /\ Procs' = Procs /\ WorldOf(p)' = WorldOf(p)
      /\ \A q \in Procs : arrived[q] \subseteq arrived'[q]
  BY ProcessTypes, StepChanges, ChangesOthers DEF Types, Changes, Others, Procs, WorldOf
<1>b. PICK o \in Seq(Engines) : o = open[p]
  BY ProcessTypes
<1>c. PICK n : n = next[p]
  OBVIOUS
<1>d. PICK c : c = context[p]
  OBVIOUS
<1>e. Agreed(p, o)'
  BY <1>b, AgreedStays
<1>f. \A i \in DOMAIN o : /\ o[i].engine \in DOMAIN identity' /\ identity'[o[i].engine] = "written"
                          /\ Wrapped(p, o[i].engine, o[i].context)'
  BY <1>e DEF Agreed
<1>1. CASE open'[p] = o
  BY <1>1, <1>f DEF Agreed
<1>2. CASE Opened(p) /\ (Materialize(p) \/ HearOutcome(p))
  <2> DEFINE e == [engine |-> n, context |-> c]
             u == <<e>> \o o
  <2>1. open'[p] = u /\ at[p] = "identity"
    BY <1>2, <1>a, <1>b, <1>c, <1>d DEF Opened, Materialize, HearOutcome
  <2>2. /\ Len(o) \in Nat /\ DOMAIN u = 1..Len(o) + 1 /\ DOMAIN o = 1..Len(o) /\ u[1] = e
        /\ \A i \in 2..Len(o) + 1 : u[i] = o[i - 1]
    OBVIOUS
  <2>3. n \in DOMAIN identity
    <3>1. next[p] \in DOMAIN launch[p].engines
      BY <2>1 DEF GroupInv, MakesEngine, Building
    <3> QED BY <1>c, <3>1 DEF Types
  <2>4. open' # open
    <3>1. Len(u) = Len(o) + 1
      OBVIOUS
    <3>2. u # o
      <4> HIDE DEF u
      <4> QED BY <2>2, <3>1
    <3> QED BY <1>b, <2>1, <3>2
  <2>5. identity'[n] = "written" /\ DOMAIN identity' = DOMAIN identity
    <3>1. CASE Materialize(p)
      <4>1. identity' = [identity EXCEPT ![next[p]] = "written"]
        BY <3>1, <2>4 DEF Materialize, Abandoned
      <4> QED BY <1>c, <2>3, <4>1
    <3>2. CASE HearOutcome(p)
      <4>1. identity[next[p]] = "written"
        BY <3>2, <2>4 DEF HearOutcome, Abandoned
      <4> QED BY <1>c, <2>3, <4>1, IdentityNext
    <3> QED BY <1>2, <3>1, <3>2
  <2>6. Wrapped(p, n, c)'
    <3>1. Wrapped(p, next[p], context[p])
      BY <2>1 DEF Underway
    <3> QED BY <1>a, <1>c, <1>d, <3>1 DEF Wrapped
  <2>7. ASSUME NEW i \in DOMAIN u
        PROVE  /\ u[i].engine \in DOMAIN identity' /\ identity'[u[i].engine] = "written"
               /\ Wrapped(p, u[i].engine, u[i].context)'
    <3>1. CASE i = 1
      <4>1. u[i].engine = n /\ u[i].context = c
        BY <2>2, <3>1
      <4> HIDE DEF u
      <4> QED BY <2>3, <2>5, <2>6, <4>1
    <3>2. CASE i # 1
      <4>1. i - 1 \in DOMAIN o /\ u[i] = o[i - 1]
        BY <2>2, <3>2
      <4> HIDE DEF u
      <4> QED BY <1>f, <4>1
    <3> QED BY <3>1, <3>2
  <2> HIDE DEF u
  <2> QED BY <2>1, <2>7 DEF Agreed
<1>3. CASE CloseEngine(p)
  <2> DEFINE u == Tail(o)
  <2>1. open'[p] = u /\ o # <<>>
    BY <1>3, <1>a, <1>b DEF CloseEngine
  <2>2. \A i \in DOMAIN u : i + 1 \in DOMAIN o /\ u[i] = o[i + 1]
    BY <2>1
  <2> HIDE DEF u
  <2>3. \A i \in DOMAIN u : /\ u[i].engine \in DOMAIN identity' /\ identity'[u[i].engine] = "written"
                            /\ Wrapped(p, u[i].engine, u[i].context)'
    BY <1>f, <2>2
  <2> QED BY <2>1, <2>3 DEF Agreed
<1>4. CASE Kill(p)
  <2>1. open'[p] = <<>>
    BY <1>4, <1>a DEF Kill
  <2> QED BY <2>1 DEF Agreed
<1>5. \/ open' = open
      \/ Opened(p) /\ (Materialize(p) \/ HearOutcome(p))
      \/ CloseEngine(p) \/ Kill(p)
  BY DEF Moves, Step, Create, RefuseCreate, CreateSingle, CreateBorrowed, CreateStandalone,
         CreateRendezvous, FinishRendezvous, BuildBackend, WrapModel, BuildLoader,
         FinishEngine, Materialize, HearOutcome, GiveUp, LocalFailure, Abandoned
<1> QED BY <1>b, <1>1, <1>2, <1>3, <1>4, <1>5

LEMMA OpenNext ==
  ASSUME Types, Types', GroupInv, Announced, OpenInv, Next
  PROVE  OpenInv'
<1>1. PICK p \in Procs : Moves(p)
  BY Acting
<1>2. Others(p) /\ Procs' = Procs
  BY <1>1, StepChanges, ChangesOthers DEF Changes, Procs
<1>3. \A q \in Procs : Agreed(q, open[q]) /\ Underway(q)
  BY DEF OpenInv, Agreed, Underway
<1>4. ASSUME NEW q \in Procs
      PROVE  Agreed(q, open[q])' /\ Underway(q)'
  <2>1. CASE q = p
    BY <1>1, <1>3, <2>1, AgreedNext, UnderwayNext
  <2>2. CASE q # p
    <3>1. PICK o : o = open[q]
      OBVIOUS
    <3>2. open'[q] = o /\ at'[q] = at[q] /\ next'[q] = next[q] /\ context'[q] = context[q]
      BY <1>2, <2>2, <3>1 DEF Others
    <3>3. Agreed(q, o)'
      BY <1>1, <1>3, <3>1, AgreedStays
    <3>4. Agreed(q, open[q])'
      BY <3>2, <3>3 DEF Agreed
    <3>5. launch' = launch /\ \A r \in Procs : arrived[r] \subseteq arrived'[r]
      BY <1>2 DEF Others
    <3>6. Underway(q)'
      BY <1>2, <1>3, <3>2, <3>5 DEF Underway, Wrapped, WorldOf
    <3> QED BY <3>4, <3>6
  <2> QED BY <2>1, <2>2
<1> QED BY <1>2, <1>4 DEF OpenInv, Agreed, Underway

-----------------------------------------------------------------------------
(* The theorems.                                                           *)

LEMMA InitInvariant == Init => IInv
<1> SUFFICES ASSUME Init PROVE IInv
  OBVIOUS
<1>a. launch \in Launches /\ \A p \in Procs : p \in Processes /\ launch[p] \in ProcessSettings
  BY LaunchAssumption DEF Init, Procs
<1>b. /\ at \in [Processes -> {"idle", "absent"}] /\ \A p \in Processes : at[p] = "idle" <=> p \in Procs
  BY DEF Init
<1>1. Types
  <2>1. env \in [Procs -> SUBSET RankEnv] /\ group \in [Procs -> Group \cup {None}]
    BY <1>a DEF Init, ProcessSettings
  <2>2. at \in [Processes -> Points] /\ \A p \in Processes \ Procs : at[p] = "absent"
    BY <1>b DEF Points
  <2>3. context \in [Procs -> Contexts]
    BY DEF Init, Contexts
  <2>4. open \in [Procs -> Seq(Engines)]
    <3>1. <<>> \in Seq(Engines)
      OBVIOUS
    <3> QED BY <3>1 DEF Init
  <2>5. /\ next \in [Procs -> Nat \ {0}] /\ arrived \in [Procs -> SUBSET ((Nat \ {0}) \X {"rendezvous", "wrap"})]
        /\ leaked \in SUBSET Procs
    BY DEF Init
  <2>6. identity \in [UNION {DOMAIN launch[p].engines : p \in Procs} ->
                         {"unknown", "written", "failed"}]
    BY DEF Init
  <2> QED BY <1>a, <2>1, <2>2, <2>3, <2>4, <2>5, <2>6 DEF Types
<1>2. GroupInv
  <2> SUFFICES ASSUME NEW p \in Procs PROVE OneProcess(p)
    BY DEF GroupInv, OneProcess
  <2>1. at[p] = "idle" /\ open[p] = <<>> /\ group[p] = launch[p].host /\ env[p] = launch[p].vars
    BY <1>a, <1>b DEF Init
  <2>2. DOMAIN HeldBy(p) = {}
    <3>1. open[p] \in Seq(Engines) /\ context[p] \in Contexts
      BY <1>1, ProcessTypes
    <3>2. DOMAIN HeldBy(p) = Places(open[p], at[p])
      BY <3>1, HeldMaps DEF HeldBy
    <3> QED BY <2>1, <3>2 DEF Places, Building
  <2>3. Sound(HeldBy(p), group[p], env[p], launch[p], Whole(p))
    BY <2>1, <2>2 DEF Sound, Consistent, HasGroup, OwnerFirst, Restores
  <2>4. AtRendezvous(p) /\ MakesEngine(p)
    BY <2>1 DEF AtRendezvous, MakesEngine, Building
  <2> QED BY <2>3, <2>4 DEF OneProcess
<1>3. OpenInv
  <2>1. \A p \in Procs : open[p] = <<>> /\ at[p] = "idle"
    BY <1>a, <1>b DEF Init
  <2> QED BY <2>1 DEF OpenInv
<1>4. Announced
  BY DEF Init, Announced
<1> QED BY <1>1, <1>2, <1>3, <1>4 DEF IInv

LEMMA NextInvariant == IInv /\ [Next]_vars => IInv'
<1> SUFFICES ASSUME IInv, [Next]_vars PROVE IInv'
  OBVIOUS
<1>1. CASE Next
  <2>1. PICK p \in Procs : Moves(p)
    BY <1>1, Acting DEF IInv
  <2>2. Types'
    <3>1. Changes(p)
      BY <2>1, StepChanges DEF IInv
    <3>2. identity' \in [UNION {DOMAIN launch[q].engines : q \in Procs} ->
                            {"unknown", "written", "failed"}]
      BY <2>1, IdentityNext DEF IInv, Types
    <3> QED BY <3>1, <3>2, ChangesTypes DEF IInv
  <2>3. GroupInv' /\ OpenInv'
    BY <1>1, <2>2, GroupNext, OpenNext DEF IInv
  <2>4. Announced'
    BY <2>1, AnnouncedNext DEF IInv
  <2> QED BY <2>2, <2>3, <2>4 DEF IInv
<1>2. CASE UNCHANGED vars
  <2>1. UNCHANGED <<launch, env, group, leaked, next, at, context, open, arrived, identity>>
    BY <1>2 DEF vars, resources
  <2>2. Types'
    BY <2>1 DEF IInv, Types, Procs
  <2>3. GroupInv'
    <3> SUFFICES ASSUME NEW p \in Procs PROVE OneProcess(p)'
      BY <2>1 DEF GroupInv, OneProcess, Procs
    <3>1. OneProcess(p)
      BY DEF IInv, GroupInv, OneProcess
    <3>2. HeldBy(p)' = HeldBy(p) /\ Whole(p)' = Whole(p)
      BY <2>1 DEF HeldBy, Whole
    <3>3. WantedGroup(p)' = WantedGroup(p) /\ Engine(p)' = Engine(p)
      BY <2>1 DEF WantedGroup, GroupBackend, Engine, RankOf, RankIn, WorldOf
    <3>4. Sound(HeldBy(p), group[p], env[p], launch[p], Whole(p))'
      BY <2>1, <3>1, <3>2 DEF OneProcess
    <3> QED BY <2>1, <3>1, <3>3, <3>4 DEF OneProcess, AtRendezvous, MakesEngine
  <2>4. OpenInv'
    BY <2>1 DEF IInv, OpenInv, Wrapped, WorldOf, Procs
  <2>5. Announced'
    BY <2>1 DEF IInv, Announced, RankOf, RankIn, Procs
  <2> QED BY <2>2, <2>3, <2>4, <2>5 DEF IInv
<1> QED BY <1>1, <1>2

(* The invariant holds in every state of every launch.                     *)
THEOREM LaunchInvariance == Spec => []IInv
<1> QED BY InitInvariant, NextInvariant, PTL DEF Spec

(* An open distributed engine has its process group whatever engines were   *)
(* opened, closed or failed around it, and a process that has closed its    *)
(* engines is what it was before the first (ProcessContext.create, close). *)
THEOREM OpenEnginesHoldTheirGroup == Spec => []GroupHeld
<1>1. IInv => GroupHeld
  <2> SUFFICES ASSUME IInv, NEW p \in Procs
               PROVE  /\ \A i \in DOMAIN open[p] :
                           open[p][i].context.distributed =>
                             group[p] # None /\ group[p] = open[p][i].context.group
                      /\ at[p] = "idle" /\ open[p] = <<>> /\ p \notin leaked =>
                           group[p] = launch[p].host /\ env[p] = launch[p].vars
    BY DEF GroupHeld
  <2>1. Sound(HeldBy(p), group[p], env[p], launch[p], Whole(p))
    BY DEF IInv, GroupInv
  <2>2. open[p] \in Seq(Engines) /\ context[p] \in Contexts
    BY ProcessTypes DEF IInv
  <2>3. /\ DOMAIN HeldBy(p) = Places(open[p], at[p])
        /\ \A i \in Places(open[p], at[p]) :
             HeldBy(p)[i] = IF i = 0 THEN context[p] ELSE open[p][i].context
    BY <2>2, HeldMaps DEF HeldBy
  <2>4. ASSUME NEW i \in DOMAIN open[p], open[p][i].context.distributed
        PROVE  group[p] # None /\ group[p] = open[p][i].context.group
    <3>1. i \in Places(open[p], at[p]) /\ i # 0
      BY <2>2 DEF Places
    <3>2. HeldBy(p)[i] = open[p][i].context /\ i \in DOMAIN HeldBy(p)
      BY <2>3, <3>1
    <3> DEFINE H == HeldBy(p)
    <3>3. HasGroup(H, group[p]) /\ i \in DOMAIN H /\ H[i] = open[p][i].context
      BY <2>1, <3>2 DEF Sound
    <3> HIDE DEF H
    <3> QED BY <2>4, <3>3 DEF HasGroup
  <2>5. ASSUME at[p] = "idle", open[p] = <<>>, p \notin leaked
        PROVE  group[p] = launch[p].host /\ env[p] = launch[p].vars
    <3>1. DOMAIN HeldBy(p) = {}
      BY <2>3, <2>5 DEF Places, Building
    <3>2. Restores(HeldBy(p), group[p], env[p], launch[p])
      BY <2>1, <2>5 DEF Sound, Whole
    <3> QED BY <3>1, <3>2 DEF Restores
  <2> QED BY <2>4, <2>5
<1> QED BY <1>1, LaunchInvariance, PTL

(* A rank trains only on an identity that the primary has written, in a     *)
(* world whose ranks have all wrapped the same engine (build_engine,        *)
(* ProcessContext.coordinate_primary).                                       *)
THEOREM RanksAgreeToTrain == Spec => []OpenIsAgreed
<1>1. IInv => OpenIsAgreed
  BY DEF IInv, OpenInv, OpenIsAgreed, Wrapped
<1> QED BY <1>1, LaunchInvariance, PTL
=============================================================================
