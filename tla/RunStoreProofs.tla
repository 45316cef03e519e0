--------------------------- MODULE RunStoreProofs ---------------------------
(***************************************************************************)
(* The run store for every set of runs, services, requests and settings.   *)
(* Four layers of one argument:                                            *)
(*                                                                         *)
(*   StoreInv     what a request finds in the directory of its run while   *)
(*                it holds the admission shard, who holds leases, what the *)
(*                sweep spares: every setting.  Gives the types and        *)
(*                AcceptedIsDurable.                                       *)
(*   PrivateInv   one service: whoever executes is tracked as live, so     *)
(*                that a request that finds no record is alone.  Gives     *)
(*                PinnedRunSurvives.                                       *)
(*   ForkInv      a copied history exists only while its fork is being     *)
(*                admitted.  Gives ExecutingRunKeepsJournal.               *)
(*   QueuedInv    an open journal has an author that was not turned away.  *)
(*                Gives RefusedNeverRuns.                                  *)
(***************************************************************************)
EXTENDS RunStore, FiniteSetTheorems, TLAPS

-----------------------------------------------------------------------------
(* The invariants *)

\* A process that has requests on their way runs, and it is one of the setting's.
Upheld ==
    /\ \A a \in Attempts : InFlight(a) => up[Svc(a)]
    /\ \A s \in Services : up[s] => s \in setting.services

\* A request on its way through the admission holds the shard of its run, and no other.
Locked ==
    /\ \A a \in Attempts : pc[a] \in Holding => shard[ShardOf[Run(a)]] = a
    /\ \A h \in Shards : shard[h] # Nobody => h = ShardOf[Run(shard[h])]

\* What a fork can copy: an admission of its source.
SourceIds(a) == {"old"} \cup {work[b].identity : b \in {q \in Attempts : Run(q) = work[a].source}}

\* A request that adopted the directory it found.
Adopter(a) ==
    /\ ~local[a].created
    /\ local[a].snapshot.stage = "admitted" /\ dir[Run(a)].stage = "admitted"
    /\ local[a].snapshot.identity = dir[Run(a)].identity
    /\ pc[a] \in {"probe", "queue", "register", "spawn"} =>
          dir[Run(a)].identity = work[a].identity

\* A request that prepares a directory of its own.
Author(a) ==
    /\ pc[a] \in {"live", "prepare"} =>
          dir[Run(a)].stage \in {"missing", "bare"} /\ local[a] = NoLocal
    /\ pc[a] \in {"pin", "probe", "queue"} =>
          dir[Run(a)].stage = IF IsFork(a) THEN "history" ELSE "bare"
    /\ pc[a] = "pin" =>
          local[a].snapshot = Missing /\ (IsFork(a) => dir[Run(a)].identity \in SourceIds(a))
    /\ pc[a] \in {"probe", "queue", "register"} =>
          IF IsFork(a) THEN local[a].snapshot.stage = "history"
                            /\ local[a].snapshot.identity \in SourceIds(a)
          ELSE local[a].snapshot = Missing
    /\ pc[a] \in {"register", "spawn"} =>
          dir[Run(a)].stage = "admitted" /\ dir[Run(a)].identity = work[a].identity
    /\ pc[a] = "settle" => dir[Run(a)].stage \in {"missing", "admitted"}
    /\ pc[a] # "seed"

\* What a request remembers is what it finds in the directory of its run.
Placed(a) ==
    IF local[a].adopted
    THEN pc[a] \in {"live", "prepare", "seed", "probe", "queue", "register", "spawn"} /\ Adopter(a)
    ELSE (pc[a] \notin Holding \/ pc[a] = "adopt" => local[a] = NoLocal) /\ Author(a)

\* An admission carries the identity of a request for its run, or is an old one.
Identified ==
    \A r \in Runs : dir[r].stage = "admitted" =>
        dir[r].identity = "old" \/ \E a \in Attempts : Run(a) = r /\ dir[r].identity = work[a].identity

\* A lease belongs to an engine over an open journal or to a copy of a closed one.
Leased ==
    \A r \in Runs :
        /\ lease[r] \in Services =>
              /\ <<lease[r], r>> \in engines
              /\ dir[r].outcome = "none" /\ dir[r].stage \in {"history", "admitted"}
        /\ lease[r] \in Attempts => dir[r].stage = "admitted" /\ dir[r].outcome # "none"

\* The pins a sweep works from hold every pin of now, and it spares them.
Spared ==
    /\ DOMAIN sweep = {"by", "retained", "queue", "ok", "failed", "deleted"}
    /\ sweep.by = Nobody => sweep.deleted = {}
    /\ sweep.by # Nobody => pins \subseteq sweep.retained
    /\ sweep.deleted \cap sweep.retained = {}
    /\ \A a \in Attempts : work[a].keyed /\ InFlight(a) => Run(a) \in pins

StoreInv ==
    /\ StoreTypeOK /\ Upheld /\ Locked /\ (\A a \in Attempts : Placed(a))
    /\ Identified /\ Leased /\ Spared

\* One service: the run of a lease is live in its map; a request past the check of the
\* map has no live record, and after the probe none; what it prepares stays open.
Alone(a) ==
    /\ pc[a] \in {"prepare", "pin", "seed", "probe", "queue", "register", "settle"} =>
          Record(a) # "live"
    /\ pc[a] \in {"queue", "register"} => Record(a) = "none"
    /\ pc[a] = "spawn" => Record(a) = "live" \/ Terminal(dir[Run(a)])
    /\ pc[a] \in {"pin", "probe", "queue", "register", "settle"} /\ ~local[a].adopted =>
          dir[Run(a)].outcome = "none"
PrivateInv == ~setting.shared =>
    /\ \A r \in Runs : lease[r] \in Services => records[lease[r]][r] = "live"
    /\ \A a \in Attempts : Alone(a)

\* A shared store is used by processes whose maps have room for every run.
Roomy(c) == c.shared => IsFiniteSet(Runs) /\ c.tracked \in Int /\ Cardinality(Runs) <= c.tracked

\* Forks are made by one service that does not crash; requests for a fork's id are
\* the fork and its retries, under its idempotency key.
ForkId(c, r) == \E a \in Attempts : c.work[a].run = r /\ c.work[a].source # NoSource
Orderly(c) ==
    \A a \in Attempts : ForkId(c, c.work[a].run) =>
        /\ c.work[a].source # NoSource /\ c.work[a].keyed
        /\ ~c.shared /\ c.crashes = 0

\* A copied history belongs to a fork on its way.
HistoryHeld(r) == dir[r].stage = "history" =>
    \E a \in Attempts : /\ Run(a) = r /\ IsFork(a) /\ ~local[a].adopted
                        /\ pc[a] \in {"pin", "probe", "queue"}
\* A cancel waits in the mailbox of a journal only.
Mailed(r) == dir[r].mail => dir[r].stage \in {"history", "admitted"}
\* A fork creates the directory it prepares.
ForkOwn(a) == IsFork(a) /\ ~local[a].adopted =>
    /\ pc[a] \in {"live", "prepare"} => dir[Run(a)].stage = "missing"
    /\ pc[a] \in {"pin", "probe", "queue"} => local[a].created
\* A fork's record has an admitted directory, or one that the sweep has just deleted.
ForkRecords(r) ==
    /\ r \in sweep.deleted => dir[r].stage = "missing"
    /\ \A s \in Services : up[s] /\ records[s][r] # "none" =>
          dir[r].stage = "admitted" \/ (r \in sweep.deleted /\ sweep.by = s)
ForkInv == Orderly(setting) =>
    /\ \A r \in Runs : HistoryHeld(r) /\ Mailed(r)
    /\ \A a \in Attempts : ForkOwn(a)
    /\ \A r \in Runs : ForkId(setting, r) => ForkRecords(r)

\* Nobody removes a journal under its engine.
EngineInv == Orderly(setting) /\ Roomy(setting) =>
    \A e \in engines : dir[e[2]].stage = "admitted" /\ lease[e[2]] = e[1]

\* An open admission was written by a request that goes on, succeeded, was lost or
\* could not take it back.
WrittenBy(a) == pc[a] \in {"spawn", "ok", "unsettled", "lost"}
                \/ (pc[a] \in {"register", "settle"} /\ ~local[a].adopted)
Open(d) == d.stage = "admitted" /\ d.identity # "old" /\ d.outcome # "interrupted"
QueuedInv == ~setting.shared =>
    \A r \in Runs : Open(dir[r]) => \E a \in Attempts : Run(a) = r /\ WrittenBy(a)

LayersInv == PrivateInv /\ ForkInv /\ EngineInv /\ QueuedInv

\* The request of a fork is told from every request for its source.
ForksDiffer(c) ==
    \A a, b \in Attempts : c.work[a].source # NoSource =>
        /\ c.work[a].identity # "old"
        /\ c.work[b].run = c.work[a].source => c.work[b].identity # c.work[a].identity

-----------------------------------------------------------------------------
(* Facts about the setting, directories and steps *)

\* A request names a service and a run of the store; its run has a shard.
LEMMA RequestFacts ==
  ASSUME setting \in Settings, NEW a \in Attempts
  PROVE  /\ Run(a) \in Runs /\ Svc(a) \in Services /\ ShardOf[Run(a)] \in Shards
         /\ IsFork(a) => work[a].source \in Runs
  BY StoreAssumption DEF Run, Svc, IsFork, work, Shards

\* What setting leaves alone.
LEMMA SettingKeeps ==
  ASSUME setting' = setting
  PROVE  /\ work' = work
         /\ \A a : Run(a)' = Run(a) /\ Svc(a)' = Svc(a) /\ (IsFork(a)' <=> IsFork(a))
         /\ \A a : SourceIds(a)' = SourceIds(a)
  BY DEF work, Run, Svc, IsFork, SourceIds

\* The directories that requests make.
LEMMA DirectoryFacts ==
  ASSUME born \in Nat
  PROVE  /\ Missing \in Directories /\ Missing.stage = "missing" /\ Missing.outcome = "none"
         /\ \A m \in BOOLEAN : /\ Bare(m) \in Directories /\ Bare(m).stage = "bare"
                               /\ Bare(m).mail = m /\ Bare(m).outcome = "none"
         /\ NoLocal \in Memories /\ NoLocal.snapshot = Missing
         /\ ~NoLocal.adopted /\ ~NoLocal.created /\ ~Missing.mail
<1>1. /\ Missing \in Directories /\ Missing.stage = "missing" /\ Missing.outcome = "none"
      /\ ~Missing.mail
  BY DEF Missing, Directories
<1>2. ASSUME NEW m \in BOOLEAN
      PROVE  /\ Bare(m) \in Directories /\ Bare(m).stage = "bare"
             /\ Bare(m).mail = m /\ Bare(m).outcome = "none"
  <2>1. Bare(m).stage = "bare" /\ Bare(m).outcome = "none"
    BY DEF Missing, Bare
  <2>2. Bare(m).mail = m
    BY DEF Missing, Bare
  <2>3. Bare(m) \in Directories
    BY <1>1 DEF Bare, Directories
  <2> QED
    BY <2>1, <2>2, <2>3
<1>3. /\ NoLocal \in Memories /\ NoLocal.snapshot = Missing
      /\ ~NoLocal.adopted /\ ~NoLocal.created
  BY <1>1 DEF NoLocal, Memories
<1> QED
  BY <1>1, <1>2, <1>3

\* The set of directories grows with the clock.
LEMMA DirectoriesGrow ==
  ASSUME born \in Nat, born' \in Nat, born' >= born, setting' = setting
  PROVE  Directories \subseteq Directories' /\ Memories \subseteq Memories'
<1>1. work' = work
  BY SettingKeeps
<1> QED
  BY <1>1 DEF Directories, Memories

\* One step of request a, as far as the others can tell.
Moved(a) ==
    /\ UNCHANGED <<setting, up, shutting, pins, sweep, crashes>>
    /\ pc[a] \in {"idle", "wait"} \cup Holding
    /\ pc' \in [Attempts -> Steps] /\ local' \in [Attempts -> Memories']
    /\ \A b \in Attempts \ {a} : pc'[b] = pc[b] /\ local'[b] = local[b]
    /\ pc'[a] # "idle" /\ (pc'[a] = "wait" => pc[a] = "idle")
    /\ pc'[a] \in Holding => pc[a] \in Holding
    /\ shard' \in [Shards -> {Nobody} \cup Attempts]
    /\ \A h \in Shards : shard'[h] = IF pc'[a] \in Ended /\ shard[h] = a THEN Nobody ELSE shard[h]
    /\ pc[a] = "idle" => up[Svc(a)] /\ (work[a].keyed => Run(a) \in pins)
    /\ born' \in Nat /\ dir' \in [Runs -> Directories']
    /\ \A r \in Runs : (r # Run(a) \/ pc[a] \notin Holding) => dir'[r] = dir[r]
    /\ lease' \in [Runs -> {Nobody} \cup Services \cup Attempts]
    /\ engines' \subseteq {s \in Services : up[s]} \X Runs
    /\ records' \in [Services -> [Runs -> {"none", "live", "done"}]]

\* Two requests that hold shards work on different runs.
LEMMA HoldersDiffer ==
  ASSUME StoreInv, NEW a \in Attempts, NEW b \in Attempts, a # b,
         pc[a] \in Holding, pc[b] \in Holding
  PROVE  Run(a) # Run(b)
  BY DEF StoreInv, Locked

\* A request that holds no shard remembers nothing.
LEMMA OutsideForgets ==
  ASSUME NEW a \in Attempts, Placed(a), pc[a] \notin Holding
  PROVE  local[a] = NoLocal
  BY DEF Placed, Holding

\* Placed says of a request that holds no shard only that it remembers nothing.
LEMMA OutsidePlaced ==
  ASSUME NEW a \in Attempts, pc[a] \notin Holding, local[a] = NoLocal
  PROVE  Placed(a)
  BY DEF Placed, Author, NoLocal, Holding

\* The step of a request keeps the locks and what the others know.
LEMMA MovedKeeps ==
  ASSUME StoreInv, NEW a \in Attempts, Moved(a)
  PROVE  /\ StoreTypeOK' /\ Upheld' /\ Locked' /\ Spared'
         /\ \A b \in Attempts \ {a} : Placed(b)'
<1>1. setting \in Settings /\ setting' = setting
  BY DEF StoreInv, StoreTypeOK, Moved
<1>2. /\ work' = work
      /\ \A b : Run(b)' = Run(b) /\ Svc(b)' = Svc(b) /\ (IsFork(b)' <=> IsFork(b))
      /\ \A b : SourceIds(b)' = SourceIds(b)
  BY <1>1, SettingKeeps
<1>3. \A b \in Attempts : ShardOf[Run(b)] \in Shards /\ Run(b) \in Runs
  BY <1>1, RequestFacts
<1>4. Holding \cap Ended = {} /\ "idle" \notin Holding \cup Ended /\ "wait" \notin Holding \cup Ended
  BY DEF Holding, Ended
<1>5. Locked'
  <2>1. ASSUME NEW b \in Attempts, pc'[b] \in Holding PROVE shard'[ShardOf[Run(b)]] = b
    BY <1>3, <1>4, <2>1 DEF StoreInv, Locked, Moved
  <2>2. ASSUME NEW h \in Shards, shard'[h] # Nobody PROVE h = ShardOf[Run(shard'[h])]
    BY <2>2 DEF StoreInv, Locked, Moved
  <2> QED
    BY <1>2, <2>1, <2>2 DEF Locked
<1>6. Upheld'
  <2>1. ASSUME NEW b \in Attempts, InFlight(b)' PROVE up'[Svc(b)]
    BY <1>4, <2>1 DEF StoreInv, Upheld, Moved, InFlight, Steps, Ended, Holding
  <2> QED
    BY <1>1, <1>2, <2>1 DEF Upheld, StoreInv, Moved
<1>7. Spared'
  <2>1. ASSUME NEW b \in Attempts, InFlight(b)', work[b].keyed PROVE Run(b) \in pins
    BY <1>4, <2>1 DEF StoreInv, Spared, Moved, InFlight
  <2> QED
    BY <1>2, <2>1 DEF Spared, StoreInv, Moved
<1>8. StoreTypeOK'
  <2>1. ASSUME NEW h \in Shards, shard'[h] # Nobody PROVE pc'[shard'[h]] \in Holding
    <3>1. shard'[h] = shard[h] /\ pc[shard[h]] \in Holding /\ shard[h] \in Attempts
      BY <2>1 DEF StoreInv, StoreTypeOK, Moved
    <3>2. CASE shard[h] = a
      <4>1. pc'[a] \in Steps /\ pc'[a] \notin Ended \cup {"idle", "wait"}
        BY <1>4, <2>1, <3>1, <3>2 DEF Moved
      <4> QED
        BY <3>1, <3>2, <4>1 DEF Steps
    <3> QED
      BY <3>1, <3>2 DEF Moved
  <2> QED
    BY <1>1, <2>1 DEF StoreInv, StoreTypeOK, Moved
<1>9. ASSUME NEW b \in Attempts \ {a} PROVE Placed(b)'
  <2>1. Placed(b) /\ pc'[b] = pc[b] /\ local'[b] = local[b]
    BY <1>9 DEF StoreInv, Moved
  <2>2. CASE pc[b] \notin Holding
    <3>1. local[b] = NoLocal
      BY <2>1, <2>2, OutsideForgets
    <3> QED
      BY <2>1, <2>2, <3>1 DEF Placed, Author, NoLocal, Holding
  <2>3. CASE pc[b] \in Holding
    <3>1. dir'[Run(b)] = dir[Run(b)]
      <4>1. Run(b) \in Runs
        BY <1>3, <1>9
      <4>2. pc[a] \notin Holding \/ Run(b) # Run(a)
        BY <1>9, <2>3, HoldersDiffer
      <4> QED
        BY <4>1, <4>2 DEF Moved
    <3> QED
      BY <1>2, <2>1, <3>1 DEF Placed, Author, Adopter
  <2> QED
    BY <2>2, <2>3
<1> QED
  BY <1>5, <1>6, <1>7, <1>8, <1>9

\* The next step of a request; the guard of its lock goes with the answer.
LEMMA MoveFacts ==
  ASSUME StoreInv, NEW a \in Attempts, NEW step \in Steps, Move(a, step)
  PROVE  /\ pc' \in [Attempts -> Steps] /\ pc'[a] = step
         /\ \A b \in Attempts \ {a} : pc'[b] = pc[b]
         /\ shard' \in [Shards -> {Nobody} \cup Attempts]
         /\ \A h \in Shards : shard'[h] = IF step \in Ended /\ shard[h] = a THEN Nobody ELSE shard[h]
<1>1. /\ pc \in [Attempts -> Steps] /\ shard \in [Shards -> {Nobody} \cup Attempts]
      /\ ShardOf[Run(a)] \in Shards
  BY RequestFacts DEF StoreInv, StoreTypeOK
<1>2. \A h \in Shards : shard[h] = a => h = ShardOf[Run(a)]
  BY StoreAssumption DEF StoreInv, Locked
<1>3. pc' = [pc EXCEPT ![a] = step]
  BY DEF Move
<1>4. CASE step \in Ended /\ shard[ShardOf[Run(a)]] = a
  <2>1. shard' = [shard EXCEPT ![ShardOf[Run(a)]] = Nobody]
    BY <1>4 DEF Move
  <2> QED
    BY <1>1, <1>2, <1>3, <1>4, <2>1
<1>5. CASE ~(step \in Ended /\ shard[ShardOf[Run(a)]] = a)
  <2>1. shard' = shard
    BY <1>5 DEF Move
  <2> QED
    BY <1>1, <1>2, <1>3, <1>5, <2>1
<1> QED
  BY <1>4, <1>5

\* What a request remembers after a step is its own matter.
LEMMA MemoryFacts ==
  ASSUME StoreInv, setting' = setting, born' \in Nat, born' >= born, NEW a \in Attempts,
         \/ local' = local
         \/ \E m \in Memories' : local' = [local EXCEPT ![a] = m]
  PROVE  /\ local' \in [Attempts -> Memories']
         /\ \A b \in Attempts \ {a} : local'[b] = local[b]
<1>1. local \in [Attempts -> Memories] /\ Memories \subseteq Memories'
  BY DirectoriesGrow DEF StoreInv, StoreTypeOK
<1> QED
  BY <1>1

\* A request without a shard, after a step.
LEMMA OutPlaced ==
  ASSUME NEW a \in Attempts, pc'[a] \notin Holding, local'[a] = NoLocal
  PROVE  Placed(a)'
  BY DEF Placed, Author, NoLocal, Holding

\* The answers and the first steps hold no shard.
LEMMA StepFacts ==
  /\ Holding \cap Ended = {} /\ {"idle", "wait"} \cap (Holding \cup Ended) = {}
  /\ Holding \subseteq Steps /\ Ended \subseteq Steps
  BY DEF Holding, Ended, Steps

\* The state of a request that takes a step.
LEMMA AttemptFacts ==
  ASSUME StoreInv, NEW a \in Attempts
  PROVE  /\ setting \in Settings /\ born \in Nat /\ Placed(a)
         /\ Run(a) \in Runs /\ Svc(a) \in Services /\ ShardOf[Run(a)] \in Shards
         /\ dir \in [Runs -> Directories] /\ local \in [Attempts -> Memories]
         /\ lease \in [Runs -> {Nobody} \cup Services \cup Attempts]
         /\ engines \subseteq {s \in Services : up[s]} \X Runs
         /\ records \in [Services -> [Runs -> {"none", "live", "done"}]]
         /\ dir[Run(a)] \in Directories /\ local[a] \in Memories
         /\ Identified /\ Leased
  BY RequestFacts DEF StoreInv, StoreTypeOK

\* The request took its step and the rest of the store is as it was.
LEMMA StoreMoved ==
  ASSUME StoreInv, NEW a \in Attempts, Moved(a), Placed(a)', Identified', Leased'
  PROVE  StoreInv'
  BY MovedKeeps DEF StoreInv

\* Admissions and leases are untouched.
LEMMA StandsStill ==
  ASSUME Identified, Leased, UNCHANGED <<setting, dir, lease, engines>>
  PROVE  Identified' /\ Leased'
  BY SettingKeeps DEF Identified, Leased

\* A step that only moves the request.
LEMMA StillMoved ==
  ASSUME StoreInv, NEW a \in Attempts, NEW step \in Steps, Move(a, step),
         pc[a] \in {"idle", "wait"} \cup Holding, step # "idle", step = "wait" => pc[a] = "idle",
         step \in Holding => pc[a] \in Holding,
         pc[a] = "idle" => up[Svc(a)] /\ (work[a].keyed => Run(a) \in pins),
         \/ local' = local
         \/ \E m \in Memories' : local' = [local EXCEPT ![a] = m],
         UNCHANGED <<setting, up, shutting, pins, sweep, crashes, born, dir, lease, engines>>,
         records' \in [Services -> [Runs -> {"none", "live", "done"}]],
         Placed(a)'
  PROVE  StoreInv'
<1>1. /\ setting \in Settings /\ born \in Nat /\ dir \in [Runs -> Directories]
      /\ lease \in [Runs -> {Nobody} \cup Services \cup Attempts]
      /\ engines \subseteq {s \in Services : up[s]} \X Runs
      /\ Identified /\ Leased
  BY AttemptFacts
<1>2. /\ local' \in [Attempts -> Memories']
      /\ \A b \in Attempts \ {a} : local'[b] = local[b]
  BY <1>1, MemoryFacts
<1>3. /\ pc' \in [Attempts -> Steps] /\ pc'[a] = step
      /\ \A b \in Attempts \ {a} : pc'[b] = pc[b]
      /\ shard' \in [Shards -> {Nobody} \cup Attempts]
      /\ \A h \in Shards : shard'[h] = IF step \in Ended /\ shard[h] = a THEN Nobody ELSE shard[h]
  BY MoveFacts
<1>4. dir' \in [Runs -> Directories']
  BY <1>1, DirectoriesGrow
<1>5. Moved(a)
  BY <1>1, <1>2, <1>3, <1>4 DEF Moved
<1>6. Identified' /\ Leased'
  BY <1>1, StandsStill
<1> QED
  BY <1>5, <1>6, StoreMoved

\* A step that changes the directory of the request's own run.
LEMMA OwnMoved ==
  ASSUME StoreInv, NEW a \in Attempts, NEW step \in Steps, Move(a, step),
         pc[a] \in Holding, step \notin {"idle", "wait"},
         \/ local' = local
         \/ \E m \in Memories' : local' = [local EXCEPT ![a] = m],
         UNCHANGED <<setting, up, shutting, pins, sweep, crashes>>,
         born' \in Nat, born' >= born, NEW d \in Directories', dir' = [dir EXCEPT ![Run(a)] = d],
         d.stage = "admitted" => \/ d.identity = work[a].identity
                                 \/ dir[Run(a)].stage = "admitted" /\ d.identity = dir[Run(a)].identity,
         lease' \in [Runs -> {Nobody} \cup Services \cup Attempts],
         engines' \subseteq {s \in Services : up[s]} \X Runs,
         records' \in [Services -> [Runs -> {"none", "live", "done"}]],
         Placed(a)', Leased'
  PROVE  StoreInv'
<1>1. /\ setting \in Settings /\ born \in Nat /\ dir \in [Runs -> Directories]
      /\ Identified /\ Run(a) \in Runs
  BY AttemptFacts
<1>2. /\ local' \in [Attempts -> Memories']
      /\ \A b \in Attempts \ {a} : local'[b] = local[b]
  BY <1>1, MemoryFacts
<1>3. /\ pc' \in [Attempts -> Steps] /\ pc'[a] = step
      /\ \A b \in Attempts \ {a} : pc'[b] = pc[b]
      /\ shard' \in [Shards -> {Nobody} \cup Attempts]
      /\ \A h \in Shards : shard'[h] = IF step \in Ended /\ shard[h] = a THEN Nobody ELSE shard[h]
  BY MoveFacts
<1>4. dir' \in [Runs -> Directories'] /\ dir'[Run(a)] = d
      /\ \A r \in Runs : r # Run(a) => dir'[r] = dir[r]
  <2>1. Directories \subseteq Directories'
    BY <1>1, DirectoriesGrow
  <2> QED
    BY <1>1, <2>1
<1>5. Moved(a)
  BY <1>1, <1>2, <1>3, <1>4, StepFacts DEF Moved
<1>6. Identified'
  <2>1. work' = work /\ \A b : Run(b)' = Run(b)
    BY SettingKeeps
  <2>2. ASSUME NEW r \in Runs, dir'[r].stage = "admitted"
        PROVE  dir'[r].identity = "old" \/ \E b \in Attempts : Run(b) = r /\ dir'[r].identity = work[b].identity
    <3>1. CASE r # Run(a)
      BY <1>1, <1>4, <2>2, <3>1 DEF Identified
    <3>2. CASE r = Run(a)
      BY <1>1, <1>4, <2>2, <3>2 DEF Identified
    <3> QED
      BY <3>1, <3>2
  <2> QED
    BY <2>1, <2>2 DEF Identified
<1> QED
  BY <1>5, <1>6, StoreMoved

\* Leases change with one run.
LEMMA LeasedAt ==
  ASSUME Leased, NEW r \in Runs, engines \subseteq engines',
         \A q \in Runs \ {r} : dir'[q] = dir[q] /\ lease'[q] = lease[q],
         lease'[r] \in Services => <<lease'[r], r>> \in engines' /\ dir'[r].outcome = "none"
                      /\ dir'[r].stage \in {"history", "admitted"},
         lease'[r] \in Attempts => dir'[r].stage = "admitted" /\ dir'[r].outcome # "none"
  PROVE  Leased'
<1>1. ASSUME NEW q \in Runs
      PROVE  /\ lease'[q] \in Services => <<lease'[q], q>> \in engines' /\ dir'[q].outcome = "none"
                      /\ dir'[q].stage \in {"history", "admitted"}
             /\ lease'[q] \in Attempts => dir'[q].stage = "admitted" /\ dir'[q].outcome # "none"
  <2>1. CASE q = r
    BY <2>1
  <2>2. CASE q # r
    BY <2>2 DEF Leased
  <2> QED
    BY <2>1, <2>2
<1> QED
  BY <1>1 DEF Leased

\* A removed directory takes its lease with it.
LEMMA LeasedRemoved ==
  ASSUME StoreInv, NEW r \in Runs, NEW d, dir' = [dir EXCEPT ![r] = d],
         lease' = [lease EXCEPT ![r] = Nobody], engines' = engines
  PROVE  Leased' /\ lease' \in [Runs -> {Nobody} \cup Services \cup Attempts]
<1>1. /\ dir \in [Runs -> Directories] /\ lease \in [Runs -> {Nobody} \cup Services \cup Attempts]
      /\ Leased
  BY DEF StoreInv, StoreTypeOK
<1>2. lease'[r] = Nobody /\ Nobody \notin Services \cup Attempts
  BY <1>1, StoreAssumption
<1> QED
  BY <1>1, <1>2, LeasedAt

-----------------------------------------------------------------------------
(* Admission, step by step *)

\* ensure_running at the head of the request.
LEMMA EnterInv ==
  ASSUME StoreInv, NEW a \in Attempts, Enter(a)
  PROVE  StoreInv'
<1> DEFINE step == IF shutting[Svc(a)] THEN "refused" ELSE "wait"
<1>1. step \in Steps /\ step \notin Holding /\ step # "idle"
  BY DEF Steps, Ended, Holding
<1>2. /\ pc[a] = "idle" /\ up[Svc(a)] /\ (work[a].keyed => Run(a) \in pins) /\ Move(a, step)
      /\ local' = local /\ records' = records
      /\ UNCHANGED <<setting, up, shutting, pins, sweep, crashes, born, dir, lease, engines>>
  BY DEF Enter, Step, Calm, Kept
<1> HIDE DEF step
<1>3. local[a] = NoLocal
  BY <1>2, StepFacts, OutsideForgets, AttemptFacts
<1>4. pc'[a] = step
  BY <1>1, <1>2, MoveFacts
<1>5. Placed(a)'
  BY <1>1, <1>2, <1>3, <1>4, OutPlaced
<1> QED
  BY <1>1, <1>2, <1>5, StillMoved, AttemptFacts, StepFacts

\* acquire_admission_shard: the lock of the run's shard, which was free.
LEMMA TakesShard ==
  ASSUME StoreInv, NEW a \in Attempts, pc[a] = "wait", shard[ShardOf[Run(a)]] = Nobody,
         shard' = [shard EXCEPT ![ShardOf[Run(a)]] = a], pc' = [pc EXCEPT ![a] = "adopt"],
         UNCHANGED <<setting, up, shutting, pins, sweep, crashes, born, dir, lease, engines, records, local>>
  PROVE  StoreInv'
<1>1. /\ StoreTypeOK /\ Upheld /\ Locked /\ Spared
      /\ pc \in [Attempts -> Steps] /\ shard \in [Shards -> {Nobody} \cup Attempts]
      /\ \A b \in Attempts : Placed(b)
  BY DEF StoreInv, StoreTypeOK
<1>2. /\ work' = work
      /\ \A b : Run(b)' = Run(b) /\ Svc(b)' = Svc(b) /\ (IsFork(b)' <=> IsFork(b))
      /\ \A b : SourceIds(b)' = SourceIds(b)
  BY SettingKeeps
<1>3. \A b \in Attempts : ShardOf[Run(b)] \in Shards
  BY AttemptFacts
<1>4. /\ pc' \in [Attempts -> Steps] /\ pc'[a] = "adopt" /\ \A b \in Attempts \ {a} : pc'[b] = pc[b]
      /\ "adopt" \in Holding
  BY <1>1 DEF Steps, Holding
<1>5. /\ shard' \in [Shards -> {Nobody} \cup Attempts] /\ shard'[ShardOf[Run(a)]] = a
      /\ \A h \in Shards : h # ShardOf[Run(a)] => shard'[h] = shard[h]
  BY <1>1, <1>3
<1>6. Locked'
  <2>1. ASSUME NEW b \in Attempts, pc'[b] \in Holding PROVE shard'[ShardOf[Run(b)]] = b
    <3>1. CASE b = a
      BY <1>5, <3>1
    <3>2. CASE b # a
      <4>1. shard[ShardOf[Run(b)]] = b /\ b # Nobody
        BY <1>1, <1>4, <2>1, <3>2, StoreAssumption DEF Locked
      <4> QED
        BY <1>3, <1>5, <4>1
    <3> QED
      BY <3>1, <3>2
  <2>2. ASSUME NEW h \in Shards, shard'[h] # Nobody PROVE h = ShardOf[Run(shard'[h])]
    BY <1>1, <1>5, <2>2 DEF Locked
  <2> QED
    BY <1>2, <2>1, <2>2 DEF Locked
<1>7. \A b \in Attempts : InFlight(b)' <=> InFlight(b)
  BY <1>4 DEF InFlight, Ended
<1>8. Upheld' /\ Spared'
  BY <1>1, <1>2, <1>7 DEF Upheld, Spared
<1>9. StoreTypeOK'
  <2>1. ASSUME NEW h \in Shards, shard'[h] # Nobody PROVE pc'[shard'[h]] \in Holding
    <3>1. CASE shard'[h] = a
      BY <1>4, <3>1
    <3>2. CASE shard'[h] # a
      BY <1>1, <1>4, <1>5, <2>1, <3>2 DEF StoreTypeOK
    <3> QED
      BY <3>1, <3>2
  <2>2. Directories' = Directories /\ Memories' = Memories
    BY <1>2 DEF Directories, Memories
  <2> QED
    BY <1>1, <1>4, <1>5, <2>1, <2>2 DEF StoreTypeOK
<1>10. ASSUME NEW b \in Attempts PROVE Placed(b)'
  <2>1. CASE b = a
    <3>1. local[a] = NoLocal
      BY <1>1, OutsideForgets DEF Holding
    <3> QED
      BY <1>4, <2>1, <3>1 DEF Placed, Author, NoLocal
  <2>2. CASE b # a
    BY <1>1, <1>2, <1>4, <2>2 DEF Placed, Author, Adopter
  <2> QED
    BY <2>1, <2>2
<1>11. Identified' /\ Leased'
  BY StandsStill, AttemptFacts
<1> QED
  BY <1>6, <1>8, <1>9, <1>10, <1>11 DEF StoreInv

\* acquire_admission_shard: the lock, or a refusal when the service shuts down.
LEMMA LockShardInv ==
  ASSUME StoreInv, NEW a \in Attempts, LockShard(a)
  PROVE  StoreInv'
<1>1. /\ pc[a] = "wait" /\ local' = local /\ records' = records
      /\ UNCHANGED <<setting, up, shutting, pins, sweep, crashes, born, dir, lease, engines>>
  BY DEF LockShard, Step, Calm, Kept
<1>2. CASE /\ shard[ShardOf[Run(a)]] = Nobody
           /\ shard' = [shard EXCEPT ![ShardOf[Run(a)]] = a]
           /\ pc' = [pc EXCEPT ![a] = "adopt"]
  BY <1>1, <1>2, TakesShard
<1>3. CASE Move(a, "refused")
  <2>1. "refused" \in Steps \ (Holding \cup {"idle", "wait"})
    BY DEF Steps, Ended, Holding
  <2>2. local[a] = NoLocal
    BY <1>1, StepFacts, OutsideForgets, AttemptFacts
  <2>3. pc'[a] = "refused"
    BY <1>3, <2>1, MoveFacts
  <2>4. Placed(a)'
    BY <1>1, <2>1, <2>2, <2>3, OutPlaced
  <2> QED
    BY <1>1, <1>3, <2>1, <2>4, StillMoved, AttemptFacts
<1> QED
  BY <1>2, <1>3 DEF LockShard

\* An answer: the request forgets, the directory and the leases stay.
LEMMA EndInv ==
  ASSUME StoreInv, NEW a \in Attempts, NEW how \in Ended, End(a, how), pc[a] \in Holding,
         UNCHANGED <<setting, up, shutting, pins, sweep, crashes, born, dir, lease, engines>>,
         records' \in [Services -> [Runs -> {"none", "live", "done"}]]
  PROVE  StoreInv'
<1>1. how \in Steps \ (Holding \cup {"idle", "wait"})
  BY StepFacts
<1>2. Move(a, how) /\ local' = [local EXCEPT ![a] = NoLocal]
  BY DEF End, Forget
<1>3. NoLocal \in Memories' /\ born' \in Nat
  <2>1. NoLocal \in Memories /\ born \in Nat
    BY DirectoryFacts, AttemptFacts
  <2> QED
    BY <2>1, DirectoriesGrow
<1>4. pc'[a] = how /\ local'[a] = NoLocal
  BY <1>1, <1>2, MoveFacts, AttemptFacts
<1>5. Placed(a)'
  BY <1>1, <1>4, OutPlaced
<1> QED
  BY <1>1, <1>2, <1>3, <1>5, StillMoved, StepFacts

\* An answer that removes the directory of the run, or replaces it by an empty one.
LEMMA EndOwn ==
  ASSUME StoreInv, NEW a \in Attempts, NEW how \in Ended, End(a, how), pc[a] \in Holding,
         UNCHANGED <<setting, up, shutting, pins, sweep, crashes, born>>,
         engines' \subseteq {s \in Services : up[s]} \X Runs,
         NEW d \in Directories, dir' = [dir EXCEPT ![Run(a)] = d],
         d.stage = "admitted" => dir[Run(a)].stage = "admitted" /\ d.identity = dir[Run(a)].identity,
         Leased', lease' \in [Runs -> {Nobody} \cup Services \cup Attempts],
         records' \in [Services -> [Runs -> {"none", "live", "done"}]]
  PROVE  StoreInv'
<1>1. how \in Steps \ (Holding \cup {"idle", "wait"})
  BY StepFacts
<1>2. Move(a, how) /\ local' = [local EXCEPT ![a] = NoLocal]
  BY DEF End, Forget
<1>3. NoLocal \in Memories' /\ d \in Directories' /\ born' \in Nat /\ born' >= born
  <2>1. NoLocal \in Memories /\ born \in Nat
    BY DirectoryFacts, AttemptFacts
  <2> QED
    BY <2>1, DirectoriesGrow
<1>4. pc'[a] = how /\ local'[a] = NoLocal
  BY <1>1, <1>2, MoveFacts, AttemptFacts
<1>5. Placed(a)'
  BY <1>1, <1>4, OutPlaced
<1> QED
  BY <1>1, <1>2, <1>3, <1>5, OwnMoved

\* An answer after which the directory is removed if the request created it.
LEMMA EndRemoved ==
  ASSUME StoreInv, NEW a \in Attempts, NEW how \in Ended, End(a, how), pc[a] \in Holding,
         UNCHANGED <<setting, up, shutting, pins, sweep, crashes, born, engines>>,
         RemoveOwn(a), records' \in [Services -> [Runs -> {"none", "live", "done"}]]
  PROVE  StoreInv'
<1>1. CASE local[a].created
  <2>1. dir' = [dir EXCEPT ![Run(a)] = Missing] /\ lease' = [lease EXCEPT ![Run(a)] = Nobody]
    BY <1>1 DEF RemoveOwn, Removed
  <2>2. Missing \in Directories /\ Missing.stage = "missing" /\ Run(a) \in Runs
    BY DirectoryFacts, AttemptFacts
  <2>3. Leased' /\ lease' \in [Runs -> {Nobody} \cup Services \cup Attempts]
    BY <2>1, <2>2, LeasedRemoved
  <2>4. engines' \subseteq {s \in Services : up[s]} \X Runs
    BY AttemptFacts
  <2> QED
    BY <2>1, <2>2, <2>3, <2>4, EndOwn
<1>2. CASE ~local[a].created
  BY <1>2, EndInv DEF RemoveOwn
<1> QED
  BY <1>1, <1>2

\* The request goes on to look for a live record of a run it has to prepare itself.
LEMMA FreshLive ==
  ASSUME NEW a \in Attempts, pc'[a] = "live", local'[a] = NoLocal, setting' = setting,
         dir'[Run(a)].stage \in {"missing", "bare"}
  PROVE  Placed(a)'
  BY SettingKeeps DEF Placed, Author, NoLocal, Holding

\* try_adopt_run_dir_with_snapshot.
LEMMA AdoptInv ==
  ASSUME StoreInv, NEW a \in Attempts, Adopt(a)
  PROVE  StoreInv'
<1>1. /\ pc[a] = "adopt" /\ Move(a, "live") /\ records' = records
      /\ UNCHANGED <<setting, up, shutting, pins, sweep, crashes, born, engines>>
  BY DEF Adopt, Step, Calm
<1>2. /\ "live" \in Steps /\ "live" \notin {"idle", "wait"} /\ "live" \in Holding
      /\ pc[a] \in Holding
  BY <1>1 DEF Steps, Holding
<1>3. /\ born \in Nat /\ Run(a) \in Runs /\ dir \in [Runs -> Directories] /\ dir[Run(a)] \in Directories
      /\ local \in [Attempts -> Memories] /\ engines' \subseteq {s \in Services : up[s]} \X Runs
      /\ records' \in [Services -> [Runs -> {"none", "live", "done"}]]
  BY <1>1, AttemptFacts
<1>4. pc'[a] = "live"
  BY <1>1, <1>2, MoveFacts
<1>5. Directories \subseteq Directories' /\ Memories \subseteq Memories'
  BY <1>1, <1>3, DirectoriesGrow
<1>6. /\ Missing \in Directories /\ Bare(TRUE) \in Directories /\ NoLocal \in Memories
      /\ Missing.stage = "missing" /\ Bare(TRUE).stage = "bare"
  BY <1>3, DirectoryFacts
<1>7. CASE dir[Run(a)].stage = "missing" /\ Forget(a) /\ UNCHANGED <<dir, lease>>
  <2>1. local' = [local EXCEPT ![a] = NoLocal] /\ local'[a] = NoLocal
    BY <1>3, <1>7 DEF Forget
  <2>2. Placed(a)'
    BY <1>1, <1>4, <1>7, <2>1, FreshLive
  <2> QED
    BY <1>1, <1>2, <1>3, <1>5, <1>6, <1>7, <2>1, <2>2, StillMoved
<1>8. CASE dir[Run(a)].stage \in {"bare", "history"} /\ Wiped(Run(a)) /\ Forget(a)
  <2>1. local' = [local EXCEPT ![a] = NoLocal] /\ local'[a] = NoLocal
    BY <1>3, <1>8 DEF Forget
  <2>2. PICK d \in {Missing, Bare(TRUE)} :
           dir' = [dir EXCEPT ![Run(a)] = d] /\ lease' = [lease EXCEPT ![Run(a)] = Nobody]
    BY <1>8 DEF Wiped, Removed
  <2>3. Leased' /\ lease' \in [Runs -> {Nobody} \cup Services \cup Attempts]
    BY <1>1, <1>3, <2>2, LeasedRemoved
  <2>4. dir'[Run(a)] = d /\ d \in Directories' /\ d.stage \in {"missing", "bare"}
    BY <1>3, <1>5, <1>6, <2>2
  <2>5. Placed(a)'
    BY <1>1, <1>4, <2>1, <2>4, FreshLive
  <2>6. born' \in Nat /\ born' >= born /\ NoLocal \in Memories' /\ d.stage # "admitted"
    BY <1>1, <1>3, <1>5, <1>6, <2>4
  <2> QED
    BY <1>1, <1>2, <1>3, <2>1, <2>2, <2>3, <2>4, <2>5, <2>6, OwnMoved
<1>9. CASE /\ dir[Run(a)].stage = "admitted" /\ UNCHANGED <<dir, lease>>
           /\ local' = [local EXCEPT ![a] =
                 [adopted |-> TRUE, created |-> FALSE, snapshot |-> dir[Run(a)]]]
  <2>1. [adopted |-> TRUE, created |-> FALSE, snapshot |-> dir[Run(a)]] \in Memories
    BY <1>3 DEF Memories
  <2>2. local'[a] = [adopted |-> TRUE, created |-> FALSE, snapshot |-> dir[Run(a)]]
    BY <1>3, <1>9
  <2>3. Placed(a)'
    BY <1>1, <1>4, <1>9, <2>2, SettingKeeps DEF Placed, Adopter
  <2> QED
    BY <1>1, <1>2, <1>3, <1>5, <1>9, <2>1, <2>3, StillMoved
<1> QED
  BY <1>7, <1>8, <1>9 DEF Adopt

\* The answer of a request that finds its run live or settled.
LEMMA ConvergeInv ==
  ASSUME StoreInv, NEW a \in Attempts, Converge(a), pc[a] \in Holding,
         UNCHANGED <<setting, up, shutting, pins, sweep, crashes, born, dir, lease, engines>>,
         records' = records
  PROVE  StoreInv'
<1>1. PICK how \in Ended : End(a, how)
  BY DEF Converge, Ended
<1> QED
  BY <1>1, EndInv, AttemptFacts

\* live_run_record: a live record answers; without one the request goes on.
LEMMA CheckLiveInv ==
  ASSUME StoreInv, NEW a \in Attempts, CheckLive(a)
  PROVE  StoreInv'
<1>1. /\ pc[a] = "live" /\ pc[a] \in Holding /\ records' = records
      /\ UNCHANGED <<setting, up, shutting, pins, sweep, crashes, born, dir, lease, engines>>
  BY DEF CheckLive, Step, Calm, Kept, Holding
<1>2. CASE Move(a, "prepare") /\ local' = local
  <2>1. "prepare" \in Steps /\ "prepare" \in Holding /\ "prepare" \notin {"idle", "wait"}
    BY DEF Steps, Holding
  <2>2. pc'[a] = "prepare" /\ Placed(a)
    BY <1>2, <2>1, MoveFacts, AttemptFacts
  <2>3. Placed(a)'
    BY <1>1, <1>2, <2>2, SettingKeeps DEF Placed, Adopter, Author
  <2> QED
    BY <1>1, <1>2, <2>1, <2>3, StillMoved, AttemptFacts
<1>3. CASE End(a, "conflict")
  BY <1>1, <1>3, EndInv, AttemptFacts DEF Ended
<1>4. CASE Converge(a)
  BY <1>1, <1>4, ConvergeInv
<1> QED
  BY <1>2, <1>3, <1>4 DEF CheckLive

\* prepare_api_run_directory.
LEMMA PrepareStartInv ==
  ASSUME StoreInv, NEW a \in Attempts, PrepareStart(a)
  PROVE  StoreInv'
<1> DEFINE d == Bare(dir[Run(a)].mail)
           m == [local[a] EXCEPT !.created = TRUE]
<1>1. /\ pc[a] = "prepare" /\ ~IsFork(a) /\ ~local[a].adopted /\ Move(a, "pin")
      /\ dir' = [dir EXCEPT ![Run(a)] = d] /\ local' = [local EXCEPT ![a] = m]
      /\ UNCHANGED <<setting, up, shutting, pins, sweep, crashes, born, lease, engines>>
      /\ records' = records
  BY DEF PrepareStart, Step, Calm
<1>2. /\ "pin" \in Steps /\ "pin" \notin {"idle", "wait"} /\ pc[a] \in Holding
  BY <1>1 DEF Steps, Holding
<1>3. /\ born \in Nat /\ Run(a) \in Runs /\ dir \in [Runs -> Directories] /\ dir[Run(a)] \in Directories
      /\ local \in [Attempts -> Memories] /\ engines' \subseteq {s \in Services : up[s]} \X Runs
      /\ records' \in [Services -> [Runs -> {"none", "live", "done"}]]
      /\ lease' \in [Runs -> {Nobody} \cup Services \cup Attempts]
      /\ Placed(a) /\ local[a] \in Memories /\ Leased
  BY <1>1, AttemptFacts
<1>4. pc'[a] = "pin"
  BY <1>1, <1>2, MoveFacts
<1>5. Directories \subseteq Directories' /\ Memories \subseteq Memories'
  BY <1>1, <1>3, DirectoriesGrow
<1>6. d \in Directories /\ d.stage = "bare" /\ d.outcome = "none"
  <2>1. dir[Run(a)].mail \in BOOLEAN
    BY <1>3 DEF Directories
  <2> QED
    BY <1>3, <2>1, DirectoryFacts
<1>7. /\ m \in Memories /\ ~m.adopted /\ m.snapshot = Missing
      /\ dir[Run(a)].stage \in {"missing", "bare"}
  <2>1. local[a] = NoLocal /\ dir[Run(a)].stage \in {"missing", "bare"}
    BY <1>1, <1>3 DEF Placed, Author
  <2> QED
    BY <1>1, <1>3, <2>1, DirectoryFacts DEF Memories
<1> HIDE DEF d, m
<1>8. dir'[Run(a)] = d /\ local'[a] = m
  BY <1>1, <1>3
<1>9. Placed(a)'
  BY <1>1, <1>4, <1>6, <1>7, <1>8, SettingKeeps DEF Placed, Author, Holding
<1>10. Leased'
  BY <1>1, <1>3, <1>6, <1>7, <1>8, LeasedAt DEF Leased
<1>11. /\ born' \in Nat /\ born' >= born /\ m \in Memories' /\ d \in Directories'
       /\ d.stage # "admitted"
  BY <1>1, <1>3, <1>5, <1>6, <1>7
<1> QED
  BY <1>1, <1>2, <1>3, <1>9, <1>10, <1>11, OwnMoved

\* An adopted run needs no preparation.
LEMMA PrepareAdoptedInv ==
  ASSUME StoreInv, NEW a \in Attempts, PrepareAdopted(a)
  PROVE  StoreInv'
<1>1. /\ pc[a] = "prepare" /\ pc[a] \in Holding /\ local[a].adopted /\ Move(a, "seed")
      /\ records' = records /\ local' = local
      /\ UNCHANGED <<setting, up, shutting, pins, sweep, crashes, born, dir, lease, engines>>
  BY DEF PrepareAdopted, Step, Calm, Kept, Holding
<1>2. "seed" \in Steps /\ "seed" \in Holding /\ "seed" \notin {"idle", "wait"}
  BY DEF Steps, Holding
<1>3. pc'[a] = "seed" /\ Placed(a)
  BY <1>1, <1>2, MoveFacts, AttemptFacts
<1>4. Placed(a)'
  BY <1>1, <1>3, SettingKeeps DEF Placed, Adopter
<1> QED
  BY <1>1, <1>2, <1>4, StillMoved, AttemptFacts

\* Leases that end, and the directories of those that stay.
LEMMA LeasedLess ==
  ASSUME Leased, engines \subseteq engines', NEW l, lease' = l,
         \A q \in Runs : l[q] \in {lease[q], Nobody},
         \A q \in Runs : l[q] # Nobody =>
            dir'[q].stage = dir[q].stage /\ dir'[q].outcome = dir[q].outcome
  PROVE  Leased'
<1>1. Nobody \notin Services \cup Attempts
  BY StoreAssumption
<1>2. ASSUME NEW q \in Runs
      PROVE  /\ lease'[q] \in Services => <<lease'[q], q>> \in engines' /\ dir'[q].outcome = "none"
                      /\ dir'[q].stage \in {"history", "admitted"}
             /\ lease'[q] \in Attempts => dir'[q].stage = "admitted" /\ dir'[q].outcome # "none"
  BY <1>1, <1>2 DEF Leased
<1> QED
  BY <1>2 DEF Leased

\* The source lease of a fork is given back; no other.
LEMMA DropFacts ==
  ASSUME StoreInv, NEW a \in Attempts, NEW l \in [Runs -> {Nobody} \cup Services \cup Attempts]
  PROVE  /\ DropSource(a, l) \in [Runs -> {Nobody} \cup Services \cup Attempts]
         /\ \A q \in Runs : DropSource(a, l)[q] \in {l[q], Nobody}
         /\ \A q \in Runs : l[q] # a => DropSource(a, l)[q] = l[q]
  BY DEF DropSource

\* prepare_checkpoint_fork: a history of the source, under the source's lease.
LEMMA PrepareForkInv ==
  ASSUME StoreInv, NEW a \in Attempts, PrepareFork(a)
  PROVE  StoreInv'
<1>1. /\ pc[a] = "prepare" /\ pc[a] \in Holding /\ IsFork(a) /\ ~local[a].adopted
      /\ UNCHANGED <<setting, up, shutting, pins, sweep, crashes, born, engines>>
      /\ records' = records
  BY DEF PrepareFork, Step, Calm, Holding
<1>2. /\ born \in Nat /\ Run(a) \in Runs /\ dir \in [Runs -> Directories] /\ dir[Run(a)] \in Directories
      /\ local \in [Attempts -> Memories] /\ engines' \subseteq {s \in Services : up[s]} \X Runs
      /\ records' \in [Services -> [Runs -> {"none", "live", "done"}]]
      /\ lease \in [Runs -> {Nobody} \cup Services \cup Attempts]
      /\ Placed(a) /\ local[a] \in Memories /\ Leased /\ Identified /\ setting \in Settings
  BY <1>1, AttemptFacts
<1>3. CASE End(a, "conflict") /\ UNCHANGED <<dir, lease>>
  BY <1>1, <1>2, <1>3, EndInv DEF Ended
<1>4. CASE /\ ForkableSource(a) /\ Move(a, "pin")
           /\ dir' = [dir EXCEPT ![Run(a)] = [Missing EXCEPT !.stage = "history",
                       !.mail = dir[Run(a)].mail, !.identity = dir[work[a].source].identity]]
           /\ lease' = [lease EXCEPT ![work[a].source] = a]
           /\ local' = [local EXCEPT ![a].created = ~Exists(Run(a))]
  <2> DEFINE src == work[a].source
             d == [Missing EXCEPT !.stage = "history", !.mail = dir[Run(a)].mail,
                                  !.identity = dir[src].identity]
             m == [local[a] EXCEPT !.created = ~Exists(Run(a))]
  <2>1. /\ src \in Runs /\ dir[src].stage = "admitted" /\ dir[src].outcome # "none"
    BY <1>1, <1>2, <1>4, RequestFacts DEF ForkableSource, Terminal
  <2>2. local[a] = NoLocal /\ dir[Run(a)].stage \in {"missing", "bare"}
    BY <1>1, <1>2 DEF Placed, Author
  <2>3. dir[src].identity \in SourceIds(a)
    BY <1>2, <2>1 DEF Identified, SourceIds
  <2>4. d \in Directories /\ d.stage = "history" /\ d.outcome = "none" /\ d.identity = dir[src].identity
    <3>1. dir[Run(a)] \in Directories /\ dir[src] \in Directories
      BY <1>2, <2>1
    <3>2. /\ dir[Run(a)].mail \in BOOLEAN
          /\ dir[src].identity \in {"none", "old"} \cup {work[b].identity : b \in Attempts}
      BY <3>1 DEF Directories
    <3>3. Missing \in Directories /\ Missing.outcome = "none"
      BY <1>2, DirectoryFacts
    <3> QED
      BY <3>2, <3>3 DEF Directories
  <2>5. m \in Memories /\ ~m.adopted /\ m.snapshot = Missing
    <3>1. Exists(Run(a)) \in BOOLEAN
      BY DEF Exists
    <3> QED
      BY <1>2, <2>2, <3>1, DirectoryFacts DEF Memories
  <2>6. dir' = [dir EXCEPT ![Run(a)] = d] /\ local' = [local EXCEPT ![a] = m]
    BY <1>4
  <2> HIDE DEF d, m
  <2>7. "pin" \in Steps /\ "pin" \in Holding /\ "pin" \notin {"idle", "wait"}
    BY DEF Steps, Holding
  <2>8. dir'[Run(a)] = d /\ local'[a] = m /\ pc'[a] = "pin" /\ src # Run(a)
        /\ \A q \in Runs \ {Run(a)} : dir'[q] = dir[q]
    BY <1>2, <1>4, <2>1, <2>2, <2>6, <2>7, MoveFacts
  <2>9. Placed(a)'
    BY <1>1, <2>3, <2>4, <2>5, <2>8, SettingKeeps DEF Placed, Author, Holding
  <2>10. Leased'
    <3>1. ASSUME NEW q \in Runs
          PROVE  /\ lease'[q] \in Services => <<lease'[q], q>> \in engines' /\ dir'[q].outcome = "none"
                      /\ dir'[q].stage \in {"history", "admitted"}
                 /\ lease'[q] \in Attempts => dir'[q].stage = "admitted" /\ dir'[q].outcome # "none"
      <4>1. CASE q = src
        <5>1. lease'[q] = a /\ dir'[q] = dir[q] /\ a \notin Services
          BY <1>2, <1>4, <2>1, <2>8, <4>1, StoreAssumption
        <5> QED
          BY <2>1, <4>1, <5>1
      <4>2. CASE q = Run(a)
        BY <1>1, <1>2, <1>4, <2>2, <2>4, <2>8, <4>2 DEF Leased
      <4>3. CASE q # src /\ q # Run(a)
        BY <1>1, <1>2, <1>4, <2>8, <4>3 DEF Leased
      <4> QED
        BY <4>1, <4>2, <4>3
    <3> QED
      BY <3>1 DEF Leased
  <2>11. /\ born' \in Nat /\ born' >= born /\ m \in Memories' /\ d \in Directories'
         /\ d.stage # "admitted"
         /\ lease' \in [Runs -> {Nobody} \cup Services \cup Attempts]
    BY <1>1, <1>2, <1>4, <2>1, <2>4, <2>5, DirectoriesGrow
  <2> QED
    BY <1>1, <1>2, <1>4, <2>6, <2>7, <2>9, <2>10, <2>11, OwnMoved
<1> QED
  BY <1>3, <1>4 DEF PrepareFork

\* run_package::copy: the package, or a failure that removes what the request created.
LEMMA PinPackageInv ==
  ASSUME StoreInv, NEW a \in Attempts, PinPackage(a)
  PROVE  StoreInv'
<1>1. /\ pc[a] = "pin" /\ pc[a] \in Holding
      /\ UNCHANGED <<setting, up, shutting, pins, sweep, crashes, born, engines>>
      /\ records' = records
  BY DEF PinPackage, Step, Calm, Holding
<1>2. /\ born \in Nat /\ Run(a) \in Runs /\ dir \in [Runs -> Directories] /\ dir[Run(a)] \in Directories
      /\ local \in [Attempts -> Memories] /\ engines' \subseteq {s \in Services : up[s]} \X Runs
      /\ records' \in [Services -> [Runs -> {"none", "live", "done"}]]
      /\ lease \in [Runs -> {Nobody} \cup Services \cup Attempts]
      /\ Placed(a) /\ local[a] \in Memories /\ Leased
  BY <1>1, AttemptFacts
<1>3. /\ ~local[a].adopted /\ local[a].snapshot = Missing
      /\ dir[Run(a)].stage = IF IsFork(a) THEN "history" ELSE "bare"
      /\ IsFork(a) => dir[Run(a)].identity \in SourceIds(a)
  BY <1>1, <1>2 DEF Placed, Author
<1>4. CASE /\ dir' = [dir EXCEPT ![Run(a)].package = TRUE]
           /\ lease' = DropSource(a, lease)
           /\ local' = IF IsFork(a) THEN [local EXCEPT ![a].snapshot = dir'[Run(a)]] ELSE local
           /\ Move(a, "probe")
  <2> DEFINE d == [dir[Run(a)] EXCEPT !.package = TRUE]
             m == IF IsFork(a) THEN [local[a] EXCEPT !.snapshot = d] ELSE local[a]
  <2>1. /\ d \in Directories /\ d.stage = dir[Run(a)].stage /\ d.outcome = dir[Run(a)].outcome
        /\ d.identity = dir[Run(a)].identity
    BY <1>2 DEF Directories
  <2>2. dir' = [dir EXCEPT ![Run(a)] = d]
    BY <1>4
  <2>3. dir'[Run(a)] = d
    BY <1>2, <2>2
  <2> HIDE DEF d
  <2>4. /\ m \in Memories /\ ~m.adopted
        /\ IF IsFork(a) THEN m.snapshot = d ELSE m.snapshot = Missing
    BY <1>2, <1>3, <2>1 DEF Memories
  <2>5. local' = [local EXCEPT ![a] = m]
    BY <1>2, <1>4, <2>3
  <2> HIDE DEF m
  <2>6. "probe" \in Steps /\ "probe" \in Holding /\ "probe" \notin {"idle", "wait"}
    BY DEF Steps, Holding
  <2>7. local'[a] = m /\ pc'[a] = "probe"
    BY <1>2, <1>4, <2>5, <2>6, MoveFacts
  <2>8. Placed(a)'
    BY <1>1, <1>3, <2>1, <2>3, <2>4, <2>7, SettingKeeps DEF Placed, Author, Holding
  <2>9. /\ DropSource(a, lease) \in [Runs -> {Nobody} \cup Services \cup Attempts]
        /\ \A q \in Runs : DropSource(a, lease)[q] \in {lease[q], Nobody}
    BY <1>2, DropFacts
  <2>10. Leased'
    <3>1. \A q \in Runs : dir'[q].stage = dir[q].stage /\ dir'[q].outcome = dir[q].outcome
      BY <1>2, <2>1, <2>2
    <3> QED
      BY <1>1, <1>2, <1>4, <2>9, <3>1, LeasedLess
  <2>11. born' \in Nat /\ born' >= born /\ m \in Memories' /\ d \in Directories' /\ d.stage # "admitted"
    BY <1>1, <1>2, <1>3, <2>1, <2>4, DirectoriesGrow
  <2> QED
    BY <1>1, <1>2, <1>4, <2>2, <2>5, <2>6, <2>8, <2>9, <2>10, <2>11, OwnMoved
<1>5. CASE /\ dir' = IF local[a].created THEN [dir EXCEPT ![Run(a)] = Missing] ELSE dir
           /\ lease' = DropSource(a, IF local[a].created
                                     THEN [lease EXCEPT ![Run(a)] = Nobody] ELSE lease)
           /\ End(a, "failed")
  <2> DEFINE d == IF local[a].created THEN Missing ELSE dir[Run(a)]
             l == IF local[a].created THEN [lease EXCEPT ![Run(a)] = Nobody] ELSE lease
  <2>1. d \in Directories /\ d.stage # "admitted" /\ dir' = [dir EXCEPT ![Run(a)] = d]
    BY <1>2, <1>3, <1>5, DirectoryFacts
  <2>2. /\ l \in [Runs -> {Nobody} \cup Services \cup Attempts]
        /\ \A q \in Runs : l[q] \in {lease[q], Nobody}
        /\ local[a].created => l[Run(a)] = Nobody
    BY <1>2
  <2>3. lease' = DropSource(a, l)
    BY <1>5
  <2> HIDE DEF d, l
  <2>4. /\ DropSource(a, l) \in [Runs -> {Nobody} \cup Services \cup Attempts]
        /\ \A q \in Runs : DropSource(a, l)[q] \in {l[q], Nobody}
    BY <2>2, DropFacts
  <2>5. \A q \in Runs : DropSource(a, l)[q] # Nobody =>
            dir'[q].stage = dir[q].stage /\ dir'[q].outcome = dir[q].outcome
    BY <1>2, <2>1, <2>2, <2>4 DEF d
  <2>6. Leased'
    BY <1>1, <1>2, <2>2, <2>3, <2>4, <2>5, LeasedLess
  <2> QED
    BY <1>1, <1>2, <1>5, <2>1, <2>3, <2>4, <2>6, EndOwn DEF Ended
<1> QED
  BY <1>4, <1>5 DEF PinPackage

\* seed_adopted_run_from_snapshot: only a request that proves its identity goes on.
LEMMA SeedInv ==
  ASSUME StoreInv, NEW a \in Attempts, Seed(a)
  PROVE  StoreInv'
<1>1. /\ pc[a] = "seed" /\ pc[a] \in Holding /\ records' = records
      /\ UNCHANGED <<setting, up, shutting, pins, sweep, crashes, born, dir, lease, engines>>
  BY DEF Seed, Step, Calm, Kept, Holding
<1>2. Placed(a)
  BY AttemptFacts
<1>3. CASE ProvesIdentity(a) /\ Move(a, "probe") /\ local' = local
  <2>1. "probe" \in Steps /\ "probe" \in Holding /\ "probe" \notin {"idle", "wait"}
    BY DEF Steps, Holding
  <2>2. pc'[a] = "probe"
    BY <1>3, <2>1, MoveFacts
  <2>3. local[a].adopted /\ local[a].snapshot.stage = "admitted"
        /\ local[a].snapshot.identity = dir[Run(a)].identity
    BY <1>1, <1>2 DEF Placed, Adopter, Author
  <2>4. dir[Run(a)].identity = work[a].identity
    <3>1. local[a].snapshot # Missing
      BY <2>3 DEF Missing
    <3> QED
      BY <1>3, <2>3, <3>1 DEF ProvesIdentity
  <2>5. Placed(a)'
    BY <1>1, <1>2, <1>3, <2>2, <2>3, <2>4, SettingKeeps DEF Placed, Adopter
  <2> QED
    BY <1>1, <1>3, <2>1, <2>5, StillMoved, AttemptFacts
<1>4. CASE End(a, "conflict") \/ End(a, "ok")
  BY <1>1, <1>4, EndInv, AttemptFacts DEF Ended
<1> QED
  BY <1>3, <1>4 DEF Seed

\* Dropping settled records leaves a map of records.
LEMMA PrunedFacts ==
  ASSUME StoreInv, NEW s \in Services
  PROVE  /\ Pruned(s) \in [Runs -> {"none", "live", "done"}]
         /\ \A r \in Runs : Pruned(s)[r] = records[s][r] \/ (records[s][r] = "done" /\ Pruned(s)[r] = "none")
  BY DEF StoreInv, StoreTypeOK, Pruned

\* probe_admission: room in the map, or an answer.
LEMMA ProbeInv ==
  ASSUME StoreInv, NEW a \in Attempts, Probe(a)
  PROVE  StoreInv'
<1>1. /\ pc[a] = "probe" /\ pc[a] \in Holding
      /\ UNCHANGED <<setting, up, shutting, pins, sweep, crashes, born, engines>>
  BY DEF Probe, Step, Calm, Holding
<1>2. /\ Placed(a) /\ Svc(a) \in Services
      /\ records \in [Services -> [Runs -> {"none", "live", "done"}]]
  BY AttemptFacts
<1>3. CASE RemoveOwn(a) /\ End(a, "refused")
           /\ (records' = records \/ records' = [records EXCEPT ![Svc(a)] = Pruned(Svc(a))])
  BY <1>1, <1>2, <1>3, EndRemoved, PrunedFacts DEF Ended
<1>4. CASE Converge(a) /\ UNCHANGED <<dir, lease, records>>
  BY <1>1, <1>4, ConvergeInv
<1>5. CASE /\ records' = [records EXCEPT ![Svc(a)] = Pruned(Svc(a))]
           /\ Move(a, "queue") /\ UNCHANGED <<dir, lease, local>>
  <2>1. "queue" \in Steps /\ "queue" \in Holding /\ "queue" \notin {"idle", "wait"}
    BY DEF Steps, Holding
  <2>2. pc'[a] = "queue"
    BY <1>5, <2>1, MoveFacts
  <2>3. Placed(a)'
    BY <1>1, <1>2, <1>5, <2>2, SettingKeeps DEF Placed, Adopter, Author, Holding
  <2>4. records' \in [Services -> [Runs -> {"none", "live", "done"}]]
    BY <1>2, <1>5, PrunedFacts
  <2> QED
    BY <1>1, <1>5, <2>1, <2>3, <2>4, StillMoved
<1> QED
  BY <1>3, <1>4, <1>5 DEF Probe

\* finish_prepared_admission: run_queued makes the admission durable.
LEMMA WriteQueuedInv ==
  ASSUME StoreInv, NEW a \in Attempts, WriteQueued(a)
  PROVE  StoreInv'
<1>1. /\ pc[a] = "queue" /\ pc[a] \in Holding /\ records' = records
      /\ UNCHANGED <<setting, up, shutting, pins, sweep, crashes, engines>>
  BY DEF WriteQueued, Step, Calm, Holding
<1>2. /\ born \in Nat /\ Run(a) \in Runs /\ dir \in [Runs -> Directories] /\ dir[Run(a)] \in Directories
      /\ local \in [Attempts -> Memories] /\ engines' \subseteq {s \in Services : up[s]} \X Runs
      /\ records' \in [Services -> [Runs -> {"none", "live", "done"}]]
      /\ lease \in [Runs -> {Nobody} \cup Services \cup Attempts]
      /\ Placed(a) /\ Leased /\ setting \in Settings
  BY <1>1, AttemptFacts
<1>3. "register" \in Steps /\ "register" \in Holding /\ "register" \notin {"idle", "wait"}
  BY DEF Steps, Holding
<1>4. CASE local[a].adopted /\ Move(a, "register") /\ UNCHANGED <<dir, lease, born, local>>
  <2>1. pc'[a] = "register"
    BY <1>3, <1>4, MoveFacts
  <2>2. Placed(a)'
    BY <1>1, <1>2, <1>4, <2>1, SettingKeeps DEF Placed, Adopter
  <2> QED
    BY <1>1, <1>2, <1>3, <1>4, <2>2, StillMoved
<1>5. CASE /\ ~local[a].adopted
           /\ dir' = [dir EXCEPT ![Run(a)].stage = "admitted", ![Run(a)].identity = work[a].identity,
                                 ![Run(a)].born = born + 1]
           /\ born' = born + 1
           /\ Move(a, "register") /\ UNCHANGED <<lease, local>>
  <2> DEFINE d == [dir[Run(a)] EXCEPT !.stage = "admitted", !.identity = work[a].identity,
                                      !.born = born + 1]
  <2>1. /\ d.stage = "admitted" /\ d.outcome = dir[Run(a)].outcome /\ d.identity = work[a].identity
    BY <1>2 DEF Directories
  <2>2. born' \in Nat /\ born' >= born /\ born + 1 \in 0 .. born'
    BY <1>2, <1>5
  <2>3. d \in Directories'
    <3>1. /\ dir[Run(a)] \in Directories' /\ work' = work
      BY <1>1, <1>2, <2>2, DirectoriesGrow, SettingKeeps
    <3>2. work[a].identity \in {"none", "old"} \cup {work[b].identity : b \in Attempts}
      OBVIOUS
    <3> QED
      BY <2>2, <3>1, <3>2 DEF Directories
  <2>4. dir' = [dir EXCEPT ![Run(a)] = d]
    BY <1>2, <1>5
  <2> HIDE DEF d
  <2>5. dir'[Run(a)] = d /\ \A q \in Runs \ {Run(a)} : dir'[q] = dir[q]
    BY <1>2, <2>4
  <2>6. pc'[a] = "register"
    BY <1>3, <1>5, MoveFacts
  <2>7. Placed(a)'
    BY <1>1, <1>2, <1>5, <2>1, <2>5, <2>6, SettingKeeps DEF Placed, Author, Holding
  <2>8. dir[Run(a)].stage # "admitted"
    BY <1>1, <1>2, <1>5 DEF Placed, Author
  <2>9. Leased'
    BY <1>1, <1>2, <1>5, <2>1, <2>5, <2>8, LeasedAt DEF Leased
  <2>10. lease' \in [Runs -> {Nobody} \cup Services \cup Attempts]
    BY <1>2, <1>5
  <2> QED
    BY <1>1, <1>2, <1>3, <1>5, <2>1, <2>2, <2>3, <2>4, <2>7, <2>9, <2>10, OwnMoved
<1>6. CASE RemoveOwn(a) /\ End(a, "failed") /\ UNCHANGED born
  BY <1>1, <1>2, <1>6, EndRemoved DEF Ended
<1> QED
  BY <1>4, <1>5, <1>6 DEF WriteQueued

\* A refused admission goes on to settle what it wrote, if it is still there.
LEMMA ToSettle ==
  ASSUME StoreInv, NEW a \in Attempts, pc[a] = "register", ~local[a].adopted,
         Move(a, "settle"), local' = local, RemoveOwn(a) \/ UNCHANGED <<dir, lease>>,
         UNCHANGED <<setting, up, shutting, pins, sweep, crashes, born, engines>>,
         records' \in [Services -> [Runs -> {"none", "live", "done"}]]
  PROVE  StoreInv'
<1>1. /\ "settle" \in Steps /\ "settle" \in Holding /\ "settle" \notin {"idle", "wait"}
      /\ pc[a] \in Holding
  BY DEF Steps, Holding
<1>2. /\ born \in Nat /\ Run(a) \in Runs /\ dir \in [Runs -> Directories] /\ dir[Run(a)] \in Directories
      /\ engines' \subseteq {s \in Services : up[s]} \X Runs /\ Placed(a) /\ local[a] \in Memories
  BY AttemptFacts
<1>3. pc'[a] = "settle"
  BY <1>1, MoveFacts
<1>4. CASE UNCHANGED <<dir, lease>>
  <2>1. dir[Run(a)].stage = "admitted"
    BY <1>2 DEF Placed, Author
  <2>2. Placed(a)'
    BY <1>3, <1>4, <2>1, SettingKeeps DEF Placed, Author, Holding
  <2> QED
    BY <1>1, <1>4, <2>2, StillMoved
<1>5. CASE /\ dir' = [dir EXCEPT ![Run(a)] = Missing]
           /\ lease' = [lease EXCEPT ![Run(a)] = Nobody]
  <2>1. Missing \in Directories' /\ Missing.stage = "missing" /\ born' \in Nat /\ born' >= born
    BY <1>2, DirectoryFacts, DirectoriesGrow
  <2>2. dir'[Run(a)] = Missing
    BY <1>2, <1>5
  <2>3. Placed(a)'
    BY <1>3, <2>1, <2>2, SettingKeeps DEF Placed, Author, Holding
  <2>4. Leased' /\ lease' \in [Runs -> {Nobody} \cup Services \cup Attempts]
    BY <1>2, <1>5, LeasedRemoved
  <2> QED
    BY <1>1, <1>2, <1>5, <2>1, <2>3, <2>4, OwnMoved
<1> QED
  BY <1>4, <1>5 DEF RemoveOwn, Removed

\* register_admission.
LEMMA RegisterInv ==
  ASSUME StoreInv, NEW a \in Attempts, Register(a)
  PROVE  StoreInv'
<1>1. /\ pc[a] = "register" /\ pc[a] \in Holding
      /\ UNCHANGED <<setting, up, shutting, pins, sweep, crashes, born, engines>>
  BY DEF Register, Step, Calm, Holding
<1>2. /\ Placed(a) /\ Svc(a) \in Services /\ Run(a) \in Runs
      /\ records \in [Services -> [Runs -> {"none", "live", "done"}]]
      /\ Pruned(Svc(a)) \in [Runs -> {"none", "live", "done"}]
  BY AttemptFacts, PrunedFacts
<1>3. CASE AfterRefusal(a) /\ (UNCHANGED <<dir, lease>> \/ RemoveOwn(a))
           /\ (records' = records \/ records' = [records EXCEPT ![Svc(a)] = Pruned(Svc(a))])
  <2>1. records' \in [Services -> [Runs -> {"none", "live", "done"}]]
    BY <1>2, <1>3
  <2>2. CASE local[a].adopted
    <3>1. End(a, "refused")
      BY <1>3, <2>2 DEF AfterRefusal
    <3> QED
      BY <1>1, <1>3, <2>1, <3>1, EndRemoved, EndInv DEF Ended
  <2>3. CASE ~local[a].adopted
    <3>1. Move(a, "settle") /\ local' = local
      BY <1>3, <2>3 DEF AfterRefusal
    <3> QED
      BY <1>1, <1>3, <2>1, <2>3, <3>1, ToSettle
  <2> QED
    BY <2>2, <2>3
<1>4. CASE Converge(a) /\ UNCHANGED <<dir, lease, records>>
  BY <1>1, <1>4, ConvergeInv
<1>5. CASE /\ records' = [records EXCEPT ![Svc(a)] = [Pruned(Svc(a)) EXCEPT ![Run(a)] = "live"]]
           /\ Move(a, "spawn") /\ UNCHANGED <<dir, lease, local>>
  <2>1. "spawn" \in Steps /\ "spawn" \in Holding /\ "spawn" \notin {"idle", "wait"}
    BY DEF Steps, Holding
  <2>2. pc'[a] = "spawn"
    BY <1>5, <2>1, MoveFacts
  <2>3. Placed(a)'
    BY <1>1, <1>2, <1>5, <2>2, SettingKeeps DEF Placed, Adopter, Author, Holding
  <2>4. records' \in [Services -> [Runs -> {"none", "live", "done"}]]
    BY <1>2, <1>5
  <2> QED
    BY <1>1, <1>5, <2>1, <2>3, <2>4, StillMoved
<1>6. CASE /\ End(a, "unsettled") /\ UNCHANGED <<dir, lease>>
           /\ records' = [records EXCEPT ![Svc(a)] = Pruned(Svc(a))]
  <2>1. records' \in [Services -> [Runs -> {"none", "live", "done"}]]
    BY <1>2, <1>6
  <2> QED
    BY <1>1, <1>6, <2>1, EndInv DEF Ended
<1> QED
  BY <1>3, <1>4, <1>5, <1>6 DEF Register

\* settle_refused_admission.
LEMMA SettleRefusedInv ==
  ASSUME StoreInv, NEW a \in Attempts, SettleRefused(a)
  PROVE  StoreInv'
<1>1. /\ pc[a] = "settle" /\ pc[a] \in Holding
      /\ UNCHANGED <<setting, up, shutting, pins, sweep, crashes, born, engines, lease>>
      /\ records' = records
  BY DEF SettleRefused, Step, Calm, Holding
<1>e. PICK how \in Ended : End(a, how)
  BY DEF SettleRefused, Ended
<1>2. /\ born \in Nat /\ Run(a) \in Runs /\ dir \in [Runs -> Directories] /\ dir[Run(a)] \in Directories
      /\ engines' \subseteq {s \in Services : up[s]} \X Runs
      /\ records' \in [Services -> [Runs -> {"none", "live", "done"}]]
      /\ lease' \in [Runs -> {Nobody} \cup Services \cup Attempts] /\ Leased
  BY <1>1, AttemptFacts
<1>3. CASE dir' = dir
  BY <1>1, <1>2, <1>3, <1>e, EndInv
<1>4. CASE ~Exists(Run(a)) /\ dir' = [dir EXCEPT ![Run(a)] = Bare(FALSE)]
  <2>1. Bare(FALSE) \in Directories /\ Bare(FALSE).stage = "bare" /\ Bare(FALSE).outcome = "none"
    BY <1>2, DirectoryFacts
  <2>2. dir'[Run(a)] = Bare(FALSE) /\ \A q \in Runs \ {Run(a)} : dir'[q] = dir[q]
    BY <1>2, <1>4
  <2>3. Leased'
    BY <1>1, <1>2, <1>4, <2>1, <2>2, LeasedAt DEF Leased, Exists
  <2> QED
    BY <1>1, <1>2, <1>4, <1>e, <2>1, <2>3, EndOwn
<1>5. CASE /\ lease[Run(a)] = Nobody
           /\ dir' = [dir EXCEPT ![Run(a)].outcome = "interrupted"]
  <2> DEFINE d == [dir[Run(a)] EXCEPT !.outcome = "interrupted"]
  <2>1. d \in Directories /\ d.stage = dir[Run(a)].stage /\ d.identity = dir[Run(a)].identity
    BY <1>2 DEF Directories
  <2>2. dir' = [dir EXCEPT ![Run(a)] = d]
    BY <1>2, <1>5
  <2> HIDE DEF d
  <2>3. \A q \in Runs \ {Run(a)} : dir'[q] = dir[q]
    BY <1>2, <2>2
  <2>4. lease'[Run(a)] \notin Services \cup Attempts
    BY <1>1, <1>5, StoreAssumption
  <2>5. Leased'
    BY <1>1, <1>2, <2>3, <2>4, LeasedAt
  <2> QED
    BY <1>1, <1>2, <1>e, <2>1, <2>2, <2>5, EndOwn
<1> QED
  BY <1>3, <1>4, <1>5 DEF SettleRefused

\* Execution opens the journal under the lease.
LEMMA ExecuteFacts ==
  ASSUME StoreInv, NEW s \in Services, NEW r \in Runs, CanExecute(s, r), Execute(s, r)
  PROVE  /\ Leased' /\ lease' \in [Runs -> {Nobody} \cup Services \cup Attempts]
         /\ engines' \subseteq {t \in Services : up[t]} \X Runs
         /\ \E d \in Directories : /\ dir' = [dir EXCEPT ![r] = d] /\ d.stage = dir[r].stage
                                   /\ d.identity = dir[r].identity /\ d.outcome = "none"
                                   /\ d.mail = dir[r].mail
<1> DEFINE d == [dir[r] EXCEPT !.outcome = "none"]
<1>1. /\ dir \in [Runs -> Directories] /\ dir[r] \in Directories /\ Leased
      /\ lease \in [Runs -> {Nobody} \cup Services \cup Attempts]
      /\ engines \subseteq {t \in Services : up[t]} \X Runs
  BY DEF StoreInv, StoreTypeOK
<1>2. /\ d \in Directories /\ d.stage = dir[r].stage /\ d.identity = dir[r].identity
      /\ d.outcome = "none" /\ d.mail = dir[r].mail
  BY <1>1 DEF Directories
<1>3. dir' = [dir EXCEPT ![r] = d] /\ lease' = [lease EXCEPT ![r] = s]
      /\ engines' = engines \cup {<<s, r>>} /\ up[s] /\ dir[r].stage \in {"history", "admitted"}
  BY <1>1 DEF Execute, CanExecute
<1> HIDE DEF d
<1>4. /\ dir'[r] = d /\ lease'[r] = s /\ s \notin Attempts
      /\ \A q \in Runs \ {r} : dir'[q] = dir[q] /\ lease'[q] = lease[q]
  BY <1>1, <1>3, StoreAssumption
<1>5. Leased'
  BY <1>1, <1>2, <1>3, <1>4, LeasedAt
<1>6. lease' \in [Runs -> {Nobody} \cup Services \cup Attempts]
  BY <1>1, <1>3
<1>7. engines' \subseteq {t \in Services : up[t]} \X Runs
  BY <1>1, <1>3
<1>8. \E e \in Directories : /\ dir' = [dir EXCEPT ![r] = e] /\ e.stage = dir[r].stage
                            /\ e.identity = dir[r].identity /\ e.outcome = "none"
                            /\ e.mail = dir[r].mail
  BY <1>2, <1>3
<1> QED
  BY <1>5, <1>6, <1>7, <1>8

\* spawn_engine_run at the end of an admission.
LEMMA SpawnInv ==
  ASSUME StoreInv, NEW a \in Attempts, Spawn(a)
  PROVE  StoreInv'
<1>1. /\ pc[a] = "spawn" /\ pc[a] \in Holding /\ End(a, "ok")
      /\ UNCHANGED <<setting, up, shutting, pins, sweep, crashes, born>>
      /\ records' = records
  BY DEF Spawn, Calm, Holding
<1>2. /\ Run(a) \in Runs /\ Svc(a) \in Services
      /\ records' \in [Services -> [Runs -> {"none", "live", "done"}]]
  BY <1>1, AttemptFacts
<1>3. CASE CanExecute(Svc(a), Run(a)) /\ Execute(Svc(a), Run(a))
  <2>1. PICK d \in Directories : /\ dir' = [dir EXCEPT ![Run(a)] = d]
                                 /\ d.stage = dir[Run(a)].stage /\ d.identity = dir[Run(a)].identity
    BY <1>2, <1>3, ExecuteFacts
  <2>2. /\ Leased' /\ lease' \in [Runs -> {Nobody} \cup Services \cup Attempts]
        /\ engines' \subseteq {t \in Services : up[t]} \X Runs
    BY <1>2, <1>3, ExecuteFacts
  <2> QED
    BY <1>1, <1>2, <2>1, <2>2, EndOwn DEF Ended
<1>4. CASE UNCHANGED <<lease, engines, dir>>
  BY <1>1, <1>2, <1>4, EndInv DEF Ended
<1> QED
  BY <1>3, <1>4 DEF Spawn

-----------------------------------------------------------------------------
(* Processes, execution, claims and retention *)

\* A step of a process: requests stay where they are, an admission is kept or goes
\* from under no lock.
LEMMA StoreWatched ==
  ASSUME StoreInv, UNCHANGED <<setting, pc, local, shard, born>>,
         up' \in [Services -> BOOLEAN], shutting' \in [Services -> BOOLEAN],
         \A s \in Services : up[s] => up'[s],
         \A s \in Services : up'[s] => s \in setting.services,
         dir' \in [Runs -> Directories],
         \A r \in Runs : \/ dir'[r].stage = dir[r].stage /\ dir'[r].identity = dir[r].identity
                         \/ shard[ShardOf[r]] = Nobody /\ dir'[r] = Missing,
         lease' \in [Runs -> {Nobody} \cup Services \cup Attempts],
         engines' \subseteq {s \in Services : up'[s]} \X Runs,
         records' \in [Services -> [Runs -> {"none", "live", "done"}]],
         pins' \subseteq Runs, sweep'.by \in Services \cup {Nobody},
         sweep'.by # Nobody => up'[sweep'.by], crashes' \in Nat, Leased', Spared'
  PROVE  StoreInv'
<1>1. StoreTypeOK /\ Upheld /\ Locked /\ Identified /\ (\A a \in Attempts : Placed(a))
  BY DEF StoreInv
<1>2. /\ work' = work
      /\ \A b : Run(b)' = Run(b) /\ Svc(b)' = Svc(b) /\ (IsFork(b)' <=> IsFork(b))
      /\ \A b : SourceIds(b)' = SourceIds(b)
  BY SettingKeeps
<1>3. \A b \in Attempts : Run(b) \in Runs /\ Svc(b) \in Services
  BY AttemptFacts
<1>4. Directories' = Directories /\ Memories' = Memories
  BY <1>2 DEF Directories, Memories
<1>5. StoreTypeOK'
  BY <1>1, <1>4 DEF StoreTypeOK
<1>6. Upheld'
  BY <1>1, <1>2, <1>3 DEF Upheld, InFlight
<1>7. Locked'
  BY <1>1, <1>2 DEF Locked
<1>8. Identified'
  <2>1. Missing.stage # "admitted"
    BY DEF Missing
  <2> QED
    BY <1>1, <1>2, <2>1 DEF Identified
<1>9. ASSUME NEW b \in Attempts PROVE Placed(b)'
  <2>1. CASE pc[b] \notin Holding
    <3>1. local[b] = NoLocal
      BY <1>1, <2>1, OutsideForgets
    <3> QED
      BY <2>1, <3>1, OutPlaced
  <2>2. CASE pc[b] \in Holding
    <3>1. shard[ShardOf[Run(b)]] # Nobody
      BY <1>1, <2>2, StoreAssumption DEF Locked
    <3>2. dir'[Run(b)].stage = dir[Run(b)].stage /\ dir'[Run(b)].identity = dir[Run(b)].identity
      BY <1>3, <3>1
    <3> QED
      BY <1>1, <1>2, <3>2 DEF Placed, Author, Adopter
  <2> QED
    BY <2>1, <2>2
<1> QED
  BY <1>5, <1>6, <1>7, <1>8, <1>9 DEF StoreInv

\* The types of the state a process starts from.
LEMMA StoreFacts ==
  ASSUME StoreInv
  PROVE  /\ setting \in Settings /\ born \in Nat
         /\ dir \in [Runs -> Directories] /\ local \in [Attempts -> Memories]
         /\ pc \in [Attempts -> Steps] /\ shard \in [Shards -> {Nobody} \cup Attempts]
         /\ lease \in [Runs -> {Nobody} \cup Services \cup Attempts]
         /\ engines \subseteq {s \in Services : up[s]} \X Runs
         /\ records \in [Services -> [Runs -> {"none", "live", "done"}]]
         /\ up \in [Services -> BOOLEAN] /\ shutting \in [Services -> BOOLEAN]
         /\ pins \subseteq Runs /\ sweep.by \in Services \cup {Nobody}
         /\ (sweep.by # Nobody => up[sweep.by]) /\ crashes \in Nat
         /\ Leased /\ Spared /\ Identified /\ Upheld /\ Locked
         /\ \A s \in Services : up[s] => s \in setting.services
  BY DEF StoreInv, StoreTypeOK, Upheld

\* Neither claims nor the sweep change.
LEMMA SparedSame ==
  ASSUME Spared, UNCHANGED <<setting, pc, pins, sweep>>
  PROVE  Spared'
  BY SettingKeeps DEF Spared, InFlight

\* A step that changes records or flags of the processes that run, and no directory.
LEMMA StoreIdle ==
  ASSUME StoreInv, UNCHANGED <<setting, pc, local, shard, born, dir, lease, engines>>,
         up' \in [Services -> BOOLEAN], shutting' \in [Services -> BOOLEAN],
         \A s \in Services : up[s] => up'[s],
         \A s \in Services : up'[s] => s \in setting.services,
         records' \in [Services -> [Runs -> {"none", "live", "done"}]],
         pins' \subseteq Runs, sweep'.by \in Services \cup {Nobody},
         sweep'.by # Nobody => up'[sweep'.by], crashes' = crashes, Spared'
  PROVE  StoreInv'
<1>1. Leased'
  BY StoreFacts, StandsStill
<1>2. engines' \subseteq {s \in Services : up'[s]} \X Runs
  <2>1. \A s \in {t \in Services : up[t]} : s \in {t \in Services : up'[t]}
    OBVIOUS
  <2> QED
    BY <2>1, StoreFacts
<1> QED
  BY <1>1, <1>2, StoreWatched, StoreFacts

\* A claim for a run that nobody sweeps.
LEMMA ClaimInv ==
  ASSUME StoreInv, NEW r \in Runs, Claim(r),
         UNCHANGED <<setting, pc, local, shard, born, dir, lease, engines, up, shutting, records,
                     sweep, crashes>>
  PROVE  StoreInv'
<1>1. pins' = pins \cup {r} /\ sweep.by = Nobody
  BY DEF Claim, MaintenanceFree
<1>2. Spared'
  BY <1>1, StoreFacts, SettingKeeps DEF Spared, InFlight
<1>3. pins' \subseteq Runs
  BY <1>1, StoreFacts
<1> QED
  BY <1>2, <1>3, StoreIdle, StoreFacts

\* claim_durable_pending_for_target_gated, for a start or fork and for a mutation.
LEMMA ClaimsInv ==
  ASSUME StoreInv, \/ \E a \in Attempts : ClaimStart(a)
                   \/ \E r \in Runs : ClaimMutation(r)
  PROVE  StoreInv'
<1>1. ASSUME NEW a \in Attempts, ClaimStart(a) PROVE StoreInv'
  BY <1>1, ClaimInv, AttemptFacts DEF ClaimStart, Calm, Kept
<1>2. ASSUME NEW r \in Runs, ClaimMutation(r) PROVE StoreInv'
  BY <1>2, ClaimInv DEF ClaimMutation, Calm, Kept
<1> QED
  BY <1>1, <1>2

\* A claim goes when no request needs it.
LEMMA UnpinInv ==
  ASSUME StoreInv, NEW r \in Runs, Unpin(r)
  PROVE  StoreInv'
<1>1. /\ pins' = pins \ {r}
      /\ \A a \in Attempts : work[a].keyed /\ Run(a) = r => ~InFlight(a)
      /\ UNCHANGED <<setting, pc, local, shard, born, dir, lease, engines, up, shutting, records,
                     sweep, crashes>>
  BY DEF Unpin, Calm, Kept
<1>2. Spared'
  BY <1>1, StoreFacts, SettingKeeps DEF Spared, InFlight
<1>3. pins' \subseteq Runs
  BY <1>1, StoreFacts
<1> QED
  BY <1>1, <1>2, <1>3, StoreIdle, StoreFacts

\* The resumer, an answer or the queue starts a live record.
LEMMA ResumeInv ==
  ASSUME StoreInv, NEW s \in Services, NEW r \in Runs, Resume(s, r)
  PROVE  StoreInv'
<1>1. /\ CanExecute(s, r) /\ Execute(s, r)
      /\ UNCHANGED <<setting, pc, local, shard, born, up, shutting, records, pins, sweep, crashes>>
  BY DEF Resume, Quiet
<1>2. PICK d \in Directories : /\ dir' = [dir EXCEPT ![r] = d]
                               /\ d.stage = dir[r].stage /\ d.identity = dir[r].identity
  BY <1>1, ExecuteFacts
<1>3. /\ Leased' /\ lease' \in [Runs -> {Nobody} \cup Services \cup Attempts]
      /\ engines' \subseteq {t \in Services : up'[t]} \X Runs
  BY <1>1, ExecuteFacts
<1>4. /\ dir' \in [Runs -> Directories]
      /\ \A q \in Runs : dir'[q].stage = dir[q].stage /\ dir'[q].identity = dir[q].identity
  BY <1>2, StoreFacts
<1>5. Spared'
  BY <1>1, SparedSame, StoreFacts
<1> QED
  BY <1>1, <1>3, <1>4, <1>5, StoreWatched, StoreFacts

\* An engine settles or suspends under its lease.
Finished(s, r, how) ==
    /\ <<s, r>> \in engines /\ engines' = engines \ {<<s, r>>}
    /\ lease' \in [Runs -> {Nobody} \cup Services \cup Attempts]
    /\ lease'[r] = IF lease[r] = s THEN Nobody ELSE lease[r]
    /\ \A q \in Runs \ {r} : dir'[q] = dir[q] /\ lease'[q] = lease[q]
    /\ dir' \in [Runs -> Directories]
    /\ dir'[r].stage = dir[r].stage /\ dir'[r].identity = dir[r].identity
    /\ lease[r] # s \/ dir[r].stage \in {"missing", "bare"} => dir'[r] = dir[r]
    /\ dir'[r].mail => dir[r].mail
    /\ dir'[r] = dir[r] \/ dir'[r].outcome = how

\* What an engine leaves behind.
LEMMA FinishFacts ==
  ASSUME StoreInv, NEW s \in Services, NEW r \in Runs,
         NEW how \in {"success", "failed", "interrupted", "waiting"}, Finish(s, r, how)
  PROVE  Finished(s, r, how)
<1> DEFINE d == [dir[r] EXCEPT !.outcome = how, !.mail = FALSE]
<1>1. /\ dir \in [Runs -> Directories] /\ dir[r] \in Directories
      /\ lease \in [Runs -> {Nobody} \cup Services \cup Attempts]
  BY StoreFacts
<1>2. /\ d \in Directories /\ d.stage = dir[r].stage /\ d.identity = dir[r].identity
      /\ d.outcome = how /\ ~d.mail
  BY <1>1 DEF Directories
<1>3. /\ <<s, r>> \in engines /\ engines' = engines \ {<<s, r>>}
      /\ lease' = [lease EXCEPT ![r] = IF @ = s THEN Nobody ELSE @]
      /\ IF dir[r].stage \in {"history", "admitted"} /\ lease[r] = s
         THEN dir' = [dir EXCEPT ![r] = d] ELSE dir' = dir
  BY <1>1 DEF Finish
<1> HIDE DEF d
<1>4. /\ dir' \in [Runs -> Directories] /\ \A q \in Runs \ {r} : dir'[q] = dir[q]
      /\ dir'[r] = IF dir[r].stage \in {"history", "admitted"} /\ lease[r] = s THEN d ELSE dir[r]
  BY <1>1, <1>2, <1>3
<1>5. /\ lease' \in [Runs -> {Nobody} \cup Services \cup Attempts]
      /\ lease'[r] = IF lease[r] = s THEN Nobody ELSE lease[r]
      /\ \A q \in Runs \ {r} : lease'[q] = lease[q]
  BY <1>1, <1>3
<1> QED
  BY <1>2, <1>3, <1>4, <1>5 DEF Finished

\* The end of an engine keeps the store's invariant.
LEMMA FinishInv ==
  ASSUME StoreInv, NEW s \in Services, NEW r \in Runs,
         NEW how \in {"success", "failed", "interrupted", "waiting"}, Finish(s, r, how)
  PROVE  StoreInv'
<1>1. UNCHANGED <<setting, pc, local, shard, born, up, shutting, records, pins, sweep, crashes>>
  BY DEF Finish, Quiet
<1>2. /\ engines' = engines \ {<<s, r>>}
      /\ lease' \in [Runs -> {Nobody} \cup Services \cup Attempts]
      /\ lease'[r] = IF lease[r] = s THEN Nobody ELSE lease[r]
      /\ \A q \in Runs \ {r} : dir'[q] = dir[q] /\ lease'[q] = lease[q]
      /\ dir' \in [Runs -> Directories]
      /\ dir'[r].stage = dir[r].stage /\ dir'[r].identity = dir[r].identity
      /\ lease[r] # s => dir'[r] = dir[r]
  <2>1. Finished(s, r, how)
    BY FinishFacts
  <2> QED
    BY <2>1 DEF Finished
<1>3. Leased'
  <2>1. Leased /\ Nobody \notin Services \cup Attempts
    BY StoreFacts, StoreAssumption
  <2>2. ASSUME NEW q \in Runs
        PROVE  /\ lease'[q] \in Services => <<lease'[q], q>> \in engines' /\ dir'[q].outcome = "none"
                      /\ dir'[q].stage \in {"history", "admitted"}
               /\ lease'[q] \in Attempts => dir'[q].stage = "admitted" /\ dir'[q].outcome # "none"
    <3>1. CASE q = r
      BY <1>2, <2>1, <3>1 DEF Leased
    <3>2. CASE q # r
      BY <1>2, <2>1, <3>2 DEF Leased
    <3> QED
      BY <3>1, <3>2
  <2> QED
    BY <2>2 DEF Leased
<1>4. Spared'
  BY <1>1, SparedSame, StoreFacts
<1>5. engines' \subseteq {t \in Services : up'[t]} \X Runs
  BY <1>1, <1>2, StoreFacts
<1>6. \A q \in Runs : dir'[q].stage = dir[q].stage /\ dir'[q].identity = dir[q].identity
  BY <1>2
<1> QED
  BY <1>1, <1>2, <1>3, <1>4, <1>5, <1>6, StoreWatched, StoreFacts

\* The record follows the journal.
LEMMA SettleRecordInv ==
  ASSUME StoreInv, NEW s \in Services, NEW r \in Runs, SettleRecord(s, r)
  PROVE  StoreInv'
<1>1. /\ records' = [records EXCEPT ![s][r] = "done"]
      /\ UNCHANGED <<setting, pc, local, shard, born, dir, lease, engines, up, shutting, pins, sweep,
                     crashes>>
  BY DEF SettleRecord, Quiet
<1>2. records' \in [Services -> [Runs -> {"none", "live", "done"}]]
  BY <1>1, StoreFacts
<1>3. Spared'
  BY <1>1, SparedSame, StoreFacts
<1> QED
  BY <1>1, <1>2, <1>3, StoreIdle, StoreFacts

\* request_remote_cancel_with_id.
LEMMA PublishCancelInv ==
  ASSUME StoreInv, NEW r \in Runs, PublishCancel(r)
  PROVE  StoreInv'
<1> DEFINE d == [dir[r] EXCEPT !.mail = TRUE]
<1>1. /\ dir' = [dir EXCEPT ![r] = d]
      /\ UNCHANGED <<setting, pc, local, shard, born, lease, engines, records, up, shutting, pins, sweep,
                     crashes>>
  BY StoreFacts DEF PublishCancel, Quiet
<1>2. /\ d \in Directories /\ d.stage = dir[r].stage /\ d.identity = dir[r].identity
      /\ d.outcome = dir[r].outcome
  <2>1. dir[r] \in Directories
    BY StoreFacts
  <2> QED
    BY <2>1 DEF Directories
<1> HIDE DEF d
<1>3. /\ dir' \in [Runs -> Directories]
      /\ \A q \in Runs : /\ dir'[q].stage = dir[q].stage /\ dir'[q].identity = dir[q].identity
                         /\ dir'[q].outcome = dir[q].outcome
  BY <1>1, <1>2, StoreFacts
<1>4. Leased'
  BY <1>1, <1>3, LeasedLess, StoreFacts
<1>5. Spared'
  BY <1>1, SparedSame, StoreFacts
<1>6. engines' \subseteq {t \in Services : up'[t]} \X Runs
  BY <1>1, StoreFacts
<1> QED
  BY <1>1, <1>3, <1>4, <1>5, <1>6, StoreWatched, StoreFacts

\* refresh_shared_runs.
LEMMA RefreshInv ==
  ASSUME StoreInv, NEW s \in Services, Refresh(s)
  PROVE  StoreInv'
<1>1. /\ records' = [records EXCEPT ![s] = [r \in Runs |->
            IF @[r] = "live" THEN "live" ELSE IF r \in Readable THEN "live" ELSE "none"]]
      /\ UNCHANGED <<setting, pc, local, shard, born, dir, lease, engines, up, shutting, pins, sweep,
                     crashes>>
  BY DEF Refresh, Quiet
<1>2. records' \in [Services -> [Runs -> {"none", "live", "done"}]]
  BY <1>1, StoreFacts
<1>3. Spared'
  BY <1>1, SparedSame, StoreFacts
<1> QED
  BY <1>1, <1>2, <1>3, StoreIdle, StoreFacts

\* A shutdown begins.
LEMMA ShutdownInv ==
  ASSUME StoreInv, NEW s \in Services, Shutdown(s)
  PROVE  StoreInv'
<1>1. /\ shutting' = [shutting EXCEPT ![s] = TRUE]
      /\ UNCHANGED <<setting, pc, local, shard, born, dir, lease, engines, records, up, pins, sweep,
                     crashes>>
  BY DEF Shutdown, Quiet
<1>2. shutting' \in [Services -> BOOLEAN]
  BY <1>1, StoreFacts
<1>3. Spared'
  BY <1>1, SparedSame, StoreFacts
<1> QED
  BY <1>1, <1>2, <1>3, StoreIdle, StoreFacts

\* rehydrate_runs at construction.
LEMMA BootInv ==
  ASSUME StoreInv, NEW s \in Services, Boot(s)
  PROVE  StoreInv'
<1>1. /\ s \in setting.services /\ up' = [up EXCEPT ![s] = TRUE]
      /\ records' = [records EXCEPT ![s] =
            [r \in Runs |-> IF r \in Readable THEN "live" ELSE "none"]]
      /\ UNCHANGED <<setting, pc, local, shard, born, dir, lease, engines, shutting, pins, sweep,
                     crashes>>
  BY DEF Boot, Quiet
<1>2. records' \in [Services -> [Runs -> {"none", "live", "done"}]]
  BY <1>1, StoreFacts
<1>3. Spared'
  BY <1>1, SparedSame, StoreFacts
<1>4. /\ up' \in [Services -> BOOLEAN]
      /\ \A t \in Services : up[t] => up'[t]
      /\ \A t \in Services : up'[t] => t \in setting.services
      /\ sweep'.by # Nobody => up'[sweep'.by]
  BY <1>1, StoreFacts
<1> QED
  BY <1>1, <1>2, <1>3, <1>4, StoreIdle, StoreFacts

\* The sweep takes the pins and the candidates of its start.
LEMMA SweepBeginInv ==
  ASSUME StoreInv, NEW s \in Services, SweepBegin(s)
  PROVE  StoreInv'
<1>1. /\ up[s] /\ sweep' = [NoSweep EXCEPT !.by = s, !.retained = pins, !.queue = Candidates]
      /\ UNCHANGED <<setting, pc, local, shard, born, dir, lease, engines, records, up, shutting, pins,
                     crashes>>
  BY DEF SweepBegin, Calm, Kept
<1>2. /\ DOMAIN sweep' = {"by", "retained", "queue", "ok", "failed", "deleted"}
      /\ sweep'.by = s /\ sweep'.retained = pins /\ sweep'.deleted = {}
  BY <1>1 DEF NoSweep
<1>3. Spared'
  <2>1. s # Nobody /\ Spared /\ work' = work /\ \A b : Run(b)' = Run(b)
    BY <1>1, StoreAssumption, StoreFacts, SettingKeeps
  <2> QED
    BY <1>1, <1>2, <2>1 DEF Spared, InFlight
<1> QED
  BY <1>1, <1>2, <1>3, StoreIdle, StoreFacts

\* The sweep looks at one candidate: it stays, or it goes unless it is protected.
LEMMA SweepNextFacts ==
  ASSUME StoreInv, SweepNext
  PROVE  /\ UNCHANGED <<setting, pc, local, shard, born, engines, records, up, shutting, pins, crashes>>
         /\ sweep.by # Nobody /\ sweep'.by = sweep.by /\ sweep'.retained = sweep.retained
         /\ DOMAIN sweep' = DOMAIN sweep
         /\ \/ sweep'.deleted = sweep.deleted /\ UNCHANGED <<dir, lease>>
            \/ \E r \in Settled \ sweep.retained :
                  /\ sweep'.deleted = sweep.deleted \cup {r} /\ Unprotected(r) /\ Removed(r)
<1> DEFINE r == Head(sweep.queue)[1]
           next == [sweep EXCEPT !.queue = Tail(@)]
<1>1. /\ UNCHANGED <<setting, pc, local, shard, born, engines, records, up, shutting, pins, crashes>>
      /\ sweep.by # Nobody
  BY DEF SweepNext, Calm
<1>2. DOMAIN sweep = {"by", "retained", "queue", "ok", "failed", "deleted"}
  BY StoreFacts DEF Spared
<1>3. /\ DOMAIN next = DOMAIN sweep /\ next.by = sweep.by /\ next.retained = sweep.retained
      /\ next.deleted = sweep.deleted
  BY <1>2
<1> HIDE DEF next
<1>4. CASE sweep' = next /\ UNCHANGED <<dir, lease>>
  BY <1>1, <1>3, <1>4
<1>5. CASE sweep' = [next EXCEPT !.failed = @ + 1] /\ UNCHANGED <<dir, lease>>
  <2>1. /\ DOMAIN sweep' = DOMAIN sweep /\ sweep'.by = sweep.by /\ sweep'.retained = sweep.retained
        /\ sweep'.deleted = sweep.deleted
    BY <1>2, <1>3, <1>5
  <2> QED
    BY <1>1, <1>5, <2>1
<1>6. CASE sweep' = [next EXCEPT !.ok = @ + 1] /\ UNCHANGED <<dir, lease>>
  <2>1. /\ DOMAIN sweep' = DOMAIN sweep /\ sweep'.by = sweep.by /\ sweep'.retained = sweep.retained
        /\ sweep'.deleted = sweep.deleted
    BY <1>2, <1>3, <1>6
  <2> QED
    BY <1>1, <1>6, <2>1
<1>7. CASE /\ r \notin sweep.retained /\ Unprotected(r) /\ r \in Settled
           /\ Removed(r) /\ sweep' = [next EXCEPT !.deleted = @ \cup {r}]
  <2> HIDE DEF r
  <2>1. /\ DOMAIN sweep' = DOMAIN sweep /\ sweep'.by = sweep.by /\ sweep'.retained = sweep.retained
        /\ sweep'.deleted = sweep.deleted \cup {r}
    BY <1>2, <1>3, <1>7
  <2> QED
    BY <1>1, <1>7, <2>1
<1> QED
  BY <1>4, <1>5, <1>6, <1>7 DEF SweepNext, next

\* The sweep deletes or keeps one candidate.
LEMMA SweepNextInv ==
  ASSUME StoreInv, SweepNext
  PROVE  StoreInv'
<1>1. /\ UNCHANGED <<setting, pc, local, shard, born, engines, records, up, shutting, pins, crashes>>
      /\ sweep.by # Nobody /\ sweep'.by = sweep.by /\ sweep'.retained = sweep.retained
      /\ DOMAIN sweep' = DOMAIN sweep
  BY SweepNextFacts
<1>2. Spared /\ work' = work /\ \A b : Run(b)' = Run(b)
  BY <1>1, SettingKeeps, StoreFacts
<1>3. CASE sweep'.deleted = sweep.deleted /\ UNCHANGED <<dir, lease>>
  <2>1. Spared'
    BY <1>1, <1>2, <1>3 DEF Spared, InFlight
  <2> QED
    BY <1>1, <1>3, <2>1, StoreIdle, StoreFacts
<1>4. CASE \E r \in Settled \ sweep.retained :
             /\ sweep'.deleted = sweep.deleted \cup {r} /\ Unprotected(r) /\ Removed(r)
  <2>1. PICK r \in Settled \ sweep.retained :
             /\ sweep'.deleted = sweep.deleted \cup {r} /\ Unprotected(r) /\ Removed(r)
    BY <1>4
  <2>2. /\ r \in Runs /\ dir' = [dir EXCEPT ![r] = Missing] /\ lease' = [lease EXCEPT ![r] = Nobody]
        /\ shard[ShardOf[r]] = Nobody
    BY <2>1 DEF Settled, Removed, Unprotected
  <2>3. Spared'
    BY <1>1, <1>2, <2>1 DEF Spared, InFlight
  <2>4. Leased' /\ lease' \in [Runs -> {Nobody} \cup Services \cup Attempts]
    BY <1>1, <2>2, LeasedRemoved
  <2>5. /\ dir' \in [Runs -> Directories]
        /\ \A q \in Runs : dir'[q] = dir[q] \/ (shard[ShardOf[q]] = Nobody /\ dir'[q] = Missing)
    BY <2>2, StoreFacts, DirectoryFacts
  <2>6. engines' \subseteq {t \in Services : up'[t]} \X Runs
    BY <1>1, StoreFacts
  <2> QED
    BY <1>1, <2>3, <2>4, <2>5, <2>6, StoreWatched, StoreFacts
<1> QED
  BY <1>3, <1>4, SweepNextFacts

\* collect_retained_runs drops records and the maintenance lock.
LEMMA SweepEndInv ==
  ASSUME StoreInv, SweepEnd
  PROVE  StoreInv'
<1>1. /\ sweep' = NoSweep
      /\ records' = [records EXCEPT ![sweep.by] = [r \in Runs |->
            IF (r \in sweep.deleted \/ @[r] = "done") /\ ~Exists(r) THEN "none" ELSE @[r]]]
      /\ UNCHANGED <<setting, pc, local, shard, born, dir, lease, engines, up, shutting, pins, crashes>>
  BY DEF SweepEnd, Calm, Kept
<1>2. records' \in [Services -> [Runs -> {"none", "live", "done"}]]
  BY <1>1, StoreFacts
<1>3. /\ DOMAIN sweep' = {"by", "retained", "queue", "ok", "failed", "deleted"}
      /\ sweep'.by = Nobody /\ sweep'.deleted = {}
  BY <1>1 DEF NoSweep
<1>4. Spared'
  BY <1>1, <1>3, StoreFacts, SettingKeeps DEF Spared, InFlight
<1> QED
  BY <1>1, <1>2, <1>3, <1>4, StoreIdle, StoreFacts

\* delete_run.
LEMMA DeleteRunInv ==
  ASSUME StoreInv, NEW s \in Services, NEW r \in Runs, DeleteRun(s, r)
  PROVE  StoreInv'
<1>1. /\ dir' = [dir EXCEPT ![r] = Missing] /\ lease' = [lease EXCEPT ![r] = Nobody]
      /\ records' = [records EXCEPT ![s][r] = "none"] /\ shard[ShardOf[r]] = Nobody
      /\ UNCHANGED <<setting, pc, local, shard, born, engines, up, shutting, pins, sweep, crashes>>
  BY DEF DeleteRun, Removed, Unprotected, Calm
<1>2. Leased' /\ lease' \in [Runs -> {Nobody} \cup Services \cup Attempts]
  BY <1>1, LeasedRemoved
<1>3. Spared'
  BY <1>1, SparedSame, StoreFacts
<1>4. /\ dir' \in [Runs -> Directories]
      /\ \A q \in Runs : dir'[q] = dir[q] \/ (shard[ShardOf[q]] = Nobody /\ dir'[q] = Missing)
  BY <1>1, StoreFacts, DirectoryFacts
<1>5. /\ records' \in [Services -> [Runs -> {"none", "live", "done"}]]
      /\ engines' \subseteq {t \in Services : up'[t]} \X Runs
  BY <1>1, StoreFacts
<1> QED
  BY <1>1, <1>2, <1>3, <1>4, <1>5, StoreWatched, StoreFacts

\* A process ends: its requests are lost and its locks free.
LEMMA GoDownInv ==
  ASSUME StoreInv, NEW s \in Services, GoDown(s), crashes' \in Nat
  PROVE  StoreInv'
<1>1. UNCHANGED <<setting, dir, born, pins>>
  BY DEF GoDown
<1>2. /\ work' = work
      /\ \A b : Run(b)' = Run(b) /\ Svc(b)' = Svc(b) /\ (IsFork(b)' <=> IsFork(b))
      /\ \A b : SourceIds(b)' = SourceIds(b)
  BY <1>1, SettingKeeps
<1>3. \A b \in Attempts : Run(b) \in Runs /\ Svc(b) \in Services /\ ShardOf[Run(b)] \in Shards
  BY AttemptFacts
<1>4. /\ up' = [up EXCEPT ![s] = FALSE] /\ up' \in [Services -> BOOLEAN] /\ ~up'[s]
      /\ \A t \in Services : t # s => up'[t] = up[t]
      /\ shutting' \in [Services -> BOOLEAN]
      /\ records' \in [Services -> [Runs -> {"none", "live", "done"}]]
  BY StoreFacts DEF GoDown
<1>5. \A b \in Attempts :
         IF b \in Mine(s) /\ InFlight(b) THEN pc'[b] = "lost" /\ local'[b] = NoLocal
         ELSE pc'[b] = pc[b] /\ local'[b] = local[b]
  BY DEF GoDown
<1>6. pc' \in [Attempts -> Steps] /\ local' \in [Attempts -> Memories]
  <2>1. "lost" \in Steps /\ NoLocal \in Memories
    BY StoreFacts, DirectoryFacts DEF Steps, Ended
  <2>2. pc' = [b \in Attempts |-> IF b \in Mine(s) /\ InFlight(b) THEN "lost" ELSE pc[b]]
    BY DEF GoDown
  <2>3. local' = [b \in Attempts |-> IF b \in Mine(s) /\ InFlight(b) THEN NoLocal ELSE local[b]]
    BY DEF GoDown
  <2>4. pc \in [Attempts -> Steps] /\ local \in [Attempts -> Memories]
    BY StoreFacts
  <2> QED
    BY <2>1, <2>2, <2>3, <2>4
<1>7. \A b \in Attempts : InFlight(b)' => InFlight(b) /\ pc'[b] = pc[b] /\ Svc(b) # s
  BY <1>5 DEF InFlight, Mine, Ended
<1>8. Upheld'
  <2>1. ASSUME NEW b \in Attempts, InFlight(b)' PROVE up'[Svc(b)]
    BY <1>3, <1>4, <1>7, <2>1, StoreFacts DEF Upheld
  <2>2. \A t \in Services : up'[t] => t \in setting.services
    BY <1>4, StoreFacts
  <2> QED
    BY <1>1, <1>2, <2>1, <2>2 DEF Upheld
<1>9. /\ shard' \in [Shards -> {Nobody} \cup Attempts]
      /\ \A h \in Shards : shard'[h] = IF shard[h] \in Mine(s) THEN Nobody ELSE shard[h]
  BY StoreFacts DEF GoDown
<1>10. \A b \in Attempts : pc'[b] \in Holding => pc[b] = pc'[b] /\ b \notin Mine(s)
  BY <1>5, StepFacts DEF InFlight, Mine, Ended
<1>11. Locked'
  <2>1. ASSUME NEW b \in Attempts, pc'[b] \in Holding PROVE shard'[ShardOf[Run(b)]] = b
    BY <1>3, <1>9, <1>10, <2>1, StoreFacts DEF Locked
  <2>2. ASSUME NEW h \in Shards, shard'[h] # Nobody PROVE h = ShardOf[Run(shard'[h])]
    BY <1>9, <2>2, StoreFacts DEF Locked
  <2> QED
    BY <1>2, <2>1, <2>2 DEF Locked
<1>12. Spared' /\ sweep'.by \in Services \cup {Nobody} /\ (sweep'.by # Nobody => up'[sweep'.by])
  <2>1. Spared /\ \A b \in Attempts : work[b].keyed /\ InFlight(b)' => Run(b) \in pins
    BY <1>7, StoreFacts DEF Spared
  <2>2. CASE sweep' = NoSweep
    BY <1>1, <1>2, <2>1, <2>2 DEF Spared, NoSweep
  <2>3. CASE sweep.by # s /\ sweep' = sweep
    BY <1>1, <1>2, <1>4, <2>1, <2>3, StoreFacts DEF Spared
  <2> QED
    BY <2>2, <2>3 DEF GoDown
<1>13. /\ lease' \in [Runs -> {Nobody} \cup Services \cup Attempts]
       /\ \A r \in Runs : lease'[r] = IF lease[r] \in {s} \cup Mine(s) THEN Nobody ELSE lease[r]
  BY StoreFacts DEF GoDown
<1>14. /\ engines' = {e \in engines : e[1] # s}
       /\ engines' \subseteq {t \in Services : up'[t]} \X Runs
  <2>1. engines' = {e \in engines : e[1] # s}
    BY DEF GoDown
  <2>2. ASSUME NEW e \in engines, e[1] # s PROVE e \in {t \in Services : up'[t]} \X Runs
    BY <1>4, <2>2, StoreFacts
  <2> QED
    BY <2>1, <2>2
<1>15. Leased'
  <2>1. Leased /\ Nobody \notin Services \cup Attempts
    BY StoreFacts, StoreAssumption
  <2>2. ASSUME NEW q \in Runs
        PROVE  /\ lease'[q] \in Services => <<lease'[q], q>> \in engines' /\ dir'[q].outcome = "none"
                      /\ dir'[q].stage \in {"history", "admitted"}
               /\ lease'[q] \in Attempts => dir'[q].stage = "admitted" /\ dir'[q].outcome # "none"
    BY <1>1, <1>13, <1>14, <2>1 DEF Leased
  <2> QED
    BY <2>2 DEF Leased
<1>16. Identified'
  BY <1>1, <1>2, StoreFacts DEF Identified
<1>17. ASSUME NEW b \in Attempts PROVE Placed(b)'
  <2>1. Placed(b)
    BY AttemptFacts
  <2>2. CASE b \in Mine(s) /\ InFlight(b)
    BY <1>5, <2>2, OutPlaced DEF Holding
  <2>3. CASE ~(b \in Mine(s) /\ InFlight(b))
    <3>1. pc'[b] = pc[b] /\ local'[b] = local[b]
      BY <1>5, <2>3
    <3> QED
      BY <1>1, <1>2, <2>1, <3>1 DEF Placed, Adopter, Author
  <2> QED
    BY <2>2, <2>3
<1>18. StoreTypeOK'
  <2>1. Directories' = Directories /\ Memories' = Memories
    BY <1>1, <1>2 DEF Directories, Memories
  <2>2. \A h \in Shards : shard'[h] # Nobody => pc'[shard'[h]] \in Holding
    <3>1. ASSUME NEW h \in Shards, shard'[h] # Nobody PROVE pc'[shard'[h]] \in Holding
      <4>1. shard'[h] = shard[h] /\ shard[h] \in Attempts \ Mine(s)
        BY <1>9, <3>1
      <4>2. pc[shard[h]] \in Holding
        BY <3>1, <4>1 DEF StoreInv, StoreTypeOK
      <4> QED
        BY <1>5, <4>1, <4>2
    <3> QED
      BY <3>1
  <2> QED
    BY <1>1, <1>4, <1>6, <1>9, <1>12, <1>13, <1>14, <2>1, <2>2, StoreFacts DEF StoreTypeOK
<1> QED
  BY <1>8, <1>11, <1>12, <1>15, <1>16, <1>17, <1>18 DEF StoreInv

\* A crash, or an orderly exit.
LEMMA ProcessEndsInv ==
  ASSUME StoreInv, NEW s \in Services, Crash(s) \/ Exit(s)
  PROVE  StoreInv'
  BY GoDownInv, StoreFacts DEF Crash, Exit

\* Every step keeps the invariant.
LEMMA StoreStep ==
  ASSUME StoreInv, [StoreNext]_storeVars
  PROVE  StoreInv'
<1>1. ASSUME NEW a \in Attempts, Admission(a) PROVE StoreInv'
  BY <1>1, ClaimsInv, EnterInv, LockShardInv, AdoptInv, CheckLiveInv, PrepareStartInv, PrepareAdoptedInv,
     PrepareForkInv, PinPackageInv, SeedInv, ProbeInv, WriteQueuedInv, RegisterInv, SettleRefusedInv,
     SpawnInv DEF Admission
<1>2. ASSUME NEW s \in Services, Process(s) PROVE StoreInv'
  BY <1>2, RefreshInv, ShutdownInv, ProcessEndsInv, BootInv, SweepBeginInv, ResumeInv, SettleRecordInv,
     DeleteRunInv, FinishInv DEF Process
<1>3. ASSUME NEW r \in Runs, ClaimMutation(r) \/ Unpin(r) \/ PublishCancel(r) PROVE StoreInv'
  BY <1>3, ClaimsInv, UnpinInv, PublishCancelInv
<1>4. CASE SweepNext \/ SweepEnd
  BY <1>4, SweepNextInv, SweepEndInv
<1>5. CASE UNCHANGED storeVars
  <2>1. UNCHANGED <<setting, pc, local, shard, born, dir, lease, engines, up, shutting, records, pins,
                    sweep, crashes>>
    BY <1>5 DEF storeVars
  <2> QED
    BY <2>1, StoreIdle, SparedSame, StoreFacts
<1> QED
  BY <1>1, <1>2, <1>3, <1>4, <1>5 DEF StoreNext

\* The directories before the behaviour begins.
LEMMA OldRuns ==
  ASSUME StoreInit
  PROVE  /\ setting \in Settings /\ born \in Nat /\ dir \in [Runs -> Directories]
         /\ \A r \in Runs : \/ dir[r] = Missing
                            \/ /\ dir[r].stage = "admitted" /\ dir[r].identity = "old"
                               /\ ~dir[r].mail
<1>1. /\ setting \in Settings /\ born = Len(setting.old)
      /\ setting.old \in Seq(Runs \X {"waiting", "success", "failed", "interrupted"})
  BY StoreAssumption DEF StoreInit
<1>2. born \in Nat /\ DOMAIN setting.old = 1 .. born
  BY <1>1
<1>3. ASSUME NEW i \in 1 .. born
      PROVE  /\ OldRun(i) \in Directories /\ OldRun(i).stage = "admitted"
             /\ OldRun(i).identity = "old" /\ ~OldRun(i).mail
  <2>1. setting.old[i] \in Runs \X {"waiting", "success", "failed", "interrupted"}
    BY <1>1, <1>2, <1>3
  <2>2. setting.old[i][2] \in {"waiting", "success", "failed", "interrupted"} /\ i \in 0 .. born
    BY <1>2, <1>3, <2>1
  <2> QED
    BY <2>2 DEF OldRun, Directories
<1>4. ASSUME NEW r \in Runs
      PROVE  dir[r] = Missing \/ \E i \in 1 .. born : dir[r] = OldRun(i)
  <2>1. dir[r] = IF \E i \in 1 .. born : setting.old[i][1] = r
                 THEN OldRun(CHOOSE i \in 1 .. born : setting.old[i][1] = r) ELSE Missing
    BY <1>4 DEF StoreInit
  <2>2. CASE \E i \in 1 .. born : setting.old[i][1] = r
    <3>1. (CHOOSE i \in 1 .. born : setting.old[i][1] = r) \in 1 .. born
      BY <2>2
    <3> QED
      BY <2>1, <2>2, <3>1
  <2> QED
    BY <2>1, <2>2
<1>5. ASSUME NEW r \in Runs PROVE dir[r] \in Directories
  BY <1>2, <1>3, <1>4, <1>5, DirectoryFacts
<1>6. dir = [r \in Runs |-> dir[r]]
  BY DEF StoreInit
<1>7. dir \in [Runs -> Directories]
  BY <1>5, <1>6
<1> QED
  BY <1>1, <1>2, <1>3, <1>4, <1>7

\* The invariant holds before the first step.
LEMMA StoreStart ==
  ASSUME StoreInit
  PROVE  StoreInv
<1>1. /\ setting \in Settings /\ born \in Nat /\ dir \in [Runs -> Directories]
      /\ \A r \in Runs : dir[r] = Missing \/ (dir[r].stage = "admitted" /\ dir[r].identity = "old")
  BY OldRuns
<1>2. Nobody \notin Services \cup Attempts
  BY StoreAssumption
<1>3. /\ \A a \in Attempts : pc[a] = "idle" /\ local[a] = NoLocal
      /\ \A h \in Shards : shard[h] = Nobody
      /\ \A r \in Runs : lease[r] = Nobody
      /\ sweep = NoSweep /\ pins = {} /\ engines = {}
      /\ \A s \in Services : up[s] = (s \in setting.services)
  BY DEF StoreInit
<1>4. StoreTypeOK
  <2>1. NoLocal \in Memories /\ "idle" \in Steps
    BY <1>1, DirectoryFacts DEF Steps
  <2>2. records \in [Services -> [Runs -> {"none", "live", "done"}]]
    BY DEF StoreInit
  <2>3. sweep.by = Nobody
    BY <1>3 DEF NoSweep
  <2>4. pc \in [Attempts -> Steps] /\ local \in [Attempts -> Memories]
    BY <2>1 DEF StoreInit
  <2>5. /\ lease \in [Runs -> {Nobody} \cup Services \cup Attempts]
        /\ shard \in [Shards -> {Nobody} \cup Attempts]
        /\ up \in [Services -> BOOLEAN] /\ shutting \in [Services -> BOOLEAN] /\ crashes \in Nat
    BY DEF StoreInit
  <2> QED
    BY <1>1, <1>3, <2>2, <2>3, <2>4, <2>5 DEF StoreTypeOK
<1>5. Upheld /\ Locked
  BY <1>3, StepFacts DEF Upheld, Locked, InFlight
<1>6. ASSUME NEW a \in Attempts PROVE Placed(a)
  BY <1>3, <1>6, StepFacts, OutsidePlaced
<1>7. Identified
  BY <1>1 DEF Identified, Missing
<1>8. Leased
  BY <1>2, <1>3 DEF Leased
<1>9. Spared
  BY <1>3 DEF Spared, NoSweep, InFlight
<1> QED
  BY <1>4, <1>5, <1>6, <1>7, <1>8, <1>9 DEF StoreInv

\* What a request finds while it holds its shard, who holds leases and what the
\* sweep spares, in every state of the store.
THEOREM StoreInvariant == StoreSpec => []StoreInv
<1>1. StoreInit => StoreInv
  BY StoreStart
<1>2. StoreInv /\ [StoreNext]_storeVars => StoreInv'
  BY StoreStep
<1> QED
  BY <1>1, <1>2, PTL DEF StoreSpec

\* Every reachable state is well typed; a shard's holder is on its way through the
\* admission; engines and the sweep belong to processes that run.
THEOREM StoreTypes == StoreSpec => []StoreTypeOK
<1>1. StoreInv => StoreTypeOK
  BY DEF StoreInv
<1> QED
  BY <1>1, StoreInvariant, PTL

-----------------------------------------------------------------------------
(* Accepted requests *)

\* The setting is chosen once.
LEMMA SettingFixed ==
  ASSUME [StoreNext]_storeVars
  PROVE  setting' = setting
<1>1. ASSUME NEW a \in Attempts, Admission(a) PROVE setting' = setting
  BY <1>1 DEF Admission, ClaimStart, Enter, LockShard, Adopt, CheckLive, PrepareStart, PrepareAdopted,
     PrepareFork, PinPackage, Seed, Probe, WriteQueued, Register, SettleRefused, Spawn, Step, Calm
<1>2. ASSUME NEW s \in Services, Process(s) PROVE setting' = setting
  BY <1>2 DEF Process, Refresh, Shutdown, Crash, Exit, GoDown, Boot, SweepBegin, Resume, SettleRecord,
     DeleteRun, Finish, Quiet, Calm
<1>3. ASSUME NEW r \in Runs, ClaimMutation(r) \/ Unpin(r) \/ PublishCancel(r) PROVE setting' = setting
  BY <1>3 DEF ClaimMutation, Unpin, PublishCancel, Quiet, Calm
<1>4. CASE SweepNext \/ SweepEnd
  BY <1>4 DEF SweepNext, SweepEnd, Calm
<1> QED
  BY <1>1, <1>2, <1>3, <1>4 DEF StoreNext, storeVars

\* A request moves itself only.
LEMMA AdmissionMoves ==
  ASSUME StoreInv, NEW b \in Attempts, Admission(b), NEW c \in Attempts, c # b
  PROVE  pc'[c] = pc[c] /\ local'[c] = local[c]
<1>1. pc \in [Attempts -> Steps] /\ local \in [Attempts -> Memories]
  BY StoreFacts
<1>2. CASE ClaimStart(b) \/ Enter(b) \/ LockShard(b) \/ Adopt(b) \/ CheckLive(b)
  BY <1>1, <1>2 DEF ClaimStart, Enter, LockShard, Adopt, CheckLive, Converge, End, Forget, Move
<1>3. CASE PrepareStart(b) \/ PrepareAdopted(b) \/ PrepareFork(b) \/ PinPackage(b) \/ Seed(b)
  BY <1>1, <1>3 DEF PrepareStart, PrepareAdopted, PrepareFork, PinPackage, Seed, End, Forget, Move
<1>4. CASE Probe(b) \/ WriteQueued(b) \/ Register(b) \/ SettleRefused(b) \/ Spawn(b)
  BY <1>1, <1>4 DEF Probe, WriteQueued, Register, SettleRefused, Spawn, Converge, AfterRefusal, End,
     Forget, Move
<1> QED
  BY <1>2, <1>3, <1>4 DEF Admission

\* A process moves a request only by losing it.
LEMMA ProcessMoves ==
  ASSUME StoreInv, NEW c \in Attempts,
         \/ \E s \in Services : Process(s)
         \/ \E r \in Runs : ClaimMutation(r) \/ Unpin(r) \/ PublishCancel(r)
         \/ SweepNext \/ SweepEnd
  PROVE  pc'[c] = "lost" \/ (pc'[c] = pc[c] /\ local'[c] = local[c])
<1>1. ASSUME NEW s \in Services, Process(s)
      PROVE  pc'[c] = "lost" \/ (pc'[c] = pc[c] /\ local'[c] = local[c])
  BY <1>1 DEF Process, Refresh, Shutdown, Crash, Exit, GoDown, Boot, SweepBegin, Resume, SettleRecord,
     DeleteRun, Finish, Quiet
<1> QED
  BY <1>1 DEF ClaimMutation, Unpin, PublishCancel, SweepNext, SweepEnd, Quiet

\* The ways to answer ok.
LEMMA AnswersOk ==
  ASSUME StoreInv, NEW a \in Attempts, Admission(a), pc'[a] = "ok", pc[a] # "ok"
  PROVE  \/ Spawn(a)
         \/ ProvesIdentity(a) /\ pc[a] \in {"live", "seed", "probe", "register"} /\ dir' = dir
<1>1. pc \in [Attempts -> Steps]
  BY StoreFacts
<1>2. CASE ClaimStart(a) \/ Enter(a) \/ LockShard(a) \/ Adopt(a) \/ PrepareStart(a) \/ PrepareAdopted(a)
  BY <1>1, <1>2 DEF ClaimStart, Enter, LockShard, Adopt, PrepareStart, PrepareAdopted, Move
<1>3. CASE PrepareFork(a) \/ PinPackage(a) \/ WriteQueued(a) \/ SettleRefused(a)
  BY <1>1, <1>3 DEF PrepareFork, PinPackage, WriteQueued, SettleRefused, End, Move
<1>4. CASE CheckLive(a)
  BY <1>1, <1>4 DEF CheckLive, Converge, End, Move, Kept
<1>5. CASE Seed(a)
  BY <1>1, <1>5 DEF Seed, End, Move, Kept
<1>6. CASE Probe(a)
  BY <1>1, <1>6 DEF Probe, Converge, End, Move
<1>7. CASE Register(a)
  BY <1>1, <1>7 DEF Register, Converge, AfterRefusal, End, Move
<1> QED
  BY <1>2, <1>3, <1>4, <1>5, <1>6, <1>7 DEF Admission

\* A proof of identity is one of the admission that is there.
LEMMA ProofIsDurable ==
  ASSUME StoreInv, ForksDiffer(setting), NEW a \in Attempts, ProvesIdentity(a),
         pc[a] \in {"live", "seed", "probe", "register"}
  PROVE  dir[Run(a)].stage = "admitted" /\ dir[Run(a)].identity = work[a].identity
<1>1. Placed(a) /\ local[a] \in Memories
  BY AttemptFacts
<1>2. CASE local[a].adopted
  <2>1. /\ local[a].snapshot.stage = "admitted" /\ dir[Run(a)].stage = "admitted"
        /\ local[a].snapshot.identity = dir[Run(a)].identity
    BY <1>1, <1>2 DEF Placed, Adopter
  <2>2. local[a].snapshot # Missing
    BY <2>1 DEF Missing
  <2> QED
    BY <2>1, <2>2 DEF ProvesIdentity
<1>3. CASE ~local[a].adopted /\ pc[a] = "register"
  BY <1>1, <1>3 DEF Placed, Author
<1>4. CASE ~local[a].adopted /\ pc[a] \in {"live", "seed"}
  <2>1. dir[Run(a)].stage \in {"missing", "bare"} /\ local[a].snapshot = Missing
    BY <1>1, <1>4 DEF Placed, Author, NoLocal
  <2> QED
    BY <2>1 DEF ProvesIdentity
<1>5. CASE ~local[a].adopted /\ pc[a] = "probe"
  <2>1. CASE IsFork(a)
    <3>1. local[a].snapshot.stage = "history" /\ local[a].snapshot.identity \in SourceIds(a)
      BY <1>1, <1>5, <2>1 DEF Placed, Author
    <3>2. local[a].snapshot # Missing
      BY <3>1 DEF Missing
    <3>3. local[a].snapshot.identity = work[a].identity
      BY <3>2 DEF ProvesIdentity
    <3>4. work[a].identity \notin SourceIds(a)
      BY <2>1 DEF ForksDiffer, SourceIds, IsFork, Run, work
    <3> QED
      BY <3>1, <3>3, <3>4
  <2>2. CASE ~IsFork(a)
    <3>1. dir[Run(a)].stage = "bare" /\ local[a].snapshot = Missing
      BY <1>1, <1>5, <2>2 DEF Placed, Author
    <3> QED
      BY <3>1 DEF ProvesIdentity
  <2> QED
    BY <2>1, <2>2
<1> QED
  BY <1>2, <1>3, <1>4, <1>5

\* The answer of one step.
LEMMA AcceptedStep ==
  ASSUME StoreInv, ForksDiffer(setting), StoreNext, NEW a \in Attempts, pc[a] # "ok", pc'[a] = "ok"
  PROVE  dir'[Run(a)].stage = "admitted" /\ dir'[Run(a)].identity = work[a].identity
<1>1. Admission(a)
  <2>1. ASSUME NEW b \in Attempts, Admission(b) PROVE b = a
    BY <2>1, AdmissionMoves
  <2> QED
    BY <2>1, ProcessMoves DEF StoreNext
<1>2. CASE ProvesIdentity(a) /\ pc[a] \in {"live", "seed", "probe", "register"} /\ dir' = dir
  BY <1>2, ProofIsDurable
<1>3. CASE Spawn(a)
  <2>1. /\ Run(a) \in Runs /\ Svc(a) \in Services /\ dir \in [Runs -> Directories]
        /\ dir[Run(a)].stage = "admitted" /\ dir[Run(a)].identity = work[a].identity
    BY <1>3, AttemptFacts DEF Spawn, Placed, Adopter, Author
  <2>2. CASE CanExecute(Svc(a), Run(a)) /\ Execute(Svc(a), Run(a))
    <3>1. PICK d \in Directories : /\ dir' = [dir EXCEPT ![Run(a)] = d]
                                   /\ d.stage = dir[Run(a)].stage /\ d.identity = dir[Run(a)].identity
      BY <2>1, <2>2, ExecuteFacts
    <3> QED
      BY <2>1, <3>1
  <2> QED
    BY <1>3, <2>1, <2>2 DEF Spawn
<1> QED
  BY <1>1, <1>2, <1>3, AnswersOk

\* Every request answered with success, however it got there, leaves the durable
\* admission of exactly this request: through crashes, shutdowns, faults, retries
\* and forks, on a private or a shared store.
THEOREM AcceptedRequestsAreDurable ==
  StoreSpec /\ ForksDiffer(setting) => AcceptedIsDurable
<1>1. ForksDiffer(setting) /\ [StoreNext]_storeVars => ForksDiffer(setting)'
  BY SettingFixed
<1>2. StoreInv /\ ForksDiffer(setting) /\ [StoreNext]_storeVars =>
        [\A a \in Attempts : pc[a] # "ok" /\ pc'[a] = "ok" =>
            /\ dir'[Run(a)].stage = "admitted"
            /\ dir'[Run(a)].identity = work[a].identity]_storeVars
  BY AcceptedStep
<1> QED
  BY <1>1, <1>2, StoreInvariant, PTL DEF StoreSpec, AcceptedIsDurable

-----------------------------------------------------------------------------
(* One service *)

\* A private store has one process.
LEMMA OneService ==
  ASSUME StoreInv, ~setting.shared, NEW s \in Services, NEW t \in Services, up[s], up[t]
  PROVE  s = t
  BY StoreFacts, StoreAssumption

\* A request that holds its shard belongs to a process that runs.
LEMMA HolderIsUp ==
  ASSUME StoreInv, NEW a \in Attempts, pc[a] \in Holding
  PROVE  up[Svc(a)] /\ Svc(a) \in Services /\ Run(a) \in Runs /\ InFlight(a)
<1>1. InFlight(a)
  BY StepFacts DEF InFlight
<1> QED
  BY <1>1, AttemptFacts, StoreFacts DEF Upheld

\* Alone says nothing of a request without a shard.
LEMMA OutAlone ==
  ASSUME NEW a \in Attempts, pc'[a] \notin Holding \/ pc'[a] \in {"adopt", "live"}
  PROVE  Alone(a)'
  BY DEF Alone, Holding

\* A request keeps its place: its record stays or is dropped as settled, the journal of
\* its run keeps its outcome.
LEMMA AloneKept ==
  ASSUME NEW a \in Attempts, Alone(a), setting' = setting, pc'[a] = pc[a],
         local'[a].adopted <=> local[a].adopted,
         \/ records'[Svc(a)][Run(a)] = records[Svc(a)][Run(a)]
         \/ records[Svc(a)][Run(a)] = "done" /\ records'[Svc(a)][Run(a)] = "none",
         pc[a] \in Holding => dir'[Run(a)].outcome = dir[Run(a)].outcome
  PROVE  Alone(a)'
<1>1. Svc(a)' = Svc(a) /\ Run(a)' = Run(a)
  BY SettingKeeps
<1> QED
  BY <1>1 DEF Alone, Record, Terminal, Holding

\* The record of a request, as its own and as other requests leave it.
RecordsKept(a) ==
    \A s \in Services : \A r \in Runs :
        \/ records'[s][r] = records[s][r]
        \/ records[s][r] = "done" /\ records'[s][r] = "none"
        \/ s = Svc(a) /\ r = Run(a) /\ records'[s][r] = "live"

\* The step of a request on a private store.
LEMMA PrivateMoved ==
  ASSUME StoreInv, PrivateInv, NEW a \in Attempts, setting' = setting,
         \A b \in Attempts \ {a} : pc'[b] = pc[b] /\ local'[b] = local[b],
         pc[a] \in Holding \/ UNCHANGED <<dir, records>>, RecordsKept(a),
         \A r \in Runs \ {Run(a)} : dir'[r] = dir[r],
         \A r \in Runs : lease'[r] \in Services =>
            lease'[r] = lease[r] \/ (r = Run(a) /\ lease'[r] = Svc(a) /\ records'[Svc(a)][r] = "live"),
         ~setting.shared => Alone(a)'
  PROVE  PrivateInv'
<1> SUFFICES ASSUME ~setting.shared
             PROVE  /\ \A r \in Runs : lease'[r] \in Services => records'[lease'[r]][r] = "live"
                    /\ \A b \in Attempts : Alone(b)'
  BY DEF PrivateInv
<1>1. /\ \A r \in Runs : lease[r] \in Services => records[lease[r]][r] = "live"
      /\ \A b \in Attempts : Alone(b)
  BY DEF PrivateInv
<1>2. ASSUME NEW r \in Runs, lease'[r] \in Services PROVE records'[lease'[r]][r] = "live"
  BY <1>1, <1>2 DEF RecordsKept
<1>3. ASSUME NEW b \in Attempts \ {a} PROVE Alone(b)'
  <2>1. CASE pc[b] \notin Holding
    BY <1>3, <2>1, OutAlone
  <2>2. CASE pc[b] \in Holding
    <3>1. Svc(b) \in Services /\ Run(b) \in Runs
      BY <1>3, <2>2, HolderIsUp
    <3>2. CASE pc[a] \in Holding
      <4>1. Run(b) # Run(a)
        BY <1>3, <2>2, <3>2, HoldersDiffer
      <4> QED
        BY <1>1, <1>3, <3>1, <4>1, AloneKept DEF RecordsKept
    <3>3. CASE UNCHANGED <<dir, records>>
      BY <1>1, <1>3, <3>3, AloneKept
    <3> QED
      BY <3>2, <3>3
  <2> QED
    BY <2>1, <2>2
<1> QED
  BY <1>2, <1>3

-----------------------------------------------------------------------------
(* Forks, engines and open admissions: the step of a request *)

\* A fork that holds its shard is pinned, so that no sweep has deleted its run; it has no
\* record while its directory is not admitted.
LEMMA ForkHolder ==
  ASSUME StoreInv, ForkInv, Orderly(setting), NEW a \in Attempts, pc[a] \in Holding,
         ForkId(setting, Run(a))
  PROVE  /\ IsFork(a) /\ ~setting.shared /\ Run(a) \notin sweep.deleted
         /\ dir[Run(a)].stage = "admitted" \/ Record(a) = "none"
<1>1. IsFork(a) /\ work[a].keyed /\ ~setting.shared
  BY DEF Orderly, IsFork, Run, work
<1>2. /\ up[Svc(a)] /\ Svc(a) \in Services /\ Run(a) \in Runs /\ InFlight(a)
      /\ records \in [Services -> [Runs -> {"none", "live", "done"}]]
  BY HolderIsUp, StoreFacts
<1>3. Run(a) \notin sweep.deleted
  BY <1>1, <1>2, StoreFacts DEF Spared
<1>4. ForkRecords(Run(a))
  BY <1>2 DEF ForkInv
<1> QED
  BY <1>1, <1>2, <1>3, <1>4 DEF ForkRecords, Record

\* A fork's run is the run of a fork.
LEMMA ForkRuns ==
  ASSUME NEW a \in Attempts, IsFork(a)
  PROVE  ForkId(setting, Run(a))
  BY DEF ForkId, IsFork, Run, work

\* What the step of a request leaves of its directory and record, for the forks.
ForkStepped(a) ==
    /\ dir'[Run(a)].stage = "history" =>
          IsFork(a) /\ ~local'[a].adopted /\ pc'[a] \in {"pin", "probe", "queue"}
    /\ dir'[Run(a)].mail => dir'[Run(a)].stage \in {"history", "admitted"}
    /\ ForkOwn(a)'
    /\ IsFork(a) => dir'[Run(a)].stage = "admitted" \/ records'[Svc(a)][Run(a)] = "none"

\* The step of a request, for the forks.
LEMMA ForkMoved ==
  ASSUME StoreInv, ForkInv, NEW a \in Attempts, UNCHANGED <<setting, up, sweep>>,
         \A b \in Attempts \ {a} : pc'[b] = pc[b] /\ local'[b] = local[b],
         RecordsKept(a), \A r \in Runs \ {Run(a)} : dir'[r] = dir[r],
         pc[a] \in Holding, Orderly(setting) => ForkStepped(a)
  PROVE  ForkInv'
<1> SUFFICES ASSUME Orderly(setting)
             PROVE  /\ \A r \in Runs : HistoryHeld(r)' /\ Mailed(r)'
                    /\ \A b \in Attempts : ForkOwn(b)'
                    /\ \A r \in Runs : ForkId(setting, r) => ForkRecords(r)'
  BY DEF ForkInv
<1>1. /\ work' = work /\ \A b : Run(b)' = Run(b) /\ Svc(b)' = Svc(b) /\ (IsFork(b)' <=> IsFork(b))
  BY SettingKeeps
<1>2. ForkStepped(a)
  OBVIOUS
<1>3. /\ \A r \in Runs : HistoryHeld(r) /\ Mailed(r)
      /\ \A b \in Attempts : ForkOwn(b)
      /\ \A r \in Runs : ForkId(setting, r) => ForkRecords(r)
  BY DEF ForkInv
<1>4. ASSUME NEW r \in Runs PROVE HistoryHeld(r)' /\ Mailed(r)'
  <2>1. CASE r = Run(a)
    BY <1>1, <1>2, <2>1 DEF ForkStepped, HistoryHeld, Mailed
  <2>2. CASE r # Run(a)
    BY <1>1, <1>3, <1>4, <2>2 DEF HistoryHeld, Mailed
  <2> QED
    BY <2>1, <2>2
<1>5. ASSUME NEW b \in Attempts PROVE ForkOwn(b)'
  <2>1. CASE b = a
    BY <1>2, <2>1 DEF ForkStepped
  <2>2. CASE b # a /\ pc[b] \in Holding
    <3>1. Run(b) # Run(a) /\ Run(b) \in Runs
      BY <1>5, <2>2, HoldersDiffer, HolderIsUp
    <3> QED
      BY <1>1, <1>3, <1>5, <2>2, <3>1 DEF ForkOwn
  <2>3. CASE b # a /\ pc[b] \notin Holding
    BY <1>5, <2>3 DEF ForkOwn, Holding
  <2> QED
    BY <2>1, <2>2, <2>3
<1>6. ASSUME NEW r \in Runs, ForkId(setting, r) PROVE ForkRecords(r)'
  <2>1. CASE r = Run(a)
    <3>1. IsFork(a) /\ ~setting.shared /\ r \notin sweep.deleted
      BY <1>6, <2>1, ForkHolder
    <3>2. \A s \in Services : up[s] => s = Svc(a)
      BY <3>1, OneService, HolderIsUp
    <3> QED
      BY <1>2, <2>1, <3>1, <3>2 DEF ForkRecords, ForkStepped
  <2>2. CASE r # Run(a)
    BY <1>3, <1>6, <2>2 DEF ForkRecords, RecordsKept
  <2> QED
    BY <2>1, <2>2
<1> QED
  BY <1>4, <1>5, <1>6

\* The step of a request, for the open admissions.
LEMMA QueuedMoved ==
  ASSUME QueuedInv, NEW a \in Attempts, setting' = setting,
         \A b \in Attempts \ {a} : pc'[b] = pc[b] /\ local'[b] = local[b],
         \A r \in Runs \ {Run(a)} : dir'[r] = dir[r],
         ~setting.shared /\ Open(dir'[Run(a)]) =>
            WrittenBy(a)' \/ (Open(dir[Run(a)]) /\ ~WrittenBy(a))
  PROVE  QueuedInv'
<1> SUFFICES ASSUME ~setting.shared, NEW r \in Runs, Open(dir'[r])
             PROVE  \E b \in Attempts : Run(b) = r /\ WrittenBy(b)'
  BY SettingKeeps DEF QueuedInv, Open
<1>1. CASE r # Run(a)
  <2>1. PICK b \in Attempts : Run(b) = r /\ WrittenBy(b)
    BY <1>1 DEF QueuedInv
  <2>2. WrittenBy(b)'
    BY <1>1, <2>1 DEF WrittenBy
  <2> QED
    BY <2>1, <2>2
<1>2. CASE r = Run(a) /\ WrittenBy(a)'
  BY <1>2
<1>3. CASE r = Run(a) /\ Open(dir[Run(a)]) /\ ~WrittenBy(a)
  <2>1. PICK b \in Attempts : Run(b) = r /\ WrittenBy(b)
    BY <1>3 DEF QueuedInv
  <2>2. WrittenBy(b)'
    BY <1>3, <2>1 DEF WrittenBy
  <2> QED
    BY <2>1, <2>2
<1> QED
  BY <1>1, <1>2, <1>3

\* A step of a request that leaves directories, leases and engines alone.
LEMMA QuietMoved ==
  ASSUME StoreInv, LayersInv, NEW a \in Attempts, pc[a] \in Holding,
         UNCHANGED <<setting, up, sweep, dir, lease, engines>>,
         \A b \in Attempts \ {a} : pc'[b] = pc[b] /\ local'[b] = local[b], RecordsKept(a),
         dir[Run(a)].stage = "admitted" \/ records'[Svc(a)][Run(a)] \in {"none", Record(a)},
         ~setting.shared => Alone(a)' /\ (WrittenBy(a) => WrittenBy(a)'),
         Orderly(setting) =>
            /\ ForkOwn(a)'
            /\ IsFork(a) /\ ~local[a].adopted /\ pc[a] \in {"pin", "probe", "queue"} =>
                  ~local'[a].adopted /\ pc'[a] \in {"pin", "probe", "queue"}
  PROVE  LayersInv'
<1>1. PrivateInv /\ ForkInv /\ EngineInv /\ QueuedInv
  BY DEF LayersInv
<1>2. PrivateInv'
  BY <1>1, PrivateMoved
<1>3. ForkInv'
  <2>1. ASSUME Orderly(setting) PROVE ForkStepped(a)
    <3>1. HistoryHeld(Run(a)) /\ Mailed(Run(a))
      BY <1>1, <2>1, AttemptFacts DEF ForkInv
    <3>2. dir[Run(a)].stage = "history" => IsFork(a) /\ ~local[a].adopted /\ pc[a] \in {"pin", "probe", "queue"}
      <4>1. ASSUME NEW b \in Attempts, Run(b) = Run(a), pc[b] \in {"pin", "probe", "queue"} PROVE b = a
        BY <4>1, HoldersDiffer DEF Holding
      <4> QED
        BY <3>1, <4>1 DEF HistoryHeld
    <3>3. IsFork(a) => dir[Run(a)].stage = "admitted" \/ records'[Svc(a)][Run(a)] = "none"
      BY <1>1, <2>1, ForkHolder, ForkRuns
    <3> QED
      BY <2>1, <3>1, <3>2, <3>3 DEF ForkStepped, Mailed
  <2> QED
    BY <1>1, <2>1, ForkMoved
<1>4. EngineInv'
  BY <1>1 DEF EngineInv
<1>5. QueuedInv'
  BY <1>1, QueuedMoved
<1> QED
  BY <1>2, <1>3, <1>4, <1>5 DEF LayersInv

\* A step of a request before it has its shard.
LEMMA OutsideMoved ==
  ASSUME StoreInv, LayersInv, NEW a \in Attempts, pc[a] \in {"idle", "wait"},
         UNCHANGED <<setting, up, sweep, dir, lease, engines, records>>,
         \A b \in Attempts \ {a} : pc'[b] = pc[b] /\ local'[b] = local[b],
         pc'[a] \notin Holding \/ pc'[a] = "adopt"
  PROVE  LayersInv'
<1>1. PrivateInv /\ ForkInv /\ EngineInv /\ QueuedInv
  BY DEF LayersInv
<1>2. PrivateInv'
  BY <1>1, PrivateMoved, OutAlone DEF RecordsKept
<1>3. ForkInv'
  <2>1. \A b : Run(b)' = Run(b) /\ Svc(b)' = Svc(b) /\ (IsFork(b)' <=> IsFork(b))
    BY SettingKeeps
  <2>2. ASSUME NEW r \in Runs, HistoryHeld(r) PROVE HistoryHeld(r)'
    BY <2>1, <2>2 DEF HistoryHeld
  <2>3. ASSUME NEW b \in Attempts, ForkOwn(b) PROVE ForkOwn(b)'
    BY <2>1, <2>3 DEF ForkOwn, Holding
  <2> QED
    BY <1>1, <2>2, <2>3 DEF ForkInv, Mailed, ForkRecords
<1>4. EngineInv'
  BY <1>1 DEF EngineInv
<1>5. QueuedInv'
  BY <1>1, QueuedMoved DEF WrittenBy
<1> QED
  BY <1>2, <1>3, <1>4, <1>5 DEF LayersInv

\* Claims, entry and the lock of the shard.
LEMMA EntryLayers ==
  ASSUME StoreInv, LayersInv, NEW a \in Attempts, ClaimStart(a) \/ Enter(a) \/ LockShard(a)
  PROVE  LayersInv'
<1>1. /\ pc[a] \in {"idle", "wait"}
      /\ UNCHANGED <<setting, up, sweep, dir, lease, engines, records>>
  BY DEF ClaimStart, Enter, LockShard, Step, Calm, Kept
<1>2. \A b \in Attempts \ {a} : pc'[b] = pc[b] /\ local'[b] = local[b]
  BY AdmissionMoves DEF Admission
<1>3. pc'[a] \notin Holding \/ pc'[a] = "adopt"
  <2>1. pc \in [Attempts -> Steps]
    BY StoreFacts
  <2> QED
    BY <2>1 DEF ClaimStart, Enter, LockShard, Move, Holding
<1> QED
  BY <1>1, <1>2, <1>3, OutsideMoved

\* The answer of a request that holds its shard.
LEMMA EndMoves ==
  ASSUME StoreInv, NEW a \in Attempts, NEW how \in Ended, End(a, how)
  PROVE  /\ pc'[a] = how /\ local'[a] = NoLocal /\ pc'[a] \notin Holding
         /\ Alone(a)' /\ ForkOwn(a)'
<1>1. how \in Steps \ Holding
  BY StepFacts
<1>2. pc'[a] = how /\ local'[a] = NoLocal
  BY <1>1, MoveFacts, AttemptFacts DEF End, Forget
<1>3. Alone(a)'
  BY <1>1, <1>2, OutAlone
<1>4. ForkOwn(a)'
  BY <1>1, <1>2 DEF ForkOwn, Holding
<1> QED
  BY <1>1, <1>2, <1>3, <1>4

\* An answer that leaves everything as it is.
LEMMA QuietEnd ==
  ASSUME StoreInv, LayersInv, NEW a \in Attempts, pc[a] \in Holding,
         UNCHANGED <<setting, up, sweep, dir, lease, engines, records>>,
         \A b \in Attempts \ {a} : pc'[b] = pc[b] /\ local'[b] = local[b],
         NEW how \in Ended, End(a, how),
         ~setting.shared /\ WrittenBy(a) => how = "ok",
         Orderly(setting) /\ IsFork(a) /\ ~local[a].adopted => pc[a] \notin {"pin", "probe", "queue"}
  PROVE  LayersInv'
<1>1. RecordsKept(a)
  BY DEF RecordsKept
<1>2. pc'[a] = how /\ Alone(a)' /\ ForkOwn(a)'
  BY EndMoves
<1>3. ~setting.shared /\ WrittenBy(a) => WrittenBy(a)'
  BY <1>2 DEF WrittenBy
<1> QED
  BY <1>1, <1>2, <1>3, QuietMoved DEF Record

\* live_run_record: a request goes on only if the map has no live record of its run.
LEMMA CheckLiveLayers ==
  ASSUME StoreInv, LayersInv, NEW a \in Attempts, CheckLive(a)
  PROVE  LayersInv'
<1>1. /\ pc[a] = "live" /\ pc[a] \in Holding
      /\ UNCHANGED <<setting, up, sweep, dir, lease, engines, records>>
  BY DEF CheckLive, Step, Calm, Kept, Holding
<1>2. \A b \in Attempts \ {a} : pc'[b] = pc[b] /\ local'[b] = local[b]
  BY AdmissionMoves DEF Admission
<1>3. CASE \E how \in Ended : End(a, how)
  BY <1>1, <1>2, <1>3, QuietEnd DEF WrittenBy
<1>4. CASE Record(a) # "live" /\ Move(a, "prepare") /\ local' = local
  <2>1. pc'[a] = "prepare"
    BY <1>4, MoveFacts DEF Steps, Holding
  <2>2. \A b : Run(b)' = Run(b) /\ Svc(b)' = Svc(b) /\ (IsFork(b)' <=> IsFork(b))
    BY <1>1, SettingKeeps
  <2>3. Alone(a)'
    BY <1>1, <1>4, <2>1, <2>2 DEF Alone, Record
  <2>4. ForkOwn(a) => ForkOwn(a)'
    BY <1>1, <1>4, <2>1, <2>2 DEF ForkOwn
  <2>5. Orderly(setting) => ForkOwn(a)
    BY DEF LayersInv, ForkInv
  <2> QED
    BY <1>1, <1>2, <2>3, <2>4, <2>5, QuietMoved DEF RecordsKept, WrittenBy, Record
<1> QED
  BY <1>3, <1>4 DEF CheckLive, Converge, Ended

\* An adopted run is seeded, then probed, unless it answers the request.
LEMMA AdoptedLayers ==
  ASSUME StoreInv, LayersInv, NEW a \in Attempts, PrepareAdopted(a) \/ Seed(a)
  PROVE  LayersInv'
<1>1. /\ pc[a] \in {"prepare", "seed"} /\ pc[a] \in Holding
      /\ UNCHANGED <<setting, up, sweep, dir, lease, engines, records>>
  BY DEF PrepareAdopted, Seed, Step, Calm, Kept, Holding
<1>2. \A b \in Attempts \ {a} : pc'[b] = pc[b] /\ local'[b] = local[b]
  BY AdmissionMoves DEF Admission
<1>3. CASE \E how \in Ended : End(a, how)
  BY <1>1, <1>2, <1>3, QuietEnd DEF WrittenBy
<1>4. CASE /\ Move(a, "seed") \/ Move(a, "probe")
           /\ local[a].adopted /\ local' = local
  <2>1. pc'[a] \in {"seed", "probe"}
    BY <1>4, MoveFacts DEF Steps, Holding
  <2>2. \A b : Run(b)' = Run(b) /\ Svc(b)' = Svc(b) /\ (IsFork(b)' <=> IsFork(b))
    BY <1>1, SettingKeeps
  <2>3. ~setting.shared => Alone(a)
    BY DEF LayersInv, PrivateInv
  <2>4. Alone(a) => Alone(a)'
    BY <1>1, <1>4, <2>1, <2>2 DEF Alone, Record
  <2>5. ForkOwn(a)'
    BY <1>4 DEF ForkOwn
  <2> QED
    BY <1>1, <1>2, <1>4, <2>3, <2>4, <2>5, QuietMoved DEF RecordsKept, WrittenBy, Record
<1>5. Seed(a) => local[a].adopted
  BY AttemptFacts DEF Seed, Placed, Author
<1> QED
  BY <1>3, <1>4, <1>5 DEF PrepareAdopted, Seed, Ended

\* A step of a request on a directory that is not admitted: no engine is there.
LEMMA UnadmittedLayers ==
  ASSUME StoreInv, LayersInv, NEW a \in Attempts, pc[a] \in Holding,
         UNCHANGED <<setting, up, sweep, engines>>, dir[Run(a)].stage # "admitted",
         \A b \in Attempts \ {a} : pc'[b] = pc[b] /\ local'[b] = local[b], RecordsKept(a),
         \A r \in Runs \ {Run(a)} : dir'[r] = dir[r],
         \A r \in Runs \ {Run(a)} : lease[r] \in Services => lease'[r] = lease[r],
         \A r \in Runs : lease'[r] \in Services => lease'[r] = lease[r],
         ~setting.shared => Alone(a)', ~setting.shared /\ Open(dir'[Run(a)]) => WrittenBy(a)',
         Orderly(setting) => ForkStepped(a)
  PROVE  LayersInv'
<1>1. PrivateInv /\ ForkInv /\ EngineInv /\ QueuedInv
  BY DEF LayersInv
<1>2. PrivateInv'
  BY <1>1, PrivateMoved
<1>3. ForkInv'
  BY <1>1, ForkMoved
<1>4. EngineInv'
  <2>1. \A e \in engines : e[1] \in Services /\ e[2] \in Runs
    BY StoreFacts
  <2>2. ASSUME Orderly(setting), Roomy(setting), NEW e \in engines
        PROVE  dir'[e[2]].stage = "admitted" /\ lease'[e[2]] = e[1]
    BY <1>1, <2>1, <2>2 DEF EngineInv
  <2> QED
    BY <2>2 DEF EngineInv
<1>5. QueuedInv'
  BY <1>1, QueuedMoved
<1> QED
  BY <1>2, <1>3, <1>4, <1>5 DEF LayersInv

\* What the layers say of a request that holds its shard.
LEMMA HolderLayers ==
  ASSUME StoreInv, LayersInv, NEW a \in Attempts, pc[a] \in Holding
  PROVE  /\ ~setting.shared => Alone(a)
         /\ Orderly(setting) => HistoryHeld(Run(a)) /\ Mailed(Run(a)) /\ ForkOwn(a)
         /\ Orderly(setting) /\ dir[Run(a)].stage = "history" =>
               IsFork(a) /\ ~local[a].adopted /\ pc[a] \in {"pin", "probe", "queue"}
         /\ Orderly(setting) /\ IsFork(a) =>
               ~setting.shared /\ (dir[Run(a)].stage = "admitted" \/ Record(a) = "none")
<1>1. Orderly(setting) => HistoryHeld(Run(a)) /\ Mailed(Run(a)) /\ ForkOwn(a)
  BY AttemptFacts DEF LayersInv, ForkInv
<1>2. ASSUME NEW b \in Attempts, Run(b) = Run(a), pc[b] \in {"pin", "probe", "queue"} PROVE b = a
  BY <1>2, HoldersDiffer DEF Holding
<1>3. Orderly(setting) /\ IsFork(a) =>
        ~setting.shared /\ (dir[Run(a)].stage = "admitted" \/ Record(a) = "none")
  BY ForkHolder, ForkRuns DEF LayersInv
<1> QED
  BY <1>1, <1>2, <1>3 DEF HistoryHeld, LayersInv, PrivateInv

\* try_adopt_run_dir_with_snapshot: what is left of an admission is wiped whole.
LEMMA AdoptLayers ==
  ASSUME StoreInv, LayersInv, NEW a \in Attempts, Adopt(a)
  PROVE  LayersInv'
<1>1. /\ pc[a] = "adopt" /\ pc[a] \in Holding /\ Move(a, "live") /\ records' = records
      /\ UNCHANGED <<setting, up, sweep, engines>>
  BY DEF Adopt, Step, Calm, Holding
<1>2. \A b \in Attempts \ {a} : pc'[b] = pc[b] /\ local'[b] = local[b]
  BY AdmissionMoves DEF Admission
<1>3. /\ pc'[a] = "live" /\ Alone(a)' /\ RecordsKept(a) /\ ~WrittenBy(a)
  BY <1>1, MoveFacts, OutAlone DEF Steps, Holding, RecordsKept, WrittenBy
<1>4. /\ Run(a) \in Runs /\ dir \in [Runs -> Directories] /\ dir[Run(a)] \in Directories /\ born \in Nat
      /\ local \in [Attempts -> Memories]
      /\ lease \in [Runs -> {Nobody} \cup Services \cup Attempts]
  BY AttemptFacts
<1>5. \A b : Run(b)' = Run(b) /\ Svc(b)' = Svc(b) /\ (IsFork(b)' <=> IsFork(b))
  BY <1>1, SettingKeeps
<1>6. CASE UNCHANGED <<dir, lease>> /\ (dir[Run(a)].stage = "missing" \/ local'[a].adopted)
  <2>1. ForkOwn(a)'
    BY <1>3, <1>5, <1>6 DEF ForkOwn
  <2> QED
    BY <1>1, <1>2, <1>3, <1>6, <2>1, QuietMoved DEF Record
<1>7. CASE dir[Run(a)].stage \in {"bare", "history"} /\ Wiped(Run(a))
  <2>1. PICK d \in {Missing, Bare(TRUE)} : /\ dir' = [dir EXCEPT ![Run(a)] = d]
                                           /\ d = Missing \/ dir[Run(a)].mail
                                           /\ lease' = [lease EXCEPT ![Run(a)] = Nobody]
    BY <1>7 DEF Wiped, Removed
  <2>2. /\ dir'[Run(a)] = d /\ \A q \in Runs \ {Run(a)} : dir'[q] = dir[q] /\ lease'[q] = lease[q]
        /\ lease'[Run(a)] = Nobody /\ Nobody \notin Services
    BY <1>4, <2>1, StoreAssumption
  <2>3. d.stage \in {"missing", "bare"} /\ Missing.stage = "missing" /\ ~Missing.mail
    BY <1>4, <2>1, DirectoryFacts
  <2>4. ASSUME Orderly(setting) PROVE ForkStepped(a)
    <3>1. dir[Run(a)].stage = "bare" /\ ~dir[Run(a)].mail
      BY <1>1, <1>7, <2>4, HolderLayers DEF Mailed
    <3>2. d = Missing
      BY <2>1, <3>1
    <3>3. IsFork(a) => Record(a) = "none"
      BY <1>1, <2>4, <3>1, HolderLayers
    <3>4. ForkOwn(a)'
      BY <1>3, <1>5, <2>2, <2>3, <3>2 DEF ForkOwn
    <3> QED
      BY <1>1, <2>2, <2>3, <3>2, <3>3, <3>4 DEF ForkStepped, Record
  <2>5. ~Open(dir'[Run(a)])
    BY <2>2, <2>3 DEF Open
  <2> QED
    BY <1>1, <1>2, <1>3, <1>7, <2>2, <2>4, <2>5, UnadmittedLayers
<1> QED
  BY <1>4, <1>6, <1>7 DEF Adopt

\* prepare_api_run_directory.
LEMMA PrepareStartLayers ==
  ASSUME StoreInv, LayersInv, NEW a \in Attempts, PrepareStart(a)
  PROVE  LayersInv'
<1>1. /\ pc[a] = "prepare" /\ pc[a] \in Holding /\ Move(a, "pin") /\ UNCHANGED <<records, lease>>
      /\ UNCHANGED <<setting, up, sweep, engines>> /\ ~IsFork(a) /\ ~local[a].adopted
      /\ dir' = [dir EXCEPT ![Run(a)] = Bare(dir[Run(a)].mail)]
  BY DEF PrepareStart, Step, Calm, Holding
<1>2. \A b \in Attempts \ {a} : pc'[b] = pc[b] /\ local'[b] = local[b]
  BY AdmissionMoves DEF Admission
<1>3. pc'[a] = "pin" /\ RecordsKept(a)
  BY <1>1, MoveFacts DEF Steps, Holding, RecordsKept
<1>4. /\ Run(a) \in Runs /\ dir \in [Runs -> Directories] /\ dir[Run(a)] \in Directories /\ born \in Nat
      /\ Placed(a)
  BY AttemptFacts
<1>5. \A b : Run(b)' = Run(b) /\ Svc(b)' = Svc(b) /\ (IsFork(b)' <=> IsFork(b))
  BY <1>1, SettingKeeps
<1>6. dir[Run(a)].stage \in {"missing", "bare"} /\ dir[Run(a)].mail \in BOOLEAN
  BY <1>1, <1>4 DEF Placed, Author, Directories
<1>7. /\ dir'[Run(a)].stage = "bare" /\ dir'[Run(a)].mail = dir[Run(a)].mail
      /\ dir'[Run(a)].outcome = "none" /\ \A q \in Runs \ {Run(a)} : dir'[q] = dir[q]
  BY <1>1, <1>4, <1>6, DirectoryFacts
<1>8. ASSUME ~setting.shared PROVE Alone(a)'
  <2>1. Alone(a)
    BY <1>1, <1>8, HolderLayers
  <2> QED
    BY <1>1, <1>3, <1>5, <1>7, <2>1 DEF Alone, Record
<1>9. ASSUME Orderly(setting) PROVE ForkStepped(a)
  <2>1. ~dir[Run(a)].mail
    BY <1>1, <1>6, <1>9, HolderLayers DEF Mailed
  <2> QED
    BY <1>1, <1>5, <1>7, <2>1 DEF ForkStepped, ForkOwn
<1> QED
  BY <1>1, <1>2, <1>3, <1>6, <1>7, <1>8, <1>9, UnadmittedLayers DEF Open

\* prepare_checkpoint_fork.
LEMMA PrepareForkLayers ==
  ASSUME StoreInv, LayersInv, NEW a \in Attempts, PrepareFork(a)
  PROVE  LayersInv'
<1>1. /\ pc[a] = "prepare" /\ pc[a] \in Holding /\ records' = records
      /\ UNCHANGED <<setting, up, sweep, engines>> /\ IsFork(a) /\ ~local[a].adopted
  BY DEF PrepareFork, Step, Calm, Holding
<1>2. \A b \in Attempts \ {a} : pc'[b] = pc[b] /\ local'[b] = local[b]
  BY AdmissionMoves DEF Admission
<1>3. CASE End(a, "conflict") /\ UNCHANGED <<dir, lease>>
  BY <1>1, <1>2, <1>3, QuietEnd DEF Ended, WrittenBy
<1>4. CASE /\ ForkableSource(a) /\ Move(a, "pin")
           /\ dir' = [dir EXCEPT ![Run(a)] = [Missing EXCEPT !.stage = "history",
                       !.mail = dir[Run(a)].mail, !.identity = dir[work[a].source].identity]]
           /\ lease' = [lease EXCEPT ![work[a].source] = a]
           /\ local' = [local EXCEPT ![a].created = ~Exists(Run(a))]
  <2>1. pc'[a] = "pin" /\ RecordsKept(a)
    BY <1>1, <1>4, MoveFacts DEF Steps, Holding, RecordsKept
  <2>2. /\ Run(a) \in Runs /\ dir \in [Runs -> Directories] /\ dir[Run(a)] \in Directories /\ born \in Nat
        /\ local \in [Attempts -> Memories] /\ local[a] \in Memories /\ setting \in Settings
        /\ lease \in [Runs -> {Nobody} \cup Services \cup Attempts] /\ Placed(a)
    BY AttemptFacts
  <2>3. \A b : Run(b)' = Run(b) /\ Svc(b)' = Svc(b) /\ (IsFork(b)' <=> IsFork(b))
    BY <1>1, SettingKeeps
  <2>4. dir[Run(a)].stage \in {"missing", "bare"} /\ dir[Run(a)].mail \in BOOLEAN
    BY <1>1, <2>2 DEF Placed, Author, Directories
  <2>5. /\ dir'[Run(a)].stage = "history" /\ dir'[Run(a)].mail = dir[Run(a)].mail
        /\ dir'[Run(a)].outcome = "none" /\ \A q \in Runs \ {Run(a)} : dir'[q] = dir[q]
    BY <1>4, <2>2 DEF Missing
  <2>6. local'[a].created = ~Exists(Run(a)) /\ (local'[a].adopted <=> local[a].adopted)
    BY <1>4, <2>2 DEF Memories
  <2>7. work[a].source \in Runs /\ lease[work[a].source] = Nobody
    BY <1>1, <1>4, <2>2, RequestFacts DEF ForkableSource
  <2>8. \A q \in Runs : lease'[q] = lease[q] \/ (lease[q] = Nobody /\ lease'[q] = a)
    BY <1>4, <2>2, <2>7
  <2>9. Nobody \notin Services /\ a \notin Services
    BY StoreAssumption
  <2>10. ASSUME ~setting.shared PROVE Alone(a)'
    <3>1. Alone(a)
      BY <1>1, <2>10, HolderLayers
    <3> QED
      BY <1>1, <2>1, <2>3, <2>5, <3>1 DEF Alone, Record
  <2>11. ASSUME Orderly(setting) PROVE ForkStepped(a)
    <3>1. /\ dir[Run(a)].stage = "missing" /\ ~dir[Run(a)].mail /\ Record(a) = "none"
      BY <1>1, <2>4, <2>11, HolderLayers DEF Mailed, ForkOwn
    <3>2. local'[a].created
      BY <2>6, <3>1 DEF Exists
    <3> QED
      BY <1>1, <2>1, <2>3, <2>5, <2>6, <3>1, <3>2 DEF ForkStepped, ForkOwn, Record
  <2> QED
    BY <1>1, <1>2, <2>1, <2>4, <2>5, <2>8, <2>9, <2>10, <2>11, UnadmittedLayers DEF Open
<1> QED
  BY <1>3, <1>4 DEF PrepareFork

\* A record that pruning leaves, as the request of its run sees it.
LEMMA PrunedKept ==
  ASSUME StoreInv, NEW a \in Attempts,
         records' = records \/ records' = [records EXCEPT ![Svc(a)] = Pruned(Svc(a))]
  PROVE  RecordsKept(a) /\ records'[Svc(a)][Run(a)] \in {"none", Record(a)}
<1>1. /\ Svc(a) \in Services /\ Run(a) \in Runs
      /\ records \in [Services -> [Runs -> {"none", "live", "done"}]]
  BY AttemptFacts
<1>2. /\ Pruned(Svc(a)) \in [Runs -> {"none", "live", "done"}]
      /\ \A r \in Runs : \/ Pruned(Svc(a))[r] = records[Svc(a)][r]
                         \/ records[Svc(a)][r] = "done" /\ Pruned(Svc(a))[r] = "none"
  BY <1>1, PrunedFacts
<1>3. CASE records' = records
  BY <1>1, <1>3 DEF RecordsKept, Record
<1>4. CASE records' = [records EXCEPT ![Svc(a)] = Pruned(Svc(a))]
  <2>1. \A s \in Services : records'[s] = IF s = Svc(a) THEN Pruned(Svc(a)) ELSE records[s]
    BY <1>1, <1>4
  <2> QED
    BY <1>1, <1>2, <2>1 DEF RecordsKept, Record
<1> QED
  BY <1>3, <1>4

\* A failed or refused request removes the directory that it created.
LEMMA RemovedEnd ==
  ASSUME StoreInv, LayersInv, NEW a \in Attempts, pc[a] \in {"probe", "queue"},
         UNCHANGED <<setting, up, sweep, engines>>,
         \A b \in Attempts \ {a} : pc'[b] = pc[b] /\ local'[b] = local[b],
         records' = records \/ records' = [records EXCEPT ![Svc(a)] = Pruned(Svc(a))],
         NEW how \in Ended, End(a, how), RemoveOwn(a)
  PROVE  LayersInv'
<1>1. pc[a] \in Holding /\ ~WrittenBy(a)
  BY DEF Holding, WrittenBy
<1>2. RecordsKept(a) /\ records'[Svc(a)][Run(a)] \in {"none", Record(a)}
  BY PrunedKept
<1>3. Alone(a)' /\ ForkOwn(a)'
  BY EndMoves
<1>4. /\ Run(a) \in Runs /\ dir \in [Runs -> Directories] /\ born \in Nat /\ Placed(a)
      /\ lease \in [Runs -> {Nobody} \cup Services \cup Attempts]
  BY AttemptFacts
<1>5. CASE local[a].created
  <2>1. dir[Run(a)].stage # "admitted"
    BY <1>4, <1>5 DEF Placed, Adopter, Author
  <2>2. /\ dir'[Run(a)] = Missing /\ lease'[Run(a)] = Nobody /\ Nobody \notin Services
        /\ \A q \in Runs \ {Run(a)} : dir'[q] = dir[q] /\ lease'[q] = lease[q]
    BY <1>4, <1>5, StoreAssumption DEF RemoveOwn, Removed
  <2>3. Missing.stage = "missing" /\ ~Missing.mail
    BY <1>4, DirectoryFacts
  <2>4. ASSUME Orderly(setting) PROVE ForkStepped(a)
    <3>1. IsFork(a) => Record(a) = "none"
      BY <1>1, <2>1, <2>4, HolderLayers
    <3> QED
      BY <1>2, <1>3, <2>2, <2>3, <3>1 DEF ForkStepped
  <2>5. ~Open(dir'[Run(a)])
    BY <2>2, <2>3 DEF Open
  <2> QED
    BY <1>1, <1>2, <1>3, <2>1, <2>2, <2>4, <2>5, UnadmittedLayers
<1>6. CASE ~local[a].created
  <2>1. UNCHANGED <<dir, lease>>
    BY <1>6 DEF RemoveOwn
  <2>2. Orderly(setting) /\ IsFork(a) => local[a].adopted
    BY <1>1, <1>6, HolderLayers DEF ForkOwn
  <2> QED
    BY <1>1, <1>2, <1>3, <2>1, <2>2, QuietMoved
<1> QED
  BY <1>5, <1>6

\* run_package::copy.
LEMMA PinPackageLayers ==
  ASSUME StoreInv, LayersInv, NEW a \in Attempts, PinPackage(a)
  PROVE  LayersInv'
<1>1. /\ pc[a] = "pin" /\ pc[a] \in Holding /\ records' = records
      /\ UNCHANGED <<setting, up, sweep, engines>>
  BY DEF PinPackage, Step, Calm, Holding
<1>2. \A b \in Attempts \ {a} : pc'[b] = pc[b] /\ local'[b] = local[b]
  BY AdmissionMoves DEF Admission
<1>3. /\ Run(a) \in Runs /\ dir \in [Runs -> Directories] /\ dir[Run(a)] \in Directories /\ born \in Nat
      /\ local \in [Attempts -> Memories] /\ local[a] \in Memories
      /\ lease \in [Runs -> {Nobody} \cup Services \cup Attempts] /\ Placed(a)
  BY AttemptFacts
<1>4. \A b : Run(b)' = Run(b) /\ Svc(b)' = Svc(b) /\ (IsFork(b)' <=> IsFork(b))
  BY <1>1, SettingKeeps
<1>5. ~local[a].adopted /\ dir[Run(a)].stage = IF IsFork(a) THEN "history" ELSE "bare"
  BY <1>1, <1>3 DEF Placed, Author
<1>6. RecordsKept(a) /\ a \notin Services /\ Nobody \notin Services
  BY <1>1, StoreAssumption DEF RecordsKept
<1>7. CASE /\ dir' = [dir EXCEPT ![Run(a)].package = TRUE]
           /\ lease' = DropSource(a, lease)
           /\ local' = IF IsFork(a) THEN [local EXCEPT ![a].snapshot = dir'[Run(a)]] ELSE local
           /\ Move(a, "probe")
  <2>1. pc'[a] = "probe"
    BY <1>7, MoveFacts DEF Steps, Holding
  <2>2. /\ dir'[Run(a)].stage = dir[Run(a)].stage /\ dir'[Run(a)].outcome = dir[Run(a)].outcome
        /\ dir'[Run(a)].mail = dir[Run(a)].mail
        /\ \A q \in Runs \ {Run(a)} : dir'[q] = dir[q]
    BY <1>3, <1>7 DEF Directories
  <2>3. ~local'[a].adopted /\ local'[a].created = local[a].created
    BY <1>3, <1>5, <1>7 DEF Memories
  <2>4. /\ \A q \in Runs : lease'[q] \in {lease[q], Nobody}
        /\ \A q \in Runs : lease[q] # a => lease'[q] = lease[q]
    BY <1>3, <1>7, DropFacts
  <2>5. ASSUME ~setting.shared PROVE Alone(a)'
    <3>1. Alone(a)
      BY <1>1, <2>5, HolderLayers
    <3> QED
      BY <1>1, <1>4, <1>5, <2>1, <2>2, <3>1 DEF Alone, Record
  <2>6. ASSUME Orderly(setting) PROVE ForkStepped(a)
    <3>1. Mailed(Run(a)) /\ ForkOwn(a) /\ (IsFork(a) => Record(a) = "none")
      BY <1>1, <1>5, <2>6, HolderLayers
    <3>2. ForkOwn(a)'
      BY <1>1, <1>4, <1>5, <2>1, <2>3, <3>1 DEF ForkOwn
    <3> QED
      BY <1>1, <1>5, <2>1, <2>2, <2>3, <3>1, <3>2 DEF ForkStepped, Mailed, Record
  <2>7. ~Open(dir'[Run(a)])
    BY <1>5, <2>2 DEF Open
  <2> QED
    BY <1>1, <1>2, <1>5, <1>6, <2>2, <2>4, <2>5, <2>6, <2>7, UnadmittedLayers
<1>8. CASE /\ dir' = IF local[a].created THEN [dir EXCEPT ![Run(a)] = Missing] ELSE dir
           /\ lease' = DropSource(a, IF local[a].created
                                     THEN [lease EXCEPT ![Run(a)] = Nobody] ELSE lease)
           /\ End(a, "failed")
  <2> DEFINE l == IF local[a].created THEN [lease EXCEPT ![Run(a)] = Nobody] ELSE lease
  <2>1. /\ l \in [Runs -> {Nobody} \cup Services \cup Attempts]
        /\ \A q \in Runs : l[q] \in {lease[q], Nobody}
        /\ \A q \in Runs \ {Run(a)} : l[q] = lease[q]
    BY <1>3
  <2>2. lease' = DropSource(a, l)
    BY <1>8
  <2> HIDE DEF l
  <2>3. /\ \A q \in Runs : lease'[q] \in {lease[q], Nobody}
        /\ \A q \in Runs \ {Run(a)} : lease[q] # a => lease'[q] = lease[q]
    BY <2>1, <2>2, DropFacts
  <2>4. /\ dir'[Run(a)] = IF local[a].created THEN Missing ELSE dir[Run(a)]
        /\ \A q \in Runs \ {Run(a)} : dir'[q] = dir[q]
    BY <1>3, <1>8
  <2>5. Missing.stage = "missing" /\ ~Missing.mail
    BY <1>3, DirectoryFacts
  <2>6. Alone(a)' /\ ForkOwn(a)'
    BY <1>8, EndMoves DEF Ended
  <2>7. ASSUME Orderly(setting) PROVE ForkStepped(a)
    <3>1. Mailed(Run(a)) /\ ForkOwn(a) /\ (IsFork(a) => Record(a) = "none")
      BY <1>1, <1>5, <2>7, HolderLayers
    <3>2. dir'[Run(a)].stage # "history" /\ (dir'[Run(a)].mail => dir'[Run(a)].stage = "admitted")
      BY <1>1, <1>5, <2>4, <2>5, <3>1 DEF ForkOwn, Mailed
    <3> QED
      BY <1>1, <2>6, <3>1, <3>2 DEF ForkStepped, Record
  <2>8. ~Open(dir'[Run(a)])
    BY <1>5, <2>4, <2>5 DEF Open
  <2> QED
    BY <1>1, <1>2, <1>5, <1>6, <2>3, <2>4, <2>6, <2>7, <2>8, UnadmittedLayers
<1> QED
  BY <1>7, <1>8 DEF PinPackage

\* probe_admission.
LEMMA ProbeLayers ==
  ASSUME StoreInv, LayersInv, NEW a \in Attempts, Probe(a)
  PROVE  LayersInv'
<1>1. /\ pc[a] = "probe" /\ pc[a] \in Holding /\ UNCHANGED <<setting, up, sweep, engines>>
  BY DEF Probe, Step, Calm, Holding
<1>2. \A b \in Attempts \ {a} : pc'[b] = pc[b] /\ local'[b] = local[b]
  BY AdmissionMoves DEF Admission
<1>3. CASE /\ RemoveOwn(a) /\ End(a, "refused")
           /\ records' = records \/ records' = [records EXCEPT ![Svc(a)] = Pruned(Svc(a))]
  BY <1>1, <1>2, <1>3, RemovedEnd DEF Ended
<1>4. CASE Record(a) # "none" /\ Converge(a) /\ UNCHANGED <<dir, lease, records>>
  <2>1. PICK how \in Ended : End(a, how)
    BY <1>4 DEF Converge, Ended
  <2>2. ASSUME Orderly(setting), IsFork(a) PROVE local[a].adopted
    <3>1. dir[Run(a)].stage = "admitted"
      BY <1>1, <1>4, <2>2, HolderLayers
    <3> QED
      BY <1>1, <2>2, <3>1, AttemptFacts DEF Placed, Author
  <2> QED
    BY <1>1, <1>2, <1>4, <2>1, <2>2, QuietEnd DEF WrittenBy
<1>5. CASE /\ Record(a) = "none" /\ Move(a, "queue") /\ UNCHANGED <<dir, lease, local>>
           /\ records' = [records EXCEPT ![Svc(a)] = Pruned(Svc(a))]
  <2>1. pc'[a] = "queue"
    BY <1>5, MoveFacts DEF Steps, Holding
  <2>2. RecordsKept(a) /\ records'[Svc(a)][Run(a)] = "none"
    BY <1>5, PrunedKept
  <2>3. \A b : Run(b)' = Run(b) /\ Svc(b)' = Svc(b) /\ (IsFork(b)' <=> IsFork(b))
    BY <1>1, SettingKeeps
  <2>4. ASSUME ~setting.shared PROVE Alone(a)'
    <3>1. Alone(a)
      BY <1>1, <2>4, HolderLayers
    <3> QED
      BY <1>1, <1>5, <2>1, <2>2, <2>3, <3>1 DEF Alone, Record
  <2>5. ASSUME Orderly(setting) PROVE ForkOwn(a)'
    <3>1. ForkOwn(a)
      BY <1>1, <2>5, HolderLayers
    <3> QED
      BY <1>1, <1>5, <2>1, <2>3, <3>1 DEF ForkOwn
  <2> QED
    BY <1>1, <1>2, <1>5, <2>1, <2>2, <2>4, <2>5, QuietMoved DEF WrittenBy
<1> QED
  BY <1>3, <1>4, <1>5 DEF Probe

\* finish_prepared_admission.
LEMMA WriteQueuedLayers ==
  ASSUME StoreInv, LayersInv, NEW a \in Attempts, WriteQueued(a)
  PROVE  LayersInv'
<1>1. /\ pc[a] = "queue" /\ pc[a] \in Holding /\ records' = records
      /\ UNCHANGED <<setting, up, sweep, engines>>
  BY DEF WriteQueued, Step, Calm, Holding
<1>2. \A b \in Attempts \ {a} : pc'[b] = pc[b] /\ local'[b] = local[b]
  BY AdmissionMoves DEF Admission
<1>3. /\ Run(a) \in Runs /\ dir \in [Runs -> Directories] /\ dir[Run(a)] \in Directories /\ Placed(a)
  BY AttemptFacts
<1>4. \A b : Run(b)' = Run(b) /\ Svc(b)' = Svc(b) /\ (IsFork(b)' <=> IsFork(b))
  BY <1>1, SettingKeeps
<1>5. RecordsKept(a) /\ ~WrittenBy(a)
  BY <1>1 DEF RecordsKept, WrittenBy
<1>6. CASE RemoveOwn(a) /\ End(a, "failed")
  BY <1>1, <1>2, <1>6, RemovedEnd DEF Ended
<1>7. CASE Move(a, "register") /\ UNCHANGED <<lease, local>>
  <2>1. pc'[a] = "register"
    BY <1>7, MoveFacts DEF Steps, Holding
  <2>2. ASSUME ~setting.shared, dir'[Run(a)].outcome = dir[Run(a)].outcome PROVE Alone(a)'
    <3>1. Alone(a)
      BY <1>1, <2>2, HolderLayers
    <3> QED
      BY <1>1, <1>4, <1>7, <2>1, <2>2, <3>1 DEF Alone, Record
  <2>3. ForkOwn(a)'
    BY <2>1 DEF ForkOwn
  <2>4. CASE local[a].adopted /\ dir' = dir
    BY <1>1, <1>2, <1>5, <1>7, <2>1, <2>2, <2>3, <2>4, QuietMoved DEF Record
  <2>5. CASE /\ ~local[a].adopted
             /\ dir' = [dir EXCEPT ![Run(a)].stage = "admitted", ![Run(a)].identity = work[a].identity,
                                   ![Run(a)].born = born + 1]
    <3>1. /\ dir'[Run(a)].stage = "admitted" /\ dir'[Run(a)].outcome = dir[Run(a)].outcome
          /\ \A q \in Runs \ {Run(a)} : dir'[q] = dir[q]
      BY <1>3, <2>5 DEF Directories
    <3>2. dir[Run(a)].stage # "admitted"
      BY <1>1, <1>3, <2>5 DEF Placed, Author
    <3>3. ForkStepped(a)
      BY <2>3, <3>1 DEF ForkStepped
    <3>4. WrittenBy(a)'
      BY <1>7, <2>1, <2>5 DEF WrittenBy
    <3> QED
      BY <1>1, <1>2, <1>5, <1>7, <2>2, <3>1, <3>2, <3>3, <3>4, UnadmittedLayers
  <2> QED
    BY <1>6, <2>4, <2>5 DEF WriteQueued
<1> QED
  BY <1>6, <1>7 DEF WriteQueued

\* A map with room for every run has room for one that it does not track.
LEMMA RoomyHasRoom ==
  ASSUME StoreInv, Roomy(setting), setting.shared, NEW a \in Attempts, Record(a) = "none"
  PROVE  ~NoRoom(Svc(a))
<1> DEFINE T == {r \in Runs : Pruned(Svc(a))[r] # "none"}
<1>1. IsFiniteSet(Runs) /\ setting.tracked \in Int /\ Cardinality(Runs) <= setting.tracked
  BY DEF Roomy
<1>2. Svc(a) \in Services /\ Run(a) \in Runs /\ Pruned(Svc(a))[Run(a)] = "none"
  BY AttemptFacts, PrunedFacts DEF Record
<1>3. T \subseteq Runs \ {Run(a)}
  BY <1>2
<1>4. /\ IsFiniteSet(Runs \ {Run(a)}) /\ Cardinality(Runs \ {Run(a)}) = Cardinality(Runs) - 1
      /\ Cardinality(Runs) \in Nat
  BY <1>1, <1>2, FS_RemoveElement, FS_CardinalityType
<1>5. Cardinality(T) <= Cardinality(Runs \ {Run(a)}) /\ Cardinality(T) \in Nat
  BY <1>3, <1>4, FS_Subset, FS_CardinalityType
<1>6. Cardinality(T) < setting.tracked
  <2> HIDE DEF T
  <2> QED
    BY <1>1, <1>4, <1>5
<1> QED
  BY <1>1, <1>5, <1>6 DEF NoRoom

\* A request that finds no live record on a private store finds no engine either.
LEMMA NobodyExecutes ==
  ASSUME StoreInv, PrivateInv, ~setting.shared, NEW a \in Attempts, pc[a] \in Holding,
         Record(a) # "live"
  PROVE  lease[Run(a)] \notin Services
<1>1. up[Svc(a)] /\ Svc(a) \in Services /\ Run(a) \in Runs
  BY HolderIsUp
<1>2. ASSUME lease[Run(a)] \in Services PROVE FALSE
  <2>1. <<lease[Run(a)], Run(a)>> \in engines
    BY <1>1, <1>2, StoreFacts DEF Leased
  <2>2. up[lease[Run(a)]]
    BY <2>1, StoreFacts
  <2>3. lease[Run(a)] = Svc(a)
    BY <1>1, <1>2, <2>2, OneService
  <2> QED
    BY <1>1, <1>2, <2>3 DEF PrivateInv, Record
<1> QED
  BY <1>2

\* A refusal for want of room removes the admission that the request created.
LEMMA RefusedOwn ==
  ASSUME StoreInv, LayersInv, NEW a \in Attempts, pc[a] = "register", ~local[a].adopted,
         local[a].created, Record(a) = "none", NoRoom(Svc(a)),
         UNCHANGED <<setting, up, sweep, engines>>,
         \A b \in Attempts \ {a} : pc'[b] = pc[b] /\ local'[b] = local[b],
         records' = [records EXCEPT ![Svc(a)] = Pruned(Svc(a))],
         RemoveOwn(a), Move(a, "settle"), local' = local
  PROVE  LayersInv'
<1>1. PrivateInv /\ ForkInv /\ EngineInv /\ QueuedInv /\ pc[a] \in Holding
  BY DEF LayersInv, Holding
<1>2. /\ Run(a) \in Runs /\ Svc(a) \in Services /\ dir \in [Runs -> Directories] /\ born \in Nat
      /\ lease \in [Runs -> {Nobody} \cup Services \cup Attempts]
  BY AttemptFacts
<1>3. /\ dir'[Run(a)] = Missing /\ lease'[Run(a)] = Nobody /\ Nobody \notin Services
      /\ \A q \in Runs \ {Run(a)} : dir'[q] = dir[q] /\ lease'[q] = lease[q]
  BY <1>2, StoreAssumption DEF RemoveOwn, Removed
<1>4. Missing.stage = "missing" /\ ~Missing.mail /\ Missing.outcome = "none"
  BY <1>2, DirectoryFacts
<1>5. pc'[a] = "settle"
  BY MoveFacts DEF Steps, Holding
<1>6. RecordsKept(a) /\ records'[Svc(a)][Run(a)] = "none"
  BY PrunedKept
<1>7. \A b : Run(b)' = Run(b) /\ Svc(b)' = Svc(b) /\ (IsFork(b)' <=> IsFork(b))
  BY SettingKeeps
<1>8. Alone(a)'
  BY <1>3, <1>4, <1>5, <1>6, <1>7 DEF Alone, Record
<1>9. PrivateInv'
  BY <1>1, <1>3, <1>6, <1>8, PrivateMoved
<1>10. ForkInv'
  <2>1. ForkStepped(a)
    BY <1>3, <1>4, <1>5, <1>6 DEF ForkStepped, ForkOwn
  <2> QED
    BY <1>1, <1>3, <1>6, <2>1, ForkMoved
<1>11. EngineInv'
  <2>1. \A e \in engines : e[1] \in Services /\ e[2] \in Runs
    BY StoreFacts
  <2>2. ASSUME Orderly(setting), Roomy(setting), NEW e \in engines
        PROVE  dir'[e[2]].stage = "admitted" /\ lease'[e[2]] = e[1]
    <3>1. ~setting.shared
      BY <2>2, RoomyHasRoom
    <3>2. e[2] # Run(a)
      BY <1>1, <2>1, <2>2, <3>1, NobodyExecutes DEF EngineInv
    <3> QED
      BY <1>1, <1>3, <2>1, <2>2, <3>2 DEF EngineInv
  <2> QED
    BY <2>2 DEF EngineInv
<1>12. QueuedInv'
  <2>1. ~Open(dir'[Run(a)])
    BY <1>3, <1>4 DEF Open
  <2> QED
    BY <1>1, <1>3, <2>1, QueuedMoved
<1> QED
  BY <1>9, <1>10, <1>11, <1>12 DEF LayersInv

\* register_admission.
LEMMA RegisterLayers ==
  ASSUME StoreInv, LayersInv, NEW a \in Attempts, Register(a)
  PROVE  LayersInv'
<1>1. /\ pc[a] = "register" /\ pc[a] \in Holding /\ UNCHANGED <<setting, up, sweep, engines>>
  BY DEF Register, Step, Calm, Holding
<1>2. \A b \in Attempts \ {a} : pc'[b] = pc[b] /\ local'[b] = local[b]
  BY AdmissionMoves DEF Admission
<1>3. /\ Svc(a) \in Services /\ Run(a) \in Runs /\ Placed(a)
      /\ records \in [Services -> [Runs -> {"none", "live", "done"}]]
  BY AttemptFacts
<1>4. \A b : Run(b)' = Run(b) /\ Svc(b)' = Svc(b) /\ (IsFork(b)' <=> IsFork(b))
  BY <1>1, SettingKeeps
<1>5. dir[Run(a)].stage = "admitted" /\ (local[a].adopted => ~local[a].created)
  BY <1>1, <1>3 DEF Placed, Adopter, Author
<1>6. CASE /\ AfterRefusal(a) /\ UNCHANGED <<dir, lease>>
           /\ records' = records \/ records' = [records EXCEPT ![Svc(a)] = Pruned(Svc(a))]
  <2>1. RecordsKept(a) /\ records'[Svc(a)][Run(a)] \in {"none", Record(a)}
    BY <1>6, PrunedKept
  <2>2. CASE local[a].adopted
    <3>1. Alone(a)' /\ ForkOwn(a)'
      BY <1>6, <2>2, EndMoves DEF AfterRefusal, Ended
    <3> QED
      BY <1>1, <1>2, <1>5, <1>6, <2>1, <2>2, <3>1, QuietMoved DEF WrittenBy
  <2>3. CASE ~local[a].adopted
    <3>1. Move(a, "settle") /\ local' = local
      BY <1>6, <2>3 DEF AfterRefusal
    <3>2. pc'[a] = "settle"
      BY <3>1, MoveFacts DEF Steps, Holding
    <3>3. ASSUME ~setting.shared PROVE Alone(a)'
      <4>1. Alone(a)
        BY <1>1, <3>3, HolderLayers
      <4> QED
        BY <1>1, <1>4, <1>6, <2>1, <2>3, <3>1, <3>2, <4>1 DEF Alone, Record
    <3>4. WrittenBy(a)' /\ ForkOwn(a)'
      BY <2>3, <3>1, <3>2 DEF WrittenBy, ForkOwn
    <3> QED
      BY <1>1, <1>2, <1>5, <1>6, <2>1, <3>3, <3>4, QuietMoved
  <2> QED
    BY <2>2, <2>3
<1>7. CASE /\ AfterRefusal(a) /\ RemoveOwn(a) /\ Record(a) = "none" /\ NoRoom(Svc(a))
           /\ records' = [records EXCEPT ![Svc(a)] = Pruned(Svc(a))]
  <2>1. CASE local[a].created
    <3>1. ~local[a].adopted /\ Move(a, "settle") /\ local' = local
      BY <1>5, <1>7, <2>1 DEF AfterRefusal
    <3> QED
      BY <1>1, <1>2, <1>7, <2>1, <3>1, RefusedOwn
  <2>2. CASE ~local[a].created
    BY <1>6, <1>7, <2>2 DEF RemoveOwn
  <2> QED
    BY <2>1, <2>2
<1>8. CASE Record(a) # "none" /\ Converge(a) /\ UNCHANGED <<dir, lease, records>>
  <2>1. PICK how \in Ended : End(a, how)
    BY <1>8 DEF Converge, Ended
  <2>2. setting.shared
    BY <1>1, <1>8, HolderLayers DEF Alone
  <2> QED
    BY <1>1, <1>2, <1>8, <2>1, <2>2, QuietEnd
<1>9. CASE /\ records' = [records EXCEPT ![Svc(a)] = [Pruned(Svc(a)) EXCEPT ![Run(a)] = "live"]]
           /\ Move(a, "spawn") /\ UNCHANGED <<dir, lease, local>>
  <2>1. pc'[a] = "spawn"
    BY <1>9, MoveFacts DEF Steps, Holding
  <2>2. RecordsKept(a) /\ records'[Svc(a)][Run(a)] = "live"
    <3>1. /\ Pruned(Svc(a)) \in [Runs -> {"none", "live", "done"}]
          /\ \A r \in Runs : \/ Pruned(Svc(a))[r] = records[Svc(a)][r]
                             \/ records[Svc(a)][r] = "done" /\ Pruned(Svc(a))[r] = "none"
      BY <1>3, PrunedFacts
    <3>2. /\ \A s \in Services \ {Svc(a)} : records'[s] = records[s]
          /\ \A r \in Runs : records'[Svc(a)][r] = IF r = Run(a) THEN "live" ELSE Pruned(Svc(a))[r]
      BY <1>3, <1>9, <3>1
    <3> QED
      BY <1>3, <3>1, <3>2 DEF RecordsKept
  <2>3. Alone(a)' /\ WrittenBy(a)' /\ ForkOwn(a)'
    BY <1>4, <2>1, <2>2 DEF Alone, Record, WrittenBy, ForkOwn
  <2> QED
    BY <1>1, <1>2, <1>5, <1>9, <2>2, <2>3, QuietMoved
<1>10. CASE /\ End(a, "unsettled") /\ UNCHANGED <<dir, lease>>
            /\ records' = [records EXCEPT ![Svc(a)] = Pruned(Svc(a))]
  <2>1. RecordsKept(a) /\ records'[Svc(a)][Run(a)] \in {"none", Record(a)}
    BY <1>10, PrunedKept
  <2>2. Alone(a)' /\ ForkOwn(a)' /\ pc'[a] = "unsettled"
    BY <1>10, EndMoves DEF Ended
  <2> QED
    BY <1>1, <1>2, <1>5, <1>10, <2>1, <2>2, QuietMoved DEF WrittenBy
<1> QED
  BY <1>6, <1>7, <1>8, <1>9, <1>10 DEF Register

\* settle_refused_admission: on a private store nobody keeps it from the lease.
LEMMA SettleRefusedLayers ==
  ASSUME StoreInv, LayersInv, NEW a \in Attempts, SettleRefused(a)
  PROVE  LayersInv'
<1>1. /\ pc[a] = "settle" /\ pc[a] \in Holding
      /\ UNCHANGED <<setting, up, sweep, engines, lease, records>>
  BY DEF SettleRefused, Step, Calm, Holding
<1>e. PICK how \in Ended : End(a, how)
  BY DEF SettleRefused, Ended
<1>2. \A b \in Attempts \ {a} : pc'[b] = pc[b] /\ local'[b] = local[b]
  BY AdmissionMoves DEF Admission
<1>3. /\ Run(a) \in Runs /\ dir \in [Runs -> Directories] /\ dir[Run(a)] \in Directories /\ born \in Nat
      /\ lease \in [Runs -> {Nobody} \cup Services \cup Attempts] /\ Placed(a) /\ Leased
  BY AttemptFacts
<1>4. PrivateInv /\ ForkInv /\ EngineInv /\ QueuedInv
  BY DEF LayersInv
<1>5. Alone(a)' /\ ForkOwn(a)' /\ RecordsKept(a)
  BY <1>1, <1>e, EndMoves DEF RecordsKept
<1>6. ~local[a].adopted /\ dir[Run(a)].stage \in {"missing", "admitted"}
  BY <1>1, <1>3 DEF Placed, Author
<1>7. CASE ~Exists(Run(a)) /\ dir' = [dir EXCEPT ![Run(a)] = Bare(FALSE)]
  <2>1. /\ dir'[Run(a)] = Bare(FALSE) /\ Bare(FALSE).stage = "bare" /\ ~Bare(FALSE).mail
        /\ \A q \in Runs \ {Run(a)} : dir'[q] = dir[q]
    BY <1>3, <1>7, DirectoryFacts
  <2>2. dir[Run(a)].stage # "admitted"
    BY <1>7 DEF Exists
  <2>3. ASSUME Orderly(setting) PROVE ForkStepped(a)
    <3>1. IsFork(a) => Record(a) = "none"
      BY <1>1, <2>2, <2>3, HolderLayers
    <3> QED
      BY <1>1, <1>5, <2>1, <3>1 DEF ForkStepped, Record
  <2> QED
    BY <1>1, <1>2, <1>5, <2>1, <2>2, <2>3, UnadmittedLayers DEF Open
<1>8. CASE dir' = dir /\ lease[Run(a)] # Nobody
  <2>1. ASSUME ~setting.shared PROVE FALSE
    <3>1. Alone(a)
      BY <1>1, <2>1, HolderLayers
    <3>2. Record(a) # "live" /\ dir[Run(a)].outcome = "none"
      BY <1>1, <1>6, <3>1 DEF Alone
    <3>3. lease[Run(a)] \notin Services
      BY <1>1, <1>4, <2>1, <3>2, NobodyExecutes
    <3> QED
      BY <1>3, <1>8, <3>2, <3>3 DEF Leased
  <2> QED
    BY <1>1, <1>2, <1>8, <1>e, <2>1, QuietEnd
<1>9. CASE dir' = [dir EXCEPT ![Run(a)].outcome = "interrupted"] /\ dir[Run(a)].stage = "admitted"
  <2>1. /\ dir'[Run(a)].stage = "admitted" /\ dir'[Run(a)].outcome = "interrupted"
        /\ \A q \in Runs \ {Run(a)} : dir'[q] = dir[q]
    BY <1>3, <1>9 DEF Directories
  <2>2. PrivateInv'
    BY <1>1, <1>2, <1>4, <1>5, <2>1, PrivateMoved
  <2>3. ForkInv'
    BY <1>1, <1>2, <1>4, <1>5, <2>1, ForkMoved DEF ForkStepped
  <2>4. EngineInv'
    <3>1. \A e \in engines : e[2] \in Runs
      BY StoreFacts
    <3> QED
      BY <1>1, <1>4, <2>1, <3>1 DEF EngineInv
  <2>5. QueuedInv'
    BY <1>1, <1>2, <1>4, <2>1, QueuedMoved DEF Open
  <2> QED
    BY <2>2, <2>3, <2>4, <2>5 DEF LayersInv
<1>10. CASE dir' = dir /\ End(a, "unsettled")
  <2>1. pc'[a] = "unsettled"
    BY <1>10, EndMoves DEF Ended
  <2> QED
    BY <1>1, <1>2, <1>5, <1>10, <2>1, QuietMoved DEF WrittenBy, Record
<1> QED
  BY <1>6, <1>7, <1>8, <1>9, <1>10 DEF SettleRefused, Exists

\* Execution begins on an admission that nobody executes.
LEMMA ExecuteEngines ==
  ASSUME StoreInv, EngineInv, NEW s \in Services, NEW r \in Runs, CanExecute(s, r), Execute(s, r),
         setting' = setting, Orderly(setting) => dir[r].stage = "admitted"
  PROVE  EngineInv'
<1>1. /\ \A e \in engines : e[1] \in Services /\ e[2] \in Runs
      /\ lease \in [Runs -> {Nobody} \cup Services \cup Attempts] /\ Nobody \notin Services
      /\ dir \in [Runs -> Directories]
  BY StoreFacts, StoreAssumption
<1>2. PICK d \in Directories : dir' = [dir EXCEPT ![r] = d] /\ d.stage = dir[r].stage
  BY ExecuteFacts
<1>3. /\ lease' = [lease EXCEPT ![r] = s] /\ engines' = engines \cup {<<s, r>>} /\ lease[r] = Nobody
  BY DEF Execute, CanExecute
<1>4. ASSUME Orderly(setting), Roomy(setting), NEW e \in engines'
      PROVE  dir'[e[2]].stage = "admitted" /\ lease'[e[2]] = e[1]
  <2>1. CASE e = <<s, r>>
    BY <1>1, <1>2, <1>3, <1>4, <2>1
  <2>2. CASE e \in engines
    <3>1. dir[e[2]].stage = "admitted" /\ lease[e[2]] = e[1] /\ e[1] # Nobody /\ e[2] \in Runs
      BY <1>1, <1>4, <2>2 DEF EngineInv
    <3>2. e[2] # r
      BY <1>3, <3>1
    <3> QED
      BY <1>1, <1>2, <1>3, <3>1, <3>2
  <2> QED
    BY <1>3, <2>1, <2>2
<1> QED
  BY <1>4 DEF EngineInv

\* spawn_engine_run at the end of an admission.
LEMMA SpawnLayers ==
  ASSUME StoreInv, LayersInv, NEW a \in Attempts, Spawn(a)
  PROVE  LayersInv'
<1>1. /\ pc[a] = "spawn" /\ pc[a] \in Holding /\ End(a, "ok")
      /\ UNCHANGED <<setting, up, sweep, records>>
  BY DEF Spawn, Calm, Holding
<1>2. \A b \in Attempts \ {a} : pc'[b] = pc[b] /\ local'[b] = local[b]
  BY AdmissionMoves DEF Admission
<1>3. CASE UNCHANGED <<lease, engines, dir>>
  BY <1>1, <1>2, <1>3, QuietEnd DEF Ended
<1>4. CASE CanExecute(Svc(a), Run(a)) /\ Execute(Svc(a), Run(a))
  <2>1. /\ Run(a) \in Runs /\ Svc(a) \in Services /\ dir \in [Runs -> Directories] /\ Placed(a)
        /\ lease \in [Runs -> {Nobody} \cup Services \cup Attempts]
    BY AttemptFacts
  <2>2. PrivateInv /\ ForkInv /\ EngineInv /\ QueuedInv
    BY DEF LayersInv
  <2>3. dir[Run(a)].stage = "admitted"
    BY <1>1, <2>1 DEF Placed, Adopter, Author
  <2>4. PICK d \in Directories : dir' = [dir EXCEPT ![Run(a)] = d] /\ d.stage = dir[Run(a)].stage
    BY <1>4, <2>1, ExecuteFacts
  <2>5. /\ dir'[Run(a)].stage = "admitted" /\ \A q \in Runs \ {Run(a)} : dir'[q] = dir[q]
        /\ lease'[Run(a)] = Svc(a) /\ \A q \in Runs \ {Run(a)} : lease'[q] = lease[q]
    BY <1>4, <2>1, <2>3, <2>4 DEF Execute
  <2>6. pc'[a] = "ok" /\ Alone(a)' /\ ForkOwn(a)' /\ RecordsKept(a)
    BY <1>1, EndMoves DEF RecordsKept, Ended
  <2>7. PrivateInv'
    <3>1. CASE setting.shared
      BY <1>1, <3>1 DEF PrivateInv
    <3>2. CASE ~setting.shared
      <4>1. Record(a) = "live"
        BY <1>1, <1>4, <3>2, HolderLayers DEF Alone, CanExecute
      <4> QED
        BY <1>1, <1>2, <2>2, <2>5, <2>6, <4>1, PrivateMoved DEF Record
    <3> QED
      BY <3>1, <3>2
  <2>8. ForkInv'
    BY <1>1, <1>2, <2>2, <2>5, <2>6, ForkMoved DEF ForkStepped
  <2>9. EngineInv'
    BY <1>1, <1>4, <2>1, <2>2, <2>3, ExecuteEngines
  <2>10. QueuedInv'
    BY <1>1, <1>2, <2>2, <2>5, <2>6, QueuedMoved DEF WrittenBy
  <2> QED
    BY <2>7, <2>8, <2>9, <2>10 DEF LayersInv
<1> QED
  BY <1>3, <1>4 DEF Spawn

\* Every step of a request.
LEMMA AdmissionLayers ==
  ASSUME StoreInv, LayersInv, NEW a \in Attempts, Admission(a)
  PROVE  LayersInv'
  BY EntryLayers, AdoptLayers, CheckLiveLayers, PrepareStartLayers, AdoptedLayers, PrepareForkLayers,
     PinPackageLayers, ProbeLayers, WriteQueuedLayers, RegisterLayers, SettleRefusedLayers, SpawnLayers
     DEF Admission

-----------------------------------------------------------------------------
(* Forks, engines and open admissions: the steps of processes *)

\* What a process leaves of the record and the journal of a request on its way.
Respects(b) ==
    \/ /\ dir'[Run(b)].outcome = dir[Run(b)].outcome
       /\ \/ records'[Svc(b)][Run(b)] = Record(b)
          \/ Record(b) = "done" /\ records'[Svc(b)][Run(b)] = "none"
    \/ Record(b) = "live" /\ records'[Svc(b)][Run(b)] = "live"
    \/ Record(b) = "live" /\ dir'[Run(b)] = dir[Run(b)] /\ Terminal(dir[Run(b)])

\* A step of a process on a private store.
LEMMA PrivateWatched ==
  ASSUME StoreInv, PrivateInv, UNCHANGED <<setting, pc, local>>,
         ~setting.shared =>
            /\ \A r \in Runs : lease'[r] \in Services => records'[lease'[r]][r] = "live"
            /\ \A b \in Attempts : pc[b] \in Holding => Respects(b)
  PROVE  PrivateInv'
<1> SUFFICES ASSUME ~setting.shared, NEW b \in Attempts PROVE Alone(b)'
  BY DEF PrivateInv
<1>1. CASE pc[b] \notin Holding
  BY <1>1, OutAlone
<1>2. CASE pc[b] \in Holding
  <2>1. Svc(b)' = Svc(b) /\ Run(b)' = Run(b)
    BY SettingKeeps
  <2>2. Alone(b) /\ Respects(b)
    BY <1>2 DEF PrivateInv
  <2> QED
    BY <2>1, <2>2 DEF Alone, Respects, Record, Terminal
<1> QED
  BY <1>1, <1>2

\* A step of a process, for the forks: an admission is kept or goes from under no lock.
LEMMA ForkWatched ==
  ASSUME StoreInv, ForkInv, UNCHANGED <<setting, pc, local, shard>>,
         \A r \in Runs : \/ /\ dir'[r].stage = dir[r].stage
                            /\ dir'[r].mail => dir[r].mail \/ dir[r].stage \in {"history", "admitted"}
                         \/ shard[ShardOf[r]] = Nobody /\ dir'[r] = Missing,
         Orderly(setting) => \A r \in Runs : ForkId(setting, r) => ForkRecords(r)'
  PROVE  ForkInv'
<1> SUFFICES ASSUME Orderly(setting)
             PROVE  /\ \A r \in Runs : HistoryHeld(r)' /\ Mailed(r)'
                    /\ \A b \in Attempts : ForkOwn(b)'
  BY DEF ForkInv
<1>1. /\ \A b : Run(b)' = Run(b) /\ Svc(b)' = Svc(b) /\ (IsFork(b)' <=> IsFork(b))
      /\ Missing.stage = "missing" /\ ~Missing.mail
  BY SettingKeeps, StoreFacts, DirectoryFacts
<1>2. ASSUME NEW r \in Runs PROVE HistoryHeld(r)' /\ Mailed(r)'
  BY <1>1, <1>2 DEF ForkInv, HistoryHeld, Mailed
<1>3. ASSUME NEW b \in Attempts PROVE ForkOwn(b)'
  <2>1. CASE pc[b] \notin Holding
    BY <2>1 DEF ForkOwn, Holding
  <2>2. CASE pc[b] \in Holding
    <3>1. Run(b) \in Runs /\ shard[ShardOf[Run(b)]] # Nobody
      BY <1>3, <2>2, AttemptFacts, StoreFacts, StoreAssumption DEF Locked
    <3>2. dir'[Run(b)].stage = dir[Run(b)].stage
      BY <3>1
    <3> QED
      BY <1>1, <1>3, <3>2 DEF ForkInv, ForkOwn
  <2> QED
    BY <2>1, <2>2
<1> QED
  BY <1>2, <1>3

\* A step of a process, for the open admissions.
LEMMA QueuedWatched ==
  ASSUME QueuedInv, UNCHANGED <<setting, pc, local>>,
         \A r \in Runs : ~setting.shared /\ Open(dir'[r]) => Open(dir[r])
  PROVE  QueuedInv'
<1>1. \A b : Run(b)' = Run(b) /\ (WrittenBy(b)' <=> WrittenBy(b))
  BY SettingKeeps DEF WrittenBy
<1> QED
  BY <1>1 DEF QueuedInv, Open

\* A step that changes neither directories nor records.
LEMMA LayersSame ==
  ASSUME StoreInv, LayersInv, UNCHANGED <<setting, pc, local, shard, dir, lease, engines, records, up>>,
         sweep' = sweep \/ (sweep.deleted = {} /\ sweep'.deleted = {})
  PROVE  LayersInv'
<1>1. PrivateInv /\ ForkInv /\ EngineInv /\ QueuedInv
  BY DEF LayersInv
<1>2. PrivateInv'
  BY <1>1, PrivateWatched DEF PrivateInv, Respects, Record
<1>3. ForkInv'
  <2>1. ASSUME Orderly(setting), NEW r \in Runs, ForkId(setting, r) PROVE ForkRecords(r)'
    <3>1. ForkRecords(r)
      BY <1>1, <2>1 DEF ForkInv
    <3> QED
      BY <3>1 DEF ForkRecords
  <2> QED
    BY <1>1, <2>1, ForkWatched
<1>4. EngineInv'
  BY <1>1 DEF EngineInv
<1>5. QueuedInv'
  BY <1>1, QueuedWatched
<1> QED
  BY <1>2, <1>3, <1>4, <1>5 DEF LayersInv

\* Claims of mutations, expiry, shutdown and the start of a sweep.
LEMMA CalmLayers ==
  ASSUME StoreInv, LayersInv, \/ \E r \in Runs : ClaimMutation(r) \/ Unpin(r)
                              \/ \E s \in Services : Shutdown(s) \/ SweepBegin(s)
                              \/ UNCHANGED storeVars
  PROVE  LayersInv'
<1>1. UNCHANGED <<setting, pc, local, shard, dir, lease, engines, records, up>>
  BY DEF ClaimMutation, Unpin, Shutdown, SweepBegin, Calm, Kept, Quiet, storeVars
<1>2. sweep' = sweep \/ (sweep.by = Nobody /\ sweep'.deleted = {})
  BY DEF ClaimMutation, Unpin, Shutdown, SweepBegin, MaintenanceFree, Quiet, storeVars, NoSweep
<1>3. sweep.by = Nobody => sweep.deleted = {}
  BY StoreFacts DEF Spared
<1> QED
  BY <1>1, <1>2, <1>3, LayersSame

\* request_remote_cancel_with_id.
LEMMA PublishCancelLayers ==
  ASSUME StoreInv, LayersInv, NEW r \in Runs, PublishCancel(r)
  PROVE  LayersInv'
<1>1. PrivateInv /\ ForkInv /\ EngineInv /\ QueuedInv
  BY DEF LayersInv
<1>2. /\ UNCHANGED <<setting, pc, local, shard, lease, engines, records, up, sweep>>
      /\ dir' = [dir EXCEPT ![r].mail = TRUE] /\ dir[r].stage \in {"history", "admitted"}
  BY DEF PublishCancel, Quiet
<1>3. \A q \in Runs : /\ dir'[q].stage = dir[q].stage /\ dir'[q].outcome = dir[q].outcome
                      /\ dir'[q].identity = dir[q].identity
                      /\ dir'[q].mail => dir[q].mail \/ dir[q].stage \in {"history", "admitted"}
  BY <1>2, StoreFacts DEF Directories
<1>4. PrivateInv'
  BY <1>1, <1>2, <1>3, AttemptFacts, PrivateWatched DEF PrivateInv, Respects, Record
<1>5. ForkInv'
  <2>1. ASSUME Orderly(setting), NEW q \in Runs, ForkId(setting, q) PROVE ForkRecords(q)'
    BY <1>1, <1>2, <1>3, <2>1 DEF ForkInv, ForkRecords
  <2> QED
    BY <1>1, <1>2, <1>3, <2>1, ForkWatched
<1>6. EngineInv'
  BY <1>1, <1>2, <1>3, StoreFacts DEF EngineInv
<1>7. QueuedInv'
  BY <1>1, <1>2, <1>3, QueuedWatched DEF Open
<1> QED
  BY <1>4, <1>5, <1>6, <1>7 DEF LayersInv

\* refresh_shared_runs: nothing here is said of a shared store but of its engines.
LEMMA RefreshLayers ==
  ASSUME StoreInv, LayersInv, NEW s \in Services, Refresh(s)
  PROVE  LayersInv'
<1>1. PrivateInv /\ ForkInv /\ EngineInv /\ QueuedInv
  BY DEF LayersInv
<1>2. /\ UNCHANGED <<setting, pc, local, shard, dir, lease, engines, up, sweep>> /\ setting.shared
  BY DEF Refresh, Quiet
<1>3. PrivateInv' /\ QueuedInv' /\ EngineInv'
  BY <1>1, <1>2 DEF PrivateInv, QueuedInv, EngineInv
<1>4. ForkInv'
  <2>1. ASSUME Orderly(setting), NEW r \in Runs, ForkId(setting, r) PROVE FALSE
    BY <1>2, <2>1 DEF Orderly, ForkId
  <2> QED
    BY <1>1, <1>2, <2>1, ForkWatched
<1> QED
  BY <1>3, <1>4 DEF LayersInv

\* The record follows the journal: no engine executes it.
LEMMA SettleRecordLayers ==
  ASSUME StoreInv, LayersInv, NEW s \in Services, NEW r \in Runs, SettleRecord(s, r)
  PROVE  LayersInv'
<1>1. PrivateInv /\ ForkInv /\ EngineInv /\ QueuedInv
  BY DEF LayersInv
<1>2. /\ UNCHANGED <<setting, pc, local, shard, dir, lease, engines, up, sweep>>
      /\ records[s][r] = "live" /\ Terminal(dir[r]) /\ <<s, r>> \notin engines
      /\ records' = [records EXCEPT ![s][r] = "done"]
  BY DEF SettleRecord, Quiet
<1>3. \A t \in Services : \A q \in Runs :
         records'[t][q] = IF t = s /\ q = r THEN "done" ELSE records[t][q]
  BY <1>2, StoreFacts
<1>4. PrivateInv'
  <2>1. ASSUME ~setting.shared, NEW q \in Runs, lease'[q] \in Services
        PROVE  records'[lease'[q]][q] = "live"
    <3>1. <<lease[q], q>> \in engines /\ records[lease[q]][q] = "live"
      BY <1>1, <1>2, <2>1, StoreFacts DEF PrivateInv, Leased
    <3> QED
      BY <1>2, <1>3, <2>1, <3>1
  <2>2. ASSUME NEW b \in Attempts PROVE Respects(b)
    <3>1. Run(b) \in Runs /\ Svc(b) \in Services
      BY <2>2, AttemptFacts
    <3> QED
      BY <1>2, <1>3, <3>1 DEF Respects, Record
  <2> QED
    BY <1>1, <1>2, <2>1, <2>2, PrivateWatched
<1>5. ForkInv'
  <2>1. ASSUME Orderly(setting), NEW q \in Runs, ForkId(setting, q) PROVE ForkRecords(q)'
    <3>1. ForkRecords(q)
      BY <1>1, <2>1 DEF ForkInv
    <3> QED
      BY <1>2, <1>3, <3>1 DEF ForkRecords
  <2> QED
    BY <1>1, <1>2, <2>1, ForkWatched
<1>6. EngineInv' /\ QueuedInv'
  BY <1>1, <1>2, QueuedWatched DEF EngineInv
<1> QED
  BY <1>4, <1>5, <1>6 DEF LayersInv

\* On a private store the process of a holder is the one that runs.
LEMMA HolderIsThere ==
  ASSUME StoreInv, ~setting.shared, NEW s \in Services, up[s], NEW b \in Attempts, pc[b] \in Holding
  PROVE  Svc(b) = s /\ Run(b) \in Runs
  BY HolderIsUp, OneService

\* A record of a fork's run that is live has an admitted journal.
LEMMA LiveIsAdmitted ==
  ASSUME StoreInv, ForkInv, Orderly(setting), NEW s \in Services, NEW r \in Runs, up[s],
         records[s][r] = "live", dir[r].stage \in {"history", "admitted"}
  PROVE  dir[r].stage = "admitted"
<1>1. ASSUME dir[r].stage = "history" PROVE FALSE
  <2>1. PICK a \in Attempts : Run(a) = r /\ IsFork(a)
    BY <1>1 DEF ForkInv, HistoryHeld
  <2>2. ForkRecords(r)
    BY <2>1, ForkRuns DEF ForkInv
  <2> QED
    BY <1>1, <2>2 DEF ForkRecords
<1> QED
  BY <1>1

\* The resumer, an answer or the queue starts a live record.
LEMMA ResumeLayers ==
  ASSUME StoreInv, LayersInv, NEW s \in Services, NEW r \in Runs, Resume(s, r)
  PROVE  LayersInv'
<1>1. PrivateInv /\ ForkInv /\ EngineInv /\ QueuedInv
  BY DEF LayersInv
<1>2. /\ UNCHANGED <<setting, pc, local, shard, records, up, sweep>>
      /\ records[s][r] = "live" /\ CanExecute(s, r) /\ Execute(s, r)
      /\ up[s] /\ dir[r].stage \in {"history", "admitted"} /\ ~Terminal(dir[r])
  BY DEF Resume, Quiet, CanExecute
<1>3. PICK d \in Directories : /\ dir' = [dir EXCEPT ![r] = d] /\ d.stage = dir[r].stage
                               /\ d.identity = dir[r].identity /\ d.outcome = "none"
                               /\ d.mail = dir[r].mail
  BY <1>2, ExecuteFacts
<1>4. /\ \A q \in Runs : /\ dir'[q].stage = dir[q].stage /\ dir'[q].mail = dir[q].mail
                         /\ dir'[q].identity = dir[q].identity
      /\ \A q \in Runs \ {r} : dir'[q] = dir[q]
  BY <1>3, StoreFacts
<1>5. /\ lease'[r] = s /\ \A q \in Runs \ {r} : lease'[q] = lease[q]
  BY <1>2, StoreFacts DEF Execute
<1>6. PrivateInv'
  <2>1. ASSUME ~setting.shared, NEW q \in Runs, lease'[q] \in Services
        PROVE  records'[lease'[q]][q] = "live"
    BY <1>1, <1>2, <1>5, <2>1 DEF PrivateInv
  <2>2. ASSUME ~setting.shared, NEW b \in Attempts, pc[b] \in Holding PROVE Respects(b)
    <3>1. Svc(b) = s /\ Run(b) \in Runs
      BY <1>2, <2>2, HolderIsThere
    <3> QED
      BY <1>2, <1>4, <3>1 DEF Respects, Record
  <2> QED
    BY <1>1, <1>2, <2>1, <2>2, PrivateWatched
<1>7. ForkInv'
  <2>1. ASSUME Orderly(setting), NEW q \in Runs, ForkId(setting, q) PROVE ForkRecords(q)'
    BY <1>1, <1>2, <1>4, <2>1 DEF ForkInv, ForkRecords
  <2> QED
    BY <1>1, <1>2, <1>4, <2>1, ForkWatched
<1>8. EngineInv'
  BY <1>1, <1>2, LiveIsAdmitted, ExecuteEngines
<1>9. QueuedInv'
  <2>1. \A q \in Runs : Open(dir'[q]) => Open(dir[q])
    BY <1>2, <1>4 DEF Open, Terminal
  <2> QED
    BY <1>1, <1>2, <2>1, QueuedWatched
<1> QED
  BY <1>6, <1>7, <1>8, <1>9 DEF LayersInv

\* An engine settles or suspends: whoever holds the shard of its run sees it live.
LEMMA FinishLayers ==
  ASSUME StoreInv, LayersInv, NEW s \in Services, NEW r \in Runs,
         NEW how \in {"success", "failed", "interrupted", "waiting"}, Finish(s, r, how)
  PROVE  LayersInv'
<1>1. PrivateInv /\ ForkInv /\ EngineInv /\ QueuedInv
  BY DEF LayersInv
<1>2. UNCHANGED <<setting, pc, local, shard, records, up, sweep>>
  BY DEF Finish, Quiet
<1>3. /\ <<s, r>> \in engines /\ engines' = engines \ {<<s, r>>}
      /\ lease'[r] = IF lease[r] = s THEN Nobody ELSE lease[r]
      /\ \A q \in Runs \ {r} : dir'[q] = dir[q] /\ lease'[q] = lease[q]
      /\ dir'[r].stage = dir[r].stage /\ dir'[r].identity = dir[r].identity
      /\ lease[r] # s => dir'[r] = dir[r]
      /\ dir'[r].mail => dir[r].mail
  <2>1. Finished(s, r, how)
    BY FinishFacts
  <2> QED
    BY <2>1 DEF Finished
<1>4. up[s] /\ Nobody \notin Services
  BY <1>3, StoreFacts, StoreAssumption
<1>5. PrivateInv'
  <2>1. ASSUME ~setting.shared, NEW q \in Runs, lease'[q] \in Services
        PROVE  records'[lease'[q]][q] = "live"
    BY <1>1, <1>2, <1>3, <1>4, <2>1 DEF PrivateInv
  <2>2. ASSUME ~setting.shared, NEW b \in Attempts, pc[b] \in Holding PROVE Respects(b)
    <3>1. Svc(b) = s /\ Run(b) \in Runs
      BY <1>4, <2>2, HolderIsThere
    <3>2. CASE dir'[Run(b)] = dir[Run(b)]
      BY <1>2, <3>2 DEF Respects, Record
    <3>3. CASE Run(b) = r /\ lease[r] = s
      BY <1>1, <1>2, <2>2, <3>1, <3>3 DEF Respects, Record, PrivateInv
    <3> QED
      BY <1>3, <3>1, <3>2, <3>3
  <2> QED
    BY <1>1, <1>2, <2>1, <2>2, PrivateWatched
<1>6. \A q \in Runs : /\ dir'[q].stage = dir[q].stage /\ dir'[q].identity = dir[q].identity
                      /\ dir'[q].mail => dir[q].mail
  BY <1>3
<1>7. ForkInv'
  <2>1. ASSUME Orderly(setting), NEW q \in Runs, ForkId(setting, q) PROVE ForkRecords(q)'
    BY <1>1, <1>2, <1>6, <2>1 DEF ForkInv, ForkRecords
  <2> QED
    BY <1>1, <1>2, <1>6, <2>1, ForkWatched
<1>8. EngineInv'
  <2>1. \A e \in engines : e[1] \in Services /\ e[2] \in Runs /\ e = <<e[1], e[2]>>
    BY StoreFacts
  <2>2. ASSUME Orderly(setting), Roomy(setting), NEW e \in engines'
        PROVE  dir'[e[2]].stage = "admitted" /\ lease'[e[2]] = e[1]
    <3>1. dir[e[2]].stage = "admitted" /\ lease[e[2]] = e[1] /\ e \in engines
      BY <1>1, <1>3, <2>2 DEF EngineInv
    <3>2. CASE e[2] = r
      <4>1. e[1] # s
        BY <1>3, <2>1, <2>2, <3>1, <3>2
      <4> QED
        BY <1>3, <3>1, <3>2, <4>1
    <3>3. CASE e[2] # r
      BY <1>3, <2>1, <3>1, <3>3
    <3> QED
      BY <3>2, <3>3
  <2> QED
    BY <1>2, <2>2 DEF EngineInv
<1>9. QueuedInv'
  <2>1. ASSUME NEW q \in Runs, Open(dir'[q]) PROVE Open(dir[q])
    <3>1. CASE dir'[q] = dir[q]
      BY <2>1, <3>1
    <3>2. CASE q = r /\ lease[r] = s
      BY <1>6, <2>1, <3>2, StoreFacts DEF Open, Leased
    <3> QED
      BY <1>3, <3>1, <3>2
  <2> QED
    BY <1>1, <1>2, <2>1, QueuedWatched
<1> QED
  BY <1>5, <1>7, <1>8, <1>9 DEF LayersInv

\* rehydrate_runs at construction: on a private store nobody is on their way.
LEMMA BootLayers ==
  ASSUME StoreInv, LayersInv, NEW s \in Services, Boot(s)
  PROVE  LayersInv'
<1>1. PrivateInv /\ ForkInv /\ EngineInv /\ QueuedInv
  BY DEF LayersInv
<1>2. /\ UNCHANGED <<setting, pc, local, shard, dir, lease, engines, sweep>>
      /\ s \in setting.services /\ ~up[s] /\ up' = [up EXCEPT ![s] = TRUE]
      /\ records' = [records EXCEPT ![s] =
            [r \in Runs |-> IF r \in Readable THEN "live" ELSE "none"]]
  BY DEF Boot, Quiet
<1>3. /\ \A t \in Services \ {s} : (up'[t] <=> up[t]) /\ records'[t] = records[t]
      /\ \A r \in Runs : records'[s][r] = "live" \/ records'[s][r] = "none"
      /\ \A r \in Runs : records'[s][r] = "live" => dir[r].stage \in {"history", "admitted"}
  BY <1>2, StoreFacts DEF Readable, Unsettled
<1>4. ASSUME ~setting.shared, NEW t \in Services PROVE ~up[t]
  BY <1>2, <1>4, StoreFacts, StoreAssumption
<1>5. ASSUME ~setting.shared, NEW b \in Attempts PROVE pc[b] \notin Holding
  BY <1>4, <1>5, HolderIsUp
<1>6. PrivateInv'
  <2>1. ASSUME ~setting.shared, NEW q \in Runs PROVE lease[q] \notin Services
    BY <1>4, <2>1, StoreFacts DEF Leased
  <2> QED
    BY <1>1, <1>2, <1>5, <2>1, PrivateWatched
<1>7. ForkInv'
  <2>1. ASSUME Orderly(setting), NEW q \in Runs, ForkId(setting, q) PROVE ForkRecords(q)'
    <3>1. ~setting.shared
      BY <2>1 DEF Orderly, ForkId
    <3>2. dir[q].stage # "history"
      <4>1. ASSUME NEW b \in Attempts, pc[b] \in {"pin", "probe", "queue"} PROVE FALSE
        BY <1>5, <3>1, <4>1 DEF Holding
      <4> QED
        BY <1>1, <2>1, <4>1 DEF ForkInv, HistoryHeld
    <3>3. ForkRecords(q)
      BY <1>1, <2>1 DEF ForkInv
    <3> QED
      BY <1>2, <1>3, <2>1, <3>2, <3>3 DEF ForkRecords
  <2> QED
    BY <1>1, <1>2, <2>1, ForkWatched
<1>8. EngineInv' /\ QueuedInv'
  BY <1>1, <1>2, QueuedWatched DEF EngineInv
<1> QED
  BY <1>6, <1>7, <1>8 DEF LayersInv

\* Retention removes a directory that no request and no engine holds.
LEMMA RemovedLayers ==
  ASSUME StoreInv, LayersInv, NEW r \in Runs, Unprotected(r), Removed(r),
         UNCHANGED <<setting, pc, local, shard, engines, up>>,
         \A t \in Services : \A q \in Runs \ {r} : records'[t][q] = records[t][q],
         Orderly(setting) => \A q \in Runs : ForkId(setting, q) => ForkRecords(q)'
  PROVE  LayersInv'
<1>1. PrivateInv /\ ForkInv /\ EngineInv /\ QueuedInv
  BY DEF LayersInv
<1>2. /\ shard[ShardOf[r]] = Nobody /\ lease[r] = Nobody /\ Nobody \notin Services \cup Attempts
      /\ dir'[r] = Missing /\ lease'[r] = Nobody
      /\ \A q \in Runs \ {r} : dir'[q] = dir[q] /\ lease'[q] = lease[q]
      /\ Missing.stage = "missing"
  BY StoreFacts, StoreAssumption, DirectoryFacts DEF Unprotected, Removed
<1>3. PrivateInv'
  <2>1. ASSUME ~setting.shared, NEW q \in Runs, lease'[q] \in Services
        PROVE  records'[lease'[q]][q] = "live"
    BY <1>1, <1>2, <2>1 DEF PrivateInv
  <2>2. ASSUME NEW b \in Attempts, pc[b] \in Holding PROVE Respects(b)
    <3>1. Run(b) \in Runs /\ Svc(b) \in Services /\ Run(b) # r
      BY <1>2, <2>2, AttemptFacts, StoreFacts DEF Locked
    <3> QED
      BY <1>2, <3>1 DEF Respects, Record
  <2> QED
    BY <1>1, <2>1, <2>2, PrivateWatched
<1>4. ForkInv'
  BY <1>1, <1>2, ForkWatched
<1>5. EngineInv'
  <2>1. \A e \in engines : e[1] \in Services /\ e[2] \in Runs
    BY StoreFacts
  <2>2. ASSUME Orderly(setting), Roomy(setting), NEW e \in engines
        PROVE  dir'[e[2]].stage = "admitted" /\ lease'[e[2]] = e[1]
    BY <1>1, <1>2, <2>1, <2>2 DEF EngineInv
  <2> QED
    BY <2>2 DEF EngineInv
<1>6. QueuedInv'
  <2>1. \A q \in Runs : Open(dir'[q]) => Open(dir[q])
    BY <1>2 DEF Open
  <2> QED
    BY <1>1, <2>1, QueuedWatched
<1> QED
  BY <1>3, <1>4, <1>5, <1>6 DEF LayersInv

\* The sweep deletes or keeps one candidate.
LEMMA SweepNextLayers ==
  ASSUME StoreInv, LayersInv, SweepNext
  PROVE  LayersInv'
<1>1. /\ UNCHANGED <<setting, pc, local, shard, engines, records, up>>
      /\ sweep.by # Nobody /\ sweep'.by = sweep.by
  BY SweepNextFacts
<1>2. ForkInv
  BY DEF LayersInv
<1>3. CASE sweep'.deleted = sweep.deleted /\ UNCHANGED <<dir, lease>>
  <2>1. PrivateInv' /\ EngineInv' /\ QueuedInv'
    BY <1>1, <1>3, PrivateWatched, QueuedWatched DEF LayersInv, PrivateInv, EngineInv, Respects, Record
  <2>2. ForkInv'
    <3>1. ASSUME Orderly(setting), NEW q \in Runs, ForkId(setting, q) PROVE ForkRecords(q)'
      BY <1>1, <1>2, <1>3, <3>1 DEF ForkInv, ForkRecords
    <3> QED
      BY <1>1, <1>2, <1>3, <3>1, ForkWatched
  <2> QED
    BY <2>1, <2>2 DEF LayersInv
<1>4. CASE \E r \in Settled \ sweep.retained :
             /\ sweep'.deleted = sweep.deleted \cup {r} /\ Unprotected(r) /\ Removed(r)
  <2>1. PICK r \in Settled \ sweep.retained :
             /\ sweep'.deleted = sweep.deleted \cup {r} /\ Unprotected(r) /\ Removed(r)
    BY <1>4
  <2>2. /\ r \in Runs /\ dir'[r].stage = "missing" /\ \A q \in Runs \ {r} : dir'[q] = dir[q]
        /\ sweep.by \in Services /\ up[sweep.by]
    BY <1>1, <2>1, StoreFacts, DirectoryFacts DEF Settled, Removed
  <2>3. ASSUME Orderly(setting), NEW q \in Runs, ForkId(setting, q) PROVE ForkRecords(q)'
    <3>1. ForkRecords(q) /\ ~setting.shared
      BY <1>2, <2>3 DEF ForkInv, Orderly, ForkId
    <3>2. \A t \in Services : up[t] => t = sweep.by
      BY <2>2, <3>1, OneService
    <3> QED
      BY <1>1, <2>1, <2>2, <3>1, <3>2 DEF ForkRecords
  <2> QED
    BY <1>1, <2>1, <2>2, <2>3, RemovedLayers
<1> QED
  BY <1>3, <1>4, SweepNextFacts

\* collect_retained_runs drops the records of what is gone, never one of an engine.
LEMMA SweepEndLayers ==
  ASSUME StoreInv, LayersInv, SweepEnd
  PROVE  LayersInv'
<1>1. PrivateInv /\ ForkInv /\ EngineInv /\ QueuedInv
  BY DEF LayersInv
<1>2. /\ UNCHANGED <<setting, pc, local, shard, dir, lease, engines, up>> /\ sweep.by # Nobody
      /\ records' = [records EXCEPT ![sweep.by] = [r \in Runs |->
            IF (r \in sweep.deleted \/ @[r] = "done") /\ ~Exists(r) THEN "none" ELSE @[r]]]
      /\ sweep'.deleted = {}
  BY DEF SweepEnd, Calm, Kept, NoSweep
<1>3. /\ sweep.by \in Services
      /\ \A t \in Services : \A q \in Runs :
            records'[t][q] = IF t = sweep.by /\ (q \in sweep.deleted \/ records[t][q] = "done") /\ ~Exists(q)
                             THEN "none" ELSE records[t][q]
  BY <1>2, StoreFacts
<1>4. PrivateInv'
  <2>1. ASSUME ~setting.shared, NEW q \in Runs, lease'[q] \in Services
        PROVE  records'[lease'[q]][q] = "live"
    <3>1. Exists(q) /\ records[lease[q]][q] = "live"
      BY <1>1, <1>2, <2>1, StoreFacts DEF PrivateInv, Leased, Exists
    <3> QED
      BY <1>2, <1>3, <2>1, <3>1
  <2>2. ASSUME ~setting.shared, NEW b \in Attempts PROVE Alone(b)'
    <3>1. /\ Run(b) \in Runs /\ Svc(b) \in Services /\ Placed(b) /\ Run(b)' = Run(b) /\ Svc(b)' = Svc(b)
          /\ records \in [Services -> [Runs -> {"none", "live", "done"}]]
      BY <1>2, <2>2, AttemptFacts, SettingKeeps
    <3>2. Alone(b)
      BY <1>1, <2>2 DEF PrivateInv
    <3>3. pc[b] = "spawn" => Exists(Run(b))
      BY <3>1 DEF Placed, Adopter, Author, Exists
    <3> QED
      BY <1>2, <1>3, <3>1, <3>2, <3>3 DEF Alone, Record
  <2> QED
    BY <1>2, <2>1, <2>2 DEF PrivateInv
<1>5. ForkInv'
  <2>1. ASSUME Orderly(setting), NEW q \in Runs, ForkId(setting, q) PROVE ForkRecords(q)'
    <3>1. ForkRecords(q)
      BY <1>1, <2>1 DEF ForkInv
    <3> QED
      BY <1>2, <1>3, <2>1, <3>1 DEF ForkRecords, Exists
  <2> QED
    BY <1>1, <1>2, <2>1, ForkWatched
<1>6. EngineInv' /\ QueuedInv'
  BY <1>1, <1>2, QueuedWatched DEF EngineInv
<1> QED
  BY <1>4, <1>5, <1>6 DEF LayersInv

\* delete_run.
LEMMA DeleteRunLayers ==
  ASSUME StoreInv, LayersInv, NEW s \in Services, NEW r \in Runs, DeleteRun(s, r)
  PROVE  LayersInv'
<1>1. /\ UNCHANGED <<setting, pc, local, shard, engines, up, sweep>> /\ up[s]
      /\ Unprotected(r) /\ Removed(r) /\ sweep.by = Nobody
      /\ records' = [records EXCEPT ![s][r] = "none"]
  BY DEF DeleteRun, Calm, MaintenanceFree
<1>2. /\ \A t \in Services : \A q \in Runs :
            records'[t][q] = IF t = s /\ q = r THEN "none" ELSE records[t][q]
      /\ sweep.deleted = {} /\ \A q \in Runs \ {r} : dir'[q] = dir[q]
  BY <1>1, StoreFacts DEF Spared, Removed
<1>3. ASSUME Orderly(setting), NEW q \in Runs, ForkId(setting, q) PROVE ForkRecords(q)'
  <2>1. ForkRecords(q) /\ ~setting.shared
    BY <1>3 DEF LayersInv, ForkInv, Orderly, ForkId
  <2>2. \A t \in Services : up[t] => t = s
    BY <1>1, <2>1, OneService
  <2> QED
    BY <1>1, <1>2, <1>3, <2>1, <2>2 DEF ForkRecords
<1> QED
  BY <1>1, <1>2, <1>3, RemovedLayers

\* A process ends; under forks only when its requests have been answered.
LEMMA GoDownLayers ==
  ASSUME StoreInv, LayersInv, NEW s \in Services, GoDown(s),
         Orderly(setting) /\ (\E r \in Runs : ForkId(setting, r)) => \A b \in Mine(s) : ~InFlight(b)
  PROVE  LayersInv'
<1>1. PrivateInv /\ ForkInv /\ EngineInv /\ QueuedInv
  BY DEF LayersInv
<1>2. UNCHANGED <<setting, dir>>
  BY DEF GoDown
<1>3. \A b : Run(b)' = Run(b) /\ Svc(b)' = Svc(b) /\ (IsFork(b)' <=> IsFork(b))
  BY <1>2, SettingKeeps
<1>4. \A b \in Attempts : Run(b) \in Runs /\ Svc(b) \in Services
  BY AttemptFacts
<1>5. /\ \A t \in Services : up'[t] => up[t] /\ t # s /\ records'[t] = records[t]
      /\ \A t \in Services \ {s} : records'[t] = records[t]
  BY StoreFacts DEF GoDown
<1>6. \A b \in Attempts :
         IF b \in Mine(s) /\ InFlight(b) THEN pc'[b] = "lost" /\ local'[b] = NoLocal
         ELSE pc'[b] = pc[b] /\ local'[b] = local[b]
  BY DEF GoDown
<1>7. \A r \in Runs : lease'[r] = IF lease[r] \in {s} \cup Mine(s) THEN Nobody ELSE lease[r]
  BY DEF GoDown
<1>8. Nobody \notin Services /\ Mine(s) \cap Services = {}
  BY StoreAssumption DEF Mine
<1>9. PrivateInv'
  <2>1. ASSUME ~setting.shared, NEW q \in Runs, lease'[q] \in Services
        PROVE  records'[lease'[q]][q] = "live"
    BY <1>1, <1>5, <1>7, <1>8, <2>1 DEF PrivateInv
  <2>2. ASSUME ~setting.shared, NEW b \in Attempts PROVE Alone(b)'
    <3>1. CASE pc'[b] \notin Holding
      BY <3>1, OutAlone
    <3>2. CASE pc'[b] \in Holding
      <4>1. pc'[b] = pc[b] /\ local'[b] = local[b] /\ InFlight(b) /\ b \notin Mine(s)
        BY <1>6, <2>2, <3>2, StepFacts DEF Ended, InFlight
      <4>2. Svc(b) # s /\ Alone(b)
        BY <1>1, <2>2, <4>1 DEF Mine, PrivateInv
      <4> QED
        BY <1>2, <1>4, <1>5, <2>2, <4>1, <4>2, AloneKept
    <3> QED
      BY <3>1, <3>2
  <2> QED
    BY <1>2, <2>1, <2>2 DEF PrivateInv
<1>10. ForkInv'
  <2> SUFFICES ASSUME Orderly(setting)
               PROVE  /\ \A r \in Runs : HistoryHeld(r)' /\ Mailed(r)'
                      /\ \A b \in Attempts : ForkOwn(b)'
                      /\ \A r \in Runs : ForkId(setting, r) => ForkRecords(r)'
    BY <1>2 DEF ForkInv
  <2>1. ASSUME NEW r \in Runs PROVE HistoryHeld(r)'
    <3>1. SUFFICES ASSUME dir[r].stage = "history" PROVE HistoryHeld(r)'
      BY <1>2 DEF HistoryHeld
    <3>2. PICK b \in Attempts : /\ Run(b) = r /\ IsFork(b) /\ ~local[b].adopted
                                /\ pc[b] \in {"pin", "probe", "queue"}
      BY <1>1, <3>1 DEF ForkInv, HistoryHeld
    <3>3. ForkId(setting, r)
      BY <3>2, ForkRuns
    <3>4. InFlight(b)
      BY <3>2 DEF InFlight, Ended
    <3>5. pc'[b] = pc[b] /\ local'[b] = local[b]
      BY <1>6, <3>3, <3>4
    <3> QED
      BY <1>3, <3>2, <3>5 DEF HistoryHeld
  <2>2. \A r \in Runs : Mailed(r)'
    BY <1>1, <1>2 DEF ForkInv, Mailed
  <2>3. ASSUME NEW b \in Attempts PROVE ForkOwn(b)'
    BY <1>1, <1>2, <1>3, <1>6, <2>3 DEF ForkInv, ForkOwn
  <2>4. ASSUME NEW r \in Runs, ForkId(setting, r) PROVE ForkRecords(r)'
    <3>1. ForkRecords(r)
      BY <1>1, <2>4 DEF ForkInv
    <3>2. CASE sweep' = NoSweep /\ sweep.by = s
      <4>1. sweep'.deleted = {}
        BY <3>2 DEF NoSweep
      <4> QED
        BY <1>2, <1>5, <3>1, <3>2, <4>1 DEF ForkRecords
    <3>3. CASE sweep' = sweep
      BY <1>2, <1>5, <3>1, <3>3 DEF ForkRecords
    <3> QED
      BY <3>2, <3>3 DEF GoDown
  <2> QED
    BY <2>1, <2>2, <2>3, <2>4
<1>11. EngineInv'
  <2>1. engines' = {e \in engines : e[1] # s} /\ \A e \in engines : e[1] \in Services /\ e[2] \in Runs
    BY StoreFacts DEF GoDown
  <2>2. ASSUME Orderly(setting), Roomy(setting), NEW e \in engines'
        PROVE  dir'[e[2]].stage = "admitted" /\ lease'[e[2]] = e[1]
    BY <1>1, <1>2, <1>7, <1>8, <2>1, <2>2 DEF EngineInv
  <2> QED
    BY <1>2, <2>2 DEF EngineInv
<1>12. QueuedInv'
  <2>1. ASSUME NEW b \in Attempts, WrittenBy(b) PROVE WrittenBy(b)'
    BY <1>6, <2>1 DEF WrittenBy
  <2> QED
    BY <1>1, <1>2, <1>3, <2>1 DEF QueuedInv, Open
<1> QED
  BY <1>9, <1>10, <1>11, <1>12 DEF LayersInv

\* A crash, which a store with forks does not meet, or an orderly exit.
LEMMA ProcessEndsLayers ==
  ASSUME StoreInv, LayersInv, NEW s \in Services, Crash(s) \/ Exit(s)
  PROVE  LayersInv'
<1>1. ASSUME Crash(s), Orderly(setting), NEW r \in Runs, ForkId(setting, r) PROVE FALSE
  <2>1. setting.crashes = 0
    BY <1>1 DEF Orderly, ForkId
  <2> QED
    BY <1>1, <2>1, StoreFacts DEF Crash
<1> QED
  BY <1>1, GoDownLayers DEF Crash, Exit

\* Every step keeps the layers.
LEMMA LayersStep ==
  ASSUME StoreInv, LayersInv, [StoreNext]_storeVars
  PROVE  LayersInv'
<1>1. ASSUME NEW s \in Services, Process(s) PROVE LayersInv'
  BY <1>1, RefreshLayers, CalmLayers, ProcessEndsLayers, BootLayers, ResumeLayers, SettleRecordLayers,
     DeleteRunLayers, FinishLayers DEF Process
<1> QED
  BY <1>1, AdmissionLayers, CalmLayers, PublishCancelLayers, SweepNextLayers, SweepEndLayers DEF StoreNext

\* The layers hold before the first step.
LEMMA LayersStart ==
  ASSUME StoreInit
  PROVE  LayersInv
<1>1. /\ \A r \in Runs : \/ dir[r] = Missing
                         \/ dir[r].stage = "admitted" /\ dir[r].identity = "old" /\ ~dir[r].mail
      /\ Missing.stage = "missing" /\ Missing.outcome = "none" /\ ~Missing.mail
  BY OldRuns, DirectoryFacts
<1>2. /\ \A a \in Attempts : pc[a] = "idle"
      /\ \A r \in Runs : lease[r] = Nobody
      /\ Nobody \notin Services /\ engines = {} /\ sweep.deleted = {}
      /\ \A s \in Services : \A r \in Runs :
            records[s][r] = IF dir[r].outcome = "waiting" THEN "live" ELSE "none"
  BY StoreAssumption DEF StoreInit, NoSweep
<1>3. PrivateInv
  BY <1>2 DEF PrivateInv, Alone
<1>4. ForkInv
  BY <1>1, <1>2 DEF ForkInv, HistoryHeld, Mailed, ForkOwn, ForkRecords
<1>5. EngineInv /\ QueuedInv
  BY <1>1, <1>2 DEF EngineInv, QueuedInv, Open
<1> QED
  BY <1>3, <1>4, <1>5 DEF LayersInv

\* Who is alone on a private store, which histories forks hold, what engines stand on and
\* who wrote an open admission, in every state of the store.
THEOREM LayersInvariant == StoreSpec => [](StoreInv /\ LayersInv)
<1>1. StoreInit => LayersInv
  BY LayersStart
<1>2. StoreInv /\ LayersInv /\ [StoreNext]_storeVars => LayersInv'
  BY LayersStep
<1> QED
  BY <1>1, <1>2, StoreInvariant, PTL DEF StoreSpec

-----------------------------------------------------------------------------
(* Pinned runs, executing runs and refused requests *)

\* What a request created and has not adopted is no settled run.
LEMMA OwnIsUnsettled ==
  ASSUME StoreInv, NEW a \in Attempts, pc[a] \in {"probe", "queue"}, RemoveOwn(a), Run(a) \in Settled
  PROVE  dir' = dir
<1>1. ~local[a].created
  BY AttemptFacts DEF Settled, Placed, Adopter, Author
<1> QED
  BY <1>1 DEF RemoveOwn

\* No step of a request takes the directory of a settled run.
LEMMA AdmissionSpares ==
  ASSUME StoreInv, LayersInv, Roomy(setting), NEW a \in Attempts, Admission(a), NEW r \in Settled
  PROVE  dir'[r].stage = "admitted"
<1>1. /\ r \in Runs /\ dir[r].stage = "admitted" /\ Terminal(dir[r])
      /\ dir \in [Runs -> Directories] /\ Run(a) \in Runs /\ Svc(a) \in Services /\ Placed(a)
      /\ dir[r] \in Directories
  BY AttemptFacts DEF Settled
<1>2. CASE ClaimStart(a) \/ Enter(a) \/ LockShard(a) \/ CheckLive(a) \/ PrepareAdopted(a) \/ Seed(a)
  BY <1>1, <1>2 DEF ClaimStart, Enter, LockShard, CheckLive, PrepareAdopted, Seed, Kept
<1>3. CASE Adopt(a)
  <2>1. CASE dir' = dir
    BY <1>1, <2>1
  <2>2. CASE dir[Run(a)].stage \in {"bare", "history"} /\ Wiped(Run(a))
    BY <1>1, <2>2 DEF Wiped, Removed
  <2> QED
    BY <1>3, <2>1, <2>2 DEF Adopt
<1>4. CASE PrepareStart(a) \/ PrepareFork(a) \/ PinPackage(a)
  <2>1. dir[Run(a)].stage # "admitted"
    BY <1>1, <1>4 DEF PrepareStart, PrepareFork, PinPackage, Placed, Author
  <2> QED
    BY <1>1, <1>4, <2>1 DEF PrepareStart, PrepareFork, PinPackage
<1>5. CASE Probe(a)
  <2>1. CASE dir' = dir
    BY <1>1, <2>1
  <2>2. CASE RemoveOwn(a)
    <3>1. CASE r = Run(a)
      BY <1>1, <1>5, <2>2, <3>1, OwnIsUnsettled DEF Probe
    <3>2. CASE r # Run(a)
      BY <1>1, <2>2, <3>2 DEF RemoveOwn, Removed
    <3> QED
      BY <3>1, <3>2
  <2> QED
    BY <1>5, <2>1, <2>2 DEF Probe
<1>6. CASE WriteQueued(a)
  <2>1. CASE dir' = dir
    BY <1>1, <2>1
  <2>2. CASE dir' = [dir EXCEPT ![Run(a)].stage = "admitted", ![Run(a)].identity = work[a].identity,
                                ![Run(a)].born = born + 1]
    BY <1>1, <2>2 DEF Directories
  <2>3. CASE RemoveOwn(a)
    <3>1. CASE r = Run(a)
      BY <1>1, <1>6, <2>3, <3>1, OwnIsUnsettled DEF WriteQueued
    <3>2. CASE r # Run(a)
      BY <1>1, <2>3, <3>2 DEF RemoveOwn, Removed
    <3> QED
      BY <3>1, <3>2
  <2> QED
    BY <1>6, <2>1, <2>2, <2>3 DEF WriteQueued
<1>7. CASE Register(a)
  <2>1. CASE dir' = dir
    BY <1>1, <2>1
  <2>2. CASE RemoveOwn(a) /\ Record(a) = "none" /\ NoRoom(Svc(a)) /\ dir' # dir
    <3>1. local[a].created /\ ~local[a].adopted /\ dir' = [dir EXCEPT ![Run(a)] = Missing]
      BY <1>1, <2>2 DEF RemoveOwn, Removed, Placed, Adopter
    <3>2. ~setting.shared
      BY <2>2, RoomyHasRoom
    <3>3. dir[Run(a)].outcome = "none"
      BY <1>7, <3>1, <3>2, HolderLayers DEF Register, Alone, Holding
    <3> QED
      BY <1>1, <3>1, <3>3 DEF Terminal
  <2> QED
    BY <1>7, <2>1, <2>2 DEF Register
<1>8. CASE SettleRefused(a)
  <2>1. CASE dir' = dir
    BY <1>1, <2>1
  <2>2. CASE ~Exists(Run(a)) /\ dir' = [dir EXCEPT ![Run(a)] = Bare(FALSE)]
    BY <1>1, <2>2 DEF Exists
  <2>3. CASE dir' = [dir EXCEPT ![Run(a)].outcome = "interrupted"]
    BY <1>1, <2>3 DEF Directories
  <2> QED
    BY <1>8, <2>1, <2>2, <2>3 DEF SettleRefused
<1>9. CASE Spawn(a)
  <2>1. CASE dir' = dir
    BY <1>1, <2>1
  <2>2. CASE CanExecute(Svc(a), Run(a)) /\ Execute(Svc(a), Run(a))
    <3>1. PICK d \in Directories : dir' = [dir EXCEPT ![Run(a)] = d] /\ d.stage = dir[Run(a)].stage
      BY <1>1, <2>2, ExecuteFacts
    <3> QED
      BY <1>1, <3>1
  <2> QED
    BY <1>9, <2>1, <2>2 DEF Spawn
<1> QED
  BY <1>2, <1>3, <1>4, <1>5, <1>6, <1>7, <1>8, <1>9 DEF Admission

\* No step of a process takes the directory of a settled run that is pinned.
LEMMA ProcessSpares ==
  ASSUME StoreInv, NEW r \in Settled, r \in pins,
         \/ \E s \in Services : Process(s)
         \/ \E q \in Runs : ClaimMutation(q) \/ Unpin(q) \/ PublishCancel(q)
         \/ SweepNext \/ SweepEnd
  PROVE  dir'[r].stage = "admitted"
<1>1. /\ r \in Runs /\ dir[r].stage = "admitted" /\ dir \in [Runs -> Directories]
      /\ dir[r] \in Directories
  BY StoreFacts DEF Settled
<1>2. ASSUME NEW s \in Services, Process(s) PROVE dir'[r].stage = "admitted"
  <2>1. CASE Refresh(s) \/ Shutdown(s) \/ Crash(s) \/ Exit(s) \/ Boot(s) \/ SweepBegin(s)
             \/ \E q \in Runs : SettleRecord(s, q)
    BY <1>1, <2>1 DEF Refresh, Shutdown, Crash, Exit, GoDown, Boot, SweepBegin, SettleRecord, Kept, Quiet
  <2>2. ASSUME NEW q \in Runs, DeleteRun(s, q) PROVE dir'[r].stage = "admitted"
    BY <1>1, <2>2 DEF DeleteRun, Removed
  <2>3. ASSUME NEW q \in Runs, Resume(s, q) PROVE dir'[r].stage = "admitted"
    <3>1. PICK d \in Directories : dir' = [dir EXCEPT ![q] = d] /\ d.stage = dir[q].stage
      BY <2>3, ExecuteFacts DEF Resume
    <3> QED
      BY <1>1, <3>1
  <2>4. ASSUME NEW q \in Runs, NEW how \in {"success", "failed", "interrupted", "waiting"}, Finish(s, q, how)
        PROVE  dir'[r].stage = "admitted"
    <3>1. Finished(s, q, how)
      BY <2>4, FinishFacts
    <3>2. dir'[q].stage = dir[q].stage /\ \A p \in Runs \ {q} : dir'[p] = dir[p]
      BY <3>1 DEF Finished
    <3> QED
      BY <1>1, <3>2
  <2> QED
    BY <1>2, <2>1, <2>2, <2>3, <2>4 DEF Process
<1>3. ASSUME NEW q \in Runs, ClaimMutation(q) \/ Unpin(q) \/ PublishCancel(q) PROVE dir'[r].stage = "admitted"
  BY <1>1, <1>3 DEF ClaimMutation, Unpin, PublishCancel, Kept, Directories
<1>4. CASE SweepNext
  <2>1. sweep.by # Nobody => r \in sweep.retained
    BY StoreFacts DEF Spared
  <2>2. CASE dir' = dir
    BY <1>1, <2>2
  <2>3. ASSUME NEW q \in Settled \ sweep.retained, Removed(q), sweep.by # Nobody
        PROVE  dir'[r].stage = "admitted"
    BY <1>1, <2>1, <2>3 DEF Removed
  <2> QED
    BY <1>4, <2>2, <2>3, SweepNextFacts
<1>5. CASE SweepEnd
  BY <1>1, <1>5 DEF SweepEnd, Kept
<1> QED
  BY <1>2, <1>3, <1>4, <1>5

\* A run that an idempotency record names keeps its settled directory through sweeps,
\* deletions and other admissions; on a shared store, where the processes' maps have room
\* for every run.
THEOREM PinnedRunsSurvive ==
  StoreSpec /\ Roomy(setting) => PinnedRunSurvives
<1>1. Roomy(setting) /\ [StoreNext]_storeVars => Roomy(setting)'
  BY SettingFixed
<1>2. StoreInv /\ LayersInv /\ Roomy(setting) /\ [StoreNext]_storeVars =>
        [\A r \in pins : r \in Settled => dir'[r].stage = "admitted"]_storeVars
  BY AdmissionSpares, ProcessSpares DEF StoreNext
<1> QED
  BY <1>1, <1>2, LayersInvariant, PTL DEF StoreSpec, PinnedRunSurvives

\* An engine executes over the journal it was started on, and it alone holds the lease:
\* where forks are orderly and a shared store's maps have room.
THEOREM ExecutingRunsKeepJournals ==
  StoreSpec /\ Orderly(setting) /\ Roomy(setting) => []ExecutingRunKeepsJournal
<1>1. Orderly(setting) /\ Roomy(setting) /\ [StoreNext]_storeVars => (Orderly(setting) /\ Roomy(setting))'
  BY SettingFixed
<1>2. StoreInv /\ LayersInv /\ Orderly(setting) /\ Roomy(setting) => ExecutingRunKeepsJournal
  BY DEF LayersInv, EngineInv, ExecutingRunKeepsJournal
<1> QED
  BY <1>1, <1>2, LayersInvariant, PTL DEF StoreSpec

\* Once every request for an id has been turned away, and none had its settlement or
\* its removal fail, no journal is left that a later boot of a private store would run,
\* where forks are orderly.
THEOREM RefusedRequestsNeverRun ==
  StoreSpec /\ Orderly(setting) => []RefusedNeverRuns
<1>1. Orderly(setting) /\ [StoreNext]_storeVars => Orderly(setting)'
  BY SettingFixed
<1>2. ASSUME LayersInv, Orderly(setting) PROVE RefusedNeverRuns
  <2> SUFFICES ASSUME NEW r \in Runs, TurnedAway(r), ~setting.shared, dir[r].identity # "old",
                      r \in Unsettled
               PROVE  FALSE
    BY DEF RefusedNeverRuns
  <2>1. \A a \in Attempts : Run(a) = r => pc[a] \in {"idle", "refused", "conflict", "failed"}
    BY DEF TurnedAway
  <2>2. CASE dir[r].stage = "history"
    BY <1>2, <2>1, <2>2 DEF LayersInv, ForkInv, HistoryHeld
  <2>3. CASE dir[r].stage = "admitted"
    <3>1. Open(dir[r])
      BY <2>3 DEF Unsettled, Terminal, Open
    <3>2. PICK a \in Attempts : Run(a) = r /\ WrittenBy(a)
      BY <1>2, <3>1 DEF LayersInv, QueuedInv
    <3> QED
      BY <2>1, <3>2 DEF WrittenBy
  <2> QED
    BY <2>2, <2>3 DEF Unsettled
<1> QED
  BY <1>1, <1>2, LayersInvariant, PTL DEF StoreSpec

=============================================================================
