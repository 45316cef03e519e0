------------------------------ MODULE RunStore ------------------------------
(***************************************************************************)
(* The run store: how run directories come to exist and how they go.       *)
(*                                                                         *)
(* Admission (start, fork, and the retry that adopts an earlier attempt)   *)
(* is a sequence of steps over one directory, under a lock of the run's    *)
(* admission shard.  Retention (the sweep and delete_run) removes          *)
(* directories under the store's maintenance lock.  Idempotency claims pin *)
(* runs against it.  Services rehydrate records from the directories they  *)
(* find when they boot and, over a shared store, periodically.             *)
(*                                                                         *)
(* What a run does while it executes is RunLifecycle's matter: here an     *)
(* engine holds the execution lease, suspends, or settles the journal.     *)
(***************************************************************************)
EXTENDS Integers, FiniteSets, Sequences

CONSTANTS
    Runs,           \* run ids
    Services,       \* service processes over the store
    Attempts,       \* admission requests
    Settings,       \* how the store is used, a set of records: work, what each
                    \* attempt asks for, [service, run, source, identity, keyed];
                    \* old, the <<run, outcome>> pairs that exist, in starting
                    \* order; services, shared, tracked (max_tracked_runs);
                    \* mutated and canceled, the runs that keyed mutations and
                    \* cancels reach; sweeps, deletes, whether there is retention;
                    \* expired, the runs whose retention_days have passed; bounds
                    \* on crashes, shutdowns, faults
    ShardOf,        \* [Runs -> shards]: the admission shard of an id
    Keep,           \* gc_keep
    KeepFailed,     \* gc_keep_failed
    NoSource,       \* the source of a start
    Nobody          \* no lock holder

ASSUME StoreAssumption ==
    /\ ShardOf \in [Runs -> Nat]
    /\ Keep \in Nat /\ KeepFailed \in Nat
    /\ NoSource \notin Runs
    /\ Nobody \notin Services \cup Attempts
    /\ Services \cap Attempts = {}
    /\ \A c \in Settings :
          /\ c.services \subseteq Services
          /\ ~c.shared => \E s \in Services : c.services = {s}
          /\ c.old \in Seq(Runs \X {"waiting", "success", "failed", "interrupted"})
          /\ \A a \in Attempts : /\ c.work[a].service \in Services /\ c.work[a].run \in Runs
                                /\ c.work[a].source \in Runs \cup {NoSource}
          /\ c.crashes \in Nat

VARIABLES
    setting,        \* the member of Settings this behaviour is about
    dir,            \* per run: its directory
    born,           \* how many runs have started: the clock of started_at
    lease,          \* per run: holder of meta/execution.lock, a file of the directory
    engines,        \* <<service, run>> pairs whose engine executes
    shard,          \* per shard: the attempt that holds the admission lock
    records,        \* per service: the run map, [Runs -> none, live, done]
    up, shutting,   \* per service: it runs; it has begun to shut down
    pins,           \* runs named by an idempotency record
    sweep,          \* the retention sweep that holds the maintenance lock
    pc,             \* per attempt: the step it takes next, or how it ended
    local,          \* per attempt: what it remembers
    crashes, shutdowns, faults

storeVars == <<setting, dir, born, lease, engines, shard, records, up, shutting,
               pins, sweep, pc, local, crashes, shutdowns, faults>>

-----------------------------------------------------------------------------
(* Directories. *)

\* stage: missing; bare (no journal, or an empty one); history (a fork's copied
\* checkpoint, without the run_queued of the fork itself); admitted.
\* package: the pinned copy of the generator.  mail: meta/control holds a cancel.
Missing == [stage |-> "missing", package |-> FALSE, mail |-> FALSE,
            outcome |-> "none", identity |-> "none", born |-> 0]
Bare(mail) == [Missing EXCEPT !.stage = "bare", !.mail = mail]
Exists(r) == dir[r].stage # "missing"
Terminal(d) == d.outcome \in {"success", "failed", "interrupted"}

Shards == {ShardOf[r] : r \in Runs}
NoSweep == [by |-> Nobody, retained |-> {}, queue |-> <<>>, ok |-> 0, failed |-> 0,
            deleted |-> {}]
MaintenanceFree == sweep.by = Nobody

NoLocal == [adopted |-> FALSE, created |-> FALSE, snapshot |-> Missing]

\* The directory of the run that started i-th, before this behaviour begins.
OldRun(i) == [stage |-> "admitted", package |-> TRUE, mail |-> FALSE,
              outcome |-> setting.old[i][2], identity |-> "old", born |-> i]
StoreInit ==
    /\ setting \in Settings
    /\ born = Len(setting.old)
    /\ dir = [r \in Runs |->
          IF \E i \in 1 .. born : setting.old[i][1] = r
          THEN OldRun(CHOOSE i \in 1 .. born : setting.old[i][1] = r) ELSE Missing]
    /\ lease = [r \in Runs |-> Nobody]
    /\ engines = {}
    /\ shard = [h \in Shards |-> Nobody]
    /\ records = [s \in Services |-> [r \in Runs |->
          IF dir[r].outcome = "waiting" THEN "live" ELSE "none"]]
    /\ up = [s \in Services |-> s \in setting.services]
    /\ shutting = [s \in Services |-> FALSE]
    /\ pins = {}
    /\ sweep = NoSweep
    /\ pc = [a \in Attempts |-> "idle"]
    /\ local = [a \in Attempts |-> NoLocal]
    /\ crashes = 0 /\ shutdowns = 0 /\ faults = 0

-----------------------------------------------------------------------------
(* An attempt's view. *)

work == setting.work
Run(a) == work[a].run
Svc(a) == work[a].service
IsFork(a) == work[a].source # NoSource
Record(a) == records[Svc(a)][Run(a)]
Live(s) == {r \in Runs : records[s][r] = "live"}
Tracked(s) == {r \in Runs : records[s][r] # "none"}

\* How a request ends: "unsettled" is one that was answered with an error and
\* could not take back the admission it had written; "lost" died with its process.
Ended == {"ok", "conflict", "failed", "refused", "unsettled", "lost"}
InFlight(a) == pc[a] \notin Ended \cup {"idle"}
\* The stages in which the attempt holds its shard.
Holding == {"adopt", "live", "prepare", "pin", "seed", "probe", "queue", "register",
            "settle", "spawn"}

\* Variant: the lock outlives its guard.
MoveHolding(a, step) == pc' = [pc EXCEPT ![a] = step] /\ UNCHANGED shard
\* The lock guard is dropped when the handler returns.
Move(a, step) ==
    /\ pc' = [pc EXCEPT ![a] = step]
    /\ shard' = IF step \in Ended /\ shard[ShardOf[Run(a)]] = a
                THEN [shard EXCEPT ![ShardOf[Run(a)]] = Nobody] ELSE shard
Forget(a) == local' = [local EXCEPT ![a] = NoLocal]
End(a, how) == Move(a, how) /\ Forget(a)

\* remove_dir_all. The lease is a file of the directory: it goes too, and an
\* engine that holds it is no longer excluded from anything.
Removed(r) == /\ dir' = [dir EXCEPT ![r] = Missing]
              /\ lease' = [lease EXCEPT ![r] = Nobody]
\* Variant: whoever fails cleans up.
RemoveAny(a) == Removed(Run(a))
\* Failure cleanup removes only the directory this admission created.
RemoveOwn(a) == IF local[a].created THEN Removed(Run(a)) ELSE UNCHANGED <<dir, lease>>

MayFault == faults < setting.faults
Fault == MayFault /\ faults' = faults + 1

Calm == UNCHANGED <<setting, up, shutting, crashes, shutdowns>>
Kept == UNCHANGED <<dir, born, lease>>

-----------------------------------------------------------------------------
(* Idempotency claims. *)

\* Variant: a claim that does not look at the maintenance lock.
ClaimAnytime(r) == pins' = pins \cup {r}
\* claim_durable_pending_for_target_gated: the pin is published under the
\* maintenance lock, which it tries and never waits for.
Claim(r) == MaintenanceFree /\ pins' = pins \cup {r}

\* A keyed request pins the run it reserves before it is admitted.
ClaimStart(a) ==
    /\ pc[a] = "idle" /\ work[a].keyed /\ up[Svc(a)]
    /\ Run(a) \notin pins /\ Claim(Run(a))
    /\ Calm /\ Kept
    /\ UNCHANGED <<engines, shard, records, sweep, pc, local, faults>>

\* A keyed mutation (an answer, a cancel) pins a run that exists.
ClaimMutation(r) ==
    /\ r \in setting.mutated /\ dir[r].stage = "admitted" /\ r \notin pins /\ Claim(r)
    /\ Calm /\ Kept
    /\ UNCHANGED <<engines, shard, records, sweep, pc, local, faults>>

\* Expiry and release only remove references; a claim outlives its request.
Unpin(r) ==
    /\ r \in pins
    /\ \A a \in Attempts : work[a].keyed /\ Run(a) = r => ~InFlight(a)
    /\ pins' = pins \ {r}
    /\ Calm /\ Kept
    /\ UNCHANGED <<engines, shard, records, sweep, pc, local, faults>>

-----------------------------------------------------------------------------
(* Admission: start_run_inner and fork_run_with_id, step by step. *)

Step(a) == Calm /\ UNCHANGED <<engines, pins, sweep>>

\* ensure_running at the head of the request.
Enter(a) ==
    /\ pc[a] = "idle" /\ up[Svc(a)]
    /\ work[a].keyed => Run(a) \in pins
    /\ Move(a, IF shutting[Svc(a)] THEN "refused" ELSE "wait")
    /\ Step(a) /\ Kept /\ UNCHANGED <<records, local, faults>>

\* acquire_admission_shard: the shard is probed once even after shutdown.
LockShard(a) ==
    /\ pc[a] = "wait"
    /\ \/ /\ shard[ShardOf[Run(a)]] = Nobody
          /\ shard' = [shard EXCEPT ![ShardOf[Run(a)]] = a]
          /\ pc' = [pc EXCEPT ![a] = "adopt"]
       \/ /\ shard[ShardOf[Run(a)]] # Nobody /\ shutting[Svc(a)]
          /\ Move(a, "refused")
    /\ Step(a) /\ Kept /\ UNCHANGED <<records, local, faults>>

\* wipe_incomplete_run_dir: everything goes but the cancel mailbox.
Wiped(r) ==
    IF dir[r].mail
    THEN dir' = [dir EXCEPT ![r] = Bare(TRUE)] /\ lease' = [lease EXCEPT ![r] = Nobody]
    ELSE Removed(r)

\* try_adopt_run_dir_with_snapshot: adopt a completed admission, wipe a partial
\* one.  An adopted run must have its package.
Adopt(a) ==
    LET r == Run(a) IN
    /\ pc[a] = "adopt"
    /\ \/ /\ dir[r].stage = "missing"
          /\ Move(a, "live") /\ Forget(a) /\ UNCHANGED <<dir, lease>>
       \/ /\ dir[r].stage \in {"bare", "history"}
          /\ Wiped(r)
          /\ Move(a, "live") /\ Forget(a)
       \/ /\ dir[r].stage = "admitted" /\ dir[r].package
          /\ local' = [local EXCEPT ![a] =
                 [adopted |-> TRUE, created |-> FALSE, snapshot |-> dir[r]]]
          /\ Move(a, "live") /\ UNCHANGED <<dir, lease>>
    /\ Step(a) /\ UNCHANGED <<born, records, faults>>

\* seed_adopted_run_from_state and verify_live_admission_from_snapshot: the
\* journal's admission must carry this attempt's identity.  The snapshot is the
\* adoption's, or a fork's copied history; an empty one falls back to one read of
\* the journal as it is now.
\* Variant: any completed admission will do.
ProvesAnything(a) == TRUE
ProvesIdentity(a) ==
    LET d == IF local[a].snapshot # Missing THEN local[a].snapshot ELSE dir[Run(a)]
    IN  d.stage \in {"history", "admitted"} /\ d.identity = work[a].identity
Converge(a) == End(a, IF ProvesIdentity(a) THEN "ok" ELSE "conflict")

\* live_run_record: a live record is reused, never replaced.
CheckLive(a) ==
    /\ pc[a] = "live"
    /\ IF Record(a) # "live" THEN Move(a, "prepare") /\ UNCHANGED local
       ELSE IF IsFork(a) /\ ~local[a].adopted THEN End(a, "conflict")
       ELSE Converge(a)
    /\ Step(a) /\ Kept /\ UNCHANGED <<records, faults>>

\* The directory of a start: prepare_api_run_directory.
PrepareStart(a) ==
    /\ pc[a] = "prepare" /\ ~IsFork(a) /\ ~local[a].adopted
    /\ dir' = [dir EXCEPT ![Run(a)] = Bare(dir[Run(a)].mail)]
    /\ local' = [local EXCEPT ![a].created = TRUE]
    /\ Move(a, "pin")
    /\ Step(a) /\ UNCHANGED <<born, lease, records, faults>>

PrepareAdopted(a) ==
    /\ pc[a] = "prepare" /\ local[a].adopted
    /\ Move(a, "seed")
    /\ Step(a) /\ Kept /\ UNCHANGED <<records, local, faults>>

\* fork_source_copy_lease: a settled or waiting source nobody executes.
ForkableSource(a) ==
    LET src == work[a].source IN
    /\ dir[src].stage = "admitted" /\ dir[src].package
    /\ ~setting.shared => records[Svc(a)][src] # "live" \/ dir[src].outcome = "waiting"
    /\ lease[src] = Nobody
    /\ Terminal(dir[src]) \/ (dir[src].outcome = "waiting" /\ ~dir[src].mail)

\* prepare_checkpoint_fork: the source's history under the child's id; the
\* source lease is held until the package is copied.
PrepareFork(a) ==
    LET r == Run(a) src == work[a].source IN
    /\ pc[a] = "prepare" /\ IsFork(a) /\ ~local[a].adopted
    /\ \/ /\ ForkableSource(a)
          /\ dir' = [dir EXCEPT ![r] = [Missing EXCEPT !.stage = "history",
                       !.mail = dir[r].mail, !.identity = dir[src].identity]]
          /\ lease' = [lease EXCEPT ![src] = a]
          /\ local' = [local EXCEPT ![a].created = ~Exists(r)]
          /\ Move(a, "pin") /\ UNCHANGED faults
       \/ /\ ~ForkableSource(a)
          /\ End(a, "conflict") /\ UNCHANGED <<dir, lease, faults>>
    /\ Step(a) /\ UNCHANGED <<born, records>>

DropSource(a, l) == IF IsFork(a) /\ l[work[a].source] = a
                    THEN [l EXCEPT ![work[a].source] = Nobody] ELSE l

\* run_package::copy into the run directory; a failed copy removes the
\* directory the admission created and leaves a retained one alone.
PinPackage(a) ==
    LET r == Run(a) IN
    /\ pc[a] = "pin"
    /\ \/ /\ dir' = [dir EXCEPT ![r].package = TRUE]
          /\ lease' = DropSource(a, lease)
          /\ local' = IF IsFork(a) THEN [local EXCEPT ![a].snapshot = dir'[r]] ELSE local
          /\ Move(a, "probe") /\ UNCHANGED faults
       \/ /\ Fault
          /\ dir' = IF local[a].created THEN [dir EXCEPT ![r] = Missing] ELSE dir
          /\ lease' = DropSource(a, IF local[a].created
                                    THEN [lease EXCEPT ![r] = Nobody] ELSE lease)
          /\ End(a, "failed")
    /\ Step(a) /\ UNCHANGED <<born, records>>

\* seed_adopted_run_from_snapshot: a settled run answers the retry as it is.
Seed(a) ==
    /\ pc[a] = "seed"
    /\ IF ~ProvesIdentity(a) THEN End(a, "conflict")
       ELSE IF Terminal(local[a].snapshot) THEN End(a, "ok")
       ELSE Move(a, "probe") /\ UNCHANGED local
    /\ Step(a) /\ Kept /\ UNCHANGED <<records, faults>>

\* Capacity as probe and registration see it: terminal records are dropped
\* only when the map is full.
Full(s) == Cardinality(Tracked(s)) >= setting.tracked
Pruned(s) == IF Full(s) THEN [r \in Runs |-> IF records[s][r] = "done" THEN "none"
                                             ELSE records[s][r]]
             ELSE records[s]
NoRoom(s) == Cardinality({r \in Runs : Pruned(s)[r] # "none"}) >= setting.tracked

\* probe_admission, before anything is allocated.
Probe(a) ==
    LET s == Svc(a) IN
    /\ pc[a] = "probe"
    /\ \/ /\ shutting[s]
          /\ RemoveOwn(a) /\ End(a, "refused") /\ UNCHANGED records
       \/ /\ ~shutting[s] /\ Record(a) # "none"
          /\ Converge(a) /\ UNCHANGED <<dir, lease, records>>
       \/ /\ ~shutting[s] /\ Record(a) = "none" /\ NoRoom(s)
          /\ records' = [records EXCEPT ![s] = Pruned(s)]
          /\ RemoveOwn(a) /\ End(a, "refused")
       \/ /\ ~shutting[s] /\ Record(a) = "none" /\ ~NoRoom(s)
          /\ records' = [records EXCEPT ![s] = Pruned(s)]
          /\ Move(a, "queue") /\ UNCHANGED <<dir, lease, local>>
    /\ Step(a) /\ UNCHANGED <<born, faults>>

\* finish_prepared_admission appends run_queued: the durable admission.
WriteQueued(a) ==
    LET r == Run(a) IN
    /\ pc[a] = "queue"
    /\ \/ /\ local[a].adopted
          /\ Move(a, "register") /\ UNCHANGED <<dir, lease, born, local, faults>>
       \/ /\ ~local[a].adopted /\ Exists(r)
          /\ dir' = [dir EXCEPT ![r].stage = "admitted", ![r].identity = work[a].identity,
                                ![r].born = born + 1]
          /\ born' = born + 1
          /\ Move(a, "register") /\ UNCHANGED <<lease, local, faults>>
       \/ /\ ~local[a].adopted /\ Fault
          /\ RemoveOwn(a) /\ End(a, "failed") /\ UNCHANGED born
    /\ Step(a) /\ UNCHANGED records

\* Variant: the refusal is reported and the journal left queued.
RefuseUnsettled(a) == End(a, "refused")
\* A refused fresh admission goes on to settle what it wrote.
AfterRefusal(a) == IF local[a].adopted THEN End(a, "refused")
                   ELSE Move(a, "settle") /\ UNCHANGED local
\* register_admission: shutdown, a rival's record and capacity once more.  When
\* the refused request's own directory cannot be removed, the error of the
\* removal is the answer, and nothing settles the journal.
Register(a) ==
    LET s == Svc(a) r == Run(a) IN
    /\ pc[a] = "register"
    /\ \/ /\ shutting[s]
          /\ AfterRefusal(a) /\ UNCHANGED <<dir, lease, records, faults>>
       \/ /\ ~shutting[s] /\ Record(a) # "none"
          /\ Converge(a) /\ UNCHANGED <<dir, lease, records, faults>>
       \/ /\ ~shutting[s] /\ Record(a) = "none" /\ NoRoom(s)
          /\ records' = [records EXCEPT ![s] = Pruned(s)]
          /\ \/ RemoveOwn(a) /\ AfterRefusal(a) /\ UNCHANGED faults
             \/ /\ local[a].created /\ Fault
                /\ End(a, "unsettled") /\ UNCHANGED <<dir, lease>>
       \/ /\ ~shutting[s] /\ Record(a) = "none" /\ ~NoRoom(s)
          /\ records' = [records EXCEPT ![s] = [Pruned(s) EXCEPT ![r] = "live"]]
          /\ Move(a, "spawn") /\ UNCHANGED <<dir, lease, local, faults>>
    /\ Step(a) /\ UNCHANGED born

\* settle_refused_admission: take the lease, which creates a missing directory,
\* and append run_interrupted, which needs a journal.  It is best effort: a lock
\* or an append that fails is only logged, and the journal stays queued.
SettleRefused(a) ==
    LET r == Run(a) IN
    /\ pc[a] = "settle"
    /\ \/ /\ dir' = IF ~Exists(r) THEN [dir EXCEPT ![r] = Bare(FALSE)]
                    ELSE IF lease[r] # Nobody \/ dir[r].stage = "bare" THEN dir
                    ELSE [dir EXCEPT ![r].outcome = "interrupted"]
          /\ End(a, "refused") /\ UNCHANGED faults
       \/ /\ Fault
          /\ End(a, "unsettled") /\ UNCHANGED dir
    /\ Step(a) /\ UNCHANGED <<born, lease, records>>

\* spawn_engine_run: execution begins only with the lease, on an open journal.
CanExecute(s, r) == /\ up[s] /\ ~shutting[s]
                    /\ dir[r].stage \in {"history", "admitted"} /\ ~Terminal(dir[r])
                    /\ lease[r] = Nobody
Execute(s, r) == /\ lease' = [lease EXCEPT ![r] = s]
                 /\ engines' = engines \cup {<<s, r>>}
                 /\ dir' = [dir EXCEPT ![r].outcome = "none"]
Spawn(a) ==
    /\ pc[a] = "spawn"
    /\ \/ CanExecute(Svc(a), Run(a)) /\ Execute(Svc(a), Run(a))
       \/ ~CanExecute(Svc(a), Run(a)) /\ UNCHANGED <<lease, engines, dir>>
    /\ End(a, "ok")
    /\ Calm /\ UNCHANGED <<born, records, pins, sweep, faults>>

-----------------------------------------------------------------------------
(* Execution, as far as the store sees it. *)

Quiet == UNCHANGED <<setting, born, shard, pins, sweep, pc, local, faults>>

\* The resumer, an answer or the queue starts a live record without an engine.
Resume(s, r) ==
    /\ records[s][r] = "live" /\ CanExecute(s, r)
    /\ Execute(s, r)
    /\ Quiet /\ UNCHANGED <<records, up, shutting, crashes, shutdowns>>

\* The engine settles or suspends; the lease ends with its task. An engine
\* whose directory is gone ends without a trace.
Finish(s, r, how) ==
    /\ <<s, r>> \in engines
    /\ how = "interrupted" => shutting[s]
    /\ engines' = engines \ {<<s, r>>}
    /\ IF dir[r].stage \in {"history", "admitted"} /\ lease[r] = s
       THEN dir' = [dir EXCEPT ![r].outcome = how, ![r].mail = FALSE]
       ELSE UNCHANGED dir
    /\ lease' = [lease EXCEPT ![r] = IF @ = s THEN Nobody ELSE @]
    /\ Quiet /\ UNCHANGED <<records, up, shutting, crashes, shutdowns>>

\* The record follows the journal, at once or by a refresh.
SettleRecord(s, r) ==
    /\ records[s][r] = "live" /\ Terminal(dir[r]) /\ <<s, r>> \notin engines
    /\ records' = [records EXCEPT ![s][r] = "done"]
    /\ Quiet /\ UNCHANGED <<dir, lease, engines, up, shutting, crashes, shutdowns>>

\* request_remote_cancel_with_id: a mailbox file in an unsettled run whose
\* package can be loaded.
PublishCancel(r) ==
    /\ r \in setting.canceled
    /\ dir[r].stage \in {"history", "admitted"} /\ dir[r].package
    /\ ~Terminal(dir[r]) /\ ~dir[r].mail
    /\ dir' = [dir EXCEPT ![r].mail = TRUE]
    /\ Quiet /\ UNCHANGED <<lease, engines, records, up, shutting, crashes, shutdowns>>

-----------------------------------------------------------------------------
(* Processes. *)

\* scan_runs: the unsettled journals that are not empty. One whose package
\* cannot be loaded is skipped by a refresh and refuses a boot.
Unsettled == {r \in Runs : dir[r].stage \in {"history", "admitted"} /\ ~Terminal(dir[r])}
Readable == {r \in Unsettled : dir[r].package}
WithinCap == Cardinality(Unsettled) <= setting.tracked

\* refresh_shared_runs: terminal records go, unsettled directories come in.
Refresh(s) ==
    /\ setting.shared /\ up[s] /\ ~shutting[s] /\ WithinCap
    /\ records' = [records EXCEPT ![s] = [r \in Runs |->
          IF @[r] = "live" THEN "live" ELSE IF r \in Readable THEN "live" ELSE "none"]]
    /\ records' # records
    /\ Quiet /\ UNCHANGED <<dir, lease, engines, up, shutting, crashes, shutdowns>>

Shutdown(s) ==
    /\ up[s] /\ ~shutting[s] /\ shutdowns < setting.shutdowns
    /\ shutting' = [shutting EXCEPT ![s] = TRUE]
    /\ shutdowns' = shutdowns + 1
    /\ Quiet /\ UNCHANGED <<dir, lease, engines, records, up, crashes>>

\* A process that ends, however it ends, drops its locks and its memory.
Mine(s) == {a \in Attempts : Svc(a) = s}
GoDown(s) ==
    /\ up' = [up EXCEPT ![s] = FALSE]
    /\ shutting' = [shutting EXCEPT ![s] = FALSE]
    /\ records' = [records EXCEPT ![s] = [r \in Runs |-> "none"]]
    /\ engines' = {e \in engines : e[1] # s}
    /\ lease' = [r \in Runs |-> IF lease[r] \in {s} \cup Mine(s) THEN Nobody ELSE lease[r]]
    /\ shard' = [h \in Shards |-> IF shard[h] \in Mine(s) THEN Nobody ELSE shard[h]]
    /\ pc' = [a \in Attempts |-> IF a \in Mine(s) /\ InFlight(a) THEN "lost" ELSE pc[a]]
    /\ local' = [a \in Attempts |-> IF a \in Mine(s) /\ InFlight(a) THEN NoLocal
                                    ELSE local[a]]
    /\ sweep' = IF sweep.by = s THEN NoSweep ELSE sweep
    /\ UNCHANGED <<setting, dir, born, pins, faults, shutdowns>>
Crash(s) ==
    /\ up[s] /\ crashes < setting.crashes
    /\ crashes' = crashes + 1 /\ GoDown(s)
\* A graceful exit waits for the requests and the engines.
Exit(s) ==
    /\ up[s] /\ shutting[s]
    /\ \A a \in Mine(s) : ~InFlight(a)
    /\ \A r \in Runs : <<s, r>> \notin engines
    /\ GoDown(s) /\ UNCHANGED crashes

\* rehydrate_runs at construction, then resume_recovered_runs.
Boot(s) ==
    /\ s \in setting.services /\ ~up[s] /\ WithinCap /\ Readable = Unsettled
    /\ up' = [up EXCEPT ![s] = TRUE]
    /\ records' = [records EXCEPT ![s] =
          [r \in Runs |-> IF r \in Readable THEN "live" ELSE "none"]]
    /\ Quiet /\ UNCHANGED <<dir, lease, engines, shutting, crashes, shutdowns>>

-----------------------------------------------------------------------------
(* Retention. *)

Settled == {r \in Runs : dir[r].stage = "admitted" /\ Terminal(dir[r])}

\* Variant: the oldest first.
OldestFirst(p, q) == p[2] < q[2]
\* candidates.sort_by_key(Reverse(started_at)).
InSweepOrder(p, q) == p[2] > q[2]
Candidates ==
    LET c == {<<r, dir[r].born>> : r \in Settled}
    IN  CHOOSE q \in [1 .. Cardinality(c) -> c] :
           \A i, j \in 1 .. Cardinality(c) : i < j => InSweepOrder(q[i], q[j])

\* try_lock_store_maintenance, retained_runs and the scan of the directory.
SweepBegin(s) ==
    /\ setting.sweeps /\ MaintenanceFree /\ up[s]
    /\ Settled # {}
    /\ sweep' = [NoSweep EXCEPT !.by = s, !.retained = pins, !.queue = Candidates]
    /\ Calm /\ Kept
    /\ UNCHANGED <<engines, shard, records, pins, pc, local, faults>>

\* The admission, handoff and execution locks, which the sweep never waits for.
Unprotected(r) == shard[ShardOf[r]] = Nobody /\ lease[r] = Nobody

\* One candidate: skipped when pinned, busy or changed; else kept or deleted.
SweepNext ==
    /\ sweep.by # Nobody /\ sweep.queue # <<>>
    /\ LET r == Head(sweep.queue)[1]
           at == Head(sweep.queue)[2]
           next == [sweep EXCEPT !.queue = Tail(@)]
           failed == dir[r].outcome = "failed"
           skip == \/ r \in sweep.retained \/ ~Unprotected(r)
                   \/ r \notin Settled \/ dir[r].born # at
       IN  \/ /\ skip
              /\ sweep' = next /\ UNCHANGED <<dir, lease>>
           \/ /\ ~skip /\ r \notin setting.expired /\ failed /\ sweep.failed < KeepFailed
              /\ sweep' = [next EXCEPT !.failed = @ + 1] /\ UNCHANGED <<dir, lease>>
           \/ /\ ~skip /\ r \notin setting.expired /\ ~failed /\ sweep.ok < Keep
              /\ sweep' = [next EXCEPT !.ok = @ + 1] /\ UNCHANGED <<dir, lease>>
           \/ /\ ~skip
              /\ \/ r \in setting.expired
                 \/ failed /\ sweep.failed >= KeepFailed
                 \/ ~failed /\ sweep.ok >= Keep
              /\ Removed(r)
              /\ sweep' = [next EXCEPT !.deleted = @ \cup {r}]
    /\ Calm /\ UNCHANGED <<born, engines, shard, records, pins, pc, local, faults>>

\* collect_retained_runs drops the records of directories that are gone, then
\* the maintenance lock.
SweepEnd ==
    /\ sweep.by # Nobody /\ sweep.queue = <<>>
    /\ records' = [records EXCEPT ![sweep.by] = [r \in Runs |->
          IF (r \in sweep.deleted \/ @[r] = "done") /\ ~Exists(r) THEN "none" ELSE @[r]]]
    /\ sweep' = NoSweep
    /\ Calm /\ Kept /\ UNCHANGED <<engines, shard, pins, pc, local, faults>>

\* delete_run: a settled run nobody pins, admits, executes or cancels.
DeleteRun(s, r) ==
    /\ setting.deletes /\ up[s] /\ ~shutting[s] /\ MaintenanceFree
    /\ r \notin pins /\ Unprotected(r)
    /\ r \in Settled /\ ~dir[r].mail /\ <<s, r>> \notin engines
    /\ records' = [records EXCEPT ![s][r] = "none"]
    /\ Removed(r)
    /\ Calm /\ UNCHANGED <<born, engines, shard, pins, sweep, pc, local, faults>>

-----------------------------------------------------------------------------
Admission(a) ==
    \/ ClaimStart(a) \/ Enter(a) \/ LockShard(a) \/ Adopt(a) \/ CheckLive(a)
    \/ PrepareStart(a) \/ PrepareAdopted(a) \/ PrepareFork(a) \/ PinPackage(a)
    \/ Seed(a) \/ Probe(a) \/ WriteQueued(a) \/ Register(a) \/ SettleRefused(a)
    \/ Spawn(a)
Process(s) ==
    \/ Refresh(s) \/ Shutdown(s) \/ Crash(s) \/ Exit(s) \/ Boot(s) \/ SweepBegin(s)
    \/ \E r \in Runs :
          \/ Resume(s, r) \/ SettleRecord(s, r) \/ DeleteRun(s, r)
          \/ \E how \in {"success", "failed", "interrupted", "waiting"} : Finish(s, r, how)
StoreNext ==
    \/ \E a \in Attempts : Admission(a)
    \/ \E s \in Services : Process(s)
    \/ \E r \in Runs : ClaimMutation(r) \/ Unpin(r) \/ PublishCancel(r)
    \/ SweepNext \/ SweepEnd

StoreSpec == StoreInit /\ [][StoreNext]_storeVars

-----------------------------------------------------------------------------
(* What the store promises. *)

\* The variables hold the values the code can give them: a lock has one holder
\* that is still on its way, an engine belongs to a process that runs.
Directories ==
    [stage : {"missing", "bare", "history", "admitted"}, package : BOOLEAN, mail : BOOLEAN,
     outcome : {"none", "waiting", "success", "failed", "interrupted"},
     identity : {"none", "old"} \cup {work[a].identity : a \in Attempts}, born : 0 .. born]
Memories == [adopted : BOOLEAN, created : BOOLEAN, snapshot : Directories]
Steps == {"idle", "wait"} \cup Holding \cup Ended
StoreTypeOK ==
    /\ setting \in Settings
    /\ born \in Nat
    /\ dir \in [Runs -> Directories]
    /\ lease \in [Runs -> {Nobody} \cup Services \cup Attempts]
    /\ engines \subseteq {s \in Services : up[s]} \X Runs
    /\ shard \in [Shards -> {Nobody} \cup Attempts]
    /\ \A h \in Shards : shard[h] # Nobody => pc[shard[h]] \in Holding
    /\ records \in [Services -> [Runs -> {"none", "live", "done"}]]
    /\ up \in [Services -> BOOLEAN] /\ shutting \in [Services -> BOOLEAN]
    /\ pins \subseteq Runs
    /\ sweep.by \in Services \cup {Nobody}
    /\ sweep.by # Nobody => up[sweep.by]
    /\ pc \in [Attempts -> Steps]
    /\ local \in [Attempts -> Memories]
    /\ crashes \in Nat

\* A run that an idempotency record names keeps its settled directory: neither
\* the sweep (with its older snapshot of the pins) nor delete_run nor another
\* admission removes what a retry of the key will be answered from.
PinnedRunSurvives ==
    [][\A r \in pins : r \in Settled => dir'[r].stage = "admitted"]_storeVars

\* Every way an admission can report success (fresh, adopted, converged on a
\* live record or on a settled run) leaves a directory that holds the durable
\* admission of exactly this request.
AcceptedIsDurable ==
    [][\A a \in Attempts : pc[a] # "ok" /\ pc'[a] = "ok" =>
          /\ dir'[Run(a)].stage = "admitted"
          /\ dir'[Run(a)].identity = work[a].identity]_storeVars

\* Every request for the id has been answered, none with success, and none had
\* to leave its admission behind.
TurnedAway(r) ==
    /\ \E a \in Attempts : Run(a) = r /\ pc[a] = "refused"
    /\ \A a \in Attempts : Run(a) = r => pc[a] \in {"idle", "refused", "conflict", "failed"}

\* A fresh admission that was refused does not run later, through the races of
\* admission, shutdown and capacity: once every request for an id has been
\* turned away, no unsettled journal is left for the next boot.  (A settlement
\* or a removal that fails is only reported and does leave one.  Over a shared
\* store a peer may have begun to execute it.)
RefusedNeverRuns ==
    \A r \in Runs : TurnedAway(r) /\ ~setting.shared /\ dir[r].identity # "old" =>
        r \notin Unsettled

\* An engine executes over the journal it was started on: nobody removes or
\* wipes the directory under it, and it alone holds the execution lease.
ExecutingRunKeepsJournal ==
    \A e \in engines : /\ dir[e[2]].stage \in {"history", "admitted"}
                       /\ lease[e[2]] = e[1]

\* The sweep deletes an unexpired run only when enough newer runs of its class
\* (failed, or not) stay.
NewestAreKept ==
    [][\A r \in Settled \ setting.expired :
          r \in sweep'.deleted \ sweep.deleted =>
             Cardinality({q \in Settled : /\ dir[q].born > dir[r].born
                                         /\ (dir[q].outcome = "failed")
                                               = (dir[r].outcome = "failed")})
                >= (IF dir[r].outcome = "failed" THEN KeepFailed ELSE Keep)]_storeVars
=============================================================================
