--------------------------- MODULE PackageInstall ---------------------------
(***************************************************************************)
(* qcg install and qcg uninstall over one generators directory             *)
(* (crates/cli/src/cli/install.rs, install_stage.rs, install_commit.rs).   *)
(*                                                                         *)
(* An install first recovers and sweeps what earlier commands left behind, *)
(* resolves and stages the dependency closure, takes the locks of every    *)
(* package involved, checks that its plan is still true, and publishes the *)
(* packages, leaves first.  A replaced package is moved to a backup        *)
(* directory under a sidecar record whose phase says who may touch it.     *)
(* Commands run in several processes, are interrupted anywhere, and the    *)
(* machine may lose what was not synced.                                   *)
(*                                                                         *)
(* A package is its name; archives, digests, signatures and inventories    *)
(* are reduced to whether a directory verifies.  The temporary copies of a *)
(* command are its own and are left out.                                   *)
(***************************************************************************)
EXTENDS Integers, FiniteSets, Sequences

CONSTANTS
    Ids,          \* generator ids, numbers: their order is the lock order
    Catalog,      \* [package name -> [id, version, needs]], needs being a function
                  \* from the ids it depends on to the versions it accepts
    Slots,        \* 1..n: the unique backup names, in the order they are drawn
    Commands,     \* invocations of the command line
    Settings,     \* what is installed and what the commands do: records of
                  \* installed, registry, work, foreign and the bounds
                  \* interruptions, losses, meddles
    ShardOf       \* [Ids -> Nat]: replace_shard_index

ASSUME InstallAssumption ==
    /\ Ids \subseteq Nat /\ IsFiniteSet(Ids)
    /\ IsFiniteSet(Slots) /\ Slots = 1 .. Cardinality(Slots)
    /\ \A p \in DOMAIN Catalog : /\ Catalog[p].id \in Ids
                                 /\ DOMAIN Catalog[p].needs \subseteq Ids
    /\ ShardOf \in [Ids -> Nat]
ASSUME SettingAssumption ==
    \A x \in Settings :
        /\ x.installed \subseteq DOMAIN Catalog /\ x.registry \subseteq DOMAIN Catalog
        /\ x.foreign \in DOMAIN Catalog
        /\ x.interruptions \in Nat /\ x.losses \in Nat /\ x.meddles \in Nat
        /\ DOMAIN x.work \subseteq Commands
        /\ \A c \in DOMAIN x.work :
             /\ x.work[c].kind \in {"install", "uninstall"} /\ x.work[c].id \in Ids
             /\ x.work[c].pkg \in DOMAIN Catalog \cup {""} /\ x.work[c].force \in BOOLEAN

VARIABLES
    setting,      \* the member of Settings this behaviour is about
    dir,          \* the generators directory as processes see it
    unsynced,     \* the states of dir a power loss may leave: since the last sync
    at,           \* per command: the step it takes next, or how it ended
    job,          \* per command: what it remembers
    drawn,        \* backup names drawn so far
    wanted,       \* ids that are installed and whose removal has not begun
    removed,      \* ids whose uninstall has reported success and that nobody put back
    interruptions, losses, meddles

installVars == <<setting, dir, unsynced, at, job, drawn, wanted, removed,
                 interruptions, losses, meddles>>

-----------------------------------------------------------------------------
(* The directory: per id a target, per backup name a directory and a       *)
(* sidecar.                                                                *)

Vacant == [is |-> "none", pkg |-> "", own |-> TRUE]
Copy(p) == [is |-> "package", pkg |-> p, own |-> TRUE]
NoSidecar == [id |-> 0, phase |-> "none"]
Phases == {"prepared", "owned", "restoring", "cleaning"}

Id(p) == Catalog[p].id
Needs(p) == Catalog[p].needs
Accepts(p, i, q) == Id(q) = i /\ Catalog[q].version \in Needs(p)[i]

\* verify_backup_identity and load_verified_contract
Verified(x, i) == x.is = "package" /\ Id(x.pkg) = i
\* is_dir; what a removal left half-done is still a directory
IsDir(x) == x.is \in {"package", "corrupt"}

\* read_backup_record: a record whose backup path holds something else than a
\* directory is unknown, unless its phase already gave the path up.
Readable(s) == /\ dir.sidecar[s].phase # "none"
               /\ dir.backup[s].is = "file" => dir.sidecar[s].phase \in {"restoring", "cleaning"}
RecordAt(s) == [slot |-> s, id |-> dir.sidecar[s].id, phase |-> dir.sidecar[s].phase]
Records == {RecordAt(s) : s \in {s \in Slots : Readable(s)}}
RecordsFor(i) == {r \in Records : r.id = i}
NoRecord == [slot |-> 0, id |-> 0, phase |-> "none"]
\* current_backup_record
Unchanged(r) == Readable(r.slot) /\ RecordAt(r.slot) = r

\* A change that is visible at once and lost with the power; one that starts
\* from a synced parent; one that is synced itself (write_sidecar_atomic).
Change(d) == dir' = d /\ unsynced' = unsynced \cup {d}
SyncThen(d) == dir' = d /\ unsynced' = {dir, d}
Persist(d) == dir' = d /\ unsynced' = {d}
Sync == dir' = dir /\ unsynced' = {dir}
SameDir == UNCHANGED <<dir, unsynced>>

SetPhase(s, phase) == [dir EXCEPT !.sidecar[s].phase = phase]

-----------------------------------------------------------------------------
(* Commands and their locks.                                               *)

Ended == {"ok", "failed"}
Work(c) == setting.work[c]
NoJob == [held |-> {}, want |-> {}, ids |-> {}, recs |-> {}, rec |-> NoRecord,
          then |-> "", bad |-> FALSE, stack |-> <<>>, chosen |-> {}, plan |-> <<>>,
          ready |-> <<>>]

Goto(c, step, j) == /\ at' = [at EXCEPT ![c] = step]
                    /\ job' = [job EXCEPT ![c] = j]
Step(c, step) == Goto(c, step, job[c])
\* Not the code's: an ended command keeps its locks.
EndHolding(c, how) == Step(c, how)
End(c, how) == Goto(c, how, NoJob)
Bounds == <<interruptions, losses, meddles>>
Quiet == UNCHANGED <<setting, drawn, wanted, removed, Bounds>>

\* The global locks of the process and of the directory, then the shards of the
\* process, then the ids' lock files.
Lock(stage, scope, n, shared) == [stage |-> stage, scope |-> scope, n |-> n, shared |-> shared]
Locks(c, ids, shared) ==
    {Lock(1, Work(c).process, 0, shared), Lock(2, "", 0, shared)}
    \cup {Lock(3, Work(c).process, ShardOf[i], FALSE) : i \in ids}
    \cup {Lock(4, "", i, FALSE) : i \in ids}
Same(l, m) == l.stage = m.stage /\ l.scope = m.scope /\ l.n = m.n
Blocked(c, l) == \E o \in Commands \ {c} : \E m \in job[o].held :
                    Same(l, m) /\ ~(l.shared /\ m.shared)

\* lock_closure_ids: shards by index, then ids in order.
\* Not the code's: ids are locked in the order the closure names them.
AnyOrder(l, m) == IF l.stage = m.stage /\ l.stage > 2 THEN TRUE ELSE l.stage < m.stage
LockOrder(l, m) == IF l.stage = m.stage THEN l.n < m.n ELSE l.stage < m.stage
IsNextLock(c, l) == \A m \in job[c].want \ {l} : LockOrder(l, m)
AcquireLock(c) ==
    /\ at[c] = "lock"
    /\ IF job[c].want = {} THEN Step(c, "check")
       ELSE \E l \in job[c].want :
              /\ IsNextLock(c, l) /\ ~Blocked(c, l)
              /\ Goto(c, "lock", [job[c] EXCEPT !.want = @ \ {l}, !.held = @ \cup {l}])
    /\ SameDir /\ Quiet

\* with_backup_maintenance_lock tries each lock and never waits.
MayMaintain(c, i) == \A l \in Locks(c, {i}, TRUE) : ~Blocked(c, l)

-----------------------------------------------------------------------------
(* reap_stale_install_tmps: recovery of every id that has a record, then   *)
(* the sweep of old records.                                               *)

Least(S) == CHOOSE i \in S : \A k \in S : i <= k

BeginInstall(c) ==
    /\ at[c] = "idle" /\ Work(c).kind = "install"
    /\ Goto(c, "recover", [NoJob EXCEPT !.ids = {r.id : r \in Records}])
    /\ SameDir /\ Quiet

\* recover_interrupted_backup, for a missing target.
Occupied(i) == {r \in RecordsFor(i) : dir.backup[r.slot].is # "none"}
Ambiguous(i) ==
    \/ \E r \in RecordsFor(i) : r.phase \in {"restoring", "cleaning"}
    \/ \E r \in Occupied(i) : r.phase # "owned"
    \/ Cardinality(Occupied(i)) > 1

RecoverNext(c) ==
    /\ at[c] = "recover" /\ job[c].ids # {}
    /\ LET i == Least(job[c].ids)
           later == [job[c] EXCEPT !.ids = @ \ {i}]
       IN  IF ~MayMaintain(c, i) \/ dir.target[i].is # "none" THEN Goto(c, "recover", later)
           ELSE \/ Ambiguous(i) /\ End(c, "failed")
                \/ Occupied(i) = {} /\ ~Ambiguous(i) /\ Goto(c, "recover", later)
                \/ \E r \in Occupied(i) :
                     /\ ~Ambiguous(i)
                     /\ Goto(c, "restore", [later EXCEPT !.held = Locks(c, {i}, TRUE),
                                                         !.rec = r, !.then = "recover"])
    /\ SameDir /\ Quiet

RecoverDone(c) ==
    /\ at[c] = "recover" /\ job[c].ids = {}
    /\ Goto(c, "sweep", [job[c] EXCEPT !.recs = Records])
    /\ SameDir /\ Quiet

\* A record is left alone when it is young, its id is busy or its target gone.
SweepSkip(c) ==
    /\ at[c] = "sweep"
    /\ \E r \in job[c].recs : Goto(c, "sweep", [job[c] EXCEPT !.recs = @ \ {r}])
    /\ SameDir /\ Quiet

SweepRecord(c) ==
    /\ at[c] = "sweep"
    /\ \E r \in job[c].recs :
         /\ MayMaintain(c, r.id) /\ dir.target[r.id].is # "none"
         /\ IF Verified(dir.target[r.id], r.id)
            THEN /\ Sync
                 /\ Goto(c, "remove", [job[c] EXCEPT !.held = Locks(c, {r.id}, TRUE),
                                                     !.rec = r, !.then = "sweep"])
            ELSE /\ SameDir
                 /\ Goto(c, "sweep", [job[c] EXCEPT !.recs = @ \ {r}, !.bad = TRUE])
    /\ Quiet

SweepDone(c) ==
    /\ at[c] = "sweep" /\ job[c].recs = {}
    /\ IF job[c].bad THEN End(c, "failed") ELSE Step(c, "plan")
    /\ SameDir /\ Quiet

-----------------------------------------------------------------------------
(* restore_backup and remove_backup_record.  Both end with the removal of  *)
(* the sidecar, and go on as `then' says.                                  *)

\* An error ends the command; the sweep collects it and goes on.
Error(c) == IF job[c].then = "sweep"
            THEN Goto(c, "sweep", [job[c] EXCEPT !.held = {}, !.bad = TRUE,
                                                 !.recs = @ \ {job[c].rec}])
            ELSE End(c, "failed")

RestoreBegin(c) ==
    /\ at[c] = "restore"
    /\ LET r == job[c].rec
       IN  IF Unchanged(r) /\ Verified(dir.backup[r.slot], r.id)
           THEN Persist(SetPhase(r.slot, "restoring")) /\ Step(c, "restoreMove")
           ELSE SameDir /\ Error(c)
    /\ Quiet

\* The rename back.  A conflict is a definite no-move: ownership returns.
RestoreMove(c) ==
    /\ at[c] = "restoreMove"
    /\ LET r == job[c].rec
       IN  IF dir.target[r.id].is = "none"
           THEN /\ Change([dir EXCEPT !.target[r.id] = dir.backup[r.slot],
                                      !.backup[r.slot] = Vacant])
                /\ Step(c, "dropSidecar")
           ELSE Persist(SetPhase(r.slot, "owned")) /\ Error(c)
    /\ Quiet

\* Only an owned record removes a directory, after giving it up as cleaning; the
\* others ask for a vacant path, and for a verified target once it was given up.
\* Not the code's: the directory goes while the record still owns it.
EraseOwned(c, r) == /\ Change([dir EXCEPT !.backup[r.slot] = Vacant])
                    /\ Step(c, "dropSidecar")
GiveUp(c, r) == Persist(SetPhase(r.slot, "cleaning")) /\ Step(c, "erase")
RemoveBegin(c) ==
    /\ at[c] = "remove"
    /\ LET r == job[c].rec
           vacant == dir.backup[r.slot].is = "none"
       IN  \/ /\ Unchanged(r) /\ r.phase = "owned" /\ GiveUp(c, r)
           \/ /\ Unchanged(r) /\ r.phase = "prepared" /\ vacant
              /\ SameDir /\ Step(c, "dropSidecar")
           \/ /\ Unchanged(r) /\ r.phase \in {"restoring", "cleaning"} /\ vacant
              /\ Verified(dir.target[r.id], r.id)
              /\ Sync /\ Step(c, "dropSidecar")
           \/ /\ \/ ~Unchanged(r)
                 \/ r.phase # "owned" /\ ~vacant
                 \/ r.phase \in {"restoring", "cleaning"} /\ ~Verified(dir.target[r.id], r.id)
              /\ SameDir /\ Error(c)
    /\ Quiet

Erase(c) ==
    /\ at[c] = "erase"
    /\ Change([dir EXCEPT !.backup[job[c].rec.slot] = Vacant])
    /\ Step(c, "dropSidecar")
    /\ Quiet

DropSidecar(c) ==
    /\ at[c] = "dropSidecar"
    /\ SyncThen([dir EXCEPT !.sidecar[job[c].rec.slot] = NoSidecar])
    /\ Step(c, "dropped")
    /\ Quiet

Dropped(c) ==
    /\ at[c] = "dropped"
    /\ Sync
    /\ LET j == job[c]
           less == [j EXCEPT !.recs = @ \ {j.rec}]
       IN  \/ j.then = "recover" /\ Goto(c, "recover", [j EXCEPT !.held = {}])
           \/ j.then = "sweep" /\ Goto(c, "sweep", [less EXCEPT !.held = {}])
           \/ j.then \in {"clear", "unlist"} /\ Goto(c, j.then, less)
           \/ j.then = "pending" /\ Step(c, "pending")
           \/ j.then = "commit" /\ Goto(c, "commit", [j EXCEPT !.ready = Tail(@)])
           \/ j.then = "rollback" /\ End(c, "failed")
    /\ Quiet

-----------------------------------------------------------------------------
(* Planning: stage_closure_for_manifest, as a stack of manifests whose     *)
(* dependencies are still to be looked at.  Nothing is locked here: each   *)
(* look at the directory may be outdated when the next one happens.        *)

Frame(p, kind) == [pkg |-> p, kind |-> kind, left |-> DOMAIN Needs(p)]
Visiting(stack) == {Id(stack[k].pkg) : k \in DOMAIN stack}
Cyclic(stack, p) == DOMAIN Needs(p) \cap (Visiting(stack) \cup {Id(p)}) # {}

\* A package is entered: its dependencies are validated before any is staged.
Enter(c, stack, p, kind, chosen) ==
    IF Cyclic(stack, p) THEN End(c, "failed")
    ELSE Goto(c, "walk", [job[c] EXCEPT !.stack = <<Frame(p, kind)>> \o stack,
                                        !.chosen = chosen])

\* What load_installed_version_and_manifest makes of a target.  A package whose
\* removal was cut short may have lost its manifest or fail verification.
Look(i, req) ==
    CASE dir.target[i].is = "none" -> {"stage"}
      [] dir.target[i].is = "corrupt" -> {"stage", "refuse"}
      [] dir.target[i].is = "file" -> {"refuse"}
      [] OTHER -> IF Catalog[dir.target[i].pkg].version \in req THEN {"reuse"} ELSE {"replace"}

\* registry::resolve takes the newest version that satisfies the requirement.
Offers(i, req) == {p \in setting.registry : Id(p) = i /\ Catalog[p].version \in req}
Newest(S) == {p \in S : \A q \in S : Catalog[q].version <= Catalog[p].version}

Resolve(c, stack, i, req, kind) ==
    \E how \in Look(i, req) :
       LET fetch == how = "stage" \/ (how = "replace" /\ Work(c).force)
       IN  \/ how = "reuse" /\ Enter(c, stack, dir.target[i].pkg, "reuse",
                                     job[c].chosen \cup {dir.target[i].pkg})
           \/ /\ fetch
              /\ \E p \in Newest(Offers(i, req)) : Enter(c, stack, p, kind, job[c].chosen)
           \/ /\ how # "reuse" /\ (fetch => Offers(i, req) = {})
              /\ End(c, "failed")

\* install_registry_package, or a package given as a path.
Plan(c) ==
    /\ at[c] = "plan"
    /\ IF Work(c).pkg # "" THEN Enter(c, <<>>, Work(c).pkg, "root", {})
       ELSE Resolve(c, <<>>, Work(c).id, Work(c).req, "root")
    /\ SameDir /\ Quiet

WalkDependency(c) ==
    /\ at[c] = "walk" /\ job[c].stack # <<>> /\ Head(job[c].stack).left # {}
    /\ LET top == Head(job[c].stack)
           i == Least(top.left)
           req == Needs(top.pkg)[i]
           rest == <<[top EXCEPT !.left = @ \ {i}]>> \o Tail(job[c].stack)
           same == {p \in job[c].chosen : Id(p) = i}
       IN  IF same = {} THEN Resolve(c, rest, i, req, "stage")
           ELSE IF \A p \in same : Catalog[p].version \in req
           THEN Goto(c, "walk", [job[c] EXCEPT !.stack = rest])
           ELSE End(c, "failed")
    /\ SameDir /\ Quiet

\* A manifest whose dependencies are all planned comes after them.
WalkUp(c) ==
    /\ at[c] = "walk" /\ job[c].stack # <<>> /\ Head(job[c].stack).left = {}
    /\ LET top == Head(job[c].stack)
       IN  Goto(c, "walk",
                [job[c] EXCEPT !.stack = Tail(@),
                               !.plan = IF top.kind = "reuse" THEN @ ELSE Append(@, top.pkg),
                               !.chosen = IF top.kind = "stage" THEN @ \cup {top.pkg} ELSE @])
    /\ SameDir /\ Quiet

\* prepare_install: the copy on the destination filesystem, and whether the
\* commit will have something to replace.
Prepare(c) ==
    /\ at[c] = "walk" /\ job[c].stack = <<>> /\ job[c].plan # <<>>
    /\ LET p == Head(job[c].plan)
           exists == dir.target[Id(p)].is # "none"
       IN  IF exists /\ ~Work(c).force THEN End(c, "failed")
           ELSE Goto(c, "walk", [job[c] EXCEPT
                   !.plan = Tail(@), !.ready = Append(@, [pkg |-> p, replace |-> exists])])
    /\ SameDir /\ Quiet

Staged(c) == {job[c].ready[k].pkg : k \in DOMAIN job[c].ready}
PrepareDone(c) ==
    /\ at[c] = "walk" /\ job[c].stack = <<>> /\ job[c].plan = <<>>
    /\ Goto(c, "lock", [job[c] EXCEPT
          !.want = Locks(c, {Id(p) : p \in Staged(c) \cup job[c].chosen}, TRUE)])
    /\ SameDir /\ Quiet

-----------------------------------------------------------------------------
(* commit_prepared_closure and commit_install_locked.                      *)

\* Under the locks: every reused package is still what was selected, and the
\* plan is a closure.
\* Not the code's: a plan is not looked at again.
StillTrusted(c) == TRUE
StillTrue(c) ==
    LET plan == Staged(c) \cup job[c].chosen
    IN  /\ \A p \in job[c].chosen \ Staged(c) :
             Verified(dir.target[Id(p)], Id(p)) /\ dir.target[Id(p)].pkg = p
        /\ \A p \in plan : \A i \in DOMAIN Needs(p) : \E q \in plan : Accepts(p, i, q)

CheckPlan(c) ==
    /\ at[c] = "check" /\ Work(c).kind = "install"
    /\ IF StillTrue(c) THEN Step(c, "commit") ELSE End(c, "failed")
    /\ SameDir /\ Quiet

Now(c) == Head(job[c].ready)
NowId(c) == Id(Now(c).pkg)

CommitBegin(c) ==
    /\ at[c] = "commit" /\ job[c].ready # <<>>
    /\ LET i == NowId(c)
           lost == dir.target[i].is = "none"
       IN  \/ lost /\ Ambiguous(i) /\ End(c, "failed")
           \/ lost /\ ~Ambiguous(i) /\ \E r \in Occupied(i) :
                Goto(c, "restore", [job[c] EXCEPT !.rec = r, !.then = "pending"])
           \/ (lost => ~Ambiguous(i) /\ Occupied(i) = {}) /\ Step(c, "pending")
    /\ SameDir /\ Quiet

\* No second generation while an earlier recovery record is pending.
Pending(c) ==
    /\ at[c] = "pending"
    /\ LET i == NowId(c)
       IN  \/ RecordsFor(i) = {} /\ SameDir /\ Step(c, "mark")
           \/ /\ RecordsFor(i) # {} /\ Verified(dir.target[i], i)
              /\ Sync /\ Goto(c, "clear", [job[c] EXCEPT !.recs = RecordsFor(i)])
           \/ /\ RecordsFor(i) # {} /\ ~Verified(dir.target[i], i)
              /\ SameDir /\ End(c, "failed")
    /\ Quiet

Clear(c) ==
    /\ at[c] = "clear"
    /\ \/ job[c].recs = {} /\ Step(c, "mark")
       \/ \E r \in job[c].recs : Goto(c, "remove", [job[c] EXCEPT !.rec = r, !.then = "clear"])
    /\ SameDir /\ Quiet

\* write_backup_marker, before the old package is moved: not yet its owner.
\* Not the code's: the marker claims the backup path at once.
ClaimingMarker(i) == [id |-> i, phase |-> "owned"]
Marker(i) == [id |-> i, phase |-> "prepared"]
Mark(c) ==
    /\ at[c] = "mark"
    /\ \/ /\ ~Now(c).replace
          /\ SameDir /\ UNCHANGED drawn /\ Step(c, "publish")
       \/ /\ Now(c).replace /\ ~IsDir(dir.target[NowId(c)])
          /\ SameDir /\ UNCHANGED drawn /\ End(c, "failed")
       \/ /\ Now(c).replace /\ IsDir(dir.target[NowId(c)]) /\ drawn + 1 \in Slots
          /\ drawn' = drawn + 1
          /\ Persist([dir EXCEPT !.sidecar[drawn'] = Marker(NowId(c))])
          /\ Goto(c, "move", [job[c] EXCEPT
                !.rec = [slot |-> drawn', id |-> NowId(c), phase |-> "owned"]])
    /\ UNCHANGED <<setting, wanted, removed, Bounds>>

MoveAway(c) ==
    /\ at[c] = "move"
    /\ LET r == job[c].rec
       IN  IF dir.backup[r.slot].is = "none"
           THEN /\ Change([dir EXCEPT !.backup[r.slot] = [dir.target[r.id] EXCEPT !.own = TRUE],
                                      !.target[r.id] = Vacant])
                /\ Step(c, "own")
           ELSE SameDir /\ End(c, "failed")
    /\ Quiet

\* The parent is synced before confirm_backup_ownership.
Own(c) ==
    /\ at[c] = "own"
    /\ Persist(SetPhase(job[c].rec.slot, "owned"))
    /\ Step(c, "publish")
    /\ Quiet

\* Not the code's: a failed publication cleans its backup up.
RollbackCleans(c) == Goto(c, "remove", [job[c] EXCEPT !.then = "rollback"])
Rollback(c) == Goto(c, "restore", [job[c] EXCEPT !.then = "rollback"])
Publish(c) ==
    /\ at[c] = "publish"
    /\ \/ /\ dir.target[NowId(c)].is = "none"
          /\ Change([dir EXCEPT !.target[NowId(c)] = Copy(Now(c).pkg)])
          /\ removed' = removed \ {NowId(c)}
          /\ Step(c, "published")
       \/ /\ dir.target[NowId(c)].is # "none"
          /\ IF Now(c).replace THEN Rollback(c) ELSE End(c, "failed")
          /\ SameDir /\ UNCHANGED removed
    /\ UNCHANGED <<setting, drawn, wanted, Bounds>>

\* The parent is synced and the new package verified; only then does the backup go.
Published(c) ==
    /\ at[c] = "published"
    /\ Sync
    /\ wanted' = wanted \cup {NowId(c)}
    /\ IF ~Now(c).replace THEN Goto(c, "commit", [job[c] EXCEPT !.ready = Tail(@)])
       ELSE IF Verified(dir.target[NowId(c)], NowId(c))
       THEN Goto(c, "remove", [job[c] EXCEPT !.then = "commit"])
       ELSE End(c, "failed")
    /\ UNCHANGED <<setting, drawn, removed, Bounds>>

CommitDone(c) ==
    /\ at[c] = "commit" /\ job[c].ready = <<>>
    /\ End(c, "ok") /\ SameDir /\ Quiet

-----------------------------------------------------------------------------
(* uninstall.                                                              *)

\* The target must be there with a manifest; a removal cut short may have left
\* a directory with or without one.
BeginUninstall(c) ==
    /\ at[c] = "idle" /\ Work(c).kind = "uninstall"
    /\ LET x == dir.target[Work(c).id]
       IN  \/ IsDir(x) /\ Goto(c, "lock", [NoJob EXCEPT !.want = Locks(c, {Work(c).id}, FALSE)])
           \/ x.is # "package" /\ End(c, "failed")
    /\ SameDir /\ Quiet

\* installed_dependents reads the targets; one that does not verify refuses.
Dependents(i) == {k \in Ids \ {i} : /\ dir.target[k].is = "package"
                                    /\ i \in DOMAIN Needs(dir.target[k].pkg)}
CheckUninstall(c) ==
    /\ at[c] = "check" /\ Work(c).kind = "uninstall"
    /\ LET i == Work(c).id
       IN  \/ /\ Dependents(i) = {} /\ IsDir(dir.target[i])
              /\ Goto(c, "unlist", [job[c] EXCEPT !.recs = RecordsFor(i)])
           \/ /\ \/ Dependents(i) # {}
                 \/ \E k \in Ids \ {i} : dir.target[k].is = "corrupt"
                 \/ ~IsDir(dir.target[i])
              /\ End(c, "failed")
    /\ SameDir /\ Quiet

\* Recovery copies go before the target, or a later recovery would bring it back.
\* Not the code's: the recovery copies are left to the sweep.
LeaveListed(c) == Step(c, "eraseTarget")
UnlistNext(c) ==
    \/ job[c].recs = {} /\ Step(c, "eraseTarget")
    \/ \E r \in job[c].recs : Goto(c, "remove", [job[c] EXCEPT !.rec = r, !.then = "unlist"])
Unlist(c) == at[c] = "unlist" /\ UnlistNext(c) /\ SameDir /\ Quiet

EraseTarget(c) ==
    /\ at[c] = "eraseTarget"
    /\ wanted' = wanted \ {Work(c).id}
    /\ Change([dir EXCEPT !.target[Work(c).id] = Vacant])
    /\ Step(c, "gone")
    /\ UNCHANGED <<setting, drawn, removed, Bounds>>

Gone(c) ==
    /\ at[c] = "gone"
    /\ Sync
    /\ removed' = removed \cup {i \in {Work(c).id} : dir.target[i].is = "none"}
    /\ End(c, "ok")
    /\ UNCHANGED <<setting, drawn, wanted, Bounds>>

-----------------------------------------------------------------------------
(* What goes wrong.                                                        *)

Active == {c \in Commands : at[c] \notin Ended \cup {"idle"}}

\* The publishing rename fails: the backup is put back.
PublishFails(c) ==
    /\ at[c] = "publish" /\ Now(c).replace
    /\ interruptions < setting.interruptions
    /\ interruptions' = interruptions + 1
    /\ Rollback(c) /\ SameDir
    /\ UNCHANGED <<setting, drawn, wanted, removed, losses, meddles>>

\* A command is killed or fails between two of its steps; its locks go with it.
\* One that is killed while it removes a directory leaves a part of it.
Partly(x) == [x EXCEPT !.is = "corrupt"]
Interrupt(c) ==
    /\ c \in Active /\ interruptions < setting.interruptions
    /\ interruptions' = interruptions + 1
    /\ End(c, "failed")
    /\ \/ SameDir /\ UNCHANGED wanted
       \/ /\ at[c] = "erase" /\ IsDir(dir.backup[job[c].rec.slot])
          /\ Change([dir EXCEPT !.backup[job[c].rec.slot] = Partly(@)])
          /\ UNCHANGED wanted
       \/ /\ at[c] = "eraseTarget" /\ IsDir(dir.target[Work(c).id])
          /\ Change([dir EXCEPT !.target[Work(c).id] = Partly(@)])
          /\ wanted' = wanted \ {Work(c).id}
    /\ UNCHANGED <<setting, drawn, removed, losses, meddles>>

\* Every process dies, and the directory is one it was since its last sync.
PowerLoss ==
    /\ losses < setting.losses /\ Active # {}
    /\ losses' = losses + 1
    /\ at' = [c \in Commands |-> IF c \in Active THEN "failed" ELSE at[c]]
    /\ job' = [c \in Commands |-> NoJob]
    /\ dir' \in unsynced /\ unsynced' = {dir'}
    /\ UNCHANGED <<setting, drawn, wanted, removed, interruptions, meddles>>

\* Somebody else puts something where nothing is, without the locks.
Foreign == [Copy(setting.foreign) EXCEPT !.own = FALSE]
ForeignFile == [is |-> "file", pkg |-> "", own |-> FALSE]
Meddle ==
    /\ meddles < setting.meddles
    /\ meddles' = meddles + 1
    /\ \/ \E s \in 1 .. drawn, x \in {Foreign, ForeignFile} :
            /\ dir.backup[s].is = "none"
            /\ Change([dir EXCEPT !.backup[s] = x])
            /\ UNCHANGED removed
       \/ \E x \in {Foreign, ForeignFile} :
            LET i == Id(setting.foreign)
            IN  /\ dir.target[i].is = "none"
                /\ Change([dir EXCEPT !.target[i] = x])
                /\ removed' = removed \ {i}
    /\ UNCHANGED <<setting, at, job, drawn, wanted, interruptions, losses>>

-----------------------------------------------------------------------------

InstallInit ==
    /\ setting \in Settings
    /\ dir = [target  |-> [i \in Ids |-> LET mine == {p \in setting.installed : Id(p) = i}
                                        IN  IF mine = {} THEN Vacant
                                            ELSE Copy(CHOOSE p \in mine : TRUE)],
              backup  |-> [s \in Slots |-> Vacant],
              sidecar |-> [s \in Slots |-> NoSidecar]]
    /\ unsynced = {dir}
    /\ at = [c \in Commands |-> IF c \in DOMAIN setting.work THEN "idle" ELSE "ok"]
    /\ job = [c \in Commands |-> NoJob]
    /\ drawn = 0 /\ wanted = {Id(p) : p \in setting.installed} /\ removed = {}
    /\ interruptions = 0 /\ losses = 0 /\ meddles = 0

\* The command line was used up: nothing more happens.
Rest == (\A c \in Commands : at[c] \in Ended) /\ UNCHANGED installVars

Recovering(c) == RecoverNext(c) \/ RecoverDone(c) \/ SweepSkip(c) \/ SweepRecord(c) \/ SweepDone(c)
Moving(c) == RestoreBegin(c) \/ RestoreMove(c) \/ RemoveBegin(c) \/ Erase(c) \/ DropSidecar(c) \/ Dropped(c)
Planning(c) == Plan(c) \/ WalkDependency(c) \/ WalkUp(c) \/ Prepare(c) \/ PrepareDone(c)
Committing(c) == CheckPlan(c) \/ CommitBegin(c) \/ Pending(c) \/ Clear(c) \/ Mark(c) \/ MoveAway(c)
                 \/ Own(c) \/ Publish(c) \/ Published(c) \/ CommitDone(c)
Uninstalling(c) == BeginUninstall(c) \/ CheckUninstall(c) \/ Unlist(c) \/ EraseTarget(c) \/ Gone(c)

InstallNext ==
    \/ \E c \in Commands :
         BeginInstall(c) \/ Recovering(c) \/ Moving(c) \/ Planning(c) \/ AcquireLock(c)
         \/ Committing(c) \/ Uninstalling(c) \/ PublishFails(c) \/ Interrupt(c)
    \/ PowerLoss \/ Meddle \/ Rest

InstallSpec == InstallInit /\ [][InstallNext]_installVars

-----------------------------------------------------------------------------
(* Properties.                                                             *)

Contents == [is : {"none", "package", "corrupt", "file"}, pkg : DOMAIN Catalog \cup {""}, own : BOOLEAN]
Sidecars == [id : Ids \cup {0}, phase : Phases \cup {"none"}]
Directories == [target : [Ids -> Contents], backup : [Slots -> Contents],
                sidecar : [Slots -> Sidecars]]
Steps == {"idle", "recover", "sweep", "restore", "restoreMove", "remove", "erase", "dropSidecar",
          "dropped", "plan", "walk", "lock", "check", "commit", "pending", "clear", "mark", "move",
          "own", "publish", "published", "unlist", "eraseTarget", "gone"}

\* The directory and every state a power loss may leave are directories, every
\* command is at one of its steps, and only a command under way holds locks.
InstallTypeOK ==
    /\ setting \in Settings
    /\ dir \in unsynced /\ \A d \in unsynced : d \in Directories
    /\ at \in [Commands -> Steps \cup Ended]
    /\ \A c \in Commands : at[c] \in Ended \cup {"idle"} => job[c] = NoJob
    /\ drawn \in {0} \cup Slots
    /\ wanted \subseteq Ids /\ removed \subseteq Ids
    /\ interruptions \in 0 .. setting.interruptions
    /\ losses \in 0 .. setting.losses /\ meddles \in 0 .. setting.meddles

\* A record in the owned phase authorises recovery to move or delete a directory.
\* In whatever state the power may go, what is at its backup path is the package
\* that a commit moved there, never something that merely has its name.
OwnedProvesCopy ==
    \A d \in unsynced, s \in Slots :
       d.sidecar[s].phase = "owned" => d.backup[s].own /\ IsDir(d.backup[s])

\* A package that was installed and that nobody began to uninstall is never lost:
\* whatever is killed and whenever the power goes, it is at its target, in its old
\* or its new version, or whole in a backup whose sidecar names it.
NoPackageLost ==
    \A i \in wanted, d \in unsynced :
       \/ Verified(d.target[i], i)
       \/ \E s \in Slots : /\ d.sidecar[s].id = i
                           /\ d.backup[s].own /\ Verified(d.backup[s], i)

\* Recovery, sweep, commit and uninstall never move, change or delete a directory
\* or file that somebody else put at a backup path.
ForeignIsUntouched ==
    [][\A s \in Slots : dir.backup[s].own \/ dir'.backup[s] = dir.backup[s] \/ losses' # losses]_installVars

\* Once an uninstall has reported success the package stays gone, in every state a
\* power loss may leave, until it is installed again.
UninstallIsFinal ==
    \A i \in removed, d \in unsynced : d.target[i].is = "none"

\* A package published here always finds the packages it depends on, installed or
\* in the middle of a replacement: closures are published leaves first and an
\* uninstall refuses what is needed.
DependenciesPresent ==
    \A d \in unsynced, k \in Ids :
       d.target[k].is = "package" /\ d.target[k].own =>
          \A i \in DOMAIN Needs(d.target[k].pkg) :
             \/ d.target[i].is # "none"
             \/ \E s \in Slots : d.sidecar[s].id = i /\ IsDir(d.backup[s])

\* Commands never all wait for one another's locks, whatever closures they have
\* and whichever share a process.
SomeoneProceeds ==
    LET waiting == {c \in Commands : at[c] = "lock" /\ job[c].want # {}}
    IN  Active # {} /\ Active = waiting =>
          \E c \in waiting : \E l \in job[c].want : IsNextLock(c, l) /\ ~Blocked(c, l)
=============================================================================
