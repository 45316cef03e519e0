-------------------------- MODULE IdempotencyLedger --------------------------
(***************************************************************************)
(* The idempotency ledger of the HTTP server: requests that carry the same *)
(* Idempotency-Key, on several server processes that share one run store.  *)
(* One key is modelled (every file and every lock is per key); the other   *)
(* keys appear as a full cache, which may refuse or evict at any moment.   *)
(*                                                                         *)
(* A request is one HTTP attempt; a client's retry is a further request.   *)
(* An action is what happens between two awaits of with_idempotency: the   *)
(* metadata lock makes the disk operations atomic, the execution gate is a *)
(* file lock that a process crash releases.                                *)
(***************************************************************************)
EXTENDS Integers, FiniteSets

CONSTANTS
    Requests,       \* HTTP attempts; a request also names the run id it reserves
    Servers,        \* server processes over the shared store
    ServerOf,       \* [Requests -> Servers]
    Contents,       \* the assignments of digests to requests: subset of
                    \* [Requests -> digests]; equal digests are retries
    ReadyTtl,       \* policy_ttl, in ticks
    PendingTtl,     \* PENDING_TTL_SECS, in ticks
    Impatient,      \* the requests whose client may disconnect
    MaxClock,       \* bound on the clock
    MaxCrashes      \* bound on process crashes

ASSUME LedgerAssumption ==
    /\ ServerOf \in [Requests -> Servers]
    /\ \A c \in Contents : DOMAIN c = Requests
    /\ ReadyTtl \in Nat \ {0} /\ PendingTtl \in Nat \ {0}
    /\ MaxClock \in Nat /\ MaxCrashes \in Nat

VARIABLES
    content,        \* the request digests of this behaviour
    now,            \* wall clock
    pendingFile,    \* <key>.pending.json: the durable claim
    readyFile,      \* <key>.json: the committed record
    expiryIndex,    \* .expiry: records scheduled for retirement
    sidecars,       \* meta/idempotency.json of the runs: set of [run, digest, created]
    gate,           \* holder of the per-key execution gate
    entries,        \* per server: the in-memory entry of the key
    stage,          \* per request: where with_idempotency stands
    hold,           \* per request: locals carried over awaits
    accepted,       \* runs the service has accepted
    published,      \* history: every Ready record ever renamed into place
    crashes

ledgerVars == <<content, now, pendingFile, readyFile, expiryIndex, sidecars, gate,
                entries, stage, hold, accepted, published, crashes>>

Digests == UNION {{c[r] : r \in Requests} : c \in Contents}
Absent == [kind |-> "absent"]
NoRun == "no run"
Nobody == "nobody"
ASSUME SentinelAssumption == NoRun \notin Requests /\ Nobody \notin Requests

Pending(d, run, owner, gen) ==
    [kind |-> "pending", digest |-> d, run |-> run, owner |-> owner,
     created |-> now, gen |-> gen]
Ready(d, run, gen) ==
    [kind |-> "ready", digest |-> d, run |-> run, created |-> now, gen |-> gen]

\* What a request keeps across awaits: the run it carries from a waiter or a
\* sidecar, the record it is about to replay, the run of its claim.
EmptyHold == [carried |-> NoRun, record |-> Absent, run |-> NoRun, gen |-> 0]

ReadyExpired(rec) == now - rec.created >= ReadyTtl
PendingExpired(rec) == now - rec.created >= PendingTtl
LoadReady == IF readyFile # Absent /\ ~ReadyExpired(readyFile)
             THEN readyFile ELSE Absent

Ended == {"answered", "conflict", "busy", "failed", "dropped"}

LedgerInit ==
    /\ content \in Contents
    /\ now = 0
    /\ pendingFile = Absent /\ readyFile = Absent
    /\ expiryIndex = {} /\ sidecars = {}
    /\ gate = Nobody
    /\ entries = [s \in Servers |-> Absent]
    /\ stage = [r \in Requests |-> "new"]
    /\ hold = [r \in Requests |-> EmptyHold]
    /\ accepted = {} /\ published = {}
    /\ crashes = 0

-----------------------------------------------------------------------------
(* Moving a request. *)

\* Locals end with the request; a remembered record ends with its use.
Move(r, s, locals) ==
    /\ stage' = [stage EXCEPT ![r] = s]
    /\ hold' = [hold EXCEPT ![r] =
          IF s \in Ended THEN EmptyHold
          ELSE IF s \in {"replay", "wait", "publish"} THEN locals
          ELSE [locals EXCEPT !.record = Absent]]
Goto(r, s) == Move(r, s, hold[r])
Replay(r, rec) == Move(r, "replay", [hold[r] EXCEPT !.record = rec])
WaitFor(r, e) == IF e.digest # content[r] THEN Goto(r, "conflict")
                 ELSE Move(r, "wait", [hold[r] EXCEPT !.record = e])
Carry(r, run) == Move(r, "new", [hold[r] EXCEPT !.carried = IF @ = NoRun THEN run ELSE @])
DropGate(r) == gate' = IF gate = r THEN Nobody ELSE gate
MemoryOf(r) == entries[ServerOf[r]]
SetMemory(r, e) == entries' = [entries EXCEPT ![ServerOf[r]] = e]
MemoryPending(r) == [kind |-> "pending", digest |-> content[r], owner |-> r,
                     created |-> now]
OwnsMemory(r) == MemoryOf(r).kind = "pending" /\ MemoryOf(r).owner = r
\* Variant: the entry is left to its age.
WithdrawNothing(r) == UNCHANGED entries
\* PendingIdempotencyGuard::withdraw: revert the entry only if it is ours.
Withdraw(r) == entries' = IF OwnsMemory(r)
                          THEN [entries EXCEPT ![ServerOf[r]] = Absent]
                          ELSE entries

\* prune_idempotency at the head of the admission loop. Full says that other
\* keys fill the table: capacity pressure evicts a Ready, never a Pending.
Pruned(e, full) ==
    CASE e.kind = "pending" -> IF now - e.created < ReadyTtl THEN e ELSE Absent
      [] e.kind = "ready"   -> IF ReadyExpired(e) \/ full THEN Absent ELSE e
      [] OTHER              -> Absent

-----------------------------------------------------------------------------
(* The metadata operations, each under the metadata lock. *)

\* retire_ready_pending: only a claim the Ready record resolves exactly.
Resolves(rec, pend, owner) ==
    /\ pend # Absent
    /\ pend.digest = rec.digest /\ pend.run = rec.run /\ pend.gen = rec.gen
    /\ owner # Nobody => pend.owner = owner
Retired(rec, pend, owner) == IF Resolves(rec, pend, owner) THEN Absent ELSE pend

\* reap_expired_ready_snapshot: the files as the claim and the commit see them.
\* Variant: a record is reaped without a look at its age.
ReapedAtAnyAge == Absent
ReapedReady == LoadReady
ReapedPending == IF readyFile # Absent /\ ReadyExpired(readyFile)
                 THEN Retired(readyFile, pendingFile, Nobody) ELSE pendingFile
FloorGeneration == IF readyFile = Absent THEN 0 ELSE readyFile.gen
NextGeneration ==
    LET p == IF ReapedPending = Absent THEN 0 ELSE ReapedPending.gen
    IN  (IF p > FloorGeneration THEN p ELSE FloorGeneration) + 1

ReleaseOwn(r) ==
    pendingFile' = IF /\ pendingFile # Absent
                      /\ pendingFile.owner = r
                      /\ pendingFile.gen = hold[r].gen
                   THEN Absent ELSE pendingFile
OwnClaim(r) ==
    /\ pendingFile # Absent
    /\ pendingFile.owner = r /\ pendingFile.gen = hold[r].gen
    /\ pendingFile.digest = content[r]

-----------------------------------------------------------------------------
(* The admission loop. *)

\* Under the table lock: prune, then replay, conflict, wait or look at disk.
LookMemory(r) ==
    /\ stage[r] = "new"
    /\ \E full \in BOOLEAN :
        LET e == Pruned(MemoryOf(r), full) IN
        /\ SetMemory(r, e)
        /\ \/ /\ e.kind = "ready"
              /\ Replay(r, e)
           \/ /\ e.kind = "pending"
              /\ WaitFor(r, e)
           \/ /\ e.kind = "absent"
              /\ Goto(r, "disk")
    /\ UNCHANGED <<now, pendingFile, readyFile, expiryIndex, sidecars, gate,
                   accepted, published, crashes>>

\* The watch channel fires, or its sender is gone, once the entry has changed.
WakeWaiter(r) ==
    /\ stage[r] = "wait"
    /\ MemoryOf(r) # hold[r].record
    /\ Goto(r, "new")
    /\ UNCHANGED <<now, pendingFile, readyFile, expiryIndex, sidecars, gate,
                   entries, accepted, published, crashes>>

\* A committed record outranks a new execution, also after a restart.
ReadDisk(r) ==
    /\ stage[r] = "disk"
    /\ IF LoadReady # Absent
       THEN Replay(r, LoadReady)
       ELSE Goto(r, IF hold[r].carried = NoRun THEN "scan" ELSE "gate")
    /\ UNCHANGED <<now, pendingFile, readyFile, expiryIndex, sidecars, gate,
                   entries, accepted, published, crashes>>

\* find_orphan_run: an unlocked scan of the runs' sidecars. Expired ones are
\* removed; two runs for one key are damage and fail the request.
FindOrphan(r) ==
    /\ stage[r] = "scan"
    /\ LET live == {s \in sidecars : now - s.created < ReadyTtl} IN
       /\ sidecars' = live
       /\ \/ /\ live = {}
             /\ Goto(r, "gate")
          \/ /\ Cardinality(live) > 1
             /\ Goto(r, "failed")
          \/ \E s \in live :
                /\ Cardinality(live) = 1
                /\ IF s.digest # content[r]
                   THEN Goto(r, "conflict")
                   ELSE Move(r, "gate", [hold[r] EXCEPT !.carried = s.run])
    /\ UNCHANGED <<now, pendingFile, readyFile, expiryIndex, gate, entries,
                   accepted, published, crashes>>

\* Variant: an expired claim counts as a free gate.
AcquireExpiredGate(r) ==
    /\ stage[r] = "gate"
    /\ gate = Nobody \/ (pendingFile # Absent /\ PendingExpired(pendingFile))
    /\ gate' = r /\ Goto(r, "claim")
    /\ UNCHANGED <<now, pendingFile, readyFile, expiryIndex, sidecars, entries, accepted, published, crashes>>

\* acquire_execution_gate: poll until free; a live claim for other content
\* refuses at once, the deadline answers 503.
AcquireGate(r) ==
    /\ stage[r] = "gate"
    /\ \/ /\ gate = Nobody
          /\ gate' = r
          /\ Goto(r, "claim")
       \/ /\ gate # Nobody
          /\ UNCHANGED gate
          /\ IF /\ pendingFile # Absent /\ ~PendingExpired(pendingFile)
                /\ pendingFile.digest # content[r]
             THEN Goto(r, "conflict")
             ELSE Goto(r, "busy")
    /\ UNCHANGED <<now, pendingFile, readyFile, expiryIndex, sidecars, entries, accepted, published, crashes>>

\* claim_durable_pending_for_target_gated: converge on a committed record,
\* join a live claim, adopt an expired one of the same content, or claim anew.
\* Variants: an expired claim's run is not adopted; no run id is reserved.
ClaimAnew(r, s) ==
    /\ ReapedPending # Absent =>
          PendingExpired(ReapedPending) /\ ReapedPending.digest = content[r]
    /\ pendingFile' = Pending(content[r], r, r, NextGeneration)
    /\ Move(r, s, [hold[r] EXCEPT !.run = r, !.gen = NextGeneration])
ClaimCarried(r, s) ==
    /\ ReapedPending = Absent
    /\ pendingFile' = Pending(content[r], hold[r].carried, r, NextGeneration)
    /\ Move(r, s, [hold[r] EXCEPT !.run = hold[r].carried, !.gen = NextGeneration])
ClaimWrites(r, s) ==
    LET old == ReapedPending
        run == IF old # Absent THEN old.run
               ELSE IF hold[r].carried # NoRun THEN hold[r].carried ELSE r
    IN  /\ old # Absent => PendingExpired(old) /\ old.digest = content[r]
        /\ pendingFile' = Pending(content[r], run, r, NextGeneration)
        /\ Move(r, s, [hold[r] EXCEPT !.run = run, !.gen = NextGeneration])

ClaimPending(r) ==
    /\ stage[r] = "claim"
    /\ readyFile' = ReapedReady
    /\ \/ /\ ReapedReady # Absent
          /\ UNCHANGED pendingFile
          /\ DropGate(r)
          /\ IF ReapedReady.digest # content[r]
             THEN Goto(r, "conflict")
             ELSE Replay(r, ReapedReady)
       \/ /\ ReapedReady = Absent
          /\ ClaimWrites(r, "register")
          /\ UNCHANGED gate
       \/ /\ ReapedReady = Absent
          /\ ReapedPending # Absent
          /\ ~PendingExpired(ReapedPending) \/ ReapedPending.digest # content[r]
          /\ pendingFile' = ReapedPending
          /\ DropGate(r)
          /\ Goto(r, IF ReapedPending.digest # content[r] THEN "conflict" ELSE "peer")
    /\ UNCHANGED <<now, expiryIndex, sidecars, entries, accepted, published, crashes>>

\* Store maintenance is busy (nothing written, 503), or the rename succeeded
\* and the directory sync did not (the claim stays behind, 500).
ClaimRefused(r) ==
    /\ stage[r] = "claim"
    /\ DropGate(r)
    /\ \/ /\ Goto(r, "busy")
          /\ UNCHANGED <<pendingFile, readyFile>>
       \/ /\ ReapedReady = Absent
          /\ readyFile' = Absent
          /\ ClaimWrites(r, "failed")
    /\ UNCHANGED <<now, expiryIndex, sidecars, entries, accepted, published, crashes>>

\* Re-examine memory after the disk work; a divergence releases the claim.
RegisterOwner(r) ==
    /\ stage[r] = "register"
    /\ LET e == MemoryOf(r) IN
       \/ /\ e.kind = "ready" /\ ~ReadyExpired(e)
          /\ ReleaseOwn(r) /\ DropGate(r) /\ Goto(r, "new")
          /\ UNCHANGED entries
       \/ /\ e.kind = "pending"
          /\ ReleaseOwn(r) /\ DropGate(r)
          /\ WaitFor(r, e)
          /\ UNCHANGED entries
       \/ /\ e.kind = "absent" \/ (e.kind = "ready" /\ ReadyExpired(e))
          /\ UNCHANGED pendingFile
          /\ \/ SetMemory(r, MemoryPending(r)) /\ Goto(r, "check") /\ UNCHANGED gate
             \/ DropGate(r) /\ Goto(r, "busy") /\ UNCHANGED entries
    /\ UNCHANGED <<now, readyFile, expiryIndex, sidecars, accepted, published, crashes>>

\* check_pending_owner_gated: execute only under the exact claim on disk.
CheckOwner(r) ==
    /\ stage[r] = "check"
    /\ IF OwnClaim(r)
       THEN Goto(r, "execute") /\ UNCHANGED <<entries, gate>>
       ELSE Withdraw(r) /\ DropGate(r) /\ Carry(r, hold[r].run)
    /\ UNCHANGED <<now, pendingFile, readyFile, expiryIndex, sidecars, accepted,
                   published, crashes>>

-----------------------------------------------------------------------------
(* Execution and commit, under the gate. *)

\* The service accepts the run, or converges on the run that already has this
\* id. An error proves nothing about effects: only memory is withdrawn.
Execute(r) ==
    /\ stage[r] = "execute"
    /\ \/ /\ accepted' = accepted \union {hold[r].run}
          /\ Goto(r, "sidecar")
          /\ UNCHANGED <<entries, gate>>
       \/ /\ accepted' \in {accepted, accepted \union {hold[r].run}}
          /\ Withdraw(r) /\ DropGate(r) /\ Goto(r, "failed")
    /\ UNCHANGED <<now, pendingFile, readyFile, expiryIndex, sidecars,
                   published, crashes>>

\* write_orphan_record is best effort.
WriteSidecar(r) ==
    /\ stage[r] = "sidecar"
    /\ \/ sidecars' = {s \in sidecars : s.run # hold[r].run}
             \union {[run |-> hold[r].run, digest |-> content[r], created |-> now]}
       \/ UNCHANGED sidecars
    /\ Goto(r, "store")
    /\ UNCHANGED <<now, pendingFile, readyFile, expiryIndex, gate, entries,
                   accepted, published, crashes>>

\* store_durable_ready_gated: index, rename Ready into place, retire the claim
\* (which may fail with a warning). An existing record converges.
StoreReady(r) ==
    /\ stage[r] = "store"
    /\ OwnClaim(r) /\ pendingFile.run = hold[r].run
    /\ LET rec == Ready(content[r], hold[r].run, hold[r].gen) IN
       /\ ReapedReady = Absent
       /\ expiryIndex' = expiryIndex \union {rec}
       /\ readyFile' = rec
       /\ published' = published \union {rec}
       /\ pendingFile' \in {pendingFile, Retired(rec, pendingFile, r)}
       /\ Move(r, "publish", [hold[r] EXCEPT !.record = rec])
    /\ UNCHANGED <<now, sidecars, gate, entries, accepted, crashes>>

\* Variant: the error path gives the claim back.
StoreFailsReleasing(r) ==
    /\ stage[r] = "store"
    /\ Withdraw(r) /\ ReleaseOwn(r) /\ DropGate(r) /\ Goto(r, "failed")
    /\ UNCHANGED <<now, readyFile, expiryIndex, sidecars, accepted, published, crashes>>

\* A storage error before the rename keeps claim and run for adoption.
StoreFails(r) ==
    /\ stage[r] = "store"
    /\ Withdraw(r) /\ DropGate(r) /\ Goto(r, "failed")
    /\ expiryIndex' \in {expiryIndex,
          expiryIndex \union {Ready(content[r], hold[r].run, hold[r].gen)}}
    /\ UNCHANGED <<now, pendingFile, readyFile, sidecars, accepted,
                   published, crashes>>

\* Publish in memory, release the claim if it is still there, answer.
PublishMemory(r) ==
    /\ stage[r] = "publish"
    /\ SetMemory(r, hold[r].record)
    /\ ReleaseOwn(r)
    /\ DropGate(r)
    /\ Goto(r, "answered")
    /\ UNCHANGED <<now, readyFile, expiryIndex, sidecars, accepted,
                   published, crashes>>

\* replay_ready: the exact canonical record must still be there and unexpired.
ReplayReady(r) ==
    /\ stage[r] = "replay"
    /\ LET rec == hold[r].record IN
       \/ /\ readyFile = rec /\ ~ReadyExpired(rec)
          /\ IF rec.digest # content[r]
             THEN Goto(r, "conflict") /\ UNCHANGED entries
             ELSE Goto(r, "answered") /\ SetMemory(r, rec)
       \/ /\ readyFile = Absent /\ ~ReadyExpired(rec)
          /\ Goto(r, "failed") /\ UNCHANGED entries
       \/ /\ readyFile # rec \/ ReadyExpired(rec)
          /\ ~(readyFile = Absent /\ ~ReadyExpired(rec))
          /\ Goto(r, "new")
          /\ IF MemoryOf(r) = rec THEN SetMemory(r, Absent) ELSE UNCHANGED entries
    /\ UNCHANGED <<now, pendingFile, readyFile, expiryIndex, sidecars, gate, accepted, published, crashes>>

\* wait_for_peer_ready: Ready, retry (carrying the run of an expired claim),
\* conflict, or 503 at the deadline.
PeerPoll(r) ==
    /\ stage[r] = "peer"
    /\ \/ /\ LoadReady # Absent
          /\ IF LoadReady.digest # content[r]
             THEN Goto(r, "conflict")
             ELSE Replay(r, LoadReady)
       \/ /\ LoadReady = Absent
          /\ \/ /\ pendingFile = Absent
                /\ Goto(r, "new")
             \/ /\ pendingFile # Absent
                /\ IF pendingFile.digest # content[r]
                   THEN Goto(r, "conflict")
                   ELSE IF PendingExpired(pendingFile)
                   THEN Carry(r, pendingFile.run)
                   ELSE Goto(r, "busy")
    /\ UNCHANGED <<now, pendingFile, readyFile, expiryIndex, sidecars, gate,
                   entries, accepted, published, crashes>>

-----------------------------------------------------------------------------
(* Dropped requests, maintenance, faults and time. *)

\* The client disconnects: the future is dropped, the gate is released and
\* the guard spawns the memory cleanup.
DropRequest(r) ==
    /\ r \in Impatient
    /\ stage[r] \notin Ended \union {"dropping"}
    /\ Goto(r, IF OwnsMemory(r) THEN "dropping" ELSE "dropped")
    /\ DropGate(r)
    /\ UNCHANGED <<now, pendingFile, readyFile, expiryIndex, sidecars, entries, accepted, published, crashes>>

GuardWithdraw(r) ==
    /\ stage[r] = "dropping"
    /\ Withdraw(r)
    /\ Goto(r, "dropped")
    /\ UNCHANGED <<now, pendingFile, readyFile, expiryIndex, sidecars, gate, accepted, published, crashes>>

\* reap, one unit of a sweep pass: retire the scheduled record when it is due,
\* its resolved claim first; an index entry without its record just goes.
Reap(rec) ==
    /\ rec \in expiryIndex
    /\ ReadyExpired(rec)
    /\ IF readyFile = rec
       THEN readyFile' = Absent /\ pendingFile' = Retired(rec, pendingFile, Nobody)
       ELSE UNCHANGED <<readyFile, pendingFile>>
    /\ expiryIndex' = expiryIndex \ {rec}
    /\ UNCHANGED <<now, sidecars, gate, entries, stage, hold, accepted,
                   published, crashes>>

\* A process dies: its requests, its memory and its file locks go with it.
Crash(s) ==
    /\ crashes < MaxCrashes
    /\ crashes' = crashes + 1
    /\ LET lost == {r \in Requests : ServerOf[r] = s /\ stage[r] \notin Ended} IN
       /\ lost # {}
       /\ stage' = [r \in Requests |-> IF r \in lost THEN "dropped" ELSE stage[r]]
       /\ hold' = [r \in Requests |-> IF r \in lost THEN EmptyHold ELSE hold[r]]
       /\ gate' = IF gate \in lost THEN Nobody ELSE gate
    /\ entries' = [entries EXCEPT ![s] = Absent]
    /\ UNCHANGED <<now, pendingFile, readyFile, expiryIndex, sidecars,
                   accepted, published>>

Tick ==
    /\ now < MaxClock
    /\ now' = now + 1
    /\ UNCHANGED <<pendingFile, readyFile, expiryIndex, sidecars, gate, entries,
                   stage, hold, accepted, published, crashes>>

RequestStep(r) ==
    \/ LookMemory(r) \/ WakeWaiter(r) \/ ReadDisk(r) \/ FindOrphan(r)
    \/ AcquireGate(r) \/ ClaimPending(r) \/ ClaimRefused(r) \/ RegisterOwner(r)
    \/ CheckOwner(r) \/ Execute(r) \/ WriteSidecar(r) \/ StoreReady(r)
    \/ StoreFails(r) \/ PublishMemory(r) \/ ReplayReady(r) \/ PeerPoll(r)
    \/ GuardWithdraw(r)

LedgerNext ==
    /\ UNCHANGED content
    /\ \/ \E r \in Requests : RequestStep(r) \/ DropRequest(r)
       \/ \E rec \in expiryIndex : Reap(rec)
       \/ \E s \in Servers : Crash(s)
       \/ Tick

LedgerSpec == LedgerInit /\ [][LedgerNext]_ledgerVars

-----------------------------------------------------------------------------
(* Properties. *)

\* Types of the ledger's files, table and requests.
LedgerTypeOK ==
    LET readies == [kind : {"ready"}, digest : Digests, run : Requests,
                    created : 0..now, gen : Nat]
        claims == [kind : {"pending"}, digest : Digests, run : Requests,
                   owner : Requests, created : 0..now, gen : Nat]
        locals == [kind : {"pending"}, digest : Digests, owner : Requests,
                   created : 0..now]
    IN  /\ pendingFile \in claims \union {Absent}
        /\ readyFile \in readies \union {Absent}
        /\ expiryIndex \subseteq readies /\ published \subseteq readies
        /\ gate \in Requests \union {Nobody}
        /\ \A s \in Servers : entries[s] \in readies \union locals \union {Absent}
        /\ accepted \subseteq Requests

\* The records a key has ever committed for different runs are at least a TTL
\* apart: within one TTL all clients of the key are given the same run,
\* whatever crashes, expires or is retried (with_idempotency, mod.rs).
OneRunPerTtl ==
    \A a, b \in published :
        a.run # b.run => a.created - b.created >= ReadyTtl
                         \/ b.created - a.created >= ReadyTtl

\* From the claim to the commit, the request that holds the execution gate is
\* the owner on disk, however long its lease has run out: no peer, sweep or
\* replay removes or replaces the claim under it (durable.rs:694-759).
GatedOwnerIsCurrent ==
    \A r \in Requests :
        stage[r] \in {"register", "check", "execute", "sidecar", "store"}
            => gate = r /\ OwnClaim(r) /\ pendingFile.run = hold[r].run

\* A run the service accepted for the key stays reachable by a retry: until
\* its record has been committed, the claim on disk or its sidecar names it.
\* Otherwise the next attempt would start a second run (durable.rs:432-440).
AcceptedRunIsNotForgotten ==
    \A x \in accepted :
        \/ pendingFile # Absent /\ pendingFile.run = x
        \/ \E s \in sidecars : s.run = x
        \/ \E rec \in published : rec.run = x

\* A run is accepted while another one is known for the key only when that
\* one's record has expired: the step never duplicates an execution.
SecondRunOnlyAfterExpiry ==
    [][\A x \in accepted' \ accepted : \A y \in accepted :
          \E rec \in published : rec.run = y /\ ReadyExpired(rec)]_ledgerVars

\* A waiter is never stranded: the entry it waits for belongs to a request
\* that is still at work or whose cleanup is still to run, whatever crashed
\* or was dropped in between (guard.rs).
WaiterHasOwner ==
    \A r \in Requests :
        stage[r] = "wait" /\ MemoryOf(r) = hold[r].record
            => stage[hold[r].record.owner] \notin Ended
=============================================================================
