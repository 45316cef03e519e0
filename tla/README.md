# qcg: TLA+ models, TLC runs and TLAPS proofs

qcg executes generator packages as *runs*.  A run is a directory with an append-only
`journal.jsonl`; service processes admit it, queue it, drive its engine, suspend it for questions
and confirmations, cancel, preempt and shut it down, show it to clients, and pick it up again
after a crash.  The packages themselves are installed and removed by a command line that must
survive being killed.  This project models that control: who may work on what, what is durable
afterwards, what clients are told, and whether anything gets stuck.

Source paths below are relative to `src/crates/`.

## 1. Inventory

| Component | State | Operations | What makes it correct | Module |
|---|---|---|---|---|
| Run state fold (`engine/src/state.rs`) | terminal, cancel requests, open prompt, decisions, operations, node outcomes | fold of every event; refusal of events after a final outcome | final outcomes stay, prompts are hidden once settled | `RunJournal`, `EngineLoop` |
| Lifecycle (`service/src/lifecycle.rs`) | run map, task slot, tokens | spawn, queue loop, engine call, finish, suspension, requeue, resumer, refresh, rehydration | memory never ahead of the journal; one outcome; no re-run of settled or unresolved work | `RunLifecycle` |
| Cancellation, interaction, preemption, shutdown (`runs_api/`) | mailbox, tokens, join handles | publish, signal, join, abort, settle; answer, confirm, deny; stop and requeue a victim | cancels settle, answers resume, denials fail, the victim is queued again exactly when nothing settled it | `RunLifecycle` |
| Execution queue (`queue.rs`, queue loop) | free slots, waiters, stamps | head check, take, park, release, notify | slots are conserved, FIFO among equals, no lost wakeup | `RunQueue` |
| Engine loop and scheduler (`engine/src/engine/run.rs`, `execute.rs`, `repair.rs`, `replay.rs`, `run_context.rs`) | node states, tasks of a wave, budget, operations, repair cycles | schedule, start, join, retry, settle, regenerate, repair, hooks, yield, replay | an external effect is not repeated, budgets survive restarts, an invocation ends | `EngineLoop`, `FlowContract` |
| Journal writer (`engine/src/journal/writer.rs`) | two files with one sequence, marker, writer memory | durable and observation appends, resynchronisation, repair of torn tails | one sequence; what a crash leaves can be repaired | `JournalStream` |
| Subscriptions (`runs_api/subscription.rs`, `event_reader.rs`) | cursor, broadcast receiver, shared poller | replay, hand-over, follow, lag, reconnect | every event is delivered | `JournalStream` |
| Idempotency ledger (`server/src/server/idempotency/`) | memory entries, pending and ready files, gate, sidecars | claim, wait, adopt, execute, commit, replay, expire, clean up | one run per key while the record lives | `IdempotencyLedger` |
| Admission, run directories, retention (`runs_api/admission.rs`, `run_dirs.rs`, `summaries/`) | directories, shard locks, records, pins | start, fork, adopt, refuse, boot, sweep, delete | accepted is durable, refused never runs, nothing needed is deleted | `RunStore` |
| Package install (`cli/src/cli/install*.rs`) | targets, backups, sidecars, locks | recover, sweep, plan, lock, check, publish, roll back, uninstall | no package is lost, nothing foreign is touched, dependencies are there | `PackageInstall` |

| Agent step (`llm-steps/src/agent.rs`, `agent_runtime.rs`, `tool_events.rs`) | checkpoint, call budget, used call ids, payload files, MCP continuations | turn, tool call, approval, guard, effect, question, continuation, retry, re-entry | effects once, as approved, within the budget; the step settles | `AgentStep` |

The rest (foreach, specialist agents, gateways, containers, LLM providers, contract parsing, policy, HTTP layer,
package format) is listed in `PROJECT.json`; section 6 says why it is left out.

**Interactions.**  Parties of one service process share the run map (a read/write lock), the task
slot with the join handle, the cancellation and yield tokens, the slot counter and one `Notify`.
Processes share only files: the journal (appends under the journal lock), the cancel mailbox, the
execution lease, the idempotency files and the generators directory.  A handler reads memory,
awaits, reads or appends to a file, awaits, and writes memory; everything can happen at each await.

**Hard behaviours.**  Settlement by six different parties; a timeout that aborts a task anywhere;
answers that race the suspension; a lease that is free while the old handle still reads as live;
crashes between journal and memory, between an effect and its record, between a rename and its
sync; stale observations of a shared store; claims that expire under their owner; readers that
follow a file while it is appended to and repaired; lost wakeups.  `PROJECT.json` lists these as
hazards with their lines and the properties that cover them.

## 2. Modules

| Module | Models |
|---|---|
| `RunJournal` | the folded journal of one run, the events that change it, the cancel mailbox |
| `RunLifecycle` | one run under any number of service processes |
| `RunQueue` | one service, many runs: queue, slots, notifications, priority preemption |
| `EngineLoop` | one run inside the engine, invoked again and again over its journal |
| `FlowContract` | abstract: what the engine promises of a run; `EngineLoop` implements it |
| `JournalStream` | the journal and audit files of a run, their writers, readers and followers |
| `IdempotencyLedger` | requests with one idempotency key at several server processes |
| `RunStore` | admission, forks, boot and retention over a set of run directories |
| `PackageInstall` | install and uninstall commands over one generators directory |
| `AgentStep` | one `llm.agent` step over all its turns, attempts and re-entries |
| `MC...` | instances for TLC |
| `RunLifecycleProofs`, `RunQueueProofs`, `IdempotencyLedgerProofs`, `EngineLoopProofs`, `PackageInstallProofs`, `AgentStepProofs`, `JournalStreamProofs`, `RunStoreProofs` | theorems |

How they fit: `RunStore` brings a run to the point where `RunLifecycle` takes it over (an engine
there is only a holder of the lease); `RunLifecycle` chooses the queue head freely, which is what
`RunQueue` decides, and the result of an engine call, which is what `EngineLoop` computes;
`EngineLoop` and `RunLifecycle` see the journal folded, `JournalStream` sees it as lines;
`IdempotencyLedger` calls the service once per claim, and its pins are the pins of `RunStore`;
an `AgentStep` is what happens inside one node of `EngineLoop`, whose guarded operation there is a
single effect.

### RunJournal and RunLifecycle

An action is what one party does between two suspension points.  The variables are the folded
journal, the mailbox and the lease (shared), and per process the `RunRecord`, the slot, the
cancelled tokens, the pending spawn requests, the engine task and the calls in progress.  A call is
a record whose `at` names the await at which it is parked: `cancel[op].at = "join"` is the
`select!` of `cancel_with_operation_id`, `task[s].at = "admitted"` the section behind the permit
in `spawn_engine_run`, `preempt[s].at = "requeue"` the section under the lease in `preempt_run_inner`.

Abstractions:

- the journal is its fold; an append is atomic (journal lock, one write, fsync); a conditional
  append decides and writes in one step;
- a prompt is its number, `Confirmations` says which kind it is; forms and values are left out;
- tokens are numbered by renewal, so a cancelled token of an earlier episode never stops a later one;
- an engine call journals its start, then one of its results; a cancelled or crashed call may
  leave an operation without outcome (`inflight`);
- the engine's package and reference verification fails or succeeds by choice;
- which run is the queue head is a choice here (it is what `RunQueue` models);
- `SpawnAborts`: the new task that compare-and-install aborts has taken no step yet;
- `Boot` joins rehydration with `resume_recovered_runs`, as no client is served in between;
- advisory data is left out: the `owner_id` hint, and the identity check of the slot in
  `preempt_run_inner` beside the state checks that accompany it;
- concurrent `reconcile_denial` calls of one process are joined: they are idempotent and append
  under the journal lock;
- `Fault` is a failing journal read or append; each branch does what the code does with the error.

### RunQueue

Per run: the record's state, which runs have an earlier stamp, the task's place in the loop (`top`: the `Notified`
future is created; `head`: the map is read; `take`: `try_take`; `parked`), whether the future was
notified, the rendezvous and the calls.  A change of the map and the `notify_waiters` right after it
are one step: a waiter created its future and read the map either before both, and is woken, or
after both, and has seen the change.  What the journal decides is reduced to `progress` (how the
engine call returned), `denied` and `peer`.  Join timeouts, crashes, shutdown and failing reads are
left to `RunLifecycle`.  Ties between victims are left open.  A removed direct record is shown
as `"settled"`.  The resumer's grace period is taken to outlast a spawn in progress.

Stamps (`queued_at`) are an order on the runs, taken to be distinct.  An admission takes its stamp when
it stages the record (`Stage`; a retry that adopts a journal reads an older one) and joins the queue
later, under the write lock (`Register`); a record that the refresh inserts has any older stamp; a
direct run and an approved one are stamped under the lock.  A preemption with `Preserve` keeps the
stamp, one to the tail installs the time of its `run_queued`, which runs stamped since may follow.
The history variable `ahead` remembers, per run, who was queued in front of it when it joined the
queue and has been so ever since; it constrains no step.

### EngineLoop and FlowContract

`disk` is the journal as `RunState` folds it, `run` the memory of the current invocation, `task` one
record per step path: a graph node, a node run on behalf of a repair attempt, a lifecycle hook.
The actions of an invocation follow `run_with_id` and `run_inner`: setup and replay of settled
nodes, the boundary checks of every pass (cancel, yield, deadline, budget), the choice of a
sequential node or a wave, the tasks' own steps (charge an attempt, begin a guarded operation,
effect, settle it, retry, ask), joining, draining and aborting a wave, settlement of a node with its
`on_fail` route, the repair and regenerate cycles, the hooks, and the terminal event.
`ProcessDies` may follow any step; the next invocation has only `disk`.  Flows are data: a flow
gives each node its needs, dependency rule, condition, tries, kind of effect (fail-closed or
repeatable), possible results and failure policy.  A condition is the set of values it may take:
`when` may read any step, a pass evaluates it anew, before it asks whether the node was replayed, and
it may fail to evaluate, which ends the invocation.  File pins and resource checks of a resume and
panics of a task are left out; the elapsed deadline may pass at any check.

`FlowContract` has four variables: the steps, their outcomes, how often the guarded effect of each
took place, and the verdict.  `EngineLoop` maps its folded journal and a history of effects to
them (`Contract == INSTANCE FlowContract WITH ...`), and `KeepsContract` states that every step of
the loop is a step of the contract or a stutter.

### JournalStream

The durable file and the observation file share one sequence space.  An append is one action,
because both writers hold the journal lock for it; a crash in it leaves a torn or an unterminated
line.  The engine's writer counts in memory and resynchronises for durable records; the service
folds the file for each append.  Under the wall clock, the default, the service accepts an answer as
soon as its prompt is journaled, in any store mode, while siblings of the asking iteration
(`foreach.rs:363`) or the repair cycle it asked in (`repair.rs:85`, `:162`) still write; only the active
clock holds the prompt back until the engine's episode is closed (`settled_pending`, `state.rs:356`).
The setting's `clock` says which.  A subscriber replays, then follows the broadcast (exclusive store)
or a shared poller; receivers have a capacity and lag; clients reconnect with what they have.
Batches hold one record.  `FailedRead` is a read error that a stream or the poller meets.

### IdempotencyLedger

One key, because every file, lock and entry is per key; the other keys appear as a full cache that
may evict or refuse.  `stage[r]` is the await at which `with_idempotency` stands, `hold[r]` what it
carries over it.  The metadata lock makes disk operations atomic; the gate is a file lock that a
crash releases.  The clock moves in ticks, lifetimes are measured in them.

### RunStore

A directory is a stage (missing, bare, a fork's copied history, admitted) with what the code reads
of it: package, mail, outcome, identity.  An admission is the sequence of steps `start` and `fork`
take between two awaits, under the lock of the run's admission shard.  Boot rehydrates what it
finds; over a shared store a refresh does so again.  The sweep works from the candidates and pins it
took at its start.  A refused request settles the admission it wrote, or removes its directory, as best
it can: when the lock, the append or the removal fails it ends `unsettled`, with the journal as it was.
Removals before `run_queued` is written are taken to succeed; one that fails leaves what a crash at
that step leaves.  Each member of `Settings` says what requests are made and which faults may
happen.

### PackageInstall

The generators directory is a target per id and a backup and sidecar per backup name.  `unsynced`
holds every state of it since the last sync of the directory: a power loss leaves one of them (the
order of directory updates is kept, as on a journaling file system).  A command is at one of the
steps of `install` or `uninstall`; its `job` is what it remembers.  Planning is a stack of
manifests, one look at the directory or the registry per step, without locks.  The locks are the
four kinds of the code, in its order.  `Interrupt` kills a command, or stands for a failing
call, between any two steps, and may leave a directory half removed; `Meddle` puts something of
another program at a vacant path.  A package is its name, which fixes id, version and
dependencies; whether a directory verifies is part of its state.  The sweep may always leave a
record alone (its age is not modelled).

### AgentStep

`disk` is what the journal folds into (checkpoint, operation records, MCP continuations, prompt,
decisions, charges) with the payload files; `run` is the memory of the attempt, whose `pc` names the
place in `LlmAgentStep::execute` and the functions it calls.  Each durable write is a step of its
own, so that a `Crash` may separate any two: payload file, checkpoint, `operation_started`, effect,
`operation_finished`, removal of the payload file, `turn_completed`.  The groups of `Next` follow the
code: `Entering` (gate, charge, confirmation, authorization, checkpoint), `Turning` (re-issue of a
stored call or a response of the model), `Calling` (budget, call id, arguments, marker checkpoint,
approval, guard, effect), `Remote` (MCP requests for input), `Settling` (output checks, records,
suspension, retry).  `Interrupted` is the node timeout, the deadline or a cancel; `ResumeRedacted`
an unreadable payload file.

Redaction is modelled by what it does, because three properties depend on it: a credential becomes a
constant, file content and request bodies become a hash of themselves (so that redacting a copy
again changes it), patch lines lose their shape.  Digests and question ids are the values they
bind, free of collisions.  The model may answer anything, with any call id, at any turn; the text of
prompts and the transcript are left out, and so are the token count and the agent's written files.
Two tools stand for MCP, `mcp` and `query`, by whether they are declared to have side effects; two
for HTTP, by whether the method is safe.

## 3. Properties

`RunLifecycle` - `SingleWriter` (whoever drives, requeues or settles holds the lease),
`AtMostOneOutcome`, `ReportedOutcomeIsDurable` (a settled status is backed by the journal),
`NeverResumesSettled`, `UnresolvedNeverResumes` (an effect of unknown outcome is not repeated),
`ControlConsumedOnlyWhenRecorded`, `DeniedRunNeverExecutes`, `VisiblePromptIsOpen`,
`OutcomeNeverErased` (proved only); liveness
`CancelSettles`, `AnswerResumes`, `PromptBecomesVisible`.
`RunQueue` - `SlotsConserved`, `FifoAmongEquals`; liveness `QueueDrains`.

`EngineLoop` - `KeepsContract` (refinement), `UnknownEffectsStayPut` (what is unresolved stays so
until somebody decides), `BudgetSurvivesRestarts` (charges in memory and journal agree, and never
exceed the budget), `NeverStalls`, `SuccessIsComplete`; liveness `InvocationEnds`.

`JournalStream` - `OneSequence` (no number twice), `NoEventSkipped` (what a client has is a
prefix of what was written), `CrashRemnantIsRepairable`; liveness `FollowersCatchUp`.

`IdempotencyLedger` - `OneRunPerTtl`, `GatedOwnerIsCurrent` (who executes is who the claim names),
`AcceptedRunIsNotForgotten`, `WaiterHasOwner`.

`RunStore` - `RefusedNeverRuns` (unless its settlement failed), `ExecutingRunKeepsJournal`, `AcceptedIsDurable`,
`PinnedRunSurvives`, `NewestAreKept`.

`PackageInstall` - `NoPackageLost`, `OwnedProvesCopy` (a record that authorises a move or a deletion
names what a commit put there, in every state a power loss may leave), `ForeignIsUntouched`
(action property: nobody moves or deletes what another program put at a backup path),
`UninstallIsFinal`, `DependenciesPresent`, `SomeoneProceeds` (locks never close a circle).

`AgentStep` - `EffectsOnce` (fail-closed effects at most once per call, an answer re-enters a remote
request at most once under any policy), `OnlyApprovedBytes` (what takes effect is a call the model
sent, never a placeholder, and under `confirm` one whose very arguments were approved),
`CallBudgetSurvivesResumes`; liveness `StepSettles`.

## 4. Runs

| Run | Instance | Distinct states |
|---|---|---|
| `boundary` | 1 process, step boundary, 1 confirmation, 2 cancels, 1 preemption, 1 shutdown | 593,000 |
| `restart` | 1 process, 1 question, 2 cancels, 1 crash, 1 preemption, fairness | 203,000 |
| `shared` | 2 processes (symmetric), 1 refresh, 1 cancel, 1 preemption | 666,000 |
| `interrupt` | 1 process, interrupt mode, 1 cancel, 1 preemption, 1 shutdown, 1 adoption, 1 fault | 1,362,000 |
| `queue` | 3 runs, 1 slot, interrupt to the tail, denial, cancels, peer run | 2,518,000 |
| `queue_live` | 3 runs (one adopted, one direct, one urgent), 1 slot, step boundary, prompt, cancel, fairness | 296,000 |
| `ledger` | 3 requests, 2 processes, 1 crash, 2 ticks, 1 client that may leave, 2 bodies | 372,000 |
| `stream` | 5 settings, 4 records, 1 crash or fault, receiver capacity 1, fairness | 84,000 |
| `engine` | 4 flows of up to 3 nodes, 3 attempts, 2 parallel, 1 repair, 1 interruption, fairness | 87,000 |
| `store` | 9 settings of 2 admissions over 3 run ids, crash, shutdown, I/O fault | 259,000 |
| `install` | 6 settings of 3 commands over 3 packages, 2 interruptions, 1 power loss, 1 foreign file | 351,000 |
| `agent` | 9 nodes, 2 call ids, 2 turns, 2 calls, 3 attempts, 2 remote requests, 1 crash, 1 fault, fairness | 345,000 |

Further configurations check, on the instances of the table: `boundary_prompts`
(`VisiblePromptIsOpen`), `engine_success`
(`SuccessIsComplete`) and `store_newest` (`NewestAreKept`), the last two with the type invariants.  All
hold.  `ForeignIsUntouched`, `InstallTypeOK`, `AgentTypeOK` and `StreamTypeOK` are proved (section 5).

**Bounds.**  Every counter is bounded by a constant, or a field of a setting, used in a guard.  Two
cancel calls are the least that let a retry meet the first call; one preemption, crash, shutdown,
refresh or fault already interleaves with every step of the others, and the hazards need one of
each.  One slot is where competition is hardest.  The ledger's lifetimes (1 and 2 ticks) let a claim
expire under its owner and a record after it.  The flows have between them every dependency
rule, effect kind and failure policy; three attempts make the budget run out in the middle of a
wave.  In `install` two interruptions let a retry be killed as well, and three backup names are one
per command.  In `agent` two calls are one more than a turn needs, so that a budget can be
overdrawn by a resume; three attempts are a node retry, a re-entry and the one that finds the budget
spent; two remote requests let a call ask again after its answer.  Settings keep apart what need not happen together; where a pair is left out because the code then breaks a property, section 7 names it.  Between them the passing
runs take every action of every specification.

**Symmetry** (services) is used only in runs without liveness.  **Deadlock** is checked in `boundary`,
`restart`, `shared` and `install`.  The other runs may stop: a process that has shut down, a queue
whose runs are all settled, requests that are all answered, a run or an agent step that is settled, or a
subscriber at the end of a sealed journal has nothing left to do.

**Fairness.**  `FairSpec` of `RunLifecycle` asks weak fairness for each process's spawn, task
(outside the engine call), denial, preemption and shutdown steps, each cancel call, the join
timeout, restart of a stopped process and the resumer.  These are futures that the runtime polls
again, waits with a timeout, and a supervised periodic loop.  Nothing is assumed of clients,
crashes, refreshes, or of the engine: a run whose engine never returns is still canceled because
of the join timeout.  `FairSpec` of `RunQueue` also assumes that engine calls return and peers finish;
otherwise a single slot may be occupied for ever, in the program too.  `QueueDrains` carries the
proviso that no denial is accepted and no peer's run is shown, because the code misses wakeups
in exactly these cases (`queue_stall`).  `FairLoopSpec` asks weak fairness of the scheduler and of the
tasks together: step executors return (each gateway call has a timeout), and nothing is assumed of
answers.  `FairStreamSpec` asks it of the poller, of the send after an append, and of each
follower's stream; not of writers.  `Spec` of `AgentStep` asks it of the step as a whole: providers and
remote sides answer or time out, the engine re-enters an open run, and the user decides at last;
`StepSettles` says nothing of a user who never does.

## 5. Proofs

All proofs hold for every value of the constants that the named assumptions allow: any set of
services, operations and (finite) runs, any bounds, both modes.  They use no assumption besides
those evaluated by TLC (`PromptAssumption`, `IdentityAssumption`, `ModeAssumption`,
`BoundAssumption`, `RunsAssumption`, `PolicyAssumption`, `KindAssumption`, `LedgerAssumption`,
`SentinelAssumption`, `EngineAssumption`, `InstallAssumption`, `SettingAssumption`, `AgentAssumption`, `StreamAssumption`, `StoreAssumption`), and, where a theorem
says so, a hypothesis on the flows or on the setting of the run.

- `RunLifecycleProofs!TypeCorrect`: `Spec => []TypeOK`.  `TypeOK` is inductive.  Lemmas on the journal
  operators (settle, drain, seal, truncate, respond) come first, then one step per action.
- `RunLifecycleProofs!LeaseExcludes`: `Spec => []SingleWriter`.  `SingleWriter` alone says who must
  hold the lease.  The step that matters is a release: a party that drops the lease must
  have been the holder, and nobody else may then be at a point that needs it.  With the type
  invariant it is inductive: the conjuncts name distinct holders, so at most one party is at such a point and a party at one knows that the
  lease is its own; acquisitions are guarded by a free lease, a crash releases only what the
  process holds.  `OneEngineRuns` follows: two working engine tasks would both be the holder.
- `RunLifecycleProofs!UnresolvedCorrect`: `Spec => UnresolvedNeverResumes`, in every setting.  `EntryInv`: a
  task between its look for unresolved effects and the engine has none to fear.  An effect is left
  behind only by an engine that is canceled, aborted or crashes; by `SingleWriter` no other task is then
  past its look.
- `RunLifecycleProofs!OneOutcomeCorrect` and `SettledStaysCorrect`: `PlainRun` implies
  `Spec => []AtMostOneOutcome` and `Spec => NeverResumesSettled`.  `OutcomeInv`: the engine starts and works on a
  run without outcome (`FreshStart`), and unless a read has failed the file holds the outcome that
  readers fold and no other (`Counted`).  Everybody who writes an outcome either reads none first or
  holds the lease where, by `SingleWriter`, no task is starting.  Both preemption modes, any number of services, crashes, shutdowns,
  refreshes and failing reads.  `PlainRun` (no confirmations, no admission retry that adopts the run) is the
  setting of `restart` and `shared` and is needed: `denial_race` and `stale_snapshot` (section 7) break the properties.
- `RunLifecycleProofs!OutcomeFinalCorrect`, `DurableCorrect` and `ControlCorrect`: `SteadyRun` implies
  `Spec => OutcomeNeverErased`, `Spec => []ReportedOutcomeIsDurable` and
  `Spec => ControlConsumedOnlyWhenRecorded`.  `SteadyRun` is `PlainRun` with step-boundary preemption (an interrupt preemption
  cuts a trailing `run_canceled`) and without failing reads (section 7: one of them lets
  `finish_canceled_run` write over an interruption, another shows a status without its event).
  `ReportedOutcomeIsDurable` is not inductive: `ShownInv` adds that whoever is about to write memory (a task with a chosen outcome, a
  cancel, a preemption, a shutdown, a refresh that has read one) has an outcome in the journal that
  justifies it; since no step erases an outcome (`Keeps`), the choice is still justified
  when it is shown.  `ControlCorrect` needs it where a cancel takes its file back because memory is settled.
- `RunLifecycleProofs!DeniedCorrect`: `ConfirmedRun` implies `Spec => []DeniedRunNeverExecutes`.  The task looks
  for a denial once, before it queues, so the proof shows that none can be accepted behind its back.
  `DenialInv`: while nobody stops the run (`Going`) its record, its task and its only spawn request
  move together (`Steady`), and a shown confirmation finds neither task nor request; whoever stops it
  has closed the journal for answers before (`Noted`, `Halted`), and across a restart the shutdown's
  control, or what became of it, keeps it closed; from the denial on nobody is at a point
  from which it would execute or settle otherwise (`Refused`).  `ConfirmedRun` generalises `boundary`: one
  service, step-boundary preemption, confirmations only, no crash, failing read, adoption or
  refresh; any number of prompts, cancels, preemptions, shutdowns and restarts.  A crash
  (`denial_race`), a second service and a question before the confirmation (section 7) break the
  property; in interrupt mode TLC finds no violation, and no proof is given.
- `RunQueueProofs!SlotsKept`: `Spec => []SlotsConserved`.  The strengthening `SlotInv /\ Untracked`
  adds that the counter stays a natural number and the tasks are at known points, and that a run
  without a record has neither a task nor a call that would spawn one (so that an
  admission never overwrites one).  Each action adds one holder and takes one slot, removes one and
  returns one, or changes neither; the cardinality facts come from `FiniteSetTheorems`.
  `EnginesBounded` follows: at most `max_active_runs` engines run.
- `RunQueueProofs!FifoCorrect`: `Spec => FifoAmongEquals`.  `HeadInv`: while a run is between its head
  check and its start, nobody who was in front of it when it joined the queue and still is has its
  priority.  A run passes the check only when no equal is queued with an earlier stamp (`AheadInv`
  says that those of the history are); after the check the history can only shrink, unless the run
  joins the queue anew.  `EpisodeInv` ties record, mark, call, rendezvous and task of each run
  together and excludes that.
  `QueueTypesCorrect`: `Spec => []TypeOK`; the slot counter stays in range because slots are conserved.
- `IdempotencyLedgerProofs`: `LedgerInv` is inductive and gives `GatedOwnerCorrect`
  (`GatedOwnerIsCurrent`), `OneRunPerTtlCorrect`, `WaiterHasOwnerCorrect` and `LedgerTypesCorrect`.
  `GatedOwnerIsCurrent` alone says nothing of how a claim is lost; `GateInv` adds that the gate excludes
  and that between claim and commit the ready file is absent, so that no reaping retires the holder's
  claim.  `PublishedInv` says that a committed record leaves the ready file only when expired; hence
  the next commit is a lifetime younger.  `MemoryInv` says that a pending entry's owner is between its
  registration and the end of its guard.  `AcceptedCorrect`: `Patient` implies `LedgerSpec =>
  []AcceptedRunIsNotForgotten`.  `Patient` says that a client that may disconnect shares its server with
  no other request for the key; the instance of `ledger` is patient, that of `ledger_forgets` is not, and
  TLC shows there that the assumption is needed.  `KeptInv` adds to `LedgerInv` that whatever the ready
  file, a table or a request shows as committed was committed, and that an accepted run is named by the
  claim or by a committed record.  Reaping retires a claim only for a committed record of the same run
  (`ReapKeeps`), a new claim adopts the run of the one it finds (`ClaimKeeps`), and the one step that gives
  a claim up unresolved, a registration that meets a diverging entry, needs the entry of a dropped request
  whose guard has not run; a patient owner has no such neighbour (`NoDivergence`).
- `EngineLoopProofs`: `LoopInvariant` (`LoopSpec => []LoopInv`) for every set of flows, every budget,
  parallelism and number of repairs, deaths and yields.  `LoopInv` ties the invocation's memory to the
  journal: what memory calls settled is settled on disk (`StatesMatch`); what a pass has picked is open
  and may run by the journal alone (`ReadyInv`, `DurableInv`), so that a resume, which has only the
  journal, decides alike; live tasks belong to where the scheduler is (`TaskInv`); an effect that took
  place is known to the guard while its node is open (`EffectInv`); what reaches the verdict is settled
  (`SettleInv`); memory's budget covers the journal's charges (`BudgetInv`).  From it:
  `BudgetCorrect` (`BudgetSurvivesRestarts`), `EngineTypesCorrect` (`EngineTypeOK`), and the refinement:
- `EngineLoopProofs!ContractCorrect`: `RepairsApart` and `ConditionsStable` imply `LoopSpec => KeepsContract`.  Every step keeps
  `LoopInv` and is `Allowed`: it leaves the contract's variables alone, settles one open node, decides
  a fitting verdict, or lets effects of open nodes take place for the first time.  `RepairsApart`: no
  node of the contract needs a node that a repair cycle runs.  `ConditionsStable`: no condition of such
  a node may be true in one pass and false in another; one over the inputs and the node's own needs is
  not.  All flows of `engine` satisfy both, conditions that are false or fail included, and both are
  necessary: `engine_dependent` and `Reevaluated` break the contract without them (section 7).
- `EngineLoopProofs!NeverStallsCorrect`: `LoopSpec => []NeverStalls`.  `StallInv` follows one pass along
  the topological order: no node is running between passes (`RestInv`, `WaveInv`, `AloneInv`), and while
  nothing is picked and nothing progressed, all nodes before the cursor are settled (`PassInvariant`);
  the next one's needs come before it in the order, so it is decided.
- `EngineLoopProofs!UnknownCorrect`: `ChecksApart` implies `LoopSpec => []UnknownEffectsStayPut`.  `ChecksApart`
  says that a node whose check may fail shares a wave (both are `safe` and have no `on_fail`) only with
  nodes that may be replayed; all flows of `engine` satisfy it, and `engine_unreported` shows that it is
  needed (section 7).  `UnknownInv` adds to `LoopInv`: tasks report only what they may (`ReportInv`); a
  wave loses a task only for a cause - a signal, a refused start, or a joined report other than a
  success - and has an error once it settled one (`AbortInv`); outside a wave everything unresolved may be
  replayed (`UnresolvedInv`).  So a wave that ends without an error has lost nothing, and what one with
  an error lost ends the invocation, after which `MayResume` guards.
- `PackageInstallProofs`: `InstallInvariant` (`InstallSpec => []InstallInv`) for every finite set of ids, every
  catalog and registry, any set of commands in any processes, any number of interruptions, power losses
  and foreign files.  The invariant has three layers.  `LocalInv`: what a command remembers and which
  locks it has, by the step it is at; `Exclusive`: the lock file of an id excludes.  `PlaceInv`: what a
  command in the middle of a move, a publication or a removal relies on in the directory as it is (the
  phase of its sidecar, what is at its backup path, that a recovery copy it is about to delete is spare).
  Nobody disturbs it, because every change of a target, backup or sidecar is made under the lock of its
  id (`Touches`), and foreign files come only to vacant paths.  `DirInv`: each state a power loss may
  leave is `Good` - an owned record stands over a moved package (`Proves`), a wanted package is at its
  target or whole in a named backup (`Keeps`), a removed one is neither at its target nor in an owned
  backup (`Forgets`).  None of these is inductive alone: states after a power loss come from earlier
  directories, so each single change must be good whatever the sync has not reached yet.  From it:
  `OwnedCorrect` (`OwnedProvesCopy`), `NotLostCorrect` (`NoPackageLost`), `UninstallCorrect`
  (`UninstallIsFinal`), `ForeignCorrect` (the action property `ForeignIsUntouched`) and
  `InstallTypesCorrect` (`InstallTypeOK`).
- `PackageInstallProofs!ProceedsCorrect`: `InstallSpec => []SomeoneProceeds`.  `OrderInv`: a waiting command
  wants and holds locks of one set, and holds only locks before those it wants.  The keys of locks
  (stage, number) are finitely many; of all commands that wait, the one whose next lock comes last
  cannot be blocked, since its blocker would wait for a later one.  `DependenciesPresent` does not hold
  in general (`install_restored`).

- `AgentStepProofs`: `AgentInvariant` (`Spec => []AgentInv`) for every set of nodes, call ids and texts,
  any limits, any number of crashes, faults and remote requests.  A call exists in up to five copies:
  in memory, in the queue of the turn, as the pending and the suspended call of a checkpoint, and in a
  payload file.  `CopiesGenuine`: each copy is a call the model sent or shows the placeholders of
  redaction; a restart may pick any of them, and the text alone does not tell them apart.
  `EffectsPermitted`: past the policy check a call is permitted, at the guard a call with placeholders
  is a file or request tool that will be refused or a remote one whose result is recorded, and at the
  effect it shows none, hence it is what was sent.  Approvals only come in, so the permission still
  holds when the effect takes place.  `StartedOnce` (default policy): an effect leaves a record that the
  guard does not start again, a call about to take effect has a started record and no effect yet, and
  while a remote request is open the step is at rest with a started record, which the entry gate
  refuses.  `RequestsNamed`: an open request is named by its call's redacted form, one per call, and
  one whose answer was sent is marked as re-entered.  `Placed` says which copies are there at each
  place.  From it: `EffectsAreApproved` (`OnlyApprovedBytes`), `EffectsHappenOnce` (`EffectsOnce`) and
  `AgentTypes` (`AgentTypeOK`).  `AgentAssumption` says of a command that its text is no secret: a
  command tool takes nothing from the model's arguments, its argument vector is declared
  (`agent_runtime.rs:397`), so its journaled copy is the call itself.

- `JournalStreamProofs`: `StreamInvariant` (`StreamSpec => []StreamInv`) for every capacity, any number of
  records, observations, crashes, failed writes and reads, and any set of subscribers.  Files are
  considered as they read once repaired (`Journal`, `Notes`), since a number in an unterminated line is
  taken.  `FileInv`: the repaired files are increasing and disjoint (`SequenceInv`), the engine's memory
  is ahead of both while an observation may count from it (`MemoryInv`), an open writer has repaired
  tails and an unfinished run (`OpenInv`), and the marker stands beside a settled journal without
  remnants (`MarkerInv`).  `ReaderInv`: a cursor has read exactly the records up to the number it
  remembers (`CursorOK`); a receiver holds nothing that has a gap before it, unless it has lagged
  (`InOrder`), and lacks only what was not sent yet (`Complete`: the one unsent observation of the
  engine, or what the poller has not read); a client has what was written up to its position
  (`ClientOK`).  Every new number is above all that any reader has met, so all of this survives the
  growth of the files (`Grows`); the boundary of a replay and the receiver attached before it overlap,
  so the hand-over loses nothing.  From it:
  `NumbersAreUnique` (`Synced(setting) => OneSequence`), `FollowersMissNothing`
  (`Followed(setting) => NoEventSkipped`), `RemnantsAreRepaired`
  (`~setting.resumes => CrashRemnantIsRepairable`) and `StreamTypes` (`StreamTypeOK`).  The hypotheses
  are the exact settings of section 7: `Synced` excludes `stream_duplicate` (answers accepted beside
  an engine that records observations, that is, audit under the wall clock, in any store mode); `Followed` also `stream_joined` (two followers of one poller), `Reordered`
  (parallel observations on one channel) and `Bare`; `stream_marker` is a resumed run.  All settings of
  `stream` with followers satisfy `Followed`, and both hypotheses leave resumes, crashes, refusals and
  service appends free.

- `RunStoreProofs`: `StoreInvariant` (`StoreSpec => []StoreInv`) and `LayersInvariant`
  (`StoreSpec => [](StoreInv /\ LayersInv)`), for any runs, shards, services, requests and settings, with any number of
  crashes, shutdowns and faults.  A request works from what it read under the admission shard, while
  engines, refreshes, sweeps and deletions change the same directories without it.
  `StoreInv`: by the step a request is at, what its directory holds and what it remembers of it
  (`Placed`: an adopter's or an author's); the shard excludes (`Locked`); who holds leases (`Leased`);
  what the sweep may not take (`Spared`).  `PrivateInv`: on a store of one service whoever executes has
  a live record, so a request that finds none is alone with its directory (`Alone`).  `ForkInv`: a
  copied history exists only while its fork is on its way, so no boot or refresh starts it.
  `EngineInv`: engines stand on an admitted journal and hold its lease.  `QueuedInv`: an
  open journal has an author that was not turned away, or could not take its admission back, so that a
  refusal whose settlement succeeded leaves nothing to run.  From them:
  `StoreTypes` (`StoreTypeOK`), `AcceptedRequestsAreDurable` (`ForksDiffer => AcceptedIsDurable`),
  `PinnedRunsSurvive` (`Roomy => PinnedRunSurvives`), `ExecutingRunsKeepJournals`
  (`Orderly /\ Roomy => ExecutingRunKeepsJournal`) and `RefusedRequestsNeverRun`
  (`Orderly => RefusedNeverRuns`).  `ForksDiffer`: a fork's request has another identity than
  the requests for its source, since the copied history carries the source's.  `Orderly`: an id that
  is forked to is asked for only by that keyed fork and its retries, at one service that does not
  crash; it says nothing of settings without forks, and a crash in a fork is `store_fork`.  `Roomy`: on
  a shared store `max_tracked_runs` is no less than the number of runs; `MCCrowded` breaks
  both properties without it (section 7).  All settings of `store` satisfy the three.  `StoreAssumption`
  says of a setting that it names services, runs and sources that exist, and that a private store has
  one service.

Only model-checked: the other safety properties (those of section 7 hold of the runs' instances, not
in general), all liveness properties, and everything the prover cannot reach (ENABLED, fairness, sums
over recursive folds such as the one of `CallBudgetSurvivesResumes`).  Of the safety invariants these are
`CallBudgetSurvivesResumes` and `DependenciesPresent`, which rests on the order in which commands of
several processes meet and holds of the registries of `install` only.

## 6. What is not modelled

- *Foreach* (`engine/foreach.rs`): iterations inside one charged attempt of a node.  A faithful
  model needs the per-iteration journal and replay on top of `EngineLoop`'s task.
- *Specialist agents* (`llm-steps/src/specialist.rs`): agents that an agent step calls as a tool, with a
  loop and a continuation of their own.  Also left out of `AgentStep`: handoff, skills, and
  `on_failure: return_error`, which turns a failed call into a tool result.
- *LLM providers, MCP transport, other steps* (`llm`, `mcp`, `steps`): protocols whose outcome is the
  environment of `AgentStep` or the result of a task in `EngineLoop`.
- *Gateways, containers, cgroups*: policy around operating system calls; their failures are the
  fault branches of the modelled actions.
- *HTTP layer, summaries, read store, query handlers, CLI, API types, clients*: decode, read and
  format; they change no state of their own besides the ledger.
- *Contract, expressions, graphs, policy, credentials, package format*: parsing and pure
  functions over data that no modelled property distinguishes.
- Inside the modelled parts: the content of nodes, answers and artifacts; file syntax, size limits,
  hashes and, outside `AgentStep`, secret redaction; usage accounting; clock values, except as order and as timeouts
  that may fire.

Most of the repository's lines are in the first five groups, which have little control that
several parties share; the models cover the part that has.

## 7. Where the code departs from its documentation

Each line is reproduced by TLC with the configuration named (`tlc -config <name>.cfg <MC module>`).

| Configuration (property) | Behaviour |
|---|---|
| `denial_race` (`DeniedRunNeverExecutes`) | a denial accepted after the task's only look for one does not stop the engine (`lifecycle.rs:1368`; `docs/operations.md:953`) |
| `completion_shown_canceled` (`OutcomeAgrees`) | a cancel that settles under the lease shows *Canceled* although the journal holds another outcome (`cancellation.rs:334`) |
| `stale_snapshot` (`NeverResumesSettled`) | a spawn with an admission snapshot does not see a peer's later settlement (`lifecycle.rs:1509`) |
| `queue_stall` (`QueueNeverStalls`) | a denied queue head is settled without a notification (`interaction.rs:459`) |
| `ledger_forgets` (`AcceptedRunIsNotForgotten`) | a waiter that adopts an expired claim meets the old entry in memory and releases the claim; the accepted run is forgotten (`idempotency/mod.rs:433`) |
| `stream_duplicate` (`OneSequence`) | an observation takes a number from memory that the service has used for an answer; readers then fail (`writer.rs:561`). Under the default wall clock this needs no shared store (`interaction.rs:76`, `state.rs:356`) |
| `stream_joined` (`NoEventSkipped`) | a follower joins a poller that is ahead of its replay (`subscription.rs:28`) |
| `stream_marker` (`CrashRemnantIsRepairable`) | a resumed run that crashes before its first append has cleared the marker is refused by later writers (`writer.rs:868`) |
| `engine_regenerate` (`RegenerateIsNewInvocation`) | a regenerate is answered from the operation of the attempt it replaces (`repair.rs:247`; `docs/contract-reference.md:446`) |
| `engine_repair` (`YieldKeepsRepairedNodes`) | a yield forgets that a repair settled its nodes (`run.rs:794`) |
| `engine_unreported` (`UnknownEffectsStayPut`) | a failed check of one node of a wave aborts its siblings but reports no error (`execute.rs:318`), so the look for unreported executions is not reached and an aborted sibling with unknown effects is executed again in the same invocation (`run.rs:880`; comment there) |
| `engine_dependent` (`KeepsContract`) | a repair cycle leaves its nodes open on disk; a node that needs one and succeeded is journaled as skipped when, after a restart, the repaired node runs again and fails (`state.rs:926`) |
| `store_fork` (`ExecutingRunKeepsJournal`) | boot executes a fork whose admission crashed half-way, and its retry wipes the directory under the engine (`run_dirs.rs:1284`; comments at `run_dirs.rs:1191`, `1283`) |
| `install_restored` (`DependenciesPresent`) | uninstall looks for dependents among targets only; a dependent that waits in a recovery backup is restored later without its dependency (`install_commit.rs:820`; comment at `:775`) |
| `agent_remote` (`AnsweredRunReenters`) | an MCP request for input suspends the run with its operation still `Started`; under the default policy the gate refuses the answered run (`run.rs:478`; `docs/operations.md:211`, `docs/llm-provider-guide.md:657`) |
| `agent_ask` (`AnswerIsReused`) | a question whose arguments are redacted in the checkpoint is re-issued from the redacted copy, gets another id, and is asked again although it was answered (`agent_runtime.rs:1487`; comment at `:1460`) |
| `agent_resend` (`CachedSuccessResends`) | redaction by hash is not idempotent (`gateway/http.rs:766`, `786`): a write or request that succeeded, re-issued from the redacted copy, is refused as a reused call id instead of answered from its record (comment at `agent.rs:577`) |

The race of `denial_race` needs no crash.  With `boundary.cfg` and `MaxPrompts = 2`,
`Confirmations = {2}`: an answer that arrives while the engine is still suspending spawns, and
`requeue_answered_suspension` (`lifecycle.rs:2059`) spawns once more when the suspension finishes.  The second
request is served when the first execution shows its confirmation; its task looks for a denial before that
confirmation is denied, and executes.

`MCCrowded` of `MCRunStore` (as `Settings` of `store`) shows one more: on a shared store, an admission that is
refused for capacity after its `run_queued` is durable removes the directory it created
(`admission.rs:223`), although a peer's refresh may have found the run and may execute it or have finished it
(`ExecutingRunKeepsJournal`, and `PinnedRunSurvives` for a keyed request).

`Reevaluated` of `MCEngineLoop` (as `Flows` of `engine_dependent`) breaks `KeepsContract` by its condition.  A pass
evaluates `when` before it looks for the node's replayed result (`run.rs:823`, `:840`), and `when` may read
steps that the node does not need (`docs/contract-reference.md:672`): on a resume it may be false although the
node succeeded, and the node is journaled as skipped over its success (`state.rs:926`).

The settings `Reordered`, `Bare` and `Refused` of `MCJournalStream` show three more (as `Settings` of
`stream`).  The broadcast order of parallel observations is not the file order (`writer.rs:668`), so that
a follower drops one (`NoEventSkipped`).  A crash may leave a complete line without its newline; the boundary
of history counts it (`writer.rs:195`, against the comment at `:193`) while the reader does not yet deliver
it, so that a follower that attaches before the repair skips it (`NoEventSkipped`).  The event that
refuses a run has no sender (`lifecycle.rs:1580`), so that a live follower of an exclusive store waits
for it (`FollowersCatchUp`).

Behaviours of the models that no configuration singles out:

- equals are first come first served from the moment they are in the run map, not by their
  `queued_at`: the stamp is taken before `run_queued` is appended (`admission.rs:630`, `:998`) and the
  record inserted after it (`admission.rs:212`), and admissions of different shards do not wait for
  each other.  A run that is registered first may start before an equal with an earlier stamp that
  is on its way, or that an adoption (`admission.rs:653`), a refresh (`lifecycle.rs:485`), a denial or
  a preemption brings back; `queue.rs:8` says "equal priorities keep FIFO order";
- a refused request whose settlement fails is only logged (`admission.rs:261`, `:285`), and one whose
  directory cannot be removed is answered with an error (`:33`): its `run_queued` stays and the next
  boot runs it, although "a fresh request reported refused must not run on next boot" (`:105`, `:255`).  The
  doc comment of `register_admission` (`:204`: "the directory stays Queued on disk and resumes on the
  next boot") says the opposite of what its callers do for a fresh request, which they settle as interrupted;
  it is true of adopted ones;
- interrupt preemption may cut the `run_canceled` of a user's cancel (`preemption.rs:222`), and may
  leave a record queued and preempted for ever (`preemption.rs:235`);
- a failing read may lead to a second terminal event (`lifecycle.rs:2265`) or to a settled status
  without journal event (`lifecycle.rs:1357`);
- the resumer respawns a running record without a task, but the task leaves the queue loop at once
  (`lifecycle.rs:1439`); a cancel that meets a busy lease ends without a notification
  (`cancellation.rs:145`); an urgent arrival preempts nobody while a slot is taken but not yet running
  (`preemption.rs:15`);
- a crash between the two copies of a fork makes the strict next boot refuse (`summaries/state.rs:113`);
  an admission refused at the run limit removes a directory that a peer may execute
  (`admission.rs:223`);
- a call resumed from its `before_side_effect` checkpoint is charged a second time (`agent.rs:1080`); a
  resumed MCP call that is only left in redacted form asks for an approval of its placeholders before it
  is refused (`agent_runtime.rs:1569`, `tool_events.rs:338`);
- the fold drops the `destinations` of a suspended MCP request (`state.rs:1086`), so that the comparison
  at its resumption never takes place (`tool_events.rs:551`).

## 8. Plan

All planned models exist.  Proved: `RunLifecycle`, `RunQueue`, `IdempotencyLedger`, `EngineLoop`,
`PackageInstall`, `AgentStep`, `JournalStream`, `RunStore` except `NewestAreKept`.  A proof to
follow: `DeniedRunNeverExecutes` in interrupt mode.

Foreach, as an extension of `EngineLoop`'s task, and specialists, as an extension of `AgentStep`, are
the next candidates for a model.
