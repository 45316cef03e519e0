---------------------------- MODULE RunLifecycle ----------------------------
(***************************************************************************)
(* The life of one run under the service processes that may drive it       *)
(* (crates/service/src/lifecycle.rs and runs_api/).  Each process keeps a  *)
(* memory record of the run, at most one engine task, the slot that holds  *)
(* the task's join handle, and the spawn requests that still wait for the  *)
(* execution lease.  Only the lease, the journal and the cancel mailbox    *)
(* are shared.  An action is what one party does between two suspension    *)
(* points (an await, a lock release, a journal append).                    *)
(***************************************************************************)
EXTENDS RunJournal, FiniteSets

CONSTANTS
    Mode,           \* "step_boundary" or "interrupt": PreemptionMode
    MaxCancels,     \* bound: cancel calls that publish
    MaxPreempts,    \* bound: preemptions
    MaxCrashes,     \* bound: process crashes
    MaxShutdowns,   \* bound: orderly shutdowns
    MaxFaults,      \* bound: failing journal reads and appends
    MaxAdoptions,   \* bound: admission retries that adopt the run directory
    MaxRefreshes    \* bound: refreshes; 0 unless the store is shared

ASSUME ModeAssumption == Mode \in {"step_boundary", "interrupt"}
ASSUME BoundAssumption ==
    /\ MaxCancels \in Nat /\ MaxPreempts \in Nat /\ MaxCrashes \in Nat /\ MaxShutdowns \in Nat
    /\ MaxFaults \in Nat /\ MaxAdoptions \in Nat /\ MaxRefreshes \in Nat

VARIABLES
    journal,    \* folded journal, shared
    mailbox,    \* cancel control files, shared
    lease,      \* holder of the execution lease, shared
    process,    \* per service: "up", "stopping" or "down"
    mem,        \* per service: the in-memory RunRecord
    slot,       \* per service: the record's task slot holds a handle
    canceled,   \* per service: cancellation tokens that were cancelled
    spawns,     \* per service: spawn requests waiting for the lease
    task,       \* per service: the engine task
    cancel,     \* per operation: the cancel call in progress
    preempt,    \* per service: the preemption rendezvous
    shutdown,   \* per service: shutdown_active_runs
    denial,     \* per service: reconcile_denial
    refresh,    \* per service: refresh_shared_runs
    used        \* how much of each bound has been used

shared == <<journal, mailbox, lease>>
local == <<mem, slot, canceled, spawns>>
calls == <<cancel, preempt, shutdown, denial, refresh>>
vars == <<shared, process, local, task, calls, used>>

-----------------------------------------------------------------------------
\* Values.

Settled == Terminals
Statuses == {"queued", "running", "waiting", "confirming", "cancel_requested"} \cup Settled

\* A cancellation token is named by the renewal that created it.  Answers,
\* preemptions and adoptions renew it, so their bounds bound it.
Tokens == Nat

RunRecord == [tracked : BOOLEAN, state : Statuses, preempted : BOOLEAN,
              token : Tokens, yield : BOOLEAN]
Untracked == [tracked |-> FALSE, state |-> "queued", preempted |-> FALSE,
              token |-> 0, yield |-> FALSE]

\* A spawn request keeps the token it was made with; snapshot says that it
\* carries the journal as an admission retry read it.
SpawnRun == [token : Tokens, snapshot : BOOLEAN]

Progress == {"none", "done", "suspended", "failed", "canceled", "yielded"}
TaskPoint == {"idle", "reconcile", "fail", "drain", "queued", "admitted",
              "start", "engine", "returned", "finish", "commit", "requeue",
              "cancel_drain", "cancel_append", "cancel_commit", "settle_drain",
              "settle_append", "settle_commit", "exiting"}
EngineTask == [at : TaskPoint, token : Tokens, snapshot : BOOLEAN,
               progress : Progress, round : 1..2, outcome : Statuses]
NoTask == [at |-> "idle", token |-> 0, snapshot |-> FALSE,
           progress |-> "none", round |-> 1, outcome |-> "queued"]

CancelCall == [at : {"idle", "publish", "signal", "join", "joined", "aborted",
                     "settle", "append", "commit"},
               on : Services, fresh : BOOLEAN, outcome : Statuses]
Settling == {"settle", "over", "append", "settled"}
PreemptCall == [at : {"idle", "mark", "join", "joined", "requeue", "commit",
                      "release"} \cup Settling,
                resume : BOOLEAN]
ShutdownCall == [at : {"idle", "publish", "signal", "take", "join", "joined",
                       "late", "orphans", "done"} \cup Settling,
                 late : BOOLEAN]
RefreshCall == [at : {"idle", "scanned", "observed"}, found : Statuses \cup {"none"},
                cancel : BOOLEAN, terminal : Terminals \cup {"none"},
                pending : {"none", "waiting", "confirming"}]
NoRefresh == [at |-> "idle", found |-> "none", cancel |-> FALSE,
              terminal |-> "none", pending |-> "none"]

NoLease == <<"none", "none">>
Holders == ({"task", "preempt", "shutdown"} \X Services) \cup ({"cancel"} \X Operations)

Bounds == [cancels : 0..MaxCancels, preempts : 0..MaxPreempts, crashes : 0..MaxCrashes,
           shutdowns : 0..MaxShutdowns, faults : 0..MaxFaults,
           adoptions : 0..MaxAdoptions, refreshes : 0..MaxRefreshes]

TypeOK ==
    /\ journal \in RunState
    /\ mailbox \in SUBSET Controls
    /\ lease \in Holders \cup {NoLease}
    /\ process \in [Services -> {"up", "stopping", "down"}]
    /\ mem \in [Services -> RunRecord]
    /\ slot \in [Services -> BOOLEAN]
    /\ canceled \in [Services -> SUBSET Tokens]
    /\ spawns \in [Services -> SUBSET SpawnRun]
    /\ task \in [Services -> EngineTask]
    /\ cancel \in [Operations -> CancelCall]
    /\ preempt \in [Services -> PreemptCall]
    /\ shutdown \in [Services -> ShutdownCall]
    /\ denial \in [Services -> {"idle", "mark", "seal", "commit"}]
    /\ refresh \in [Services -> RefreshCall]
    /\ used \in Bounds

-----------------------------------------------------------------------------
\* Helpers.

Running(s) == process[s] # "down"
ShuttingDown(s) == process[s] = "stopping"

\* task_slot_is_live: a finished handle owns nothing.
SlotIsLive(s) == slot[s] /\ task[s].at # "idle"

IsTerminal(s) == mem[s].state \in Settled
CancelAccepted(s) == mem[s].state \in {"canceled", "cancel_requested"}
TokenCancelled(s) == task[s].token \in canceled[s]

\* A journal read or append may fail, MaxFaults times.
Fault == /\ used.faults < MaxFaults
         /\ used' = [used EXCEPT !.faults = @ + 1]

\* The terminal event a canceling party writes, chosen when it settles.
CancelOutcome(s) == IF ShuttingDown(s) THEN "interrupted" ELSE "canceled"

\* A record that re-enters the queue with fresh tokens.
Requeued(r) == [r EXCEPT !.state = "queued", !.preempted = FALSE,
                         !.token = @ + 1, !.yield = FALSE]

SpawnOf(r) == [token |-> r.token, snapshot |-> FALSE]

\* drain_cancel_controls fails on a mailbox beside an accepted denial and
\* does nothing for a run this process does not track.
DrainRefused(s) == mailbox # {} /\ mem[s].tracked /\ Denied(journal)
Drain(s) ==
    /\ ~DrainRefused(s)
    /\ IF mem[s].tracked
       THEN /\ journal' = DrainControls(journal, mailbox)
            /\ mailbox' = {}
       ELSE UNCHANGED <<journal, mailbox>>

Goto(s, point) == task' = [task EXCEPT ![s].at = point]

\* The task returns: its lease is dropped before its handle is finished.
Exit(s) == /\ task' = [task EXCEPT ![s] = [NoTask EXCEPT !.at = "exiting"]]
           /\ lease' = NoLease

-----------------------------------------------------------------------------
\* spawn_engine_run: from a spawn request to a task that holds the lease.

\* Variant: the task starts whoever holds the lease.
SpawnStartsUnleased(s) ==
    /\ process[s] = "up"
    /\ ~SlotIsLive(s)
    /\ task[s].at = "idle"
    /\ \E r \in spawns[s] :
          /\ spawns' = [spawns EXCEPT ![s] = @ \ {r}]
          /\ task' = [task EXCEPT ![s] = [NoTask EXCEPT !.at = "reconcile",
                                             !.token = r.token, !.snapshot = r.snapshot]]
    /\ lease' = <<"task", s>>
    /\ slot' = [slot EXCEPT ![s] = TRUE]
    /\ UNCHANGED <<journal, mailbox, process, mem, canceled, calls, used>>

\* The lease is free and the slot is not live: the task starts and its
\* handle is installed.
SpawnStarts(s) ==
    /\ process[s] = "up"
    /\ lease = NoLease
    /\ ~SlotIsLive(s)
    /\ task[s].at = "idle"
    /\ \E r \in spawns[s] :
          /\ spawns' = [spawns EXCEPT ![s] = @ \ {r}]
          /\ task' = [task EXCEPT ![s] = [NoTask EXCEPT !.at = "reconcile",
                                             !.token = r.token, !.snapshot = r.snapshot]]
    /\ lease' = <<"task", s>>
    /\ slot' = [slot EXCEPT ![s] = TRUE]
    /\ UNCHANGED <<journal, mailbox, process, mem, canceled, calls, used>>

\* The old task has dropped the lease but its handle still reads as live:
\* compare-and-install aborts the new task and the request is lost.
SpawnAborts(s) ==
    /\ process[s] = "up"
    /\ lease = NoLease
    /\ SlotIsLive(s)
    /\ \E r \in spawns[s] : spawns' = [spawns EXCEPT ![s] = @ \ {r}]
    /\ UNCHANGED <<shared, process, mem, slot, canceled, task, calls, used>>

\* Shutdown refuses the request; a lease held for two seconds, or a token
\* cancelled during the wait, drops it and leaves the run to the resumer.
SpawnGivesUp(s) ==
    /\ \E r \in spawns[s] :
          /\ ShuttingDown(s) \/ lease # NoLease
          /\ spawns' = [spawns EXCEPT ![s] = @ \ {r}]
    /\ UNCHANGED <<shared, process, mem, slot, canceled, task, calls, used>>

-----------------------------------------------------------------------------
\* The task before the engine starts.

\* An accepted denial is sealed instead of executing, unresolved external
\* effects refuse re-entry with a run_error, anything else goes on.
TaskReconcile(s) ==
    /\ task[s].at = "reconcile"
    /\ \/ /\ Denied(journal)
          /\ DenialIsUnambiguous(journal, mailbox)
          /\ journal' = SealDenial(journal)
          /\ Goto(s, "fail")
          /\ UNCHANGED <<lease, used>>
       \/ /\ Denied(journal)
          /\ ~DenialIsUnambiguous(journal, mailbox)
          /\ Exit(s)
          /\ UNCHANGED <<journal, used>>
       \/ /\ ~Denied(journal) /\ FailClosed(journal)
          /\ journal' = SettleOnce(journal, "failed")
          /\ Goto(s, "fail")
          /\ UNCHANGED <<lease, used>>
       \/ /\ ~Denied(journal) /\ ~FailClosed(journal)
          /\ Goto(s, "drain")
          /\ UNCHANGED <<journal, lease, used>>
       \/ Fault /\ Exit(s) /\ UNCHANGED journal
       \/ Fault /\ Goto(s, "fail") /\ UNCHANGED <<journal, lease>>
    /\ UNCHANGED <<mailbox, process, local, calls>>

\* mark_spawn_failed after the terminal event is in the journal.
TaskFail(s) ==
    /\ task[s].at = "fail"
    /\ mem' = IF mem[s].tracked /\ ~IsTerminal(s)
              THEN [mem EXCEPT ![s].state = "failed", ![s].preempted = FALSE]
              ELSE mem
    /\ Exit(s)
    /\ UNCHANGED <<journal, mailbox, process, slot, canceled, spawns, calls, used>>

TaskDrain(s) ==
    /\ task[s].at = "drain"
    /\ \/ Drain(s) /\ Goto(s, "queued") /\ UNCHANGED <<lease, used>>
       \/ DrainRefused(s) /\ Exit(s) /\ UNCHANGED <<journal, mailbox, used>>
       \/ Fault /\ Exit(s) /\ UNCHANGED <<journal, mailbox>>
    /\ UNCHANGED <<process, local, calls>>

\* One turn of the queue loop.  Whether this run is the queue head and a
\* slot is free depends on the other runs (module RunQueue) and is a choice.
TaskQueued(s) ==
    /\ task[s].at = "queued"
    /\ \/ /\ RemoteCancelRequested(journal, mailbox) \/ TokenCancelled(s)
          /\ Goto(s, "settle_drain")
          /\ UNCHANGED <<lease, used>>
       \/ /\ ~(RemoteCancelRequested(journal, mailbox) \/ TokenCancelled(s))
          /\ \/ /\ ~(mem[s].tracked /\ mem[s].state = "queued")
                /\ Exit(s)
             \/ /\ mem[s].tracked /\ mem[s].state = "queued"
                /\ Goto(s, "admitted")
                /\ UNCHANGED lease
          /\ UNCHANGED used
       \/ Fault /\ Exit(s)
    /\ UNCHANGED <<journal, mailbox, process, local, calls>>

\* The run settled on disk while it waited.  A request that carries an
\* admission snapshot judges by it, and only nonterminal ones are carried.
\* Variant: the queued memory record is trusted.
SettledUnseen(s) == FALSE
SettledOnDisk(s) == journal.terminal # "none" /\ ~task[s].snapshot

\* The permit is held; one section under the run-map write lock decides.
TaskAdmitted(s) ==
    /\ task[s].at = "admitted"
    /\ \/ /\ ~mem[s].tracked \/ IsTerminal(s)
          /\ Exit(s)
          /\ UNCHANGED <<mem, used>>
       \/ /\ mem[s].tracked /\ ~IsTerminal(s)
          /\ \/ /\ \/ mem[s].state = "cancel_requested"
                   \/ RemoteCancelRequested(journal, mailbox)
                   \/ TokenCancelled(s)
                /\ Goto(s, "settle_drain")
                /\ UNCHANGED <<lease, mem>>
             \/ /\ mem[s].state # "cancel_requested"
                /\ ~RemoteCancelRequested(journal, mailbox)
                /\ ~TokenCancelled(s)
                /\ IF SettledOnDisk(s)
                   THEN /\ mem' = [mem EXCEPT ![s].state = journal.terminal,
                                              ![s].preempted = FALSE]
                        /\ Exit(s)
                   ELSE /\ mem' = [mem EXCEPT ![s].state = "running"]
                        /\ Goto(s, "start")
                        /\ UNCHANGED lease
          /\ UNCHANGED used
       \/ Fault /\ Exit(s) /\ UNCHANGED mem
    /\ UNCHANGED <<journal, mailbox, process, slot, canceled, spawns, calls>>

-----------------------------------------------------------------------------
\* The task and the engine it drives.

Return(s, progress) == task' = [task EXCEPT ![s].at = "returned", ![s].progress = progress]

\* The pinned package and references are verified, then the engine opens the
\* journal: an unanswered prompt is re-issued, anything else starts or resumes.
TaskStart(s) ==
    /\ task[s].at = "start"
    /\ \/ /\ journal' = IF AcceptsEvent(journal) THEN Settle(journal, "failed") ELSE journal
          /\ Goto(s, "fail")
          /\ UNCHANGED used
       \/ Fault /\ Goto(s, "fail") /\ UNCHANGED journal
       \/ /\ journal.open
          /\ Return(s, "suspended")
          /\ UNCHANGED <<journal, used>>
       \/ /\ ~journal.open
          /\ journal' = Start(journal)
          /\ Goto(s, "engine")
          /\ UNCHANGED used
    /\ UNCHANGED <<mailbox, lease, process, local, calls>>

EngineSucceeds(s) == journal' = Settle(journal, "succeeded") /\ Return(s, "done")
EngineFails(s) == journal' = Settle(journal, "failed") /\ Return(s, "failed")
EngineErrors(s) == UNCHANGED journal /\ Return(s, "failed")
EngineAsks(s) ==
    /\ journal.asked < MaxPrompts
    /\ journal' = Ask(journal)
    /\ Return(s, "suspended")

\* A cancelled token stops the engine, which settles the journal itself and
\* may leave an external operation without outcome.
EngineCancels(s) ==
    /\ TokenCancelled(s)
    /\ \E lost \in {journal.inflight, TRUE} :
          journal' = [Settle(journal, CancelOutcome(s)) EXCEPT !.inflight = lost]
    /\ Return(s, "canceled")

\* Between two nodes or waves a requested yield is journaled.
EngineYields(s) ==
    /\ mem[s].yield
    /\ journal' = [journal EXCEPT !.last = "yielded"]
    /\ Return(s, "yielded")

TaskEngine(s) ==
    /\ task[s].at = "engine"
    /\ \/ EngineSucceeds(s) \/ EngineFails(s) \/ EngineErrors(s)
       \/ EngineAsks(s) \/ EngineCancels(s) \/ EngineYields(s)
    /\ UNCHANGED <<mailbox, lease, process, local, calls, used>>

\* The preemption rendezvous owns a yielded task and, in interrupt mode,
\* every preempted one.  Variant: every preempted one in both modes.
LeftToEveryRendezvous(s) == task[s].progress = "yielded" \/ mem[s].preempted
LeftToRendezvous(s) ==
    task[s].progress = "yielded" \/ (mem[s].preempted /\ Mode = "interrupt")

TaskReturned(s) ==
    /\ task[s].at = "returned"
    /\ IF LeftToRendezvous(s)
       THEN Exit(s) /\ UNCHANGED mem
       ELSE /\ mem' = IF Mode = "step_boundary" /\ mem[s].tracked
                      THEN [mem EXCEPT ![s].yield = FALSE, ![s].preempted = FALSE]
                      ELSE mem
            /\ Goto(s, "finish")
            /\ UNCHANGED lease
    /\ UNCHANGED <<journal, mailbox, process, slot, canceled, spawns, calls, used>>

-----------------------------------------------------------------------------
\* finish_run and what it calls, still under the lease.

Finishing(s) == task[s].at = "finish" /\ mem[s].tracked /\ ~CancelAccepted(s)

FinishUntracked(s) ==
    /\ task[s].at = "finish"
    /\ ~mem[s].tracked
    /\ Exit(s)
    /\ UNCHANGED <<journal, mailbox, process, local, calls, used>>

FinishCanceled(s) ==
    /\ task[s].at = "finish"
    /\ mem[s].tracked /\ CancelAccepted(s)
    /\ Goto(s, "cancel_drain")
    /\ UNCHANGED <<shared, process, local, calls, used>>

\* The status finish_run will show: the journaled outcome, or what the engine
\* call returned when it journaled none.  Variant: only the journal is asked.
FinishedAsJournaled(s) ==
    IF task[s].progress = "done" THEN "succeeded" ELSE journal.terminal
FinishedAs(s) ==
    CASE task[s].progress = "done" -> "succeeded"
      [] task[s].progress # "done" /\ journal.terminal # "none" -> journal.terminal
      [] task[s].progress = "canceled" /\ journal.terminal = "none" -> "canceled"
      [] OTHER -> "failed"

\* The engine has journaled the success, or a failure that finish_run keeps;
\* a failure without a terminal event becomes a run_error.
FinishOutcome(s) ==
    /\ Finishing(s)
    /\ task[s].progress # "suspended"
    /\ \/ /\ journal' = IF task[s].progress = "done" THEN journal
                        ELSE SettleOnce(journal, "failed")
          /\ task' = [task EXCEPT ![s].at = "commit", ![s].outcome = FinishedAs(s)]
          /\ UNCHANGED <<lease, used>>
       \/ /\ task[s].progress # "done"
          /\ Fault /\ Exit(s) /\ UNCHANGED journal
    /\ UNCHANGED <<mailbox, process, local, calls>>

\* finish_suspension: the prompt becomes visible unless it was answered
\* while the engine was still suspending.  A read that fails counts as
\* unanswered; for a question the conditional append asks again.
FinishSuspension(s) ==
    /\ Finishing(s)
    /\ task[s].progress = "suspended"
    /\ \/ /\ IsTerminal(s)
          /\ Exit(s)
          /\ UNCHANGED <<journal, mem, used>>
       \/ /\ ~IsTerminal(s) /\ ~journal.open
          /\ Goto(s, "requeue")
          /\ UNCHANGED <<journal, lease, mem, used>>
       \/ /\ ~IsTerminal(s) /\ journal.open
          /\ journal.asked \notin Confirmations /\ AcceptsEvent(journal)
          /\ journal' = [journal EXCEPT !.last = "other"]
          /\ mem' = [mem EXCEPT ![s].state = "waiting"]
          /\ Exit(s)
          /\ UNCHANGED used
       \/ /\ ~IsTerminal(s) /\ journal.open
          /\ journal.asked \in Confirmations
          /\ mem' = [mem EXCEPT ![s].state = "confirming"]
          /\ Exit(s)
          /\ UNCHANGED <<journal, used>>
       \/ /\ ~IsTerminal(s) /\ journal.asked \in Confirmations /\ Fault
          /\ mem' = [mem EXCEPT ![s].state = "confirming"]
          /\ Exit(s)
          /\ UNCHANGED journal
       \/ /\ ~IsTerminal(s) /\ journal.open
          /\ journal.asked \notin Confirmations
          /\ Exit(s)
          /\ IF AcceptsEvent(journal) THEN Fault ELSE UNCHANGED used
          /\ UNCHANGED <<journal, mem>>
    /\ UNCHANGED <<mailbox, process, slot, canceled, spawns, calls>>

\* requeue_answered_suspension: never past a settled run or accepted cancel.
TaskRequeue(s) ==
    /\ task[s].at = "requeue"
    /\ \/ /\ \/ ShuttingDown(s) \/ ~mem[s].tracked \/ IsTerminal(s)
             \/ mem[s].state = "cancel_requested"
          /\ UNCHANGED <<mem, spawns, used>>
       \/ /\ ~ShuttingDown(s) /\ mem[s].tracked /\ ~IsTerminal(s)
          /\ mem[s].state # "cancel_requested"
          /\ mem' = [mem EXCEPT ![s] = Requeued(@)]
          /\ spawns' = [spawns EXCEPT ![s] = @ \cup {SpawnOf(Requeued(mem[s]))}]
          /\ UNCHANGED used
       \/ Fault /\ UNCHANGED <<mem, spawns>>
    /\ Exit(s)
    /\ UNCHANGED <<journal, mailbox, process, slot, canceled, calls>>

\* Memory follows the journal unless a cancel was accepted meanwhile, which
\* sends the loop round once more.
TaskCommit(s) ==
    /\ task[s].at = "commit"
    /\ \/ /\ ~mem[s].tracked \/ (CancelAccepted(s) /\ task[s].round = 2)
          /\ Exit(s)
          /\ UNCHANGED mem
       \/ /\ mem[s].tracked /\ CancelAccepted(s) /\ task[s].round = 1
          /\ task' = [task EXCEPT ![s].at = "finish", ![s].round = 2]
          /\ UNCHANGED <<mem, lease>>
       \/ /\ mem[s].tracked /\ ~CancelAccepted(s)
          /\ mem' = [mem EXCEPT ![s].state = task[s].outcome]
          /\ Exit(s)
    /\ UNCHANGED <<journal, mailbox, process, slot, canceled, spawns, calls, used>>

\* finish_canceled_run: consume the mailbox, write the missing terminal event,
\* then let memory follow.  A completion that won the race is kept; a read
\* that fails counts as no outcome, and only the append then protects one.
TaskCancelDrain(s) ==
    /\ task[s].at = "cancel_drain"
    /\ \/ Drain(s) /\ Goto(s, "cancel_append") /\ UNCHANGED <<lease, used>>
       \/ DrainRefused(s) /\ Exit(s) /\ UNCHANGED <<journal, mailbox, used>>
       \/ Fault /\ Exit(s) /\ UNCHANGED <<journal, mailbox>>
    /\ UNCHANGED <<process, local, calls>>

TaskCancelAppend(s) ==
    LET outcome == IF journal.terminal = "none" THEN CancelOutcome(s) ELSE journal.terminal
    IN
    /\ task[s].at = "cancel_append"
    /\ \/ /\ journal' = SettleOnce(journal, outcome)
          /\ task' = [task EXCEPT ![s].at = "cancel_commit", ![s].outcome = outcome]
          /\ UNCHANGED <<lease, used>>
       \/ /\ Fault /\ AcceptsEvent(journal)
          /\ journal' = Settle(journal, CancelOutcome(s))
          /\ task' = [task EXCEPT ![s].at = "cancel_commit", ![s].outcome = CancelOutcome(s)]
          /\ UNCHANGED lease
       \/ Fault /\ Exit(s) /\ UNCHANGED journal
    /\ UNCHANGED <<mailbox, process, local, calls>>

TaskCancelCommit(s) ==
    /\ task[s].at = "cancel_commit"
    /\ mem' = IF mem[s].tracked /\ CancelAccepted(s)
              THEN [mem EXCEPT ![s].state = task[s].outcome]
              ELSE mem
    /\ Exit(s)
    /\ UNCHANGED <<journal, mailbox, process, slot, canceled, spawns, calls, used>>

-----------------------------------------------------------------------------
\* settle_queued_cancel: a cancel accepted before (or without) execution.

TaskSettleDrain(s) ==
    /\ task[s].at = "settle_drain"
    /\ \/ Drain(s) /\ Goto(s, "settle_append") /\ UNCHANGED <<lease, used>>
       \/ DrainRefused(s) /\ Exit(s) /\ UNCHANGED <<journal, mailbox, used>>
       \/ Fault /\ Exit(s) /\ UNCHANGED <<journal, mailbox>>
    /\ UNCHANGED <<process, local, calls>>

\* A durable outcome is only copied; an append that fails keeps the accepted
\* request, and a read that fails keeps everything.
TaskSettleAppend(s) ==
    /\ task[s].at = "settle_append"
    /\ \/ /\ journal.terminal # "none"
          /\ IF mem[s].tracked
             THEN /\ mem' = [mem EXCEPT ![s].state = journal.terminal, ![s].preempted = FALSE]
                  /\ slot' = [slot EXCEPT ![s] = FALSE]
             ELSE UNCHANGED <<mem, slot>>
          /\ Exit(s)
          /\ UNCHANGED <<journal, used>>
       \/ /\ journal.terminal = "none" /\ ~mem[s].tracked
          /\ Exit(s)
          /\ UNCHANGED <<journal, mem, slot, used>>
       \/ /\ journal.terminal = "none" /\ mem[s].tracked
          /\ journal' = Settle(journal, CancelOutcome(s))
          /\ task' = [task EXCEPT ![s].at = "settle_commit", ![s].outcome = CancelOutcome(s)]
          /\ UNCHANGED <<lease, mem, slot, used>>
       \/ /\ journal.terminal = "none" /\ mem[s].tracked
          /\ Fault
          /\ mem' = IF IsTerminal(s) THEN mem ELSE [mem EXCEPT ![s].state = "cancel_requested"]
          /\ slot' = [slot EXCEPT ![s] = FALSE]
          /\ Exit(s)
          /\ UNCHANGED journal
       \/ Fault /\ Exit(s) /\ UNCHANGED <<journal, mem, slot>>
    /\ UNCHANGED <<mailbox, process, canceled, spawns, calls>>

TaskSettleCommit(s) ==
    /\ task[s].at = "settle_commit"
    /\ IF mem[s].tracked
       THEN /\ mem' = [mem EXCEPT ![s].state = IF @ \in Settled THEN @ ELSE task[s].outcome,
                                  ![s].preempted = FALSE]
            /\ slot' = [slot EXCEPT ![s] = FALSE]
       ELSE UNCHANGED <<mem, slot>>
    /\ Exit(s)
    /\ UNCHANGED <<journal, mailbox, process, canceled, spawns, calls, used>>

-----------------------------------------------------------------------------
\* The end of a task, and the parties that wait for it.

\* Whoever joins the task of s is woken by its end.
Woken(call) == IF call.at = "join" THEN [call EXCEPT !.at = "joined"] ELSE call
WakeJoiners(s) ==
    /\ cancel' = [op \in Operations |->
                     IF cancel[op].on = s THEN Woken(cancel[op]) ELSE cancel[op]]
    /\ preempt' = [preempt EXCEPT ![s] = Woken(@)]
    /\ shutdown' = [shutdown EXCEPT ![s] = Woken(@)]

TaskFinished(s) ==
    /\ task[s].at = "exiting"
    /\ Goto(s, "idle")
    /\ WakeJoiners(s)
    /\ UNCHANGED <<shared, process, local, denial, refresh, used>>

\* After five seconds the holder of the handle aborts the task at the await
\* it is parked in.  An interrupted external operation may stay unresolved.
AbortTask(s) ==
    /\ task[s].at \notin {"idle", "exiting"}
    /\ task' = [task EXCEPT ![s] = NoTask]
    /\ lease' = NoLease
    /\ \E lost \in {journal.inflight, journal.inflight \/ task[s].at = "engine"} :
          journal' = [journal EXCEPT !.inflight = lost]

Overdue(s) == \/ \E op \in Operations : cancel[op].on = s /\ cancel[op].at = "join"
              \/ preempt[s].at = "join" /\ Mode = "interrupt"
              \/ shutdown[s].at = "join"

JoinTimeout(s) ==
    /\ Overdue(s)
    /\ AbortTask(s)
    /\ cancel' = [op \in Operations |->
                     IF cancel[op].on = s /\ cancel[op].at = "join"
                     THEN [cancel[op] EXCEPT !.at = "aborted"] ELSE cancel[op]]
    /\ preempt' = [preempt EXCEPT ![s] = Woken(@)]
    /\ shutdown' = IF shutdown[s].at = "join"
                   THEN [shutdown EXCEPT ![s].at = "settle"] ELSE shutdown
    /\ UNCHANGED <<mailbox, process, local, denial, refresh, used>>

-----------------------------------------------------------------------------
\* cancel_with_operation_id, called on service s with operation op.  A client
\* may retry an operation, on any service, at any time.

CancelGoto(op, point) == cancel' = [cancel EXCEPT ![op].at = point]

\* reconcile_denial; a second caller joins the one in progress.
ReconcileDenial(s) == denial' = [denial EXCEPT ![s] = IF @ = "idle" THEN "mark" ELSE @]

CancelBegin(op, s) ==
    /\ cancel[op].at = "idle"
    /\ process[s] = "up" \/ (ShuttingDown(s) /\ journal.terminal # "none")
    /\ \/ /\ Denied(journal)
          /\ ReconcileDenial(s)
          /\ UNCHANGED <<mailbox, cancel, used>>
       \/ /\ ~Denied(journal)
          /\ journal.terminal # "none" \/ op \in journal.cancel_operations
          /\ mailbox' = mailbox \ {op}
          /\ UNCHANGED <<cancel, denial, used>>
       \/ /\ ~Denied(journal)
          /\ journal.terminal = "none" /\ op \notin journal.cancel_operations
          /\ used.cancels < MaxCancels
          /\ used' = [used EXCEPT !.cancels = @ + 1]
          /\ cancel' = [cancel EXCEPT ![op] =
                           [at |-> "publish", on |-> s, fresh |-> FALSE, outcome |-> "queued"]]
          /\ UNCHANGED <<mailbox, denial>>
    /\ UNCHANGED <<journal, lease, process, local, task, preempt, shutdown, refresh>>

\* The control file is published inside the journal lock.
CancelPublish(op) ==
    LET s == cancel[op].on IN
    /\ cancel[op].at = "publish"
    /\ IF Denied(journal)
       THEN /\ ReconcileDenial(s)
            /\ CancelGoto(op, "idle")
            /\ UNCHANGED mailbox
       ELSE /\ mailbox' = mailbox \cup {op}
            /\ cancel' = [cancel EXCEPT ![op].at = "signal", ![op].fresh = op \notin mailbox]
            /\ UNCHANGED denial
    /\ UNCHANGED <<journal, lease, process, local, task, preempt, shutdown, refresh, used>>

\* One section under the run-map write lock.
CancelSignal(op) ==
    LET s == cancel[op].on IN
    /\ cancel[op].at = "signal"
    /\ \/ /\ ~mem[s].tracked
          /\ CancelGoto(op, "idle")
          /\ UNCHANGED <<mailbox, mem, canceled, slot>>
       \/ /\ mem[s].tracked /\ IsTerminal(s)
          /\ mailbox' = mailbox \ {op}
          /\ CancelGoto(op, "idle")
          /\ UNCHANGED <<mem, canceled, slot>>
       \/ /\ mem[s].tracked /\ ~IsTerminal(s) /\ ShuttingDown(s)
          /\ mailbox' = IF cancel[op].fresh THEN mailbox \ {op} ELSE mailbox
          /\ CancelGoto(op, "idle")
          /\ UNCHANGED <<mem, canceled, slot>>
       \/ /\ mem[s].tracked /\ ~IsTerminal(s) /\ ~ShuttingDown(s)
          /\ canceled' = [canceled EXCEPT ![s] = @ \cup {mem[s].token}]
          /\ mem' = [mem EXCEPT ![s].state = "cancel_requested", ![s].preempted = FALSE]
          /\ slot' = IF SlotIsLive(s) THEN [slot EXCEPT ![s] = FALSE] ELSE slot
          /\ CancelGoto(op, IF SlotIsLive(s) THEN "join" ELSE "settle")
          /\ UNCHANGED mailbox
    /\ UNCHANGED <<journal, lease, process, spawns, task, preempt, shutdown, denial, refresh, used>>

\* The joined task settled the run: only retire leftover controls.  Otherwise
\* it returned without a terminal event and the caller settles.
CancelJoined(op) ==
    LET s == cancel[op].on IN
    /\ cancel[op].at = "joined"
    /\ IF mem[s].tracked /\ IsTerminal(s)
       THEN /\ IF lease = NoLease /\ ~DrainRefused(s)
               THEN Drain(s) ELSE UNCHANGED <<journal, mailbox>>
            /\ CancelGoto(op, "idle")
       ELSE /\ CancelGoto(op, IF mem[s].tracked THEN "settle" ELSE "idle")
            /\ UNCHANGED <<journal, mailbox>>
    /\ UNCHANGED <<lease, process, local, task, preempt, shutdown, denial, refresh, used>>

\* settle_canceled_here: a peer that holds the lease settles instead.  The
\* caller that aborted the task gives up on a record that vanished.
CancelSettle(op) ==
    LET s == cancel[op].on IN
    /\ cancel[op].at \in {"settle", "aborted"}
    /\ \/ /\ lease # NoLease \/ (cancel[op].at = "aborted" /\ ~mem[s].tracked)
          /\ CancelGoto(op, "idle")
          /\ UNCHANGED <<journal, mailbox, lease, used>>
       \/ /\ lease = NoLease /\ Drain(s)
          /\ cancel[op].at = "settle" \/ mem[s].tracked
          /\ lease' = <<"cancel", op>>
          /\ CancelGoto(op, "append")
          /\ UNCHANGED used
       \/ /\ lease = NoLease /\ DrainRefused(s)
          /\ CancelGoto(op, "idle")
          /\ UNCHANGED <<journal, mailbox, lease, used>>
       \/ /\ lease = NoLease /\ Fault
          /\ CancelGoto(op, "idle")
          /\ UNCHANGED <<journal, mailbox, lease>>
    /\ UNCHANGED <<process, local, task, preempt, shutdown, denial, refresh>>

\* settle_canceled_under_lease: never a second terminal event.
CancelAppend(op) ==
    LET s == cancel[op].on IN
    /\ cancel[op].at = "append"
    /\ \/ /\ journal' = SettleOnce(journal, CancelOutcome(s))
          /\ cancel' = [cancel EXCEPT ![op].at = "commit", ![op].outcome = CancelOutcome(s)]
          /\ UNCHANGED <<lease, used>>
       \/ /\ Fault
          /\ CancelGoto(op, "idle")
          /\ lease' = NoLease
          /\ UNCHANGED journal
    /\ UNCHANGED <<mailbox, process, local, task, preempt, shutdown, denial, refresh>>

\* The accepted request becomes a settled cancellation in memory.
CancelCommit(op) ==
    LET s == cancel[op].on IN
    /\ cancel[op].at = "commit"
    /\ mem' = IF mem[s].tracked /\ mem[s].state = "cancel_requested"
              THEN [mem EXCEPT ![s].state = cancel[op].outcome] ELSE mem
    /\ lease' = NoLease
    /\ CancelGoto(op, "idle")
    /\ UNCHANGED <<journal, mailbox, process, slot, canceled, spawns, task,
                   preempt, shutdown, denial, refresh, used>>

-----------------------------------------------------------------------------
\* answer and confirm.  Acceptance, the record's fresh tokens and the spawn
\* request are one section under the run-map write lock.

\* Variant: the record keeps showing the prompt.
ResumeUnseen(s) ==
    /\ spawns' = [spawns EXCEPT ![s] = @ \cup {SpawnOf(mem[s])}]
    /\ UNCHANGED mem
Resume(s) ==
    /\ mem' = [mem EXCEPT ![s] = Requeued(@)]
    /\ spawns' = [spawns EXCEPT ![s] = @ \cup {SpawnOf(Requeued(mem[s]))}]

Answer(s) ==
    /\ process[s] = "up" /\ mem[s].tracked
    /\ MayRespond(journal, mailbox) /\ PendingQuestion(journal)
    /\ journal' = Respond(journal)
    /\ Resume(s)
    /\ UNCHANGED <<mailbox, lease, process, slot, canceled, task, calls, used>>

Approve(s) ==
    /\ process[s] = "up" /\ mem[s].tracked /\ mem[s].state = "confirming"
    /\ MayRespond(journal, mailbox) /\ PendingConfirmation(journal)
    /\ journal' = Respond(journal)
    /\ Resume(s)
    /\ UNCHANGED <<mailbox, lease, process, slot, canceled, task, calls, used>>

\* A denial is accepted, or an earlier one is repeated; both reconcile it.
DenyConfirmation(s) ==
    /\ process[s] = "up"
    /\ \/ /\ mem[s].tracked /\ mem[s].state = "confirming"
          /\ MayRespond(journal, mailbox) /\ PendingConfirmation(journal)
          /\ journal' = Deny(journal)
          /\ mem' = [mem EXCEPT ![s].state = "queued"]
       \/ Denied(journal) /\ UNCHANGED <<journal, mem>>
    /\ ReconcileDenial(s)
    /\ UNCHANGED <<mailbox, lease, process, slot, canceled, spawns, task,
                   cancel, preempt, shutdown, refresh, used>>

DenialMark(s) ==
    /\ denial[s] = "mark"
    /\ mem' = IF mem[s].tracked /\ ~IsTerminal(s)
              THEN [mem EXCEPT ![s].state = "queued"] ELSE mem
    /\ denial' = [denial EXCEPT ![s] = "seal"]
    /\ UNCHANGED <<shared, process, slot, canceled, spawns, task,
                   cancel, preempt, shutdown, refresh, used>>

\* settle_confirmed_denial decides and appends under the journal lock.
DenialSeal(s) ==
    /\ denial[s] = "seal"
    /\ \/ /\ DenialIsUnambiguous(journal, mailbox)
          /\ journal' = SealDenial(journal)
          /\ denial' = [denial EXCEPT ![s] = "commit"]
          /\ UNCHANGED used
       \/ /\ \/ ~DenialIsUnambiguous(journal, mailbox) /\ UNCHANGED used
             \/ Fault
          /\ denial' = [denial EXCEPT ![s] = "idle"]
          /\ UNCHANGED journal
    /\ UNCHANGED <<mailbox, lease, process, local, task, cancel, preempt, shutdown, refresh>>

DenialCommit(s) ==
    /\ denial[s] = "commit"
    /\ mem' = IF mem[s].tracked /\ ~IsTerminal(s)
              THEN [mem EXCEPT ![s].state = "failed"] ELSE mem
    /\ denial' = [denial EXCEPT ![s] = "idle"]
    /\ UNCHANGED <<shared, process, slot, canceled, spawns, task,
                   cancel, preempt, shutdown, refresh, used>>

-----------------------------------------------------------------------------
\* settle_shutdown_without_task, called by shutdown and by a preemption that
\* meets one.  A peer that holds the lease settles instead; an accepted denial
\* is reconciled under the lease; an outcome that is already there is kept.

SettleSkipped == lease # NoLease /\ UNCHANGED <<journal, mailbox, lease, denial>>

SettleDenied(s, holder) ==
    /\ lease = NoLease /\ Denied(journal)
    /\ lease' = holder
    /\ ReconcileDenial(s)
    /\ UNCHANGED <<journal, mailbox>>

SettleDrain(s, holder) ==
    /\ lease = NoLease /\ ~Denied(journal)
    /\ lease' = holder
    /\ Drain(s)
    /\ UNCHANGED denial

SettleInterrupted(s) ==
    journal' = SettleOnce(journal, "interrupted")

\* Memory is set only by the party that wrote the event.
MarkInterrupted(s) ==
    mem' = IF mem[s].tracked THEN [mem EXCEPT ![s].state = "interrupted"] ELSE mem

-----------------------------------------------------------------------------
\* preempt_run: the rendezvous that moves a running victim back to the queue.

PreemptGoto(s, point) == preempt' = [preempt EXCEPT ![s].at = point]

\* Memory says running, and under the handoff lock so does the journal.
PreemptBegin(s) ==
    /\ process[s] = "up" /\ preempt[s].at = "idle"
    /\ used.preempts < MaxPreempts
    /\ mem[s].tracked /\ mem[s].state = "running" /\ ~mem[s].preempted
    /\ journal.terminal = "none" /\ journal.execution_started
    /\ ~journal.cancel_requested /\ ~journal.open
    /\ preempt' = [preempt EXCEPT ![s] = [at |-> "mark", resume |-> FALSE]]
    /\ used' = [used EXCEPT !.preempts = @ + 1]
    /\ UNCHANGED <<shared, process, local, task, cancel, shutdown, denial, refresh>>

\* Step boundary: ask for a yield and leave the handle where cancel and
\* shutdown find it.  Interrupt: cancel the engine and take the handle.
PreemptMark(s) ==
    /\ preempt[s].at = "mark"
    /\ \/ /\ \/ ~mem[s].tracked \/ mem[s].state # "running" \/ mem[s].preempted
             \/ Mode = "step_boundary" /\ ~slot[s]
          /\ PreemptGoto(s, "idle")
          /\ UNCHANGED <<mem, slot, canceled>>
       \/ /\ mem[s].tracked /\ mem[s].state = "running" /\ ~mem[s].preempted
          /\ Mode = "step_boundary" /\ slot[s]
          /\ mem' = [mem EXCEPT ![s].preempted = TRUE, ![s].yield = TRUE]
          /\ PreemptGoto(s, IF SlotIsLive(s) THEN "join" ELSE "joined")
          /\ UNCHANGED <<slot, canceled>>
       \/ /\ mem[s].tracked /\ mem[s].state = "running" /\ ~mem[s].preempted
          /\ Mode = "interrupt"
          /\ mem' = [mem EXCEPT ![s].preempted = TRUE, ![s].state = "queued"]
          /\ canceled' = [canceled EXCEPT ![s] = @ \cup {mem[s].token}]
          /\ slot' = [slot EXCEPT ![s] = FALSE]
          /\ PreemptGoto(s, IF SlotIsLive(s) THEN "join" ELSE "joined")
    /\ UNCHANGED <<shared, process, spawns, task, cancel, shutdown, denial, refresh, used>>

\* The execution lease is awaited, unless the service shuts down meanwhile.
PreemptLease(s) ==
    /\ preempt[s].at = "joined"
    /\ \/ lease = NoLease /\ lease' = <<"preempt", s>> /\ PreemptGoto(s, "requeue")
       \/ ShuttingDown(s) /\ PreemptGoto(s, "settle") /\ UNCHANGED lease
    /\ UNCHANGED <<journal, mailbox, process, local, task, cancel, shutdown, denial, refresh, used>>

\* The durable requeue: never past an outcome or an open prompt, and in step
\* boundary mode only behind a durable yield of a run still marked preempted.
PreemptRequeue(s) ==
    LET cut == IF Mode = "interrupt" THEN TruncateCanceled(journal) ELSE journal
        stopped == cut.terminal # "none" \/ cut.open
        mine == mem[s].tracked /\ mem[s].state = "running" /\ mem[s].preempted
        ready == Mode = "interrupt" \/ (mine /\ cut.last = "yielded")
        marked == IF Mode = "interrupt" THEN mem ELSE [mem EXCEPT ![s].state = "queued"]
    IN
    /\ preempt[s].at = "requeue"
    /\ \/ /\ stopped \/ ~ready
          /\ journal' = cut
          /\ PreemptGoto(s, "release")
          /\ UNCHANGED <<mem, used>>
       \/ /\ ~stopped /\ ready
          /\ journal' = Restart(cut)
          /\ mem' = marked
          /\ PreemptGoto(s, "commit")
          /\ UNCHANGED used
       \/ /\ Fault
          /\ journal' \in {journal, cut}
          /\ mem' \in IF ~stopped /\ ready THEN {mem, marked} ELSE {mem}
          /\ PreemptGoto(s, "release")
    /\ UNCHANGED <<mailbox, lease, process, slot, canceled, spawns, task,
                   cancel, shutdown, denial, refresh>>

\* A concurrent cancel wins over the resume.
PreemptCommit(s) ==
    /\ preempt[s].at = "commit"
    /\ IF mem[s].tracked /\ mem[s].state = "queued" /\ mem[s].preempted
       THEN /\ mem' = [mem EXCEPT ![s] = Requeued(@)]
            /\ preempt' = [preempt EXCEPT ![s] = [at |-> "release", resume |-> TRUE]]
       ELSE PreemptGoto(s, "release") /\ UNCHANGED mem
    /\ UNCHANGED <<shared, process, slot, canceled, spawns, task,
                   cancel, shutdown, denial, refresh, used>>

PreemptRelease(s) ==
    /\ preempt[s].at = "release"
    /\ lease' = NoLease
    /\ preempt' = [preempt EXCEPT ![s] =
                      [at |-> IF ShuttingDown(s) THEN "settle" ELSE "idle", resume |-> FALSE]]
    /\ spawns' = IF preempt[s].resume /\ ~ShuttingDown(s) /\ mem[s].tracked
                 THEN [spawns EXCEPT ![s] = @ \cup {SpawnOf(mem[s])}] ELSE spawns
    /\ UNCHANGED <<journal, mailbox, process, mem, slot, canceled, task,
                   cancel, shutdown, denial, refresh, used>>

PreemptSettle(s) ==
    /\ preempt[s].at = "settle"
    /\ \/ SettleSkipped /\ PreemptGoto(s, "idle") /\ UNCHANGED used
       \/ SettleDenied(s, <<"preempt", s>>) /\ PreemptGoto(s, "over") /\ UNCHANGED used
       \/ SettleDrain(s, <<"preempt", s>>) /\ PreemptGoto(s, "append") /\ UNCHANGED used
       \/ Fault /\ PreemptGoto(s, "idle") /\ UNCHANGED <<shared, denial>>
    /\ UNCHANGED <<process, local, task, cancel, shutdown, refresh>>

PreemptAppend(s) ==
    /\ preempt[s].at = "append"
    /\ \/ SettleInterrupted(s) /\ UNCHANGED used
       \/ Fault /\ UNCHANGED journal
    /\ PreemptGoto(s, IF journal' = journal THEN "over" ELSE "settled")
    /\ UNCHANGED <<mailbox, lease, process, local, task, cancel, shutdown, denial, refresh>>

PreemptSettled(s) ==
    /\ \/ preempt[s].at = "settled" /\ MarkInterrupted(s)
       \/ preempt[s].at = "over" /\ denial[s] = "idle" /\ UNCHANGED mem
    /\ lease' = NoLease
    /\ PreemptGoto(s, "idle")
    /\ UNCHANGED <<journal, mailbox, process, slot, canceled, spawns, task,
                   cancel, shutdown, denial, refresh, used>>

-----------------------------------------------------------------------------
\* shutdown_active_runs, then the end of the process.

ShutdownGoto(s, point) == shutdown' = [shutdown EXCEPT ![s].at = point]

ShutdownBegin(s) ==
    /\ process[s] = "up"
    /\ used.shutdowns < MaxShutdowns
    /\ used' = [used EXCEPT !.shutdowns = @ + 1]
    /\ process' = [process EXCEPT ![s] = "stopping"]
    /\ ShutdownGoto(s, IF mem[s].tracked /\ ~IsTerminal(s) THEN "publish" ELSE "late")
    /\ UNCHANGED <<shared, local, task, cancel, preempt, denial, refresh>>

\* A control under an identity of its own, unless a denial was accepted.
ShutdownPublish(s) ==
    /\ shutdown[s].at = "publish"
    /\ IF Denied(journal)
       THEN ReconcileDenial(s) /\ ShutdownGoto(s, "late") /\ UNCHANGED mailbox
       ELSE mailbox' = mailbox \cup {s} /\ ShutdownGoto(s, "signal") /\ UNCHANGED denial
    /\ UNCHANGED <<journal, lease, process, local, task, cancel, preempt, refresh, used>>

ShutdownSignal(s) ==
    /\ shutdown[s].at = "signal"
    /\ IF mem[s].tracked /\ ~IsTerminal(s)
       THEN /\ canceled' = [canceled EXCEPT ![s] = @ \cup {mem[s].token}]
            /\ mem' = [mem EXCEPT ![s].state = "cancel_requested", ![s].preempted = FALSE]
            /\ ShutdownGoto(s, "take")
       ELSE ShutdownGoto(s, "late") /\ UNCHANGED <<mem, canceled>>
    /\ UNCHANGED <<shared, process, slot, spawns, task, cancel, preempt, denial, refresh, used>>

ShutdownTake(s) ==
    /\ shutdown[s].at = "take"
    /\ slot' = [slot EXCEPT ![s] = FALSE]
    /\ ShutdownGoto(s, IF SlotIsLive(s) THEN "join" ELSE IF slot[s] THEN "joined" ELSE "settle")
    /\ UNCHANGED <<shared, process, mem, canceled, spawns, task, cancel, preempt, denial, refresh, used>>

\* The task settled the journal; remaining controls are retired.
ShutdownJoined(s) ==
    /\ shutdown[s].at = "joined"
    /\ IF lease = NoLease /\ ~DrainRefused(s)
       THEN Drain(s) ELSE UNCHANGED <<journal, mailbox>>
    /\ ShutdownGoto(s, "late")
    /\ UNCHANGED <<lease, process, local, task, cancel, preempt, denial, refresh, used>>

\* Where settle_shutdown_without_task returns to; an error ends the shutdown.
AfterSettle(s) == IF shutdown[s].late THEN "orphans" ELSE "late"

ShutdownSettle(s) ==
    /\ shutdown[s].at = "settle"
    /\ \/ SettleSkipped /\ ShutdownGoto(s, AfterSettle(s)) /\ UNCHANGED used
       \/ SettleDenied(s, <<"shutdown", s>>) /\ ShutdownGoto(s, "over") /\ UNCHANGED used
       \/ SettleDrain(s, <<"shutdown", s>>) /\ ShutdownGoto(s, "append") /\ UNCHANGED used
       \/ Fault /\ ShutdownGoto(s, "done") /\ UNCHANGED <<shared, denial>>
    /\ UNCHANGED <<process, local, task, cancel, preempt, refresh>>

ShutdownAppend(s) ==
    /\ shutdown[s].at = "append"
    /\ \/ SettleInterrupted(s) /\ UNCHANGED used
       \/ Fault /\ UNCHANGED journal
    /\ ShutdownGoto(s, IF journal' = journal THEN "over" ELSE "settled")
    /\ UNCHANGED <<mailbox, lease, process, local, task, cancel, preempt, denial, refresh>>

ShutdownSettled(s) ==
    /\ \/ shutdown[s].at = "settled" /\ MarkInterrupted(s)
       \/ shutdown[s].at = "over" /\ denial[s] = "idle" /\ UNCHANGED mem
    /\ lease' = NoLease
    /\ ShutdownGoto(s, AfterSettle(s))
    /\ UNCHANGED <<journal, mailbox, process, slot, canceled, spawns, task,
                   cancel, preempt, denial, refresh, used>>

\* Late admissions without a task go through the same settlement once more.
ShutdownLate(s) ==
    /\ shutdown[s].at = "late"
    /\ shutdown' = [shutdown EXCEPT ![s] =
          [at |-> IF mem[s].tracked /\ ~IsTerminal(s) /\ ~SlotIsLive(s)
                  THEN "settle" ELSE "orphans",
           late |-> TRUE]]
    /\ UNCHANGED <<shared, process, local, task, cancel, preempt, denial, refresh, used>>

\* A started or suspended run that only the disk knows is interrupted too; one
\* that never started is left for the next boot.
ShutdownOrphans(s) ==
    /\ shutdown[s].at = "orphans"
    /\ \/ /\ mem[s].tracked \/ journal.terminal # "none"
          /\ UNCHANGED <<journal, denial>>
       \/ /\ ~mem[s].tracked /\ journal.terminal = "none" /\ Denied(journal)
          /\ ReconcileDenial(s)
          /\ UNCHANGED journal
       \/ /\ ~mem[s].tracked /\ journal.terminal = "none" /\ ~Denied(journal)
          /\ journal' = IF /\ \/ journal.execution_started \/ journal.open
                              \/ journal.cancel_requested
                           /\ lease = NoLease
                        THEN Settle(journal, "interrupted") ELSE journal
          /\ UNCHANGED denial
    /\ ShutdownGoto(s, "done")
    /\ UNCHANGED <<mailbox, lease, process, local, task, cancel, preempt, refresh, used>>

-----------------------------------------------------------------------------
\* Process ends and starts.

HoldsLease(s) == \/ lease \in {<<"task", s>>, <<"preempt", s>>, <<"shutdown", s>>}
                 \/ \E op \in Operations : lease = <<"cancel", op>> /\ cancel[op].on = s

\* Memory, tasks and calls are gone, file locks are released, and an external
\* operation of a running engine may stay unresolved.
ProcessEnds(s) ==
    /\ process' = [process EXCEPT ![s] = "down"]
    /\ mem' = [mem EXCEPT ![s] = Untracked]
    /\ slot' = [slot EXCEPT ![s] = FALSE]
    /\ canceled' = [canceled EXCEPT ![s] = {}]
    /\ spawns' = [spawns EXCEPT ![s] = {}]
    /\ task' = [task EXCEPT ![s] = NoTask]
    /\ cancel' = [op \in Operations |->
                     IF cancel[op].on = s THEN [cancel[op] EXCEPT !.at = "idle"] ELSE cancel[op]]
    /\ preempt' = [preempt EXCEPT ![s] = [at |-> "idle", resume |-> FALSE]]
    /\ shutdown' = [shutdown EXCEPT ![s] = [at |-> "idle", late |-> FALSE]]
    /\ denial' = [denial EXCEPT ![s] = "idle"]
    /\ refresh' = [refresh EXCEPT ![s] = NoRefresh]
    /\ lease' = IF HoldsLease(s) THEN NoLease ELSE lease
    /\ \E lost \in {journal.inflight, journal.inflight \/ task[s].at = "engine"} :
          journal' = [journal EXCEPT !.inflight = lost]
    /\ UNCHANGED mailbox

ShutdownEnds(s) ==
    /\ shutdown[s].at = "done"
    /\ ProcessEnds(s)
    /\ UNCHANGED used

Crash(s) ==
    /\ Running(s)
    /\ used.crashes < MaxCrashes
    /\ used' = [used EXCEPT !.crashes = @ + 1]
    /\ ProcessEnds(s)

\* rehydrate_run: what a process makes of the journal and mailbox it finds.
Rehydrated ==
    CASE journal.terminal # "none" -> "none"
      [] PendingQuestion(journal) -> "waiting"
      [] PendingConfirmation(journal) -> "confirming"
      [] ~Pending(journal) /\ journal.terminal = "none" ->
            IF mailbox # {} THEN "cancel_requested" ELSE "queued"

\* Construction rehydrates the record; resume_recovered_runs spawns it.
Boot(s) ==
    /\ process[s] = "down"
    /\ process' = [process EXCEPT ![s] = "up"]
    /\ IF Rehydrated = "none"
       THEN UNCHANGED <<mem, spawns>>
       ELSE /\ mem' = [mem EXCEPT ![s] = [Untracked EXCEPT !.tracked = TRUE,
                                                         !.state = Rehydrated]]
            /\ spawns' = [spawns EXCEPT ![s] = {SpawnOf(Untracked)}]
    /\ UNCHANGED <<shared, slot, canceled, task, calls, used>>

\* The statuses that the periodic resumer retries.  Variants: one is forgotten.
ResumableUnlessCanceled == {"queued", "running"}
ResumableUnlessQueued == {"cancel_requested", "running"}
Resumable == {"queued", "cancel_requested", "running"}

\* The periodic resumer.  A preempted record belongs to its rendezvous.
ResumeStuck(s) ==
    /\ process[s] = "up"
    /\ mem[s].tracked /\ ~mem[s].preempted /\ ~SlotIsLive(s)
    /\ mem[s].state \in Resumable
    /\ SpawnOf(mem[s]) \notin spawns[s]
    /\ spawns' = [spawns EXCEPT ![s] = @ \cup {SpawnOf(mem[s])}]
    /\ UNCHANGED <<shared, process, mem, slot, canceled, task, calls, used>>

\* A terminal record makes room for a new run.
EvictTerminal(s) ==
    /\ Running(s)
    /\ mem[s].tracked /\ IsTerminal(s)
    /\ mem' = [mem EXCEPT ![s] = [Untracked EXCEPT !.token = mem[s].token]]
    /\ slot' = [slot EXCEPT ![s] = FALSE]
    /\ UNCHANGED <<shared, process, canceled, spawns, task, calls, used>>

\* A retried admission adopts the directory of a run this process does not
\* track.  Its spawn request carries the journal as the retry has read it.
Adopt(s) ==
    LET r == [Untracked EXCEPT !.tracked = TRUE, !.token = mem[s].token + 1]
    IN
    /\ process[s] = "up" /\ ~mem[s].tracked
    /\ used.adoptions < MaxAdoptions
    /\ journal.terminal = "none"
    /\ used' = [used EXCEPT !.adoptions = @ + 1]
    /\ mem' = [mem EXCEPT ![s] = r]
    /\ spawns' = [spawns EXCEPT ![s] = @ \cup {[token |-> r.token, snapshot |-> TRUE]}]
    /\ UNCHANGED <<shared, process, slot, canceled, task, calls>>

-----------------------------------------------------------------------------
\* refresh_shared_runs, on a shared store only: scan the disk, insert what is
\* missing, observe the run without a lock, merge the observation.

RefreshScan(s) ==
    /\ process[s] = "up" /\ refresh[s].at = "idle"
    /\ used.refreshes < MaxRefreshes
    /\ used' = [used EXCEPT !.refreshes = @ + 1]
    /\ refresh' = [refresh EXCEPT ![s] = [NoRefresh EXCEPT !.at = "scanned", !.found = Rehydrated]]
    /\ UNCHANGED <<shared, process, local, task, cancel, preempt, shutdown, denial>>

\* Terminal records leave the map; the scanned run enters if it is not there.
RefreshInsert(s) ==
    LET kept == mem[s].tracked /\ ~IsTerminal(s)
        found == refresh[s].found # "none"
    IN
    /\ refresh[s].at = "scanned"
    /\ IF kept THEN UNCHANGED <<mem, slot>>
       ELSE /\ mem' = [mem EXCEPT ![s] =
                         IF found
                         THEN [Untracked EXCEPT !.tracked = TRUE, !.state = refresh[s].found,
                                                !.token = mem[s].token + 1]
                         ELSE [Untracked EXCEPT !.token = mem[s].token]]
            /\ slot' = [slot EXCEPT ![s] = FALSE]
    /\ refresh' = [refresh EXCEPT ![s] =
          IF kept \/ found
          THEN [at |-> "observed", found |-> "none",
                cancel |-> RemoteCancelRequested(journal, mailbox),
                terminal |-> journal.terminal,
                pending |-> CASE PendingQuestion(journal) -> "waiting"
                              [] PendingConfirmation(journal) -> "confirming"
                              [] OTHER -> "none"]
          ELSE NoRefresh]
    /\ UNCHANGED <<shared, process, canceled, spawns, task, cancel, preempt, shutdown, denial, used>>

\* A terminal outcome comes first, then an accepted cancel, then prompts.
RefreshMerge(s) ==
    LET seen == refresh[s]
        prodded == seen.cancel /\ (seen.terminal = "none" \/ SlotIsLive(s))
        merged == CASE seen.terminal # "none" -> seen.terminal
                    [] seen.terminal = "none" /\ seen.cancel -> "cancel_requested"
                    [] OTHER -> IF mem[s].state = "cancel_requested" THEN mem[s].state
                                ELSE IF seen.pending # "none" THEN seen.pending
                                ELSE IF mem[s].state \in {"waiting", "confirming"} THEN "queued"
                                ELSE mem[s].state
    IN
    /\ seen.at = "observed"
    /\ IF mem[s].tracked
       THEN /\ mem' = [mem EXCEPT ![s].state = merged,
                        ![s].preempted = @ /\ ~(seen.cancel /\ seen.terminal = "none")]
            /\ canceled' = IF prodded THEN [canceled EXCEPT ![s] = @ \cup {mem[s].token}]
                           ELSE canceled
       ELSE UNCHANGED <<mem, canceled>>
    /\ refresh' = [refresh EXCEPT ![s] = NoRefresh]
    /\ UNCHANGED <<shared, process, slot, spawns, task, cancel, preempt, shutdown, denial, used>>

-----------------------------------------------------------------------------
\* One service has admitted the run and asked for its first spawn.
Init ==
    /\ journal = Admitted
    /\ mailbox = {}
    /\ lease = NoLease
    /\ process = [s \in Services |-> "up"]
    /\ \E owner \in Services :
          /\ mem = [s \in Services |-> [Untracked EXCEPT !.tracked = (s = owner)]]
          /\ spawns = [s \in Services |-> IF s = owner THEN {SpawnOf(Untracked)} ELSE {}]
          /\ cancel = [op \in Operations |->
                         [at |-> "idle", on |-> owner, fresh |-> FALSE, outcome |-> "queued"]]
    /\ slot = [s \in Services |-> FALSE]
    /\ canceled = [s \in Services |-> {}]
    /\ task = [s \in Services |-> NoTask]
    /\ preempt = [s \in Services |-> [at |-> "idle", resume |-> FALSE]]
    /\ shutdown = [s \in Services |-> [at |-> "idle", late |-> FALSE]]
    /\ denial = [s \in Services |-> "idle"]
    /\ refresh = [s \in Services |-> NoRefresh]
    /\ used = [cancels |-> 0, preempts |-> 0, crashes |-> 0, shutdowns |-> 0, faults |-> 0, adoptions |-> 0,
               refreshes |-> 0]

SpawnStep(s) == SpawnStarts(s) \/ SpawnAborts(s) \/ SpawnGivesUp(s)

TaskStep(s) ==
    \/ TaskReconcile(s) \/ TaskFail(s) \/ TaskDrain(s) \/ TaskQueued(s) \/ TaskAdmitted(s)
    \/ TaskStart(s) \/ TaskEngine(s) \/ TaskReturned(s)
    \/ FinishUntracked(s) \/ FinishCanceled(s) \/ FinishOutcome(s) \/ FinishSuspension(s)
    \/ TaskRequeue(s) \/ TaskCommit(s)
    \/ TaskCancelDrain(s) \/ TaskCancelAppend(s) \/ TaskCancelCommit(s)
    \/ TaskSettleDrain(s) \/ TaskSettleAppend(s) \/ TaskSettleCommit(s)
    \/ TaskFinished(s)

CancelStep(op) ==
    \/ CancelPublish(op) \/ CancelSignal(op) \/ CancelJoined(op)
    \/ CancelSettle(op) \/ CancelAppend(op) \/ CancelCommit(op)

DenialStep(s) == DenialMark(s) \/ DenialSeal(s) \/ DenialCommit(s)

PreemptStep(s) ==
    \/ PreemptMark(s) \/ PreemptLease(s) \/ PreemptRequeue(s) \/ PreemptCommit(s)
    \/ PreemptRelease(s) \/ PreemptSettle(s) \/ PreemptAppend(s) \/ PreemptSettled(s)

ShutdownStep(s) ==
    \/ ShutdownPublish(s) \/ ShutdownSignal(s) \/ ShutdownTake(s) \/ ShutdownJoined(s)
    \/ ShutdownSettle(s) \/ ShutdownAppend(s) \/ ShutdownSettled(s)
    \/ ShutdownLate(s) \/ ShutdownOrphans(s) \/ ShutdownEnds(s)

RefreshStep(s) == RefreshScan(s) \/ RefreshInsert(s) \/ RefreshMerge(s)

\* What clients, operators and the environment may do at any time.
UserStep(s) == Answer(s) \/ Approve(s) \/ DenyConfirmation(s) \/ Adopt(s)
               \/ PreemptBegin(s) \/ ShutdownBegin(s) \/ Crash(s) \/ EvictTerminal(s)

Next ==
    \/ \E s \in Services :
          \/ SpawnStep(s) \/ TaskStep(s) \/ JoinTimeout(s) \/ DenialStep(s)
          \/ PreemptStep(s) \/ ShutdownStep(s) \/ RefreshStep(s) \/ UserStep(s)
          \/ Boot(s) \/ ResumeStuck(s)
    \/ \E op \in Operations :
          CancelStep(op) \/ (\E s \in Services : CancelBegin(op, s))

Spec == Init /\ [][Next]_vars

-----------------------------------------------------------------------------
(***************************************************************************)
(* Fairness.  Every step of the service is a future that the runtime polls *)
(* again, a bounded wait, or the supervised resumer loop, and a stopped    *)
(* process is started again.  The engine's own progress depends on user    *)
(* code and is not assumed.  Clients, crashes, preemptions and refreshes   *)
(* happen or not.                                                          *)
(***************************************************************************)
TaskProgress(s) == task[s].at # "engine" /\ TaskStep(s)

Fairness ==
    /\ \A s \in Services :
          /\ WF_vars(SpawnStep(s)) /\ WF_vars(TaskProgress(s)) /\ WF_vars(JoinTimeout(s))
          /\ WF_vars(DenialStep(s)) /\ WF_vars(PreemptStep(s)) /\ WF_vars(ShutdownStep(s))
          /\ WF_vars(Boot(s)) /\ WF_vars(ResumeStuck(s))
    /\ \A op \in Operations : WF_vars(CancelStep(op))

FairSpec == Spec /\ Fairness

-----------------------------------------------------------------------------
\* Safety.

\* Who works on the run directory holds the execution lease, so that no two
\* parties of any processes drive, requeue or settle the run at a time:
\* spawn_engine_run's task up to its last write, settle_canceled_here,
\* preempt_run's durable requeue and settle_shutdown_without_task.
SingleWriter ==
    /\ \A s \in Services :
          task[s].at \notin {"idle", "exiting"} => lease = <<"task", s>>
    /\ \A op \in Operations :
          cancel[op].at \in {"append", "commit"} => lease = <<"cancel", op>>
    /\ \A s \in Services :
          preempt[s].at \in {"requeue", "commit", "release", "append", "settled", "over"}
             => lease = <<"preempt", s>>
    /\ \A s \in Services :
          shutdown[s].at \in {"append", "settled", "over"} => lease = <<"shutdown", s>>

\* As long as the journal can be read it never gets a second terminal event,
\* whichever of the engine, finish_run, a cancel, a preemption, a shutdown and
\* a denial comes last.  (finish_canceled_run takes a failing read for an
\* unsettled run, and an interrupted journal accepts its event.)
AtMostOneOutcome == used.faults = 0 => journal.terminals <= 1

\* A status query that shows a settled run shows something that survives a
\* restart: the journal is settled too, and a success is shown only for a
\* journaled success (finish_run, finish_canceled_run and the cancel and
\* shutdown settlements write the journal before the memory record).
ReportedOutcomeIsDurable ==
    \A s \in Services : mem[s].tracked /\ IsTerminal(s) =>
        /\ journal.terminal # "none"
        /\ mem[s].state = "succeeded" => journal.terminal = "succeeded"

\* What the comments of cancel and finish_canceled_run promise beyond that: a
\* completion that won the race with a cancellation is what memory shows.
OutcomeAgrees ==
    \A s \in Services : mem[s].tracked /\ IsTerminal(s) => journal.terminal = mem[s].state

\* A durable outcome is final: no requeue, resume, answer or later settlement
\* replaces it (spawn_engine_run's and preempt_run's terminal checks).
OutcomeNeverErased ==
    [][journal.terminal # "none" => journal'.terminal = journal.terminal]_vars

\* The engine never starts on a run that is settled on disk, although the
\* memory record that the queue loop trusts may be older than the journal.
NeverResumesSettled ==
    [][\A s \in Services :
          task[s].at = "start" /\ task'[s].at = "engine" => journal.terminal = "none"]_vars

\* A run with an external effect of unknown outcome is failed closed, never
\* executed again, whatever stopped the execution: crash, abort or cancel.
UnresolvedNeverResumes ==
    [][\A s \in Services :
          task[s].at = "start" /\ task'[s].at = "engine" => ~journal.inflight]_vars

\* A cancel control leaves the mailbox only into the journal, beside a durable
\* outcome, or with the refusal that a stopping service returns to the client.
ControlConsumedOnlyWhenRecorded ==
    [][\A op \in mailbox \ mailbox' :
          \/ op \in journal'.cancel_operations
          \/ journal'.terminal # "none"
          \/ op \in Operations /\ cancel[op].at = "signal" /\ ShuttingDown(cancel[op].on)]_vars

\* A prompt that a status query shows can be answered: the record leaves
\* waiting and confirming no later than the journal leaves the prompt.
VisiblePromptIsOpen ==
    \A s \in Services :
        mem[s].tracked /\ mem[s].state \in {"waiting", "confirming"} => journal.open

\* A denied confirmation ends the run as failed: nothing executes after the
\* denial and no other outcome is written (reconcile_denial against spawn,
\* cancel, preemption and shutdown).
DeniedRunNeverExecutes ==
    journal.denied => /\ \A s \in Services : task[s].at # "engine"
                      /\ journal.terminal \in {"none", "failed"}

-----------------------------------------------------------------------------
\* Liveness.

\* A published cancel control settles the run, even when the process crashes
\* and restarts, or the engine never returns by itself (JoinTimeout).
CancelSettles ==
    \A op \in Operations : (op \in mailbox) ~> (journal.terminal # "none")

\* An answered or approved prompt resumes the execution or the run settles,
\* although the spawn request may be lost to the old task's slot or a crash.
AnswerResumes ==
    \A n \in 1..MaxPrompts :
        (journal.asked = n /\ ~journal.open) ~>
            \/ journal.terminal # "none"
            \/ journal.asked > n
            \/ \E s \in Services : task[s].at = "engine"

\* A prompt that the engine has journaled is shown to clients at last, also
\* when the suspension races a preemption or the process crashes in between.
PromptBecomesVisible ==
    Pending(journal) ~>
        \/ ~Pending(journal)
        \/ \E s \in Services : mem[s].tracked /\ mem[s].state \in {"waiting", "confirming"}
=============================================================================
