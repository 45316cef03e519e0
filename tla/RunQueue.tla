------------------------------ MODULE RunQueue ------------------------------
(***************************************************************************)
(* The execution slots of one service and the runs that compete for them:  *)
(* queue.rs, the queue loop of spawn_engine_run, the direct pipeline, and   *)
(* priority preemption.  What the journal holds is left to RunLifecycle;   *)
(* here a run is its memory record, its task, and the wakeups it gets.     *)
(*                                                                         *)
(* A waiter registers a Notified future, reads the run map, tries to take  *)
(* a slot and parks.  notify_waiters wakes every future that exists when   *)
(* it is called, so a change of the map and the notification right after   *)
(* it are one step: a waiter has read the map either before both, and is   *)
(* woken, or after both, and has seen the change.                          *)
(***************************************************************************)
EXTENDS Integers, FiniteSets

CONSTANTS
    Runs,           \* the runs this service may track
    Priority,       \* the priority of each run
    MaxActive,      \* max_active_runs
    Mode,           \* "step_boundary" or "interrupt": PreemptionMode
    Preserve,       \* PreemptionQueuePosition is preserve, not tail
    DirectRuns,     \* runs of the direct pipeline: ephemeral records
    PeerRuns,       \* runs that another process of a shared store executes
    Adopted,        \* bound: runs admitted by a retry that adopts their journal
    Prompting,      \* bound: runs that ask one confirmation
    Deniable,       \* bound: those whose confirmation may be denied
    Cancelable      \* bound: runs that may be canceled

ASSUME RunsAssumption ==
    /\ IsFiniteSet(Runs)
    /\ Priority \in [Runs -> Int]
    /\ MaxActive \in Nat \ {0}
ASSUME PolicyAssumption == Mode \in {"step_boundary", "interrupt"} /\ Preserve \in BOOLEAN
ASSUME KindAssumption ==
    /\ DirectRuns \subseteq Runs /\ PeerRuns \subseteq Runs \ DirectRuns
    /\ Prompting \subseteq Runs \ (DirectRuns \cup PeerRuns)
    /\ Deniable \subseteq Prompting /\ Cancelable \subseteq Runs \ DirectRuns
    /\ Adopted \subseteq Runs \ (DirectRuns \cup PeerRuns)

VARIABLES
    record,     \* state of the memory record, "absent" when untracked
    preempted,  \* the record is marked by a preemption
    denied,     \* a denial of the run's confirmation is journaled
    earlier,    \* per run: the runs whose queued_at stamp precedes its own
    stop,       \* the record's cancellation token is cancelled
    task,       \* where the run's task is
    woken,      \* the task's Notified future has been notified
    progress,   \* how the last engine call of the run returned
    call,       \* the admission or decision call in progress
    cancel,     \* the cancel call in progress
    preempt,    \* the preemption rendezvous of the run
    peer,       \* per run: what a peer process does with it
    available,  \* PriorityPermits: free slots
    ahead       \* history: the runs that were queued with an earlier stamp when
                \* this one entered the queue, and have been so ever since

queue == <<record, preempted, denied, earlier, stop>>
calls == <<call, cancel, preempt>>
service == <<queue, task, woken, progress, calls, peer, available>>
vars == <<service, ahead>>

TypeOK ==
    /\ record \in [Runs -> {"absent", "queued", "running", "confirming",
                            "cancel_requested", "settled"}]
    /\ preempted \in [Runs -> BOOLEAN] /\ denied \in [Runs -> BOOLEAN]
    /\ earlier \in [Runs -> SUBSET Runs]
    /\ stop \in [Runs -> BOOLEAN]
    /\ task \in [Runs -> {"none", "start", "top", "head", "take", "parked", "settle",
                          "admitted", "abandon", "engine", "finish"}]
    /\ woken \in [Runs -> BOOLEAN]
    /\ progress \in [Runs -> {"none", "settled", "asked", "yielded", "canceled"}]
    /\ call \in [Runs -> {"idle", "staged", "admit", "arrived", "spawn", "deny"}]
    /\ cancel \in [Runs -> {"idle", "settle", "join"}]
    /\ preempt \in [Runs -> {"idle", "begin", "wait", "requeue"}]
    /\ peer \in [Runs -> {"none", "executing", "settled"}]
    /\ available \in 0..MaxActive
    /\ ahead \in [Runs -> SUBSET Runs]

-----------------------------------------------------------------------------
\* queue.rs.

\* queue_key: higher priority first, then the earlier stamp.
Ahead(q, r) == \/ Priority[q] > Priority[r]
               \/ Priority[q] = Priority[r] /\ q \in earlier[r]

\* queue_head.  Variant: any queued run may proceed.
IsQueuedRun(r) == record[r] = "queued"
IsHead(r) == /\ record[r] = "queued"
             /\ \A q \in Runs \ {r} : record[q] = "queued" => ~Ahead(q, r)

\* The order once r's queued_at lies after exactly the stamps of E.  Stamps are
\* distinct; a fresh one is later than every other.
Placed(r, E) == [q \in Runs |-> CASE q = r -> E
                                  [] q \in E -> earlier[q] \ {r}
                                  [] OTHER -> earlier[q] \cup {r}]
Stamped(r) == Placed(r, Runs \ {r})

\* The places a stamp that was taken before, and is read from the journal, may
\* have in the order.
Places(r) == {E \in SUBSET (Runs \ {r}) : \A q \in E : earlier[q] \ {r} \subseteq E}

\* A task between the creation of its Notified future and its next decision.
\* A notification reaches the futures that exist.
Waiting(r) == task[r] \in {"head", "take", "parked"}
Notify == woken' = [r \in Runs |-> woken[r] \/ Waiting(r)]

\* select_preemption_victim over what preempt_for_priority collects: nothing
\* while the records leave a slot, else the lowest priority below the arrival,
\* ties to the larger run id (here: to any).
Occupied == Cardinality({r \in Runs \ DirectRuns : record[r] = "running"})
Victims(arrival) ==
    LET low == {v \in Runs \ DirectRuns :
                   /\ record[v] = "running" /\ ~preempted[v]
                   /\ Priority[v] < Priority[arrival]}
    IN IF Occupied < MaxActive THEN {}
       ELSE {v \in low : \A w \in low : Priority[v] <= Priority[w]}

-----------------------------------------------------------------------------
\* Admission, and the spawn that follows it or a decision.

Goto(r, point) == task' = [task EXCEPT ![r] = point]

\* queued_at is taken, or read from the journal that a retry adopts, before
\* run_queued is appended and before the run map is locked.
Stage(r) ==
    /\ r \notin PeerRuns \cup DirectRuns /\ record[r] = "absent" /\ call[r] = "idle"
    /\ IF r \in Adopted THEN \E E \in Places(r) : earlier' = Placed(r, E)
                         ELSE earlier' = Stamped(r)
    /\ call' = [call EXCEPT ![r] = "staged"]
    /\ UNCHANGED <<record, preempted, denied, stop, task, woken, progress, cancel, preempt,
                   peer, available>>

\* register_admission under the write lock: the staged record joins the queue,
\* unless shutdown or a full map refuses it.
Register(r) ==
    /\ call[r] = "staged"
    /\ \/ /\ record' = [record EXCEPT ![r] = "queued"]
          /\ call' = [call EXCEPT ![r] = "admit"]
       \/ call' = [call EXCEPT ![r] = "idle"] /\ UNCHANGED record
    /\ UNCHANGED <<preempted, denied, earlier, stop, task, woken, progress, cancel, preempt,
                   peer, available>>

\* A direct run is stamped under the write lock, and waits in its own call.
AdmitDirect(r) ==
    /\ r \in DirectRuns /\ record[r] = "absent"
    /\ record' = [record EXCEPT ![r] = "queued"]
    /\ earlier' = Stamped(r)
    /\ Goto(r, "top")
    /\ UNCHANGED <<preempted, denied, stop, woken, progress, calls, peer, available>>

\* spawn_engine_run, then notify_waiters.  A spawn that meets a live task of
\* the run is dropped.
SpawnCall(r) ==
    /\ call[r] \in {"admit", "spawn"}
    /\ IF task[r] = "none" THEN Goto(r, "start") ELSE UNCHANGED task
    /\ call' = [call EXCEPT ![r] = IF @ = "admit" THEN "arrived" ELSE "idle"]
    /\ Notify
    /\ UNCHANGED <<queue, progress, cancel, preempt, peer, available>>

\* preempt_for_priority: at most one victim per arrival.
PreemptForPriority(r) ==
    /\ call[r] = "arrived"
    /\ call' = [call EXCEPT ![r] = "idle"]
    /\ \/ Victims(r) = {} /\ UNCHANGED preempt
       \/ \E v \in Victims(r) :
             preempt' = [preempt EXCEPT ![v] = IF @ = "idle" THEN "begin" ELSE @]
    /\ UNCHANGED <<queue, task, woken, progress, cancel, peer, available>>

\* The resumer, after a grace period that outlasts a spawn in progress.  While
\* a peer executes the run its lease stays busy: nothing is spawned, but the
\* waiters are woken.
ResumeStuck(r) ==
    /\ r \notin DirectRuns
    /\ record[r] \in {"queued", "cancel_requested", "running"}
    /\ ~preempted[r] /\ task[r] = "none" /\ call[r] \notin {"admit", "spawn"}
    /\ \/ peer[r] = "executing" /\ ~stop[r] /\ Notify /\ UNCHANGED task
       \/ peer[r] # "executing" /\ Goto(r, "start") /\ UNCHANGED woken
    /\ UNCHANGED <<queue, progress, calls, peer, available>>

-----------------------------------------------------------------------------
\* The queue loop.

\* An accepted denial fails the run instead of queueing it.
TaskStart(r) ==
    /\ task[r] = "start"
    /\ \/ /\ denied[r]
          /\ record' = [record EXCEPT ![r] = "settled"]
          /\ Goto(r, "none")
          /\ Notify
       \/ ~denied[r] /\ Goto(r, "top") /\ UNCHANGED <<record, woken>>
    /\ UNCHANGED <<preempted, denied, earlier, stop, progress, calls, peer, available>>

\* The Notified future is created first, so that no later notification is
\* missed.  A direct run does not observe its cancellation here.
LoopTop(r) ==
    /\ task[r] = "top"
    /\ Goto(r, IF stop[r] /\ r \notin DirectRuns THEN "settle" ELSE "head")
    /\ UNCHANGED <<queue, woken, progress, calls, peer, available>>

\* One read of the run map.
LoopHead(r) ==
    /\ task[r] = "head"
    /\ \/ /\ record[r] # "queued" /\ r \notin DirectRuns
          /\ Goto(r, "none")
          /\ woken' = [woken EXCEPT ![r] = FALSE]
       \/ /\ record[r] = "queued" \/ r \in DirectRuns
          /\ Goto(r, IF IsHead(r) THEN "take" ELSE "parked")
          /\ UNCHANGED woken
    /\ UNCHANGED <<queue, progress, calls, peer, available>>

\* PriorityPermits::try_take, after the run map was released.  Variant: the
\* counter is not asked.
TakeUnchecked(r) ==
    /\ task[r] = "take"
    /\ available' = available - 1
    /\ Goto(r, "admitted")
    /\ woken' = [woken EXCEPT ![r] = FALSE]
    /\ UNCHANGED <<queue, progress, calls, peer>>
LoopTake(r) ==
    /\ task[r] = "take"
    /\ \/ /\ available > 0
          /\ available' = available - 1
          /\ Goto(r, "admitted")
          /\ woken' = [woken EXCEPT ![r] = FALSE]
       \/ available = 0 /\ Goto(r, "parked") /\ UNCHANGED <<woken, available>>
    /\ UNCHANGED <<queue, progress, calls, peer>>

LoopWake(r) ==
    /\ task[r] = "parked"
    /\ \/ woken[r] /\ Goto(r, "top")
       \/ stop[r] /\ r \notin DirectRuns /\ Goto(r, "settle")
    /\ woken' = [woken EXCEPT ![r] = FALSE]
    /\ UNCHANGED <<queue, progress, calls, peer, available>>

\* settle_queued_cancel without a slot.
TaskSettle(r) ==
    /\ task[r] = "settle"
    /\ record' = [record EXCEPT ![r] = "settled"]
    /\ preempted' = [preempted EXCEPT ![r] = FALSE]
    /\ Goto(r, "none")
    /\ Notify
    /\ UNCHANGED <<denied, earlier, stop, progress, calls, peer, available>>

-----------------------------------------------------------------------------
\* The task that holds a slot.

\* Dropping the permit returns the slot and wakes the waiters.  Variant: the
\* waiters are not woken.
ReleaseSilently == available' = available + 1 /\ UNCHANGED woken
Release == available' = available + 1 /\ Notify

\* One section under the write lock: a settled or canceled run gives the slot
\* back, anything else runs and wakes the waiters for spare slots.
Overtaken(r) == /\ r \notin DirectRuns
                /\ \/ record[r] \in {"settled", "cancel_requested"}
                   \/ stop[r] \/ peer[r] = "settled"
TaskAdmitted(r) ==
    /\ task[r] = "admitted"
    /\ \/ Overtaken(r) /\ Goto(r, "abandon") /\ UNCHANGED <<record, woken>>
       \/ /\ ~Overtaken(r)
          /\ record' = [record EXCEPT ![r] = "running"]
          /\ Goto(r, "engine")
          /\ Notify
    /\ UNCHANGED <<preempted, denied, earlier, stop, progress, calls, peer, available>>

\* The early returns drop the permit.  Variant: they keep it.
AbandonKeepsSlot(r) ==
    /\ task[r] = "abandon"
    /\ record' = [record EXCEPT ![r] = "settled"]
    /\ preempted' = [preempted EXCEPT ![r] = FALSE]
    /\ Goto(r, "none")
    /\ Notify
    /\ UNCHANGED <<denied, earlier, stop, progress, calls, peer, available>>
TaskAbandon(r) ==
    /\ task[r] = "abandon"
    /\ record' = [record EXCEPT ![r] = "settled"]
    /\ preempted' = [preempted EXCEPT ![r] = FALSE]
    /\ Goto(r, "none")
    /\ Release
    /\ UNCHANGED <<denied, earlier, stop, progress, calls, peer>>

MayReturn(r, p) ==
    \/ p = "settled"
    \/ p = "asked" /\ r \in Prompting /\ progress[r] # "asked"
    \/ p = "yielded" /\ preempted[r] /\ Mode = "step_boundary"
    \/ p = "canceled" /\ stop[r]

\* The engine returns and the slot is free before finish_run moves the record;
\* a direct run removes its record first ("settled" stands for removed).
EngineReturns(r) ==
    /\ task[r] = "engine"
    /\ \E p \in {"settled", "asked", "yielded", "canceled"} :
          MayReturn(r, p) /\ progress' = [progress EXCEPT ![r] = p]
    /\ IF r \in DirectRuns
       THEN record' = [record EXCEPT ![r] = "settled"] /\ Goto(r, "none")
       ELSE Goto(r, "finish") /\ UNCHANGED record
    /\ Release
    /\ UNCHANGED <<preempted, denied, earlier, stop, calls, peer>>

\* A yielded or, in interrupt mode, preempted run is left to its rendezvous;
\* otherwise finish_run moves the record and wakes the waiters.
TaskFinish(r) ==
    /\ task[r] = "finish"
    /\ Goto(r, "none")
    /\ IF progress[r] = "yielded" \/ (preempted[r] /\ Mode = "interrupt")
       THEN UNCHANGED <<record, preempted, woken>>
       ELSE /\ preempted' = [preempted EXCEPT ![r] = FALSE]
            /\ record' = [record EXCEPT ![r] =
                             IF progress[r] = "asked" /\ @ = "running" THEN "confirming"
                             ELSE "settled"]
            /\ Notify
    /\ UNCHANGED <<denied, earlier, stop, progress, calls, peer, available>>

-----------------------------------------------------------------------------
\* Decisions and cancels.

Approve(r) ==
    /\ record[r] = "confirming" /\ call[r] = "idle"
    /\ record' = [record EXCEPT ![r] = "queued"]
    /\ earlier' = Stamped(r)
    /\ stop' = [stop EXCEPT ![r] = FALSE]
    /\ preempted' = [preempted EXCEPT ![r] = FALSE]
    /\ call' = [call EXCEPT ![r] = "spawn"]
    /\ UNCHANGED <<denied, task, woken, progress, cancel, preempt, peer, available>>

\* A denied run is queued, with its old stamp, until the denial is settled.
Deny(r) ==
    /\ r \in Deniable /\ record[r] = "confirming" /\ call[r] = "idle"
    /\ record' = [record EXCEPT ![r] = "queued"]
    /\ denied' = [denied EXCEPT ![r] = TRUE]
    /\ call' = [call EXCEPT ![r] = "deny"]
    /\ UNCHANGED <<preempted, earlier, stop, task, woken, progress, cancel, preempt,
                   peer, available>>

\* reconcile_denial ends without a notification.
DenyCommit(r) ==
    /\ call[r] = "deny"
    /\ record' = [record EXCEPT ![r] = "settled"]
    /\ call' = [call EXCEPT ![r] = "idle"]
    /\ UNCHANGED <<preempted, denied, earlier, stop, task, woken, progress, cancel,
                   preempt, peer, available>>

\* A cancel is accepted.  The caller joins a live task or settles by itself.
Cancel(r) ==
    /\ r \in Cancelable /\ ~denied[r] /\ cancel[r] = "idle"
    /\ record[r] \in {"queued", "running", "confirming"}
    /\ record' = [record EXCEPT ![r] = "cancel_requested"]
    /\ stop' = [stop EXCEPT ![r] = TRUE]
    /\ preempted' = [preempted EXCEPT ![r] = FALSE]
    /\ cancel' = [cancel EXCEPT ![r] = IF task[r] = "none" THEN "settle" ELSE "join"]
    /\ UNCHANGED <<denied, earlier, task, woken, progress, call, preempt, peer, available>>

\* settle_canceled_here.  A lease held elsewhere ends the call as a conflict,
\* without a notification.
CancelEnds(r) ==
    /\ \/ /\ cancel[r] = "settle"
          /\ peer[r] = "executing" \/ task[r] # "none"
          /\ UNCHANGED <<record, woken>>
       \/ /\ cancel[r] # "idle" /\ peer[r] # "executing" /\ task[r] = "none"
          /\ record' = [record EXCEPT ![r] = "settled"]
          /\ Notify
    /\ cancel' = [cancel EXCEPT ![r] = "idle"]
    /\ UNCHANGED <<preempted, denied, earlier, stop, task, progress, call, preempt,
                   peer, available>>

-----------------------------------------------------------------------------
\* preempt_run.

\* Step boundary asks for a yield; interrupt cancels the engine and queues the
\* record at once.
PreemptBegin(v) ==
    /\ preempt[v] = "begin"
    /\ \/ /\ record[v] # "running" \/ preempted[v]
          /\ preempt' = [preempt EXCEPT ![v] = "idle"]
          /\ UNCHANGED <<record, preempted, stop>>
       \/ /\ record[v] = "running" /\ ~preempted[v]
          /\ preempt' = [preempt EXCEPT ![v] = "wait"]
          /\ preempted' = [preempted EXCEPT ![v] = TRUE]
          /\ IF Mode = "interrupt"
             THEN /\ record' = [record EXCEPT ![v] = "queued"]
                  /\ stop' = [stop EXCEPT ![v] = TRUE]
             ELSE UNCHANGED <<record, stop>>
    /\ UNCHANGED <<denied, earlier, task, woken, progress, call, cancel, peer, available>>

\* When the task has ended and the lease is free: a run whose journal got an
\* outcome or a prompt is left alone, and so is one that a cancel took from a
\* step boundary; otherwise run_queued is appended.
PreemptAppend(v) ==
    LET stopped == progress[v] \in {"settled", "asked"}
        lost == Mode = "step_boundary" /\ ~(preempted[v] /\ record[v] = "running")
    IN
    /\ preempt[v] = "wait" /\ task[v] = "none"
    /\ \/ /\ stopped \/ lost
          /\ preempt' = [preempt EXCEPT ![v] = "idle"]
          /\ UNCHANGED record
       \/ /\ ~stopped /\ ~lost
          /\ preempt' = [preempt EXCEPT ![v] = "requeue"]
          /\ record' = [record EXCEPT ![v] = IF Mode = "step_boundary" THEN "queued" ELSE @]
    /\ UNCHANGED <<preempted, denied, earlier, stop, task, woken, progress, call, cancel,
                   peer, available>>

\* A second section under the write lock installs the staged record: fresh
\* tokens, and the old stamp or the time of the append, which runs stamped
\* since may follow.  A cancel that came first wins.
PreemptInstall(v) ==
    /\ preempt[v] = "requeue"
    /\ preempt' = [preempt EXCEPT ![v] = "idle"]
    /\ \/ /\ record[v] = "queued" /\ preempted[v]
          /\ preempted' = [preempted EXCEPT ![v] = FALSE]
          /\ stop' = [stop EXCEPT ![v] = FALSE]
          /\ IF Preserve THEN UNCHANGED earlier ELSE \E E \in Places(v) : earlier' = Placed(v, E)
          /\ call' = [call EXCEPT ![v] = "spawn"]
          /\ UNCHANGED woken
       \/ /\ ~(record[v] = "queued" /\ preempted[v])
          /\ Notify
          /\ UNCHANGED <<preempted, earlier, stop, call>>
    /\ UNCHANGED <<record, denied, task, progress, cancel, peer, available>>

-----------------------------------------------------------------------------
\* A shared store: refresh_shared_runs shows a run that a peer executes as a
\* queued record, and its end as a settled one, without a notification.

RefreshInsert(r) ==
    /\ r \in PeerRuns /\ record[r] = "absent"
    /\ record' = [record EXCEPT ![r] = "queued"]
    /\ \E E \in Places(r) : earlier' = Placed(r, E)
    /\ peer' = [peer EXCEPT ![r] = "executing"]
    /\ UNCHANGED <<preempted, denied, stop, task, woken, progress, calls, available>>

PeerSettles(r) ==
    /\ peer[r] = "executing"
    /\ peer' = [peer EXCEPT ![r] = "settled"]
    /\ UNCHANGED <<queue, task, woken, progress, calls, available>>

RefreshMerge(r) ==
    /\ peer[r] = "settled" /\ record[r] \in {"queued", "cancel_requested"}
    /\ record' = [record EXCEPT ![r] = "settled"]
    /\ UNCHANGED <<preempted, denied, earlier, stop, task, woken, progress, calls, peer, available>>

-----------------------------------------------------------------------------
Init ==
    /\ record = [r \in Runs |-> "absent"]
    /\ preempted = [r \in Runs |-> FALSE] /\ denied = [r \in Runs |-> FALSE]
    /\ earlier = [r \in Runs |-> {}]
    /\ stop = [r \in Runs |-> FALSE]
    /\ task = [r \in Runs |-> "none"]
    /\ woken = [r \in Runs |-> FALSE]
    /\ progress = [r \in Runs |-> "none"]
    /\ call = [r \in Runs |-> "idle"]
    /\ cancel = [r \in Runs |-> "idle"]
    /\ preempt = [r \in Runs |-> "idle"]
    /\ peer = [r \in Runs |-> "none"]
    /\ available = MaxActive
    /\ ahead = [r \in Runs |-> {}]

TaskStep(r) ==
    \/ TaskStart(r) \/ LoopTop(r) \/ LoopHead(r) \/ LoopTake(r) \/ LoopWake(r)
    \/ TaskSettle(r) \/ TaskAdmitted(r) \/ TaskAbandon(r) \/ EngineReturns(r) \/ TaskFinish(r)

CallStep(r) == \/ Register(r) \/ SpawnCall(r) \/ PreemptForPriority(r)
               \/ DenyCommit(r) \/ CancelEnds(r)

PreemptStep(r) == PreemptBegin(r) \/ PreemptAppend(r) \/ PreemptInstall(r)

PeerStep(r) == PeerSettles(r) \/ RefreshMerge(r)

\* Clients and the scan of a shared store act or not.
UserStep(r) == \/ Stage(r) \/ AdmitDirect(r) \/ Approve(r) \/ Deny(r) \/ Cancel(r)
               \/ RefreshInsert(r)

Step(r) ==
    TaskStep(r) \/ CallStep(r) \/ PreemptStep(r) \/ PeerStep(r) \/ ResumeStuck(r) \/ UserStep(r)

\* The history.  A run that is ahead of r drops out when it leaves the queue or
\* is stamped anew.
Remember ==
    ahead' = [r \in Runs |-> {q \in earlier'[r] :
                                /\ record'[r] = "queued" /\ record'[q] = "queued"
                                /\ record[r] = "queued" => q \in ahead[r]}]

Next == (\E r \in Runs : Step(r)) /\ Remember

Spec == Init /\ [][Next]_vars

\* Futures are polled, engines return, peers finish and the periodic resumer
\* and refresh loops run.
FairSpec ==
    /\ Spec
    /\ \A r \in Runs :
          /\ WF_service(TaskStep(r)) /\ WF_service(CallStep(r)) /\ WF_service(PreemptStep(r))
          /\ WF_service(PeerStep(r)) /\ WF_service(ResumeStuck(r))

-----------------------------------------------------------------------------
\* No slot is lost or handed out twice on any of the ways a task ends: the
\* free slots and the tasks between try_take and the drop of the permit make
\* up max_active_runs (PriorityPermits, Permit::drop).
Holders == {r \in Runs : task[r] \in {"admitted", "abandon", "engine"}}
SlotsConserved == available + Cardinality(Holders) = MaxActive

\* First come first served among equals (queue_head): a run that entered the
\* queue behind an equal never starts while that one still waits in front of
\* it, although its head check and its start are steps apart and a run may
\* enter the queue, or come back to it, with any older stamp meanwhile.
FifoAmongEquals ==
    [][\A r \in Runs : task[r] = "admitted" /\ task'[r] = "engine"
                        => \A q \in ahead[r] : Priority[q] # Priority[r]]_vars

\* A queued run is started, suspended or settled at last, while no denial is
\* accepted and no peer's run is shown: the register-then-check loop loses no
\* wakeup, whatever arrivals, decisions, cancels and preemptions do.
Undisturbed == \A r \in Runs : ~denied[r] /\ peer[r] = "none"
QueueDrains ==
    []Undisturbed => \A r \in Runs : (record[r] = "queued") ~> (record[r] # "queued")

\* The same without the proviso: "a freed ordering slot must not wait for an
\* unrelated notification" (the comment in answer).
QueueNeverStalls == \A r \in Runs : (record[r] = "queued") ~> (record[r] # "queued")
=============================================================================
