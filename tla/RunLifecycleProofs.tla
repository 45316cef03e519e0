----------------------- MODULE RunLifecycleProofs -----------------------
(***************************************************************************)
(* The safety of a run's life for every number of services, operations,    *)
(* prompts, crashes, shutdowns and preemptions.                            *)
(*                                                                         *)
(* SingleWriter is inductive together with TypeOK: each party takes the    *)
(* lease only when it is free and moves to a point where it writes in the  *)
(* same step, and gives it back only from such a point, where by induction *)
(* it is the holder.  The other results rest on it: who writes an outcome  *)
(* or loses an effect does so where no task can be starting.               *)
(*                                                                         *)
(* TypeOK, SingleWriter       every setting, faults included               *)
(* EntryInv                   the same; gives UnresolvedNeverResumes       *)
(* OutcomeInv                 PlainRun; gives AtMostOneOutcome and         *)
(*                            NeverResumesSettled                          *)
(* ShownInv                   SteadyRun; gives ReportedOutcomeIsDurable    *)
(*                            and, with Keeps, OutcomeNeverErased and      *)
(*                            ControlConsumedOnlyWhenRecorded              *)
(* DenialInv                  ConfirmedRun; gives DeniedRunNeverExecutes   *)
(***************************************************************************)
EXTENDS RunLifecycle, TLAPS

-----------------------------------------------------------------------------
(* Types.  TypeOK is inductive as it stands.  The first lemmas say that    *)
(* the journal operators and the small state updates keep their types, so  *)
(* that the proof of an action need not look into the records it does not  *)
(* change.                                                                 *)

\* The journal operators.

\* Fields of a well-formed journal that the lifecycle reads.
LEMMA JournalFields ==
  ASSUME NEW st \in RunState
  PROVE  /\ st.terminal \in Terminals \cup {"none"}
         /\ st.inflight \in BOOLEAN /\ st.open \in BOOLEAN
         /\ st.asked \in 0..MaxPrompts
  BY DEF RunState

\* run_queued, run_started and run_resumed keep the journal well formed.
LEMMA RestartType ==
  ASSUME NEW st \in RunState
  PROVE  Restart(st) \in RunState /\ Start(st) \in RunState
  BY DEF RunState, Restart, Start

\* Journaling the controls of a mailbox keeps it well formed.
LEMMA DrainType ==
  ASSUME NEW st \in RunState, NEW box \in SUBSET Controls
  PROVE  DrainControls(st, box) \in RunState
  BY DEF RunState, DrainControls

\* So do a change of the in-flight mark and of the last event.
LEMMA MarkType ==
  ASSUME NEW st \in RunState, NEW lost \in BOOLEAN, NEW what \in {"other", "yielded"}
  PROVE  /\ [st EXCEPT !.inflight = lost] \in RunState
         /\ [st EXCEPT !.last = what] \in RunState
  BY DEF RunState

\* A terminal event keeps it well formed: the count is capped.
LEMMA SettleType ==
  ASSUME NEW st \in RunState, NEW outcome \in Terminals
  PROVE  Settle(st, outcome) \in RunState
<1> DEFINE n == IF st.terminals < 2 THEN st.terminals + 1 ELSE st.terminals
<1>1. n \in 0..2
  BY DEF RunState
<1>2. Settle(st, outcome) = [st EXCEPT !.terminal = outcome, !.terminals = n, !.last = "other"]
  BY DEF Settle
<1> HIDE DEF n
<1> QED
  BY <1>1, <1>2 DEF RunState

\* So does a settlement that first reads.
LEMMA SettleOnceType ==
  ASSUME NEW st \in RunState, NEW outcome \in Terminals
  PROVE  SettleOnce(st, outcome) \in RunState
  BY SettleType DEF SettleOnce

\* So does the settlement of a denial.
LEMMA SealType ==
  ASSUME NEW st \in RunState
  PROVE  SealDenial(st) \in RunState
<1> DEFINE settled == Settle(st, "failed")
<1>1. settled \in RunState
  BY SettleType DEF Terminals, Final
<1>2. SealDenial(st) \in {st, [settled EXCEPT !.last = "sealed"]}
  BY DEF SealDenial
<1> HIDE DEF settled
<1> QED
  BY <1>1, <1>2 DEF RunState

\* A prompt within the bound keeps it well formed.
LEMMA AskType ==
  ASSUME NEW st \in RunState, st.asked < MaxPrompts
  PROVE  Ask(st) \in RunState
<1> DEFINE n == st.asked + 1
<1>1. n \in 0..MaxPrompts
  BY PromptAssumption DEF RunState
<1>2. Ask(st) = [st EXCEPT !.asked = n, !.open = TRUE, !.last = "other"]
  BY DEF Ask
<1> HIDE DEF n
<1> QED
  BY <1>1, <1>2 DEF RunState

\* So do an answer, an approval and a denial.
LEMMA RespondType ==
  ASSUME NEW st \in RunState
  PROVE  Respond(st) \in RunState /\ Deny(st) \in RunState
  BY DEF RunState, Respond, Deny

\* So does the cut of a trailing run_canceled.
LEMMA TruncateType ==
  ASSUME NEW st \in RunState
  PROVE  TruncateCanceled(st) \in RunState
<1> DEFINE n == IF st.terminals > 0 THEN st.terminals - 1 ELSE 0
<1>1. n \in 0..2
  BY DEF RunState
<1>2. TruncateCanceled(st) \in {st, [st EXCEPT !.terminal = "none", !.last = "other", !.terminals = n]}
  BY DEF TruncateCanceled
<1> HIDE DEF n
<1> QED
  BY <1>1, <1>2 DEF RunState

\* The values that reset a task, a record and a refresh are well formed.
LEMMA ResetTypes ==
  /\ NoTask \in EngineTask
  /\ [NoTask EXCEPT !.at = "exiting"] \in EngineTask
  /\ Untracked \in RunRecord
  /\ NoRefresh \in RefreshCall
<1>1. NoTask \in EngineTask
  BY DEF NoTask, EngineTask, TaskPoint, Progress, Statuses, Tokens
<1>1a. [NoTask EXCEPT !.at = "exiting"] \in EngineTask
  BY <1>1 DEF EngineTask, TaskPoint
<1>2. Untracked \in RunRecord
  BY DEF Untracked, RunRecord, Statuses, Tokens
<1>3. NoRefresh \in RefreshCall
  BY DEF NoRefresh, RefreshCall
<1> QED
  BY <1>1, <1>1a, <1>2, <1>3

\* A task moves on.
LEMMA GotoType ==
  ASSUME TypeOK, NEW s \in Services, NEW point \in TaskPoint, Goto(s, point)
  PROVE  task' \in [Services -> EngineTask]
  BY DEF TypeOK, Goto, EngineTask

\* A task that exits leaves no lease behind.
LEMMA ExitType ==
  ASSUME TypeOK, NEW s \in Services, Exit(s)
  PROVE  task' \in [Services -> EngineTask] /\ lease' \in Holders \cup {NoLease}
  BY ResetTypes DEF TypeOK, Exit

\* An injected fault stays within its bound.
LEMMA FaultType ==
  ASSUME TypeOK, Fault
  PROVE  used' \in Bounds
  BY BoundAssumption DEF TypeOK, Fault, Bounds

\* drain_cancel_controls keeps the journal and the mailbox well formed.
LEMMA DrainTypes ==
  ASSUME TypeOK, NEW s \in Services, Drain(s)
  PROVE  journal' \in RunState /\ mailbox' \in SUBSET Controls
  BY DrainType DEF TypeOK, Drain

\* A denial reconciliation starts or is joined.
LEMMA ReconcileType ==
  ASSUME TypeOK, NEW s \in Services, ReconcileDenial(s)
  PROVE  denial' \in [Services -> {"idle", "mark", "seal", "commit"}]
  BY DEF TypeOK, ReconcileDenial

\* A cancel call moves on.
LEMMA CancelGotoType ==
  ASSUME TypeOK, NEW op \in Operations,
         NEW point \in {"idle", "publish", "signal", "join", "joined", "aborted",
                        "settle", "append", "commit"},
         CancelGoto(op, point)
  PROVE  cancel' \in [Operations -> CancelCall]
  BY DEF TypeOK, CancelGoto, CancelCall

\* A preemption moves on.
LEMMA PreemptGotoType ==
  ASSUME TypeOK, NEW s \in Services,
         NEW point \in {"idle", "mark", "join", "joined", "requeue", "commit",
                        "release"} \cup Settling,
         PreemptGoto(s, point)
  PROVE  preempt' \in [Services -> PreemptCall]
  BY DEF TypeOK, PreemptGoto, PreemptCall

\* A shutdown moves on.
LEMMA ShutdownGotoType ==
  ASSUME TypeOK, NEW s \in Services,
         NEW point \in {"idle", "publish", "signal", "take", "join", "joined",
                        "late", "orphans", "done"} \cup Settling,
         ShutdownGoto(s, point)
  PROVE  shutdown' \in [Services -> ShutdownCall]
  BY DEF TypeOK, ShutdownGoto, ShutdownCall

\* A joiner that is woken keeps its call.
LEMMA WokenTypes ==
  /\ \A call \in CancelCall : Woken(call) \in CancelCall
  /\ \A call \in PreemptCall : Woken(call) \in PreemptCall
  /\ \A call \in ShutdownCall : Woken(call) \in ShutdownCall
<1>1. \A call \in CancelCall : Woken(call) \in CancelCall
  BY DEF Woken, CancelCall
<1>2. \A call \in PreemptCall : Woken(call) \in PreemptCall
  BY DEF Woken, PreemptCall
<1>3. \A call \in ShutdownCall : Woken(call) \in ShutdownCall
  BY DEF Woken, ShutdownCall
<1> QED
  BY <1>1, <1>2, <1>3

\* A record with fresh tokens, and the spawn request made from a record.
LEMMA RecordTypes ==
  ASSUME NEW r \in RunRecord
  PROVE  /\ Requeued(r) \in RunRecord
         /\ SpawnOf(r) \in SpawnRun
         /\ r.token \in Tokens /\ r.token + 1 \in Tokens
<1>1. SpawnOf(r) \in SpawnRun
  BY DEF SpawnOf, SpawnRun, RunRecord
<1>2. r.token \in Tokens /\ r.token + 1 \in Tokens
  BY DEF RunRecord, Tokens
<1> DEFINE n == r.token + 1
<1>3. Requeued(r) = [r EXCEPT !.state = "queued", !.preempted = FALSE,
                              !.token = n, !.yield = FALSE]
  BY DEF Requeued
<1> HIDE DEF n
<1>4. Requeued(r) \in RunRecord
  BY <1>2, <1>3 DEF RunRecord, Statuses, n
<1> QED
  BY <1>1, <1>2, <1>4

\* rehydrate_run yields a status, or nothing for a settled run.
LEMMA RehydratedType ==
  ASSUME TypeOK
  PROVE  Rehydrated \in Statuses \cup {"none"}
  BY JournalFields DEF TypeOK, Rehydrated, Statuses, Pending, PendingQuestion,
     PendingConfirmation

\* A record gets a status or changes its preemption mark.
LEMMA StatusTypes ==
  ASSUME TypeOK, NEW s \in Services, NEW st \in Statuses, NEW b \in BOOLEAN
  PROVE  /\ [mem EXCEPT ![s].state = st] \in [Services -> RunRecord]
         /\ [mem EXCEPT ![s].state = st, ![s].preempted = b] \in [Services -> RunRecord]
<1>1. mem \in [Services -> RunRecord]
  BY DEF TypeOK
<1> QED
  BY <1>1 DEF RunRecord

\* A record is replaced as a whole.
LEMMA ReplaceType ==
  ASSUME TypeOK, NEW s \in Services, NEW r \in RunRecord
  PROVE  [mem EXCEPT ![s] = r] \in [Services -> RunRecord]
  BY DEF TypeOK

\* A task remembers how the engine call returned.
LEMMA ReturnType ==
  ASSUME TypeOK, NEW s \in Services, NEW progress \in Progress, Return(s, progress)
  PROVE  task' \in [Services -> EngineTask]
<1>1. task \in [Services -> EngineTask]
  BY DEF TypeOK
<1> QED
  BY <1>1 DEF EngineTask, Return, TaskPoint

\* A task that notes the outcome it is about to show stays a task.
LEMMA NoteType ==
  ASSUME TypeOK, NEW s \in Services, NEW point \in TaskPoint, NEW written \in Statuses
  PROVE  [task EXCEPT ![s].at = point, ![s].outcome = written] \in [Services -> EngineTask]
<1>1. task \in [Services -> EngineTask]
  BY DEF TypeOK
<1> QED
  BY <1>1 DEF EngineTask

\* The outcomes that the parties write.
LEMMA OutcomeTypes ==
  /\ \A s \in Services : CancelOutcome(s) \in Terminals
  /\ "failed" \in Terminals /\ "interrupted" \in Terminals /\ "succeeded" \in Terminals
  /\ Terminals \subseteq Statuses
  BY DEF CancelOutcome, Terminals, Final, Statuses, Settled

\* What settle_shutdown_without_task does first, for either caller.
LEMMA SettleTypes ==
  ASSUME TypeOK, NEW s \in Services, NEW holder \in Holders
  PROVE  /\ SettleDenied(s, holder) =>
               /\ lease' \in Holders \cup {NoLease}
               /\ denial' \in [Services -> {"idle", "mark", "seal", "commit"}]
         /\ SettleDrain(s, holder) =>
               /\ lease' \in Holders \cup {NoLease}
               /\ journal' \in RunState /\ mailbox' \in SUBSET Controls
<1>1. ASSUME SettleDenied(s, holder)
      PROVE  /\ lease' \in Holders \cup {NoLease}
             /\ denial' \in [Services -> {"idle", "mark", "seal", "commit"}]
  BY <1>1, ReconcileType DEF SettleDenied
<1>2. ASSUME SettleDrain(s, holder)
      PROVE  /\ lease' \in Holders \cup {NoLease}
             /\ journal' \in RunState /\ mailbox' \in SUBSET Controls
  BY <1>2, DrainTypes DEF SettleDrain
<1> QED
  BY <1>1, <1>2

\* A stopped engine may leave an operation in flight.
LEMMA LostType ==
  ASSUME TypeOK, NEW b \in BOOLEAN,
         \E lost \in {journal.inflight, journal.inflight \/ b} :
            journal' = [journal EXCEPT !.inflight = lost]
  PROVE  journal' \in RunState
<1>1. journal \in RunState /\ journal.inflight \in BOOLEAN
  BY JournalFields DEF TypeOK
<1>2. PICK lost \in BOOLEAN : journal' = [journal EXCEPT !.inflight = lost]
  BY <1>1
<1> QED
  BY <1>1, <1>2, MarkType

\* The end of a process forgets everything the process kept.
LEMMA ProcessEndsType ==
  ASSUME TypeOK, NEW s \in Services, ProcessEnds(s), used' \in Bounds
  PROVE  TypeOK'
<1>1. journal' \in RunState
  <2>1. (task[s].at = "engine") \in BOOLEAN
    OBVIOUS
  <2> QED
    BY <2>1, LostType DEF ProcessEnds
<1>2. lease' \in Holders \cup {NoLease}
  BY DEF TypeOK, ProcessEnds
<1>3. /\ process' \in [Services -> {"up", "stopping", "down"}]
      /\ slot' \in [Services -> BOOLEAN]
      /\ canceled' \in [Services -> SUBSET Tokens]
      /\ spawns' \in [Services -> SUBSET SpawnRun]
      /\ denial' \in [Services -> {"idle", "mark", "seal", "commit"}]
  BY DEF TypeOK, ProcessEnds
<1>4. /\ mem' \in [Services -> RunRecord]
      /\ task' \in [Services -> EngineTask]
      /\ refresh' \in [Services -> RefreshCall]
  BY ResetTypes DEF TypeOK, ProcessEnds
<1>5. cancel' \in [Operations -> CancelCall]
  <2>1. cancel \in [Operations -> CancelCall]
    BY DEF TypeOK
  <2>2. \A op \in Operations : [cancel[op] EXCEPT !.at = "idle"] \in CancelCall
    BY <2>1 DEF CancelCall
  <2> QED
    BY <2>1, <2>2 DEF ProcessEnds
<1>6. preempt' \in [Services -> PreemptCall] /\ shutdown' \in [Services -> ShutdownCall]
  BY DEF TypeOK, ProcessEnds, PreemptCall, ShutdownCall
<1> QED
  BY <1>1, <1>2, <1>3, <1>4, <1>5, <1>6 DEF TypeOK, ProcessEnds

\* A task starts with the token and the snapshot mark of its request.
LEMMA StartedTaskType ==
  ASSUME NEW r \in SpawnRun
  PROVE  [NoTask EXCEPT !.at = "reconcile", !.token = r.token, !.snapshot = r.snapshot]
            \in EngineTask
<1>1. NoTask \in EngineTask
  BY ResetTypes
<1> QED
  BY <1>1 DEF EngineTask, SpawnRun, TaskPoint

-----------------------------------------------------------------------------
\* One lemma per party, one case per action, one step per variable it changes.

\* Spawn requests become tasks or are dropped: types are preserved.
LEMMA SpawnStepType ==
  ASSUME TypeOK, NEW s \in Services, SpawnStep(s)
  PROVE  TypeOK'
<1>1. CASE SpawnStarts(s)
  <2>1. lease' \in Holders \cup {NoLease}
    BY <1>1 DEF TypeOK, SpawnStarts, Holders
  <2>2. slot' \in [Services -> BOOLEAN]
    BY <1>1 DEF TypeOK, SpawnStarts
  <2>3. spawns' \in [Services -> SUBSET SpawnRun]
    BY <1>1, ResetTypes DEF TypeOK, SpawnStarts
  <2>4. task' \in [Services -> EngineTask]
    <3>1. PICK r \in spawns[s] :
            task' = [task EXCEPT ![s] = [NoTask EXCEPT !.at = "reconcile",
                                           !.token = r.token, !.snapshot = r.snapshot]]
      BY <1>1 DEF SpawnStarts
    <3>2. r \in SpawnRun
      BY DEF TypeOK
    <3> QED
      BY <1>1, <3>1, <3>2, StartedTaskType DEF TypeOK
  <2> QED
    BY <1>1, <2>1, <2>2, <2>3, <2>4 DEF TypeOK, SpawnStarts, calls
<1>2. CASE SpawnAborts(s)
  <2>1. spawns' \in [Services -> SUBSET SpawnRun]
    BY <1>2 DEF TypeOK, SpawnAborts
  <2> QED
    BY <1>2, <2>1 DEF TypeOK, SpawnAborts, shared, calls
<1>3. CASE SpawnGivesUp(s)
  <2>1. spawns' \in [Services -> SUBSET SpawnRun]
    BY <1>3 DEF TypeOK, SpawnGivesUp
  <2> QED
    BY <1>3, <2>1 DEF TypeOK, SpawnGivesUp, shared, calls
<1> QED
  BY <1>1, <1>2, <1>3 DEF SpawnStep

\* The engine task, from its lease to its end: types are preserved.
LEMMA TaskStepType ==
  ASSUME TypeOK, NEW s \in Services, TaskStep(s)
  PROVE  TypeOK'
<1>1. CASE TaskReconcile(s)
  <2>1. journal' \in RunState
    BY <1>1, SealType, SettleOnceType DEF TypeOK, TaskReconcile, Terminals, Final
  <2>2. lease' \in Holders \cup {NoLease}
    BY <1>1, ExitType DEF TypeOK, TaskReconcile
  <2>3. task' \in [Services -> EngineTask]
    BY <1>1, ExitType, GotoType DEF TypeOK, TaskReconcile, TaskPoint
  <2>4. used' \in Bounds
    BY <1>1, FaultType DEF TypeOK, TaskReconcile
  <2> QED
    BY <1>1, <2>1, <2>2, <2>3, <2>4 DEF TypeOK, TaskReconcile, local, calls
<1>2. CASE TaskFail(s)
  <2>1. lease' \in Holders \cup {NoLease}
    BY <1>2, ExitType DEF TypeOK, TaskFail
  <2>2. mem' \in [Services -> RunRecord]
    BY <1>2, StatusTypes, OutcomeTypes DEF TypeOK, TaskFail, Statuses
  <2>3. task' \in [Services -> EngineTask]
    BY <1>2, ExitType DEF TypeOK, TaskFail
  <2> QED
    BY <1>2, <2>1, <2>2, <2>3 DEF TypeOK, TaskFail, calls
<1>3. CASE TaskDrain(s)
  <2>1. journal' \in RunState
    BY <1>3, DrainTypes DEF TypeOK, TaskDrain
  <2>2. mailbox' \in SUBSET Controls
    BY <1>3, DrainTypes DEF TypeOK, TaskDrain
  <2>3. lease' \in Holders \cup {NoLease}
    BY <1>3, ExitType DEF TypeOK, TaskDrain
  <2>4. task' \in [Services -> EngineTask]
    BY <1>3, ExitType, GotoType DEF TypeOK, TaskDrain, TaskPoint
  <2>5. used' \in Bounds
    BY <1>3, FaultType DEF TypeOK, TaskDrain
  <2> QED
    BY <1>3, <2>1, <2>2, <2>3, <2>4, <2>5 DEF TypeOK, TaskDrain, local, calls
<1>4. CASE TaskQueued(s)
  <2>1. lease' \in Holders \cup {NoLease}
    BY <1>4, ExitType DEF TypeOK, TaskQueued
  <2>2. task' \in [Services -> EngineTask]
    BY <1>4, ExitType, GotoType DEF TypeOK, TaskQueued, TaskPoint
  <2>3. used' \in Bounds
    BY <1>4, FaultType DEF TypeOK, TaskQueued
  <2> QED
    BY <1>4, <2>1, <2>2, <2>3 DEF TypeOK, TaskQueued, local, calls
<1>5. CASE TaskAdmitted(s)
  <2>1. lease' \in Holders \cup {NoLease}
    BY <1>5, ExitType DEF TypeOK, TaskAdmitted
  <2>2. mem' \in [Services -> RunRecord]
    <3>1. mem \in [Services -> RunRecord] /\ journal.terminal \in Terminals \cup {"none"}
      BY JournalFields DEF TypeOK
    <3> QED
      BY <1>5, <3>1
      DEF TaskAdmitted, RunRecord, Statuses, Settled, SettledOnDisk
  <2>3. task' \in [Services -> EngineTask]
    BY <1>5, ExitType, GotoType DEF TypeOK, TaskAdmitted, TaskPoint
  <2>4. used' \in Bounds
    BY <1>5, FaultType DEF TypeOK, TaskAdmitted
  <2> QED
    BY <1>5, <2>1, <2>2, <2>3, <2>4 DEF TypeOK, TaskAdmitted, calls
<1>6. CASE TaskStart(s)
  <2>1. journal' \in RunState
    BY <1>6, RestartType, SettleType DEF TypeOK, TaskStart, Terminals, Final
  <2>2. task' \in [Services -> EngineTask]
    BY <1>6, GotoType, ReturnType DEF TypeOK, TaskStart, TaskPoint, Progress
  <2>3. used' \in Bounds
    BY <1>6, FaultType DEF TypeOK, TaskStart
  <2> QED
    BY <1>6, <2>1, <2>2, <2>3 DEF TypeOK, TaskStart, local, calls
<1>7. CASE TaskEngine(s)
  <2>1. journal' \in RunState
    <3>1. journal \in RunState /\ journal.inflight \in BOOLEAN
      BY JournalFields DEF TypeOK
    <3>2. CASE EngineSucceeds(s) \/ EngineFails(s) \/ EngineErrors(s)
      BY <3>1, <3>2, SettleType, OutcomeTypes DEF EngineSucceeds, EngineFails, EngineErrors
    <3>3. CASE EngineAsks(s)
      BY <3>1, <3>3, AskType DEF EngineAsks
    <3>4. CASE EngineCancels(s)
      <4>1. Settle(journal, CancelOutcome(s)) \in RunState
        BY <3>1, SettleType, OutcomeTypes
      <4>2. PICK lost \in BOOLEAN :
               journal' = [Settle(journal, CancelOutcome(s)) EXCEPT !.inflight = lost]
        BY <3>1, <3>4 DEF EngineCancels
      <4> QED
        BY <4>1, <4>2, MarkType
    <3>5. CASE EngineYields(s)
      BY <3>1, <3>5, MarkType DEF EngineYields
    <3> QED
      BY <1>7, <3>2, <3>3, <3>4, <3>5 DEF TaskEngine
  <2>2. task' \in [Services -> EngineTask]
    BY <1>7, ReturnType
    DEF TypeOK, TaskEngine, EngineSucceeds, EngineFails, EngineErrors, EngineAsks,
        EngineCancels, EngineYields, Progress
  <2> QED
    BY <1>7, <2>1, <2>2 DEF TypeOK, TaskEngine, EngineErrors, local, calls
<1>8. CASE TaskReturned(s)
  <2>1. lease' \in Holders \cup {NoLease}
    BY <1>8, ExitType DEF TypeOK, TaskReturned
  <2>2. mem' \in [Services -> RunRecord]
    <3>1. mem \in [Services -> RunRecord]
      BY DEF TypeOK
    <3>2. [mem EXCEPT ![s].yield = FALSE, ![s].preempted = FALSE] \in [Services -> RunRecord]
      BY <3>1 DEF RunRecord
    <3> QED
      BY <1>8, <3>1, <3>2 DEF TaskReturned
  <2>3. task' \in [Services -> EngineTask]
    BY <1>8, ExitType, GotoType DEF TypeOK, TaskReturned, TaskPoint
  <2> QED
    BY <1>8, <2>1, <2>2, <2>3 DEF TypeOK, TaskReturned, calls
<1>9. CASE FinishUntracked(s)
  <2>1. lease' \in Holders \cup {NoLease}
    BY <1>9, ExitType DEF TypeOK, FinishUntracked
  <2>2. task' \in [Services -> EngineTask]
    BY <1>9, ExitType DEF TypeOK, FinishUntracked
  <2> QED
    BY <1>9, <2>1, <2>2 DEF TypeOK, FinishUntracked, local, calls
<1>10. CASE FinishCanceled(s)
  <2>1. task' \in [Services -> EngineTask]
    BY <1>10, GotoType DEF TypeOK, FinishCanceled, TaskPoint
  <2> QED
    BY <1>10, <2>1 DEF TypeOK, FinishCanceled, shared, local, calls
<1>11. CASE FinishOutcome(s)
  <2>1. journal' \in RunState
    BY <1>11, SettleOnceType DEF TypeOK, FinishOutcome, Terminals, Final
  <2>2. lease' \in Holders \cup {NoLease}
    BY <1>11, ExitType DEF TypeOK, FinishOutcome
  <2>3. task' \in [Services -> EngineTask]
    <3>1. task \in [Services -> EngineTask] /\ journal.terminal \in Terminals \cup {"none"}
      BY JournalFields DEF TypeOK
    <3> DEFINE outcome == FinishedAs(s)
    <3>2. outcome \in Statuses
      BY <3>1, OutcomeTypes DEF FinishedAs, Statuses, Settled, Terminals, Final
    <3>3. Exit(s) \/ task' = [task EXCEPT ![s].at = "commit", ![s].outcome = outcome]
      BY <1>11 DEF FinishOutcome
    <3> HIDE DEF outcome
    <3>4. [task EXCEPT ![s].at = "commit", ![s].outcome = outcome] \in [Services -> EngineTask]
      BY <3>2, NoteType DEF TaskPoint
    <3> QED
      BY <3>3, <3>4, ExitType
  <2>4. used' \in Bounds
    BY <1>11, FaultType DEF TypeOK, FinishOutcome
  <2> QED
    BY <1>11, <2>1, <2>2, <2>3, <2>4 DEF TypeOK, FinishOutcome, local, calls
<1>12. CASE FinishSuspension(s)
  <2>1. journal' \in RunState
    BY <1>12, MarkType, JournalFields DEF TypeOK, FinishSuspension
  <2>2. lease' \in Holders \cup {NoLease}
    BY <1>12, ExitType DEF TypeOK, FinishSuspension
  <2>3. mem' \in [Services -> RunRecord]
    <3>1. mem \in [Services -> RunRecord]
      BY DEF TypeOK
    <3> QED
      BY <1>12, <3>1
      DEF FinishSuspension, RunRecord, Statuses
  <2>4. task' \in [Services -> EngineTask]
    BY <1>12, ExitType, GotoType DEF TypeOK, FinishSuspension, TaskPoint
  <2>5. used' \in Bounds
    BY <1>12, FaultType DEF TypeOK, FinishSuspension
  <2> QED
    BY <1>12, <2>1, <2>2, <2>3, <2>4, <2>5 DEF TypeOK, FinishSuspension, calls
<1>13. CASE TaskRequeue(s)
  <2>1. lease' \in Holders \cup {NoLease}
    BY <1>13, ExitType DEF TypeOK, TaskRequeue
  <2>2. mem' \in [Services -> RunRecord]
    BY <1>13, RecordTypes DEF TypeOK, TaskRequeue, RunRecord, Statuses
  <2>3. spawns' \in [Services -> SUBSET SpawnRun]
    BY <1>13, RecordTypes DEF TypeOK, TaskRequeue
  <2>4. task' \in [Services -> EngineTask]
    BY <1>13, ExitType DEF TypeOK, TaskRequeue
  <2>5. used' \in Bounds
    BY <1>13, FaultType DEF TypeOK, TaskRequeue
  <2> QED
    BY <1>13, <2>1, <2>2, <2>3, <2>4, <2>5 DEF TypeOK, TaskRequeue, calls
<1>14. CASE TaskCommit(s)
  <2>1. lease' \in Holders \cup {NoLease}
    BY <1>14, ExitType DEF TypeOK, TaskCommit
  <2>2. mem' \in [Services -> RunRecord]
    <3>1. mem \in [Services -> RunRecord] /\ task \in [Services -> EngineTask]
      BY DEF TypeOK
    <3> QED
      BY <1>14, <3>1
      DEF TaskCommit, RunRecord, Statuses, EngineTask
  <2>3. task' \in [Services -> EngineTask]
    BY <1>14, ExitType, ResetTypes, JournalFields
    DEF TypeOK, TaskCommit, EngineTask, TaskPoint, Progress, Statuses, Settled,
        Terminals, Final
  <2> QED
    BY <1>14, <2>1, <2>2, <2>3 DEF TypeOK, TaskCommit, calls
<1>15. CASE TaskCancelDrain(s)
  <2>1. journal' \in RunState
    BY <1>15, DrainTypes DEF TypeOK, TaskCancelDrain
  <2>2. mailbox' \in SUBSET Controls
    BY <1>15, DrainTypes DEF TypeOK, TaskCancelDrain
  <2>3. lease' \in Holders \cup {NoLease}
    BY <1>15, ExitType DEF TypeOK, TaskCancelDrain
  <2>4. task' \in [Services -> EngineTask]
    BY <1>15, ExitType, GotoType DEF TypeOK, TaskCancelDrain, TaskPoint
  <2>5. used' \in Bounds
    BY <1>15, FaultType DEF TypeOK, TaskCancelDrain
  <2> QED
    BY <1>15, <2>1, <2>2, <2>3, <2>4, <2>5
    DEF TypeOK, TaskCancelDrain, local, calls
<1>16. CASE TaskCancelAppend(s)
  <2>1. journal' \in RunState
    <3> DEFINE outcome == IF journal.terminal = "none" THEN CancelOutcome(s) ELSE journal.terminal
    <3>1. journal \in RunState /\ CancelOutcome(s) \in Terminals
      BY OutcomeTypes DEF TypeOK
    <3>2. outcome \in Terminals
      BY <3>1, JournalFields
    <3>3. journal' \in {journal, SettleOnce(journal, outcome), Settle(journal, CancelOutcome(s))}
      BY <1>16 DEF TaskCancelAppend
    <3> HIDE DEF outcome
    <3> QED
      BY <3>1, <3>2, <3>3, SettleOnceType, SettleType
  <2>2. lease' \in Holders \cup {NoLease}
    BY <1>16, ExitType DEF TypeOK, TaskCancelAppend
  <2>3. task' \in [Services -> EngineTask]
    <3> DEFINE outcome == IF journal.terminal = "none" THEN CancelOutcome(s) ELSE journal.terminal
    <3>1. outcome \in Statuses /\ CancelOutcome(s) \in Statuses
      BY JournalFields, OutcomeTypes DEF TypeOK
    <3>2. Exit(s) \/ \E written \in {outcome, CancelOutcome(s)} :
             task' = [task EXCEPT ![s].at = "cancel_commit", ![s].outcome = written]
      BY <1>16 DEF TaskCancelAppend
    <3> HIDE DEF outcome
    <3>3. ASSUME NEW written \in {outcome, CancelOutcome(s)}
          PROVE  [task EXCEPT ![s].at = "cancel_commit", ![s].outcome = written]
                    \in [Services -> EngineTask]
      BY <3>1, NoteType DEF TaskPoint
    <3> QED
      BY <1>16, <3>2, <3>3, ExitType
  <2>4. used' \in Bounds
    BY <1>16, FaultType DEF TypeOK, TaskCancelAppend
  <2> QED
    BY <1>16, <2>1, <2>2, <2>3, <2>4 DEF TypeOK, TaskCancelAppend, local, calls
<1>17. CASE TaskCancelCommit(s)
  <2>1. lease' \in Holders \cup {NoLease}
    BY <1>17, ExitType DEF TypeOK, TaskCancelCommit
  <2>2. mem' \in [Services -> RunRecord]
    BY <1>17, StatusTypes, OutcomeTypes
    DEF TypeOK, TaskCancelCommit, Statuses, EngineTask
  <2>3. task' \in [Services -> EngineTask]
    BY <1>17, ExitType DEF TypeOK, TaskCancelCommit
  <2> QED
    BY <1>17, <2>1, <2>2, <2>3 DEF TypeOK, TaskCancelCommit, calls
<1>18. CASE TaskSettleDrain(s)
  <2>1. journal' \in RunState
    BY <1>18, DrainTypes DEF TypeOK, TaskSettleDrain
  <2>2. mailbox' \in SUBSET Controls
    BY <1>18, DrainTypes DEF TypeOK, TaskSettleDrain
  <2>3. lease' \in Holders \cup {NoLease}
    BY <1>18, ExitType DEF TypeOK, TaskSettleDrain
  <2>4. task' \in [Services -> EngineTask]
    BY <1>18, ExitType, GotoType DEF TypeOK, TaskSettleDrain, TaskPoint
  <2>5. used' \in Bounds
    BY <1>18, FaultType DEF TypeOK, TaskSettleDrain
  <2> QED
    BY <1>18, <2>1, <2>2, <2>3, <2>4, <2>5
    DEF TypeOK, TaskSettleDrain, local, calls
<1>19. CASE TaskSettleAppend(s)
  <2>1. journal' \in RunState
    BY <1>19, SettleType
    DEF TypeOK, TaskSettleAppend, CancelOutcome, Terminals, Final
  <2>2. lease' \in Holders \cup {NoLease}
    BY <1>19, ExitType DEF TypeOK, TaskSettleAppend
  <2>3. mem' \in [Services -> RunRecord]
    <3>1. mem \in [Services -> RunRecord] /\ journal.terminal \in Terminals \cup {"none"}
      BY JournalFields DEF TypeOK
    <3> QED
      BY <1>19, <3>1
      DEF TaskSettleAppend, RunRecord, Statuses, Settled
  <2>4. slot' \in [Services -> BOOLEAN]
    BY <1>19 DEF TypeOK, TaskSettleAppend
  <2>5. task' \in [Services -> EngineTask]
    <3> DEFINE outcome == CancelOutcome(s)
    <3>1. outcome \in Statuses
      BY OutcomeTypes
    <3>2. Exit(s) \/ task' = [task EXCEPT ![s].at = "settle_commit", ![s].outcome = outcome]
      BY <1>19 DEF TaskSettleAppend
    <3> HIDE DEF outcome
    <3>3. [task EXCEPT ![s].at = "settle_commit", ![s].outcome = outcome] \in [Services -> EngineTask]
      BY <3>1, NoteType DEF TaskPoint
    <3> QED
      BY <1>19, <3>2, <3>3, ExitType
  <2>6. used' \in Bounds
    BY <1>19, FaultType DEF TypeOK, TaskSettleAppend
  <2> QED
    BY <1>19, <2>1, <2>2, <2>3, <2>4, <2>5, <2>6
    DEF TypeOK, TaskSettleAppend, calls
<1>20. CASE TaskSettleCommit(s)
  <2>1. lease' \in Holders \cup {NoLease}
    BY <1>20, ExitType DEF TypeOK, TaskSettleCommit
  <2>2. mem' \in [Services -> RunRecord]
    <3>1. mem \in [Services -> RunRecord] /\ task \in [Services -> EngineTask]
      BY DEF TypeOK
    <3> QED
      BY <1>20, <3>1, OutcomeTypes
      DEF TaskSettleCommit, RunRecord, Statuses, EngineTask, Settled, Terminals
  <2>3. slot' \in [Services -> BOOLEAN]
    BY <1>20 DEF TypeOK, TaskSettleCommit
  <2>4. task' \in [Services -> EngineTask]
    BY <1>20, ExitType DEF TypeOK, TaskSettleCommit
  <2> QED
    BY <1>20, <2>1, <2>2, <2>3, <2>4 DEF TypeOK, TaskSettleCommit, calls
<1>21. CASE TaskFinished(s)
  <2>1. task' \in [Services -> EngineTask]
    BY <1>21, GotoType DEF TypeOK, TaskFinished, TaskPoint
  <2>2. cancel' \in [Operations -> CancelCall]
    BY <1>21, WokenTypes
    DEF TypeOK, TaskFinished, WakeJoiners, CancelCall, Statuses, Settled,
        Terminals, Final
  <2>3. preempt' \in [Services -> PreemptCall]
    BY <1>21, WokenTypes
    DEF TypeOK, TaskFinished, WakeJoiners, Settling, PreemptCall
  <2>4. shutdown' \in [Services -> ShutdownCall]
    BY <1>21, WokenTypes
    DEF TypeOK, TaskFinished, WakeJoiners, Settling, ShutdownCall
  <2> QED
    BY <1>21, <2>1, <2>2, <2>3, <2>4 DEF TypeOK, TaskFinished, shared, local
<1> QED
  BY <1>1, <1>2, <1>3, <1>4, <1>5, <1>6, <1>7, <1>8, <1>9, <1>10, <1>11, <1>12,
     <1>13, <1>14, <1>15, <1>16, <1>17, <1>18, <1>19, <1>20, <1>21 DEF TaskStep

\* The steps of a cancel call: types are preserved.
LEMMA CancelStepType ==
  ASSUME TypeOK, NEW op \in Operations, CancelStep(op)
  PROVE  TypeOK'
<1>1. CASE CancelPublish(op)
  <2>1. mailbox' \in SUBSET Controls
    BY <1>1 DEF TypeOK, CancelPublish, Controls, CancelCall
  <2>2. cancel' \in [Operations -> CancelCall]
    <3>1. cancel \in [Operations -> CancelCall]
      BY DEF TypeOK
    <3>2. \A b \in BOOLEAN :
            [cancel EXCEPT ![op].at = "signal", ![op].fresh = b] \in [Operations -> CancelCall]
      BY <3>1 DEF CancelCall
    <3>3. (op \notin mailbox) \in BOOLEAN
      OBVIOUS
    <3> QED
      BY <1>1, <3>2, <3>3, CancelGotoType DEF CancelPublish
  <2>3. denial' \in [Services -> {"idle", "mark", "seal", "commit"}]
    BY <1>1, ReconcileType DEF TypeOK, CancelPublish, CancelCall
  <2> QED
    BY <1>1, <2>1, <2>2, <2>3 DEF TypeOK, CancelPublish, local
<1>2. CASE CancelSignal(op)
  <2>1. mailbox' \in SUBSET Controls
    BY <1>2 DEF TypeOK, CancelSignal, Controls, CancelCall
  <2>2. mem' \in [Services -> RunRecord]
    <3>1. mem \in [Services -> RunRecord] /\ cancel \in [Operations -> CancelCall]
      BY DEF TypeOK
    <3> QED
      BY <1>2, <3>1
      DEF CancelSignal, RunRecord, Statuses, CancelCall
  <2>3. slot' \in [Services -> BOOLEAN]
    BY <1>2 DEF TypeOK, CancelSignal, CancelCall
  <2>4. canceled' \in [Services -> SUBSET Tokens]
    BY <1>2, RecordTypes DEF TypeOK, CancelSignal, CancelCall
  <2>5. cancel' \in [Operations -> CancelCall]
    BY <1>2, CancelGotoType DEF TypeOK, CancelSignal, CancelCall
  <2> QED
    BY <1>2, <2>1, <2>2, <2>3, <2>4, <2>5 DEF TypeOK, CancelSignal
<1>3. CASE CancelJoined(op)
  <2>1. journal' \in RunState
    BY <1>3, DrainTypes DEF TypeOK, CancelJoined, CancelCall
  <2>2. mailbox' \in SUBSET Controls
    BY <1>3, DrainTypes DEF TypeOK, CancelJoined, CancelCall
  <2>3. cancel' \in [Operations -> CancelCall]
    BY <1>3, CancelGotoType DEF TypeOK, CancelJoined, CancelCall
  <2> QED
    BY <1>3, <2>1, <2>2, <2>3 DEF TypeOK, CancelJoined, local
<1>4. CASE CancelSettle(op)
  <2>1. journal' \in RunState
    BY <1>4, DrainTypes DEF TypeOK, CancelSettle, CancelCall
  <2>2. mailbox' \in SUBSET Controls
    BY <1>4, DrainTypes DEF TypeOK, CancelSettle, CancelCall
  <2>3. lease' \in Holders \cup {NoLease}
    BY <1>4 DEF TypeOK, CancelSettle, Holders, CancelCall
  <2>4. cancel' \in [Operations -> CancelCall]
    BY <1>4, CancelGotoType DEF TypeOK, CancelSettle, CancelCall
  <2>5. used' \in Bounds
    BY <1>4, FaultType DEF TypeOK, CancelSettle, CancelCall
  <2> QED
    BY <1>4, <2>1, <2>2, <2>3, <2>4, <2>5 DEF TypeOK, CancelSettle, local
<1>5. CASE CancelAppend(op)
  <2>1. journal' \in RunState
    BY <1>5, SettleOnceType
    DEF TypeOK, CancelAppend, CancelOutcome, Terminals, Final, CancelCall
  <2>2. lease' \in Holders \cup {NoLease}
    BY <1>5 DEF TypeOK, CancelAppend, Holders, CancelCall
  <2>3. cancel' \in [Operations -> CancelCall]
    BY <1>5, CancelGotoType
    DEF TypeOK, CancelAppend, CancelOutcome, CancelCall, Statuses, Settled,
        Terminals, Final
  <2>4. used' \in Bounds
    BY <1>5, FaultType DEF TypeOK, CancelAppend, CancelCall
  <2> QED
    BY <1>5, <2>1, <2>2, <2>3, <2>4 DEF TypeOK, CancelAppend, local
<1>6. CASE CancelCommit(op)
  <2>1. lease' \in Holders \cup {NoLease}
    BY <1>6 DEF TypeOK, CancelCommit, Holders, CancelCall
  <2>2. mem' \in [Services -> RunRecord]
    BY <1>6, StatusTypes, OutcomeTypes
    DEF TypeOK, CancelCommit, Statuses, CancelCall
  <2>3. cancel' \in [Operations -> CancelCall]
    BY <1>6, CancelGotoType DEF TypeOK, CancelCommit, CancelCall
  <2> QED
    BY <1>6, <2>1, <2>2, <2>3 DEF TypeOK, CancelCommit
<1> QED
  BY <1>1, <1>2, <1>3, <1>4, <1>5, <1>6 DEF CancelStep

\* The steps of reconcile_denial: types are preserved.
LEMMA DenialStepType ==
  ASSUME TypeOK, NEW s \in Services, DenialStep(s)
  PROVE  TypeOK'
<1>1. CASE DenialMark(s)
  <2>1. mem' \in [Services -> RunRecord]
    BY <1>1, StatusTypes, OutcomeTypes DEF TypeOK, DenialMark, Statuses
  <2>2. denial' \in [Services -> {"idle", "mark", "seal", "commit"}]
    BY <1>1 DEF TypeOK, DenialMark
  <2> QED
    BY <1>1, <2>1, <2>2 DEF TypeOK, DenialMark, shared
<1>2. CASE DenialSeal(s)
  <2>1. journal' \in RunState
    BY <1>2, SealType DEF TypeOK, DenialSeal
  <2>2. denial' \in [Services -> {"idle", "mark", "seal", "commit"}]
    BY <1>2 DEF TypeOK, DenialSeal
  <2>3. used' \in Bounds
    BY <1>2, FaultType DEF TypeOK, DenialSeal
  <2> QED
    BY <1>2, <2>1, <2>2, <2>3 DEF TypeOK, DenialSeal, local
<1>3. CASE DenialCommit(s)
  <2>1. mem' \in [Services -> RunRecord]
    BY <1>3, StatusTypes, OutcomeTypes DEF TypeOK, DenialCommit, Statuses
  <2>2. denial' \in [Services -> {"idle", "mark", "seal", "commit"}]
    BY <1>3 DEF TypeOK, DenialCommit
  <2> QED
    BY <1>3, <2>1, <2>2 DEF TypeOK, DenialCommit, shared
<1> QED
  BY <1>1, <1>2, <1>3 DEF DenialStep

\* The preemption rendezvous: types are preserved.
LEMMA PreemptStepType ==
  ASSUME TypeOK, NEW s \in Services, PreemptStep(s)
  PROVE  TypeOK'
<1>1. CASE PreemptMark(s)
  <2>1. mem' \in [Services -> RunRecord]
    <3>1. mem \in [Services -> RunRecord]
      BY DEF TypeOK
    <3>2. /\ [mem EXCEPT ![s].preempted = TRUE, ![s].yield = TRUE] \in [Services -> RunRecord]
          /\ [mem EXCEPT ![s].preempted = TRUE, ![s].state = "queued"] \in [Services -> RunRecord]
      BY <3>1 DEF RunRecord, Statuses
    <3> QED
      BY <1>1, <3>1, <3>2 DEF PreemptMark
  <2>2. slot' \in [Services -> BOOLEAN]
    BY <1>1 DEF TypeOK, PreemptMark
  <2>3. canceled' \in [Services -> SUBSET Tokens]
    BY <1>1, RecordTypes DEF TypeOK, PreemptMark
  <2>4. preempt' \in [Services -> PreemptCall]
    BY <1>1, PreemptGotoType DEF TypeOK, PreemptMark, Settling
  <2> QED
    BY <1>1, <2>1, <2>2, <2>3, <2>4 DEF TypeOK, PreemptMark, shared
<1>2. CASE PreemptLease(s)
  <2>1. lease' \in Holders \cup {NoLease}
    BY <1>2 DEF TypeOK, PreemptLease, Holders
  <2>2. preempt' \in [Services -> PreemptCall]
    BY <1>2, PreemptGotoType DEF TypeOK, PreemptLease, Settling
  <2> QED
    BY <1>2, <2>1, <2>2 DEF TypeOK, PreemptLease, local
<1>3. CASE PreemptRequeue(s)
  <2>1. journal' \in RunState
    BY <1>3, RestartType, TruncateType DEF TypeOK, PreemptRequeue
  <2>2. mem' \in [Services -> RunRecord]
    <3>1. mem \in [Services -> RunRecord]
      BY DEF TypeOK
    <3> QED
      BY <1>3, <3>1
      DEF PreemptRequeue, RunRecord, Statuses
  <2>3. preempt' \in [Services -> PreemptCall]
    BY <1>3, PreemptGotoType DEF TypeOK, PreemptRequeue, Settling
  <2>4. used' \in Bounds
    BY <1>3, FaultType DEF TypeOK, PreemptRequeue
  <2> QED
    BY <1>3, <2>1, <2>2, <2>3, <2>4 DEF TypeOK, PreemptRequeue
<1>4. CASE PreemptCommit(s)
  <2>1. mem' \in [Services -> RunRecord]
    BY <1>4, RecordTypes, ReplaceType DEF TypeOK, PreemptCommit
  <2>2. preempt' \in [Services -> PreemptCall]
    <3>1. [at |-> "release", resume |-> TRUE] \in PreemptCall
      BY DEF PreemptCall
    <3>2. PreemptGoto(s, "release") => preempt' \in [Services -> PreemptCall]
      BY PreemptGotoType
    <3> QED
      BY <1>4, <3>1, <3>2 DEF TypeOK, PreemptCommit
  <2> QED
    BY <1>4, <2>1, <2>2 DEF TypeOK, PreemptCommit, shared
<1>5. CASE PreemptRelease(s)
  <2>1. lease' \in Holders \cup {NoLease}
    BY <1>5 DEF TypeOK, PreemptRelease, Holders
  <2>2. spawns' \in [Services -> SUBSET SpawnRun]
    BY <1>5, RecordTypes DEF TypeOK, PreemptRelease
  <2>3. preempt' \in [Services -> PreemptCall]
    BY <1>5 DEF TypeOK, PreemptRelease, Settling, PreemptCall
  <2> QED
    BY <1>5, <2>1, <2>2, <2>3 DEF TypeOK, PreemptRelease
<1>6. CASE PreemptSettle(s)
  <2>1. journal' \in RunState
    <3>1. <<"preempt", s>> \in Holders
      BY DEF Holders
    <3> QED
      BY <1>6, <3>1, SettleTypes DEF TypeOK, PreemptSettle, SettleSkipped, SettleDenied, shared
  <2>2. mailbox' \in SUBSET Controls
    <3>1. <<"preempt", s>> \in Holders
      BY DEF Holders
    <3> QED
      BY <1>6, <3>1, SettleTypes DEF TypeOK, PreemptSettle, SettleSkipped, SettleDenied, shared
  <2>3. lease' \in Holders \cup {NoLease}
    <3>1. <<"preempt", s>> \in Holders
      BY DEF Holders
    <3> QED
      BY <1>6, <3>1, SettleTypes DEF TypeOK, PreemptSettle, SettleSkipped, SettleDenied, shared
  <2>4. preempt' \in [Services -> PreemptCall]
    BY <1>6, PreemptGotoType DEF TypeOK, PreemptSettle, SettleSkipped, Settling
  <2>5. denial' \in [Services -> {"idle", "mark", "seal", "commit"}]
    <3>1. <<"preempt", s>> \in Holders
      BY DEF Holders
    <3> QED
      BY <1>6, <3>1, SettleTypes DEF TypeOK, PreemptSettle, SettleSkipped, SettleDrain, shared
  <2>6. used' \in Bounds
    BY <1>6, FaultType DEF TypeOK, PreemptSettle, SettleSkipped
  <2> QED
    BY <1>6, <2>1, <2>2, <2>3, <2>4, <2>5, <2>6
    DEF TypeOK, PreemptSettle, SettleSkipped, SettleDenied, SettleDrain, shared,
        local
<1>7. CASE PreemptAppend(s)
  <2>1. journal' \in RunState
    BY <1>7, SettleOnceType
    DEF TypeOK, PreemptAppend, SettleInterrupted, Terminals, Final
  <2>2. preempt' \in [Services -> PreemptCall]
    BY <1>7, PreemptGotoType DEF TypeOK, PreemptAppend, Settling
  <2>3. used' \in Bounds
    BY <1>7, FaultType DEF TypeOK, PreemptAppend
  <2> QED
    BY <1>7, <2>1, <2>2, <2>3 DEF TypeOK, PreemptAppend, local
<1>8. CASE PreemptSettled(s)
  <2>1. lease' \in Holders \cup {NoLease}
    BY <1>8 DEF TypeOK, PreemptSettled, Holders
  <2>2. mem' \in [Services -> RunRecord]
    <3>1. mem \in [Services -> RunRecord]
      BY DEF TypeOK
    <3> QED
      BY <1>8, <3>1 DEF PreemptSettled, MarkInterrupted, RunRecord, Statuses, Settled, Terminals
  <2>3. preempt' \in [Services -> PreemptCall]
    BY <1>8, PreemptGotoType DEF TypeOK, PreemptSettled, Settling
  <2> QED
    BY <1>8, <2>1, <2>2, <2>3 DEF TypeOK, PreemptSettled
<1> QED
  BY <1>1, <1>2, <1>3, <1>4, <1>5, <1>6, <1>7, <1>8 DEF PreemptStep

\* An orderly shutdown: types are preserved.
LEMMA ShutdownStepType ==
  ASSUME TypeOK, NEW s \in Services, ShutdownStep(s)
  PROVE  TypeOK'
<1>1. CASE ShutdownPublish(s)
  <2>1. mailbox' \in SUBSET Controls
    BY <1>1 DEF TypeOK, ShutdownPublish, Controls
  <2>2. shutdown' \in [Services -> ShutdownCall]
    BY <1>1, ShutdownGotoType DEF TypeOK, ShutdownPublish, Settling
  <2>3. denial' \in [Services -> {"idle", "mark", "seal", "commit"}]
    BY <1>1, ReconcileType DEF TypeOK, ShutdownPublish
  <2> QED
    BY <1>1, <2>1, <2>2, <2>3 DEF TypeOK, ShutdownPublish, local
<1>2. CASE ShutdownSignal(s)
  <2>1. mem' \in [Services -> RunRecord]
    <3>1. mem \in [Services -> RunRecord]
      BY DEF TypeOK
    <3> QED
      BY <1>2, <3>1
      DEF ShutdownSignal, RunRecord, Statuses
  <2>2. canceled' \in [Services -> SUBSET Tokens]
    BY <1>2, RecordTypes DEF TypeOK, ShutdownSignal
  <2>3. shutdown' \in [Services -> ShutdownCall]
    BY <1>2, ShutdownGotoType DEF TypeOK, ShutdownSignal, Settling
  <2> QED
    BY <1>2, <2>1, <2>2, <2>3 DEF TypeOK, ShutdownSignal, shared
<1>3. CASE ShutdownTake(s)
  <2>1. slot' \in [Services -> BOOLEAN]
    BY <1>3 DEF TypeOK, ShutdownTake
  <2>2. shutdown' \in [Services -> ShutdownCall]
    BY <1>3, ShutdownGotoType DEF TypeOK, ShutdownTake, Settling
  <2> QED
    BY <1>3, <2>1, <2>2 DEF TypeOK, ShutdownTake, shared
<1>4. CASE ShutdownJoined(s)
  <2>1. journal' \in RunState
    BY <1>4, DrainTypes DEF TypeOK, ShutdownJoined
  <2>2. mailbox' \in SUBSET Controls
    BY <1>4, DrainTypes DEF TypeOK, ShutdownJoined
  <2>3. shutdown' \in [Services -> ShutdownCall]
    BY <1>4, ShutdownGotoType DEF TypeOK, ShutdownJoined, Settling
  <2> QED
    BY <1>4, <2>1, <2>2, <2>3 DEF TypeOK, ShutdownJoined, local
<1>5. CASE ShutdownSettle(s)
  <2>1. journal' \in RunState
    <3>1. <<"shutdown", s>> \in Holders
      BY DEF Holders
    <3> QED
      BY <1>5, <3>1, SettleTypes DEF TypeOK, ShutdownSettle, SettleSkipped, SettleDenied, shared
  <2>2. mailbox' \in SUBSET Controls
    <3>1. <<"shutdown", s>> \in Holders
      BY DEF Holders
    <3> QED
      BY <1>5, <3>1, SettleTypes DEF TypeOK, ShutdownSettle, SettleSkipped, SettleDenied, shared
  <2>3. lease' \in Holders \cup {NoLease}
    <3>1. <<"shutdown", s>> \in Holders
      BY DEF Holders
    <3> QED
      BY <1>5, <3>1, SettleTypes DEF TypeOK, ShutdownSettle, SettleSkipped, SettleDenied, shared
  <2>4. shutdown' \in [Services -> ShutdownCall]
    BY <1>5, ShutdownGotoType
    DEF TypeOK, ShutdownSettle, SettleSkipped, AfterSettle, Settling
  <2>5. denial' \in [Services -> {"idle", "mark", "seal", "commit"}]
    <3>1. <<"shutdown", s>> \in Holders
      BY DEF Holders
    <3> QED
      BY <1>5, <3>1, SettleTypes DEF TypeOK, ShutdownSettle, SettleSkipped, SettleDrain, shared
  <2>6. used' \in Bounds
    BY <1>5, FaultType DEF TypeOK, ShutdownSettle, SettleSkipped
  <2> QED
    BY <1>5, <2>1, <2>2, <2>3, <2>4, <2>5, <2>6
    DEF TypeOK, ShutdownSettle, SettleSkipped, SettleDenied, SettleDrain, shared,
        local
<1>6. CASE ShutdownAppend(s)
  <2>1. journal' \in RunState
    BY <1>6, SettleOnceType
    DEF TypeOK, ShutdownAppend, SettleInterrupted, Terminals, Final
  <2>2. shutdown' \in [Services -> ShutdownCall]
    BY <1>6, ShutdownGotoType DEF TypeOK, ShutdownAppend, Settling
  <2>3. used' \in Bounds
    BY <1>6, FaultType DEF TypeOK, ShutdownAppend
  <2> QED
    BY <1>6, <2>1, <2>2, <2>3 DEF TypeOK, ShutdownAppend, local
<1>7. CASE ShutdownSettled(s)
  <2>1. lease' \in Holders \cup {NoLease}
    BY <1>7 DEF TypeOK, ShutdownSettled, Holders
  <2>2. mem' \in [Services -> RunRecord]
    <3>1. mem \in [Services -> RunRecord]
      BY DEF TypeOK
    <3> QED
      BY <1>7, <3>1 DEF ShutdownSettled, MarkInterrupted, RunRecord, Statuses, Settled, Terminals
  <2>3. shutdown' \in [Services -> ShutdownCall]
    BY <1>7, ShutdownGotoType DEF TypeOK, ShutdownSettled, AfterSettle, Settling
  <2> QED
    BY <1>7, <2>1, <2>2, <2>3 DEF TypeOK, ShutdownSettled
<1>8. CASE ShutdownLate(s)
  <2>1. shutdown' \in [Services -> ShutdownCall]
    BY <1>8 DEF TypeOK, ShutdownLate, Settling, ShutdownCall
  <2> QED
    BY <1>8, <2>1 DEF TypeOK, ShutdownLate, shared, local
<1>9. CASE ShutdownOrphans(s)
  <2>1. journal' \in RunState
    BY <1>9, SettleType DEF TypeOK, ShutdownOrphans, Terminals, Final
  <2>2. shutdown' \in [Services -> ShutdownCall]
    BY <1>9, ShutdownGotoType DEF TypeOK, ShutdownOrphans, Settling
  <2>3. denial' \in [Services -> {"idle", "mark", "seal", "commit"}]
    BY <1>9, ReconcileType DEF TypeOK, ShutdownOrphans
  <2> QED
    BY <1>9, <2>1, <2>2, <2>3 DEF TypeOK, ShutdownOrphans, local
<1>10. CASE ShutdownEnds(s)
    BY <1>10, ProcessEndsType DEF TypeOK, ShutdownEnds
<1> QED
  BY <1>1, <1>2, <1>3, <1>4, <1>5, <1>6, <1>7, <1>8, <1>9, <1>10 DEF ShutdownStep

\* A refresh of the shared store: types are preserved.
LEMMA RefreshStepType ==
  ASSUME TypeOK, NEW s \in Services, RefreshStep(s)
  PROVE  TypeOK'
<1>1. CASE RefreshScan(s)
  <2>1. refresh' \in [Services -> RefreshCall]
    BY <1>1, ResetTypes, JournalFields, RehydratedType
    DEF TypeOK, RefreshScan, RefreshCall
  <2>2. used' \in Bounds
    BY <1>1, BoundAssumption DEF TypeOK, RefreshScan, Bounds
  <2> QED
    BY <1>1, <2>1, <2>2 DEF TypeOK, RefreshScan, shared, local
<1>2. CASE RefreshInsert(s)
  <2>1. mem' \in [Services -> RunRecord]
    <3>1. mem \in [Services -> RunRecord] /\ refresh \in [Services -> RefreshCall]
      BY DEF TypeOK
    <3> DEFINE n == mem[s].token + 1
    <3>2. mem[s].token \in Tokens /\ n \in Tokens
      BY <3>1, RecordTypes
    <3>3. [Untracked EXCEPT !.token = mem[s].token] \in RunRecord
      BY <3>2, ResetTypes DEF RunRecord
    <3>4. refresh[s].found # "none" =>
            [Untracked EXCEPT !.tracked = TRUE, !.state = refresh[s].found, !.token = n] \in RunRecord
      <4>1. refresh[s].found \in Statuses \cup {"none"}
        BY <3>1 DEF RefreshCall
      <4> HIDE DEF n
      <4> QED
        BY <3>2, <4>1, ResetTypes DEF RunRecord
    <3> QED
      BY <1>2, <3>1, <3>3, <3>4 DEF RefreshInsert
  <2>2. slot' \in [Services -> BOOLEAN]
    BY <1>2 DEF TypeOK, RefreshInsert
  <2>3. refresh' \in [Services -> RefreshCall]
    <3>1. refresh \in [Services -> RefreshCall] /\ journal \in RunState
      BY DEF TypeOK
    <3> QED
      BY <1>2, <3>1, ResetTypes, JournalFields
      DEF RefreshInsert, RefreshCall, RemoteCancelRequested
  <2> QED
    BY <1>2, <2>1, <2>2, <2>3 DEF TypeOK, RefreshInsert, shared
<1>3. CASE RefreshMerge(s)
  <2>1. mem' \in [Services -> RunRecord]
    <3>1. mem \in [Services -> RunRecord] /\ refresh \in [Services -> RefreshCall]
      BY DEF TypeOK
    <3> QED
      BY <1>3, <3>1, OutcomeTypes
      DEF RefreshMerge, RunRecord, Statuses, RefreshCall, Settled, Terminals
  <2>2. canceled' \in [Services -> SUBSET Tokens]
    BY <1>3, RecordTypes DEF TypeOK, RefreshMerge
  <2>3. refresh' \in [Services -> RefreshCall]
    BY <1>3, ResetTypes, JournalFields, RehydratedType
    DEF TypeOK, RefreshMerge, RefreshCall
  <2> QED
    BY <1>3, <2>1, <2>2, <2>3 DEF TypeOK, RefreshMerge, shared
<1> QED
  BY <1>1, <1>2, <1>3 DEF RefreshStep

\* What clients, operators and the environment do: types are preserved.
LEMMA UserStepType ==
  ASSUME TypeOK, NEW s \in Services, UserStep(s)
  PROVE  TypeOK'
<1>1. CASE Answer(s)
  <2>1. journal' \in RunState
    BY <1>1, RespondType DEF TypeOK, Answer
  <2>2. mem' \in [Services -> RunRecord]
    BY <1>1, RecordTypes DEF TypeOK, Answer, Resume, RunRecord, Statuses
  <2>3. spawns' \in [Services -> SUBSET SpawnRun]
    BY <1>1, RecordTypes DEF TypeOK, Answer, Resume
  <2> QED
    BY <1>1, <2>1, <2>2, <2>3 DEF TypeOK, Answer, calls
<1>2. CASE Approve(s)
  <2>1. journal' \in RunState
    BY <1>2, RespondType DEF TypeOK, Approve
  <2>2. mem' \in [Services -> RunRecord]
    BY <1>2, RecordTypes DEF TypeOK, Approve, Resume, RunRecord, Statuses
  <2>3. spawns' \in [Services -> SUBSET SpawnRun]
    BY <1>2, RecordTypes DEF TypeOK, Approve, Resume
  <2> QED
    BY <1>2, <2>1, <2>2, <2>3 DEF TypeOK, Approve, calls
<1>3. CASE DenyConfirmation(s)
  <2>1. journal' \in RunState
    BY <1>3, RespondType DEF TypeOK, DenyConfirmation
  <2>2. mem' \in [Services -> RunRecord]
    BY <1>3 DEF TypeOK, DenyConfirmation, RunRecord, Statuses
  <2>3. denial' \in [Services -> {"idle", "mark", "seal", "commit"}]
    BY <1>3, ReconcileType DEF TypeOK, DenyConfirmation
  <2> QED
    BY <1>3, <2>1, <2>2, <2>3 DEF TypeOK, DenyConfirmation
<1>4. CASE Adopt(s)
  <2>1. mem' \in [Services -> RunRecord]
    BY <1>4, ResetTypes, RecordTypes DEF TypeOK, Adopt, RunRecord, Statuses
  <2>2. spawns' \in [Services -> SUBSET SpawnRun]
    <3>1. mem \in [Services -> RunRecord] /\ spawns \in [Services -> SUBSET SpawnRun]
      BY DEF TypeOK
    <3> DEFINE n == mem[s].token + 1
    <3>2. n \in Tokens
      BY <3>1, RecordTypes
    <3>3. [Untracked EXCEPT !.tracked = TRUE, !.token = n].token = n
      BY DEF Untracked
    <3>4. [token |-> n, snapshot |-> TRUE] \in SpawnRun
      BY <3>2 DEF SpawnRun
    <3> QED
      BY <1>4, <3>1, <3>3, <3>4 DEF Adopt
  <2>3. used' \in Bounds
    BY <1>4, BoundAssumption DEF TypeOK, Adopt, Bounds
  <2> QED
    BY <1>4, <2>1, <2>2, <2>3 DEF TypeOK, Adopt, shared, calls
<1>5. CASE PreemptBegin(s)
  <2>1. preempt' \in [Services -> PreemptCall]
    BY <1>5 DEF TypeOK, PreemptBegin, Settling, PreemptCall
  <2>2. used' \in Bounds
    BY <1>5, BoundAssumption DEF TypeOK, PreemptBegin, Bounds
  <2> QED
    BY <1>5, <2>1, <2>2 DEF TypeOK, PreemptBegin, shared, local
<1>6. CASE ShutdownBegin(s)
  <2>1. process' \in [Services -> {"up", "stopping", "down"}]
    BY <1>6 DEF TypeOK, ShutdownBegin
  <2>2. shutdown' \in [Services -> ShutdownCall]
    BY <1>6, ShutdownGotoType DEF TypeOK, ShutdownBegin, Settling
  <2>3. used' \in Bounds
    BY <1>6, BoundAssumption DEF TypeOK, ShutdownBegin, Bounds
  <2> QED
    BY <1>6, <2>1, <2>2, <2>3 DEF TypeOK, ShutdownBegin, shared, local
<1>7. CASE Crash(s)
  <2>1. used' \in Bounds
    BY <1>7, BoundAssumption DEF TypeOK, Crash, Bounds
  <2> QED
    BY <1>7, <2>1, ProcessEndsType DEF Crash
<1>8. CASE EvictTerminal(s)
  <2>1. mem' \in [Services -> RunRecord]
    BY <1>8, ResetTypes, RecordTypes
    DEF TypeOK, EvictTerminal, RunRecord, Statuses
  <2>2. slot' \in [Services -> BOOLEAN]
    BY <1>8 DEF TypeOK, EvictTerminal
  <2> QED
    BY <1>8, <2>1, <2>2 DEF TypeOK, EvictTerminal, shared, calls
<1> QED
  BY <1>1, <1>2, <1>3, <1>4, <1>5, <1>6, <1>7, <1>8 DEF UserStep

\* A joiner loses patience and aborts the task: types are preserved.
LEMMA JoinTimeoutType ==
  ASSUME TypeOK, NEW s \in Services, JoinTimeout(s)
  PROVE  TypeOK'
<1>1. journal' \in RunState
  <2>1. (task[s].at = "engine") \in BOOLEAN
    OBVIOUS
  <2> QED
    BY <2>1, LostType DEF JoinTimeout, AbortTask
<1>2. lease' \in Holders \cup {NoLease}
  BY DEF TypeOK, JoinTimeout, AbortTask, Holders
<1>3. task' \in [Services -> EngineTask]
  BY ResetTypes, JournalFields
  DEF TypeOK, JoinTimeout, AbortTask, EngineTask, TaskPoint, Progress, Statuses,
      Settled, Terminals, Final
<1>4. cancel' \in [Operations -> CancelCall]
  BY WokenTypes
  DEF TypeOK, JoinTimeout, CancelCall, Statuses, Settled, Terminals, Final
<1>5. preempt' \in [Services -> PreemptCall]
  BY WokenTypes DEF TypeOK, JoinTimeout, Settling, PreemptCall
<1>6. shutdown' \in [Services -> ShutdownCall]
  BY WokenTypes DEF TypeOK, JoinTimeout, Settling, ShutdownCall
<1> QED
  BY <1>1, <1>2, <1>3, <1>4, <1>5, <1>6 DEF TypeOK, JoinTimeout, local

\* A process starts: types are preserved.
LEMMA BootType ==
  ASSUME TypeOK, NEW s \in Services, Boot(s)
  PROVE  TypeOK'
<1>1. process' \in [Services -> {"up", "stopping", "down"}]
  BY DEF TypeOK, Boot
<1>2. mem' \in [Services -> RunRecord]
  <2>1. mem \in [Services -> RunRecord] /\ Rehydrated \in Statuses \cup {"none"}
    BY RehydratedType DEF TypeOK
  <2>2. Rehydrated # "none" =>
          [Untracked EXCEPT !.tracked = TRUE, !.state = Rehydrated] \in RunRecord
    BY <2>1, ResetTypes DEF RunRecord
  <2> QED
    BY <2>1, <2>2 DEF Boot
<1>3. spawns' \in [Services -> SUBSET SpawnRun]
  BY RecordTypes, ResetTypes DEF TypeOK, Boot
<1> QED
  BY <1>1, <1>2, <1>3 DEF TypeOK, Boot, shared, calls

\* The periodic resumer: types are preserved.
LEMMA ResumeStuckType ==
  ASSUME TypeOK, NEW s \in Services, ResumeStuck(s)
  PROVE  TypeOK'
<1>1. spawns' \in [Services -> SUBSET SpawnRun]
  BY RecordTypes DEF TypeOK, ResumeStuck
<1> QED
  BY <1>1 DEF TypeOK, ResumeStuck, shared, calls

\* A cancel call is accepted, refused or repeated.
LEMMA CancelBeginType ==
  ASSUME TypeOK, NEW op \in Operations, NEW s \in Services, CancelBegin(op, s)
  PROVE  TypeOK'
<1>1. mailbox' \in SUBSET Controls
  BY DEF TypeOK, CancelBegin
<1>2. cancel' \in [Operations -> CancelCall]
  <2>1. [at |-> "publish", on |-> s, fresh |-> FALSE, outcome |-> "queued"] \in CancelCall
    BY DEF CancelCall, Statuses
  <2> QED
    BY <2>1 DEF TypeOK, CancelBegin
<1>3. denial' \in [Services -> {"idle", "mark", "seal", "commit"}]
  BY ReconcileType DEF TypeOK, CancelBegin
<1>4. used' \in Bounds
  BY BoundAssumption DEF TypeOK, CancelBegin, Bounds
<1> QED
  BY <1>1, <1>2, <1>3, <1>4 DEF TypeOK, CancelBegin, local

-----------------------------------------------------------------------------
\* The admitted run is well formed.
LEMMA InitType == Init => TypeOK
<1> SUFFICES ASSUME Init PROVE TypeOK
  OBVIOUS
<1>1. PICK owner \in Services :
         /\ mem = [s \in Services |-> [Untracked EXCEPT !.tracked = (s = owner)]]
         /\ spawns = [s \in Services |-> IF s = owner THEN {SpawnOf(Untracked)} ELSE {}]
         /\ cancel = [op \in Operations |->
                        [at |-> "idle", on |-> owner, fresh |-> FALSE, outcome |-> "queued"]]
  BY DEF Init
<1>2. journal \in RunState
  BY PromptAssumption DEF Init, Admitted, RunState
<1>3. mem \in [Services -> RunRecord]
  <2>1. \A b \in BOOLEAN : [Untracked EXCEPT !.tracked = b] \in RunRecord
    BY ResetTypes DEF RunRecord
  <2>2. \A s \in Services : (s = owner) \in BOOLEAN
    OBVIOUS
  <2> QED
    BY <1>1, <2>1, <2>2
<1>4. spawns \in [Services -> SUBSET SpawnRun]
  BY <1>1, ResetTypes, RecordTypes
<1>5. cancel \in [Operations -> CancelCall]
  BY <1>1 DEF CancelCall, Statuses
<1>6. /\ task \in [Services -> EngineTask] /\ refresh \in [Services -> RefreshCall]
      /\ preempt \in [Services -> PreemptCall] /\ shutdown \in [Services -> ShutdownCall]
  BY ResetTypes DEF Init, PreemptCall, ShutdownCall
<1>7. used \in Bounds
  BY BoundAssumption DEF Init, Bounds
<1> QED
  BY <1>2, <1>3, <1>4, <1>5, <1>6, <1>7 DEF Init, TypeOK

\* No step of any party leaves the types.
LEMMA NextType ==
  ASSUME TypeOK, [Next]_vars
  PROVE  TypeOK'
<1>1. CASE UNCHANGED vars
  BY <1>1 DEF TypeOK, vars, shared, local, calls
<1>2. CASE Next
  <2>1. ASSUME NEW s \in Services,
               \/ SpawnStep(s) \/ TaskStep(s) \/ JoinTimeout(s) \/ DenialStep(s)
               \/ PreemptStep(s) \/ ShutdownStep(s) \/ RefreshStep(s) \/ UserStep(s)
               \/ Boot(s) \/ ResumeStuck(s)
        PROVE  TypeOK'
    BY <2>1, SpawnStepType, TaskStepType, JoinTimeoutType, DenialStepType, PreemptStepType,
       ShutdownStepType, RefreshStepType, UserStepType, BootType, ResumeStuckType
  <2>2. ASSUME NEW op \in Operations,
               CancelStep(op) \/ (\E s \in Services : CancelBegin(op, s))
        PROVE  TypeOK'
    BY <2>2, CancelStepType, CancelBeginType
  <2> QED
    BY <1>2, <2>1, <2>2 DEF Next
<1> QED
  BY <1>1, <1>2

\* Every record, call and bound keeps its type in every behaviour, whatever
\* the number of services, operations, prompts and faults.
THEOREM TypeCorrect == Spec => []TypeOK
<1>1. Init => TypeOK
  BY InitType
<1>2. TypeOK /\ [Next]_vars => TypeOK'
  BY NextType
<1> QED
  BY <1>1, <1>2, PTL DEF Spec

-----------------------------------------------------------------------------
(* One writer *)

\* The end of a process releases its locks with everything it was doing.
LEMMA ProcessEndsWriter ==
  ASSUME TypeOK, SingleWriter, NEW s \in Services, ProcessEnds(s)
  PROVE  SingleWriter'
<1>1. /\ task \in [Services -> EngineTask] /\ cancel \in [Operations -> CancelCall]
      /\ preempt \in [Services -> PreemptCall] /\ shutdown \in [Services -> ShutdownCall]
  BY DEF TypeOK
<1>2. /\ task' = [task EXCEPT ![s] = NoTask]
      /\ preempt' = [preempt EXCEPT ![s] = [at |-> "idle", resume |-> FALSE]]
      /\ shutdown' = [shutdown EXCEPT ![s] = [at |-> "idle", late |-> FALSE]]
      /\ lease' = IF HoldsLease(s) THEN NoLease ELSE lease
  BY DEF ProcessEnds
<1>3. \A op \in Operations :
         /\ cancel[op].on = s => cancel'[op].at = "idle"
         /\ cancel[op].on # s => cancel'[op] = cancel[op]
  BY <1>1 DEF ProcessEnds, CancelCall
<1>4. \A t \in Services : task'[t].at \notin {"idle", "exiting"} => lease' = <<"task", t>>
  BY <1>1, <1>2 DEF SingleWriter, HoldsLease, NoTask
<1>5. \A op \in Operations : cancel'[op].at \in {"append", "commit"} => lease' = <<"cancel", op>>
  BY <1>2, <1>3 DEF SingleWriter, HoldsLease
<1>6. \A t \in Services :
         preempt'[t].at \in {"requeue", "commit", "release", "append", "settled", "over"}
            => lease' = <<"preempt", t>>
  BY <1>1, <1>2 DEF SingleWriter, HoldsLease
<1>7. \A t \in Services :
         shutdown'[t].at \in {"append", "settled", "over"} => lease' = <<"shutdown", t>>
  BY <1>1, <1>2 DEF SingleWriter, HoldsLease
<1> QED
  BY <1>4, <1>5, <1>6, <1>7 DEF SingleWriter

\* Spawn requests become tasks or are dropped: the lease keeps its one holder.
LEMMA SpawnStepWriter ==
  ASSUME TypeOK, SingleWriter, NEW s \in Services, SpawnStep(s)
  PROVE  SingleWriter'
<1>1. CASE SpawnStarts(s)
  <2>1. task \in [Services -> EngineTask]
    BY DEF TypeOK
  <2> QED
    BY <1>1, <2>1 DEF SingleWriter, SpawnStarts, EngineTask, NoTask, NoLease, calls
<1>2. CASE SpawnAborts(s)
    BY <1>2 DEF SingleWriter, SpawnAborts, shared, calls
<1>3. CASE SpawnGivesUp(s)
    BY <1>3 DEF SingleWriter, SpawnGivesUp, shared, calls
<1> QED
  BY <1>1, <1>2, <1>3 DEF SpawnStep

\* The engine task, from its lease to its end: the lease keeps its one holder.
LEMMA TaskStepWriter ==
  ASSUME TypeOK, SingleWriter, NEW s \in Services, TaskStep(s)
  PROVE  SingleWriter'
<1>1. CASE TaskReconcile(s)
  <2>1. task \in [Services -> EngineTask]
    BY DEF TypeOK
  <2> QED
    BY <1>1, <2>1 DEF SingleWriter, TaskReconcile, Goto, Exit, EngineTask, NoTask,
        NoLease, calls
<1>2. CASE TaskFail(s)
  <2>1. task \in [Services -> EngineTask]
    BY DEF TypeOK
  <2> QED
    BY <1>2, <2>1 DEF SingleWriter, TaskFail, Exit, EngineTask, NoTask, NoLease,
        calls
<1>3. CASE TaskDrain(s)
  <2>1. task \in [Services -> EngineTask]
    BY DEF TypeOK
  <2> QED
    BY <1>3, <2>1 DEF SingleWriter, TaskDrain, Drain, Goto, Exit, EngineTask,
        NoTask, NoLease, calls
<1>4. CASE TaskQueued(s)
  <2>1. task \in [Services -> EngineTask]
    BY DEF TypeOK
  <2> QED
    BY <1>4, <2>1 DEF SingleWriter, TaskQueued, Goto, Exit, EngineTask, NoTask,
        NoLease, calls
<1>5. CASE TaskAdmitted(s)
  <2>1. task \in [Services -> EngineTask]
    BY DEF TypeOK
  <2> QED
    BY <1>5, <2>1 DEF SingleWriter, TaskAdmitted, Exit, Goto, EngineTask, NoTask,
        NoLease, calls
<1>6. CASE TaskStart(s)
  <2>1. task \in [Services -> EngineTask]
    BY DEF TypeOK
  <2> QED
    BY <1>6, <2>1 DEF SingleWriter, TaskStart, Goto, Return, EngineTask, NoTask,
        calls
<1>7. CASE TaskEngine(s)
  <2>1. task \in [Services -> EngineTask]
    BY DEF TypeOK
  <2> QED
    BY <1>7, <2>1 DEF SingleWriter, TaskEngine, EngineErrors, Return, EngineTask,
        NoTask, EngineSucceeds, EngineFails, EngineAsks, EngineCancels,
        EngineYields, calls
<1>8. CASE TaskReturned(s)
  <2>1. task \in [Services -> EngineTask]
    BY DEF TypeOK
  <2> QED
    BY <1>8, <2>1 DEF SingleWriter, TaskReturned, Exit, Goto, EngineTask, NoTask,
        NoLease, calls
<1>9. CASE FinishUntracked(s)
  <2>1. task \in [Services -> EngineTask]
    BY DEF TypeOK
  <2> QED
    BY <1>9, <2>1 DEF SingleWriter, FinishUntracked, Exit, EngineTask, NoTask,
        NoLease, calls
<1>10. CASE FinishCanceled(s)
  <2>1. task \in [Services -> EngineTask]
    BY DEF TypeOK
  <2> QED
    BY <1>10, <2>1 DEF SingleWriter, FinishCanceled, Goto, EngineTask, NoTask,
        shared, calls
<1>11. CASE FinishOutcome(s)
  <2>1. task \in [Services -> EngineTask]
    BY DEF TypeOK
  <2> QED
    BY <1>11, <2>1 DEF SingleWriter, FinishOutcome, Exit, EngineTask, NoTask,
        Finishing, NoLease, calls
<1>12. CASE FinishSuspension(s)
  <2>1. task \in [Services -> EngineTask]
    BY DEF TypeOK
  <2> QED
    BY <1>12, <2>1 DEF SingleWriter, FinishSuspension, Exit, Goto, EngineTask,
        NoTask, Finishing, NoLease, calls
<1>13. CASE TaskRequeue(s)
  <2>1. task \in [Services -> EngineTask]
    BY DEF TypeOK
  <2> QED
    BY <1>13, <2>1 DEF SingleWriter, TaskRequeue, Exit, EngineTask, NoTask,
        NoLease, calls
<1>14. CASE TaskCommit(s)
  <2>1. task \in [Services -> EngineTask]
    BY DEF TypeOK
  <2> QED
    BY <1>14, <2>1 DEF SingleWriter, TaskCommit, Exit, EngineTask, NoTask, NoLease,
        calls
<1>15. CASE TaskCancelDrain(s)
  <2>1. task \in [Services -> EngineTask]
    BY DEF TypeOK
  <2> QED
    BY <1>15, <2>1 DEF SingleWriter, TaskCancelDrain, Drain, Goto, Exit,
        EngineTask, NoTask, NoLease, calls
<1>16. CASE TaskCancelAppend(s)
  <2>1. task \in [Services -> EngineTask]
    BY DEF TypeOK
  <2> QED
    BY <1>16, <2>1 DEF SingleWriter, TaskCancelAppend, Exit, EngineTask, NoTask,
        NoLease, calls
<1>17. CASE TaskCancelCommit(s)
  <2>1. task \in [Services -> EngineTask]
    BY DEF TypeOK
  <2> QED
    BY <1>17, <2>1 DEF SingleWriter, TaskCancelCommit, Exit, EngineTask, NoTask,
        NoLease, calls
<1>18. CASE TaskSettleDrain(s)
  <2>1. task \in [Services -> EngineTask]
    BY DEF TypeOK
  <2> QED
    BY <1>18, <2>1 DEF SingleWriter, TaskSettleDrain, Drain, Goto, Exit,
        EngineTask, NoTask, NoLease, calls
<1>19. CASE TaskSettleAppend(s)
  <2>1. task \in [Services -> EngineTask]
    BY DEF TypeOK
  <2> QED
    BY <1>19, <2>1 DEF SingleWriter, TaskSettleAppend, Exit, EngineTask, NoTask,
        NoLease, calls
<1>20. CASE TaskSettleCommit(s)
  <2>1. task \in [Services -> EngineTask]
    BY DEF TypeOK
  <2> QED
    BY <1>20, <2>1 DEF SingleWriter, TaskSettleCommit, Exit, EngineTask, NoTask,
        NoLease, calls
<1>21. CASE TaskFinished(s)
  <2>1. /\ task \in [Services -> EngineTask]
        /\ cancel \in [Operations -> CancelCall] /\ preempt \in [Services -> PreemptCall]
        /\ shutdown \in [Services -> ShutdownCall]
    BY DEF TypeOK
  <2> QED
    BY <1>21, <2>1 DEF SingleWriter, TaskFinished, Goto, WakeJoiners, Woken,
        EngineTask, NoTask, CancelCall, PreemptCall, ShutdownCall, shared
<1> QED
  BY <1>1, <1>2, <1>3, <1>4, <1>5, <1>6, <1>7, <1>8, <1>9, <1>10, <1>11, <1>12,
     <1>13, <1>14, <1>15, <1>16, <1>17, <1>18, <1>19, <1>20, <1>21 DEF TaskStep

\* The steps of a cancel call: the lease keeps its one holder.
LEMMA CancelStepWriter ==
  ASSUME TypeOK, SingleWriter, NEW op \in Operations, CancelStep(op)
  PROVE  SingleWriter'
<1>1. CASE CancelPublish(op)
  <2>1. cancel \in [Operations -> CancelCall]
    BY DEF TypeOK
  <2> QED
    BY <1>1, <2>1 DEF SingleWriter, CancelPublish, CancelGoto, CancelCall
<1>2. CASE CancelSignal(op)
  <2>1. cancel \in [Operations -> CancelCall]
    BY DEF TypeOK
  <2> QED
    BY <1>2, <2>1 DEF SingleWriter, CancelSignal, CancelGoto, CancelCall
<1>3. CASE CancelJoined(op)
  <2>1. cancel \in [Operations -> CancelCall]
    BY DEF TypeOK
  <2> QED
    BY <1>3, <2>1 DEF SingleWriter, CancelJoined, Drain, CancelGoto, CancelCall
<1>4. CASE CancelSettle(op)
  <2>1. cancel \in [Operations -> CancelCall]
    BY DEF TypeOK
  <2> QED
    BY <1>4, <2>1 DEF SingleWriter, CancelSettle, CancelGoto, Drain, CancelCall,
        NoLease
<1>5. CASE CancelAppend(op)
  <2>1. cancel \in [Operations -> CancelCall]
    BY DEF TypeOK
  <2> QED
    BY <1>5, <2>1 DEF SingleWriter, CancelAppend, CancelGoto, CancelCall, NoLease
<1>6. CASE CancelCommit(op)
  <2>1. cancel \in [Operations -> CancelCall]
    BY DEF TypeOK
  <2> QED
    BY <1>6, <2>1 DEF SingleWriter, CancelCommit, CancelGoto, CancelCall, NoLease
<1> QED
  BY <1>1, <1>2, <1>3, <1>4, <1>5, <1>6 DEF CancelStep

\* The steps of reconcile_denial: the lease keeps its one holder.
LEMMA DenialStepWriter ==
  ASSUME TypeOK, SingleWriter, NEW s \in Services, DenialStep(s)
  PROVE  SingleWriter'
<1>1. CASE DenialMark(s)
    BY <1>1 DEF SingleWriter, DenialMark, shared
<1>2. CASE DenialSeal(s)
    BY <1>2 DEF SingleWriter, DenialSeal
<1>3. CASE DenialCommit(s)
    BY <1>3 DEF SingleWriter, DenialCommit, shared
<1> QED
  BY <1>1, <1>2, <1>3 DEF DenialStep

\* The preemption rendezvous: the lease keeps its one holder.
LEMMA PreemptStepWriter ==
  ASSUME TypeOK, SingleWriter, NEW s \in Services, PreemptStep(s)
  PROVE  SingleWriter'
<1>1. CASE PreemptMark(s)
  <2>1. preempt \in [Services -> PreemptCall]
    BY DEF TypeOK
  <2> QED
    BY <1>1, <2>1 DEF SingleWriter, PreemptMark, PreemptGoto, PreemptCall, shared
<1>2. CASE PreemptLease(s)
  <2>1. preempt \in [Services -> PreemptCall]
    BY DEF TypeOK
  <2> QED
    BY <1>2, <2>1 DEF SingleWriter, PreemptLease, PreemptGoto, PreemptCall, NoLease
<1>3. CASE PreemptRequeue(s)
  <2>1. preempt \in [Services -> PreemptCall]
    BY DEF TypeOK
  <2> QED
    BY <1>3, <2>1 DEF SingleWriter, PreemptRequeue, PreemptGoto, PreemptCall
<1>4. CASE PreemptCommit(s)
  <2>1. preempt \in [Services -> PreemptCall]
    BY DEF TypeOK
  <2> QED
    BY <1>4, <2>1 DEF SingleWriter, PreemptCommit, PreemptGoto, PreemptCall, shared
<1>5. CASE PreemptRelease(s)
  <2>1. preempt \in [Services -> PreemptCall]
    BY DEF TypeOK
  <2> QED
    BY <1>5, <2>1 DEF SingleWriter, PreemptRelease, PreemptCall, NoLease
<1>6. CASE PreemptSettle(s)
  <2>1. preempt \in [Services -> PreemptCall]
    BY DEF TypeOK
  <2> QED
    BY <1>6, <2>1 DEF SingleWriter, PreemptSettle, SettleSkipped, PreemptGoto,
        SettleDenied, SettleDrain, Drain, PreemptCall, NoLease, shared
<1>7. CASE PreemptAppend(s)
  <2>1. preempt \in [Services -> PreemptCall]
    BY DEF TypeOK
  <2> QED
    BY <1>7, <2>1 DEF SingleWriter, PreemptAppend, PreemptGoto, PreemptCall
<1>8. CASE PreemptSettled(s)
  <2>1. preempt \in [Services -> PreemptCall]
    BY DEF TypeOK
  <2> QED
    BY <1>8, <2>1 DEF SingleWriter, PreemptSettled, PreemptGoto, PreemptCall,
        NoLease
<1> QED
  BY <1>1, <1>2, <1>3, <1>4, <1>5, <1>6, <1>7, <1>8 DEF PreemptStep

\* An orderly shutdown: the lease keeps its one holder.
LEMMA ShutdownStepWriter ==
  ASSUME TypeOK, SingleWriter, NEW s \in Services, ShutdownStep(s)
  PROVE  SingleWriter'
<1>1. CASE ShutdownPublish(s)
  <2>1. shutdown \in [Services -> ShutdownCall]
    BY DEF TypeOK
  <2> QED
    BY <1>1, <2>1 DEF SingleWriter, ShutdownPublish, ShutdownGoto, ShutdownCall
<1>2. CASE ShutdownSignal(s)
  <2>1. shutdown \in [Services -> ShutdownCall]
    BY DEF TypeOK
  <2> QED
    BY <1>2, <2>1 DEF SingleWriter, ShutdownSignal, ShutdownGoto, ShutdownCall,
        shared
<1>3. CASE ShutdownTake(s)
  <2>1. shutdown \in [Services -> ShutdownCall]
    BY DEF TypeOK
  <2> QED
    BY <1>3, <2>1 DEF SingleWriter, ShutdownTake, ShutdownGoto, ShutdownCall, shared
<1>4. CASE ShutdownJoined(s)
  <2>1. shutdown \in [Services -> ShutdownCall]
    BY DEF TypeOK
  <2> QED
    BY <1>4, <2>1 DEF SingleWriter, ShutdownJoined, Drain, ShutdownGoto,
        ShutdownCall
<1>5. CASE ShutdownSettle(s)
  <2>1. shutdown \in [Services -> ShutdownCall]
    BY DEF TypeOK
  <2> QED
    BY <1>5, <2>1 DEF SingleWriter, ShutdownSettle, SettleSkipped, ShutdownGoto,
        SettleDenied, SettleDrain, Drain, ShutdownCall, AfterSettle, NoLease, shared
<1>6. CASE ShutdownAppend(s)
  <2>1. shutdown \in [Services -> ShutdownCall]
    BY DEF TypeOK
  <2> QED
    BY <1>6, <2>1 DEF SingleWriter, ShutdownAppend, ShutdownGoto, ShutdownCall
<1>7. CASE ShutdownSettled(s)
  <2>1. shutdown \in [Services -> ShutdownCall]
    BY DEF TypeOK
  <2> QED
    BY <1>7, <2>1 DEF SingleWriter, ShutdownSettled, ShutdownGoto, ShutdownCall,
        AfterSettle, NoLease
<1>8. CASE ShutdownLate(s)
  <2>1. shutdown \in [Services -> ShutdownCall]
    BY DEF TypeOK
  <2> QED
    BY <1>8, <2>1 DEF SingleWriter, ShutdownLate, ShutdownCall, shared
<1>9. CASE ShutdownOrphans(s)
  <2>1. shutdown \in [Services -> ShutdownCall]
    BY DEF TypeOK
  <2> QED
    BY <1>9, <2>1 DEF SingleWriter, ShutdownOrphans, ShutdownGoto, ShutdownCall
<1>10. CASE ShutdownEnds(s)
    BY <1>10, ProcessEndsWriter DEF ShutdownEnds
<1> QED
  BY <1>1, <1>2, <1>3, <1>4, <1>5, <1>6, <1>7, <1>8, <1>9, <1>10 DEF ShutdownStep

\* A refresh of the shared store: the lease keeps its one holder.
LEMMA RefreshStepWriter ==
  ASSUME TypeOK, SingleWriter, NEW s \in Services, RefreshStep(s)
  PROVE  SingleWriter'
<1>1. CASE RefreshScan(s)
    BY <1>1 DEF SingleWriter, RefreshScan, shared
<1>2. CASE RefreshInsert(s)
    BY <1>2 DEF SingleWriter, RefreshInsert, shared
<1>3. CASE RefreshMerge(s)
    BY <1>3 DEF SingleWriter, RefreshMerge, shared
<1> QED
  BY <1>1, <1>2, <1>3 DEF RefreshStep

\* What clients, operators and the environment do: the lease keeps its one holder.
LEMMA UserStepWriter ==
  ASSUME TypeOK, SingleWriter, NEW s \in Services, UserStep(s)
  PROVE  SingleWriter'
<1>1. CASE Answer(s)
    BY <1>1 DEF SingleWriter, Answer, calls
<1>2. CASE Approve(s)
    BY <1>2 DEF SingleWriter, Approve, calls
<1>3. CASE DenyConfirmation(s)
    BY <1>3 DEF SingleWriter, DenyConfirmation
<1>4. CASE Adopt(s)
    BY <1>4 DEF SingleWriter, Adopt, shared, calls
<1>5. CASE PreemptBegin(s)
  <2>1. preempt \in [Services -> PreemptCall]
    BY DEF TypeOK
  <2> QED
    BY <1>5, <2>1 DEF SingleWriter, PreemptBegin, PreemptCall, shared
<1>6. CASE ShutdownBegin(s)
  <2>1. shutdown \in [Services -> ShutdownCall]
    BY DEF TypeOK
  <2> QED
    BY <1>6, <2>1 DEF SingleWriter, ShutdownBegin, ShutdownGoto, ShutdownCall,
        shared
<1>7. CASE Crash(s)
    BY <1>7, ProcessEndsWriter DEF Crash
<1>8. CASE EvictTerminal(s)
    BY <1>8 DEF SingleWriter, EvictTerminal, shared, calls
<1> QED
  BY <1>1, <1>2, <1>3, <1>4, <1>5, <1>6, <1>7, <1>8 DEF UserStep

\* A joiner loses patience and aborts the task: the lease keeps its one holder.
LEMMA JoinTimeoutWriter ==
  ASSUME TypeOK, SingleWriter, NEW s \in Services, JoinTimeout(s)
  PROVE  SingleWriter'
<1>1. /\ task \in [Services -> EngineTask]
      /\ cancel \in [Operations -> CancelCall] /\ preempt \in [Services -> PreemptCall]
      /\ shutdown \in [Services -> ShutdownCall]
  BY DEF TypeOK
<1> QED
  BY <1>1 DEF SingleWriter, JoinTimeout, AbortTask, Woken, EngineTask, NoTask,
      CancelCall, PreemptCall, ShutdownCall, NoLease

\* A process starts: the lease keeps its one holder.
LEMMA BootWriter ==
  ASSUME TypeOK, SingleWriter, NEW s \in Services, Boot(s)
  PROVE  SingleWriter'
  BY DEF SingleWriter, Boot, shared, calls

\* The periodic resumer: the lease keeps its one holder.
LEMMA ResumeStuckWriter ==
  ASSUME TypeOK, SingleWriter, NEW s \in Services, ResumeStuck(s)
  PROVE  SingleWriter'
  BY DEF SingleWriter, ResumeStuck, shared, calls

\* A cancel call begins without the lease.
LEMMA CancelBeginWriter ==
  ASSUME TypeOK, SingleWriter, NEW op \in Operations, NEW s \in Services, CancelBegin(op, s)
  PROVE  SingleWriter'
<1>1. cancel \in [Operations -> CancelCall]
  BY DEF TypeOK
<1> QED
  BY <1>1 DEF SingleWriter, CancelBegin, CancelCall

\* No step of any party breaks the exclusion.
LEMMA NextWriter ==
  ASSUME TypeOK, SingleWriter, [Next]_vars
  PROVE  SingleWriter'
<1>1. CASE UNCHANGED vars
  BY <1>1 DEF SingleWriter, vars, shared, calls
<1>2. CASE Next
  <2>1. ASSUME NEW s \in Services,
               \/ SpawnStep(s) \/ TaskStep(s) \/ JoinTimeout(s) \/ DenialStep(s)
               \/ PreemptStep(s) \/ ShutdownStep(s) \/ RefreshStep(s) \/ UserStep(s)
               \/ Boot(s) \/ ResumeStuck(s)
        PROVE  SingleWriter'
    BY <2>1, SpawnStepWriter, TaskStepWriter, JoinTimeoutWriter, DenialStepWriter,
       PreemptStepWriter, ShutdownStepWriter, RefreshStepWriter, UserStepWriter,
       BootWriter, ResumeStuckWriter
  <2>2. ASSUME NEW op \in Operations,
               CancelStep(op) \/ (\E s \in Services : CancelBegin(op, s))
        PROVE  SingleWriter'
    BY <2>2, CancelStepWriter, CancelBeginWriter
  <2> QED
    BY <1>2, <2>1, <2>2 DEF Next
<1> QED
  BY <1>1, <1>2

\* At most one party of all processes works on the run directory at a time,
\* and it holds the execution lease: engine tasks, cancel settlements,
\* preemption requeues and shutdown settlements exclude one another.
THEOREM LeaseExcludes == Spec => []SingleWriter
<1>1. Init => TypeOK /\ SingleWriter
  <2> SUFFICES ASSUME Init PROVE SingleWriter
    BY InitType
  <2>1. \A op \in Operations : cancel[op].at = "idle"
    <3>1. PICK owner \in Services :
             cancel = [op \in Operations |->
                         [at |-> "idle", on |-> owner, fresh |-> FALSE, outcome |-> "queued"]]
      BY DEF Init
    <3> QED
      BY <3>1
  <2>2. \A s \in Services :
           task[s].at = "idle" /\ preempt[s].at = "idle" /\ shutdown[s].at = "idle"
    BY DEF Init, NoTask
  <2> QED
    BY <2>1, <2>2 DEF SingleWriter
<1>2. TypeOK /\ SingleWriter /\ [Next]_vars => (TypeOK /\ SingleWriter)'
  BY NextType, NextWriter
<1> QED
  BY <1>1, <1>2, PTL DEF Spec

\* The engine of a run executes in at most one process.
OneEngine ==
    \A s, t \in Services : task[s].at = "engine" /\ task[t].at = "engine" => s = t

\* In particular no two processes run the engine on one journal.
COROLLARY OneEngineRuns == Spec => []OneEngine
<1>1. SingleWriter => OneEngine
  BY DEF SingleWriter, OneEngine
<1> QED
  BY <1>1, LeaseExcludes, PTL

-----------------------------------------------------------------------------
(* What the journal's operators and the task's moves change.               *)

\* A terminal event changes the outcome and its count, and nothing else anybody asks.
LEMMA SettleFields ==
  ASSUME NEW st \in RunState, NEW outcome
  PROVE  /\ Settle(st, outcome).terminal = outcome
         /\ Settle(st, outcome).terminals = IF st.terminals < 2 THEN st.terminals + 1 ELSE st.terminals
         /\ Settle(st, outcome).inflight = st.inflight /\ Settle(st, outcome).denied = st.denied
         /\ Settle(st, outcome).cancel_operations = st.cancel_operations
  BY DEF RunState, Settle

\* SettleOnce keeps an outcome that is there.
LEMMA SettleOnceFields ==
  ASSUME NEW st \in RunState, NEW outcome
  PROVE  /\ SettleOnce(st, outcome).terminal = IF st.terminal = "none" THEN outcome ELSE st.terminal
         /\ SettleOnce(st, outcome).terminals =
               IF st.terminal = "none" /\ st.terminals < 2 THEN st.terminals + 1 ELSE st.terminals
         /\ SettleOnce(st, outcome).inflight = st.inflight /\ SettleOnce(st, outcome).denied = st.denied
  BY SettleFields DEF SettleOnce

\* The mailbox goes into the journal, unless that has an outcome.
LEMMA DrainFields ==
  ASSUME NEW st \in RunState, NEW box
  PROVE  /\ DrainControls(st, box).terminal = st.terminal
         /\ DrainControls(st, box).terminals = st.terminals
         /\ DrainControls(st, box).inflight = st.inflight /\ DrainControls(st, box).denied = st.denied
         /\ st.terminal = "none" => box \subseteq DrainControls(st, box).cancel_operations
  BY DEF RunState, DrainControls

\* A restart clears the outcome.
LEMMA RestartFields ==
  ASSUME NEW st \in RunState
  PROVE  /\ Restart(st).terminal = "none" /\ Restart(st).terminals = st.terminals
         /\ Restart(st).inflight = st.inflight /\ Restart(st).denied = st.denied
         /\ Start(st).terminal = "none" /\ Start(st).terminals = st.terminals
         /\ Start(st).inflight = st.inflight /\ Start(st).denied = st.denied
  BY DEF RunState, Restart, Start

\* So does an answer.
LEMMA RespondFields ==
  ASSUME NEW st \in RunState
  PROVE  /\ Respond(st).terminal = "none" /\ Respond(st).terminals = st.terminals
         /\ Respond(st).inflight = st.inflight /\ Respond(st).denied = st.denied
         /\ Deny(st).inflight = st.inflight
  BY DEF RunState, Respond, Deny

\* The other events.
LEMMA NoteFields ==
  ASSUME NEW st \in RunState, NEW what
  PROVE  /\ [st EXCEPT !.last = what].terminal = st.terminal
         /\ [st EXCEPT !.last = what].terminals = st.terminals
         /\ [st EXCEPT !.last = what].inflight = st.inflight
         /\ [st EXCEPT !.last = what].denied = st.denied
         /\ Ask(st).terminal = st.terminal /\ Ask(st).terminals = st.terminals
         /\ Ask(st).inflight = st.inflight /\ Ask(st).denied = st.denied
         /\ SealDenial(st).inflight = st.inflight
  BY DEF RunState, Ask, SealDenial, Settle

\* A lost operation.
LEMMA LostFields ==
  ASSUME NEW st \in RunState, NEW lost
  PROVE  /\ [st EXCEPT !.inflight = lost].terminal = st.terminal
         /\ [st EXCEPT !.inflight = lost].terminals = st.terminals
         /\ [st EXCEPT !.inflight = lost].denied = st.denied
         /\ [st EXCEPT !.inflight = lost].inflight = lost
  BY DEF RunState

\* The cut of a trailing run_canceled takes its count along.
LEMMA TruncateFields ==
  ASSUME NEW st \in RunState
  PROVE  /\ TruncateCanceled(st).terminal = IF st.terminal = "canceled" THEN "none" ELSE st.terminal
         /\ TruncateCanceled(st).terminals =
               IF st.terminal # "canceled" THEN st.terminals
               ELSE IF st.terminals > 0 THEN st.terminals - 1 ELSE 0
         /\ TruncateCanceled(st).inflight = st.inflight /\ TruncateCanceled(st).denied = st.denied
  BY DEF RunState, TruncateCanceled

\* A task goes on to another point.
LEMMA GotoMoves ==
  ASSUME TypeOK, NEW s \in Services, NEW point, Goto(s, point)
  PROVE  /\ task'[s].at = point /\ task'[s].snapshot = task[s].snapshot
         /\ task'[s].progress = task[s].progress /\ task'[s].outcome = task[s].outcome
         /\ \A t \in Services \ {s} : task'[t] = task[t]
  BY DEF TypeOK, Goto, EngineTask

\* It returns from the engine.
LEMMA ReturnMoves ==
  ASSUME TypeOK, NEW s \in Services, NEW progress, Return(s, progress)
  PROVE  /\ task'[s].at = "returned" /\ task'[s].snapshot = task[s].snapshot
         /\ task'[s].progress = progress
         /\ \A t \in Services \ {s} : task'[t] = task[t]
  BY DEF TypeOK, Return, EngineTask

\* It notes the outcome it has chosen.
LEMMA NoteMoves ==
  ASSUME TypeOK, NEW s \in Services, NEW point, NEW written,
         task' = [task EXCEPT ![s].at = point, ![s].outcome = written]
  PROVE  /\ task'[s].at = point /\ task'[s].snapshot = task[s].snapshot
         /\ task'[s].progress = task[s].progress /\ task'[s].outcome = written
         /\ \A t \in Services \ {s} : task'[t] = task[t]
  BY DEF TypeOK, EngineTask

\* It exits.
LEMMA ExitMoves ==
  ASSUME TypeOK, NEW s \in Services, Exit(s)
  PROVE  /\ task'[s].at = "exiting" /\ ~task'[s].snapshot
         /\ \A t \in Services \ {s} : task'[t] = task[t]
  BY DEF TypeOK, Exit, EngineTask, NoTask

\* It is gone.
LEMMA EndMoves ==
  ASSUME TypeOK, NEW s \in Services, task' = [task EXCEPT ![s] = NoTask]
  PROVE  /\ task'[s].at = "idle" /\ ~task'[s].snapshot
         /\ \A t \in Services \ {s} : task'[t] = task[t]
  BY DEF TypeOK, EngineTask, NoTask

\* It starts from one of the waiting requests.
LEMMA StartMoves ==
  ASSUME TypeOK, NEW s \in Services, SpawnStarts(s)
  PROVE  \E r \in spawns[s] :
            /\ task'[s].at = "reconcile" /\ task'[s].snapshot = r.snapshot
            /\ \A t \in Services \ {s} : task'[t] = task[t]
            /\ spawns' = [spawns EXCEPT ![s] = @ \ {r}]
<1>1. PICK r \in spawns[s] :
         /\ spawns' = [spawns EXCEPT ![s] = @ \ {r}]
         /\ task' = [task EXCEPT ![s] = [NoTask EXCEPT !.at = "reconcile",
                                            !.token = r.token, !.snapshot = r.snapshot]]
  BY DEF SpawnStarts
<1>2. /\ task'[s].at = "reconcile" /\ task'[s].snapshot = r.snapshot
      /\ \A t \in Services \ {s} : task'[t] = task[t]
  BY <1>1 DEF TypeOK, NoTask
<1> QED
  BY <1>1, <1>2

\* What a drain does to journal and mailbox.
LEMMA DrainMoves ==
  ASSUME TypeOK, NEW s \in Services, Drain(s)
  PROVE  /\ journal'.terminal = journal.terminal /\ journal'.terminals = journal.terminals
         /\ journal'.inflight = journal.inflight /\ journal'.denied = journal.denied
         /\ journal.terminal = "none" => mailbox \ mailbox' \subseteq journal'.cancel_operations
  BY DrainFields DEF TypeOK, Drain


\* The loop goes round once more.
LEMMA AgainMoves ==
  ASSUME TypeOK, NEW s \in Services, NEW n,
         task' = [task EXCEPT ![s].at = "finish", ![s].round = n]
  PROVE  /\ task'[s].at = "finish" /\ task'[s].snapshot = task[s].snapshot
         /\ task'[s].progress = task[s].progress /\ task'[s].outcome = task[s].outcome
         /\ \A t \in Services \ {s} : task'[t] = task[t]
  BY DEF TypeOK, EngineTask

\* A finished suspension keeps every outcome.
LEMMA SuspensionMoves ==
  ASSUME TypeOK, NEW s \in Services, FinishSuspension(s)
  PROVE  /\ journal'.terminal = journal.terminal /\ journal'.terminals = journal.terminals
         /\ journal'.inflight = journal.inflight /\ journal'.denied = journal.denied
         /\ journal'.cancel_operations = journal.cancel_operations
         /\ Goto(s, "requeue") \/ Exit(s)
<1>1. journal' = journal \/ journal' = [journal EXCEPT !.last = "other"]
  BY DEF FinishSuspension
<1>2. Goto(s, "requeue") \/ Exit(s)
  BY DEF FinishSuspension
<1> QED
  BY <1>1, <1>2 DEF TypeOK, RunState

\* finish_canceled_run writes an outcome, at most a second one when a read fails.
LEMMA CancelAppendMoves ==
  ASSUME TypeOK, NEW s \in Services, TaskCancelAppend(s)
  PROVE  /\ journal'.inflight = journal.inflight /\ journal'.denied = journal.denied
         /\ task'[s].at \in {"cancel_commit", "exiting"} /\ task'[s].snapshot \in {task[s].snapshot, FALSE}
         /\ \A t \in Services \ {s} : task'[t] = task[t]
<1>1. \/ \E outcome : journal' = SettleOnce(journal, outcome)
      \/ \E outcome : journal' = Settle(journal, outcome)
      \/ journal' = journal
  BY DEF TaskCancelAppend
<1>2. \/ \E outcome : task' = [task EXCEPT ![s].at = "cancel_commit", ![s].outcome = outcome]
      \/ Exit(s)
  BY DEF TaskCancelAppend
<1>3. journal'.inflight = journal.inflight /\ journal'.denied = journal.denied
  BY <1>1, SettleFields, SettleOnceFields DEF TypeOK
<1>4. /\ task'[s].at \in {"cancel_commit", "exiting"} /\ task'[s].snapshot \in {task[s].snapshot, FALSE}
      /\ \A t \in Services \ {s} : task'[t] = task[t]
  <2>1. CASE Exit(s)
    <3>1. task'[s].snapshot = FALSE
      BY <2>1 DEF Exit, NoTask, TypeOK
    <3> QED
      BY <2>1, <3>1, ExitMoves
  <2>2. CASE \E outcome : task' = [task EXCEPT ![s].at = "cancel_commit", ![s].outcome = outcome]
    <3>1. PICK outcome : task' = [task EXCEPT ![s].at = "cancel_commit", ![s].outcome = outcome]
      BY <2>2
    <3> QED
      BY <3>1, NoteMoves
  <2> QED
    BY <1>2, <2>1, <2>2
<1> QED
  BY <1>3, <1>4

\* Where finish_run goes with an outcome.
LEMMA FinishMoves ==
  ASSUME TypeOK, NEW s \in Services, FinishOutcome(s)
  PROVE  /\ task[s].at = "finish" /\ task'[s].at \in {"commit", "exiting"}
         /\ task'[s].snapshot => task[s].snapshot
         /\ \A t \in Services \ {s} : task'[t] = task[t]
<1>1. task[s].at = "finish"
  BY DEF FinishOutcome, Finishing
<1>2. CASE Exit(s)
  BY <1>1, <1>2, ExitMoves
<1>3. CASE task' = [task EXCEPT ![s].at = "commit", ![s].outcome = FinishedAs(s)]
  BY <1>1, <1>3, NoteMoves
<1> QED
  BY <1>2, <1>3 DEF FinishOutcome

\* Where settle_queued_cancel goes, and what it writes.
LEMMA SettleAppendMoves ==
  ASSUME TypeOK, NEW s \in Services, TaskSettleAppend(s)
  PROVE  /\ task[s].at = "settle_append" /\ spawns' = spawns
         /\ task'[s].at \in {"settle_commit", "exiting"}
         /\ task'[s].snapshot => task[s].snapshot
         /\ \A t \in Services \ {s} : task'[t] = task[t]
         /\ \/ journal' = journal
            \/ /\ journal.terminal = "none" /\ journal' = Settle(journal, CancelOutcome(s))
               /\ CancelOutcome(s) # "none" /\ used' = used
<1>1. \/ Exit(s)
      \/ task' = [task EXCEPT ![s].at = "settle_commit", ![s].outcome = CancelOutcome(s)]
  BY DEF TaskSettleAppend
<1>2. \/ journal' = journal
      \/ /\ journal.terminal = "none" /\ journal' = Settle(journal, CancelOutcome(s))
         /\ used' = used
  BY DEF TaskSettleAppend
<1>3. /\ task'[s].at \in {"settle_commit", "exiting"}
      /\ task'[s].snapshot => task[s].snapshot
      /\ \A t \in Services \ {s} : task'[t] = task[t]
  <2>1. CASE Exit(s)
    BY <2>1, ExitMoves
  <2>2. CASE task' = [task EXCEPT ![s].at = "settle_commit", ![s].outcome = CancelOutcome(s)]
    BY <2>2, NoteMoves
  <2> QED
    BY <1>1, <2>1, <2>2
<1>4. task[s].at = "settle_append" /\ spawns' = spawns
  BY DEF TaskSettleAppend
<1> QED
  BY <1>2, <1>3, <1>4 DEF CancelOutcome

-----------------------------------------------------------------------------
(* An external effect of unknown outcome.  Only an engine leaves one behind, *)
(* and by SingleWriter no other task is then past the look for it.           *)

\* The points between that look and the engine.
Cleared == {"drain", "queued", "admitted", "start"}

\* A task that has looked and not yet started the engine has nothing to fear.
EntryInv == \A s \in Services : task[s].at \in Cleared => ~journal.inflight

\* A step that leaves no effect behind and lets no task pass one.
StillCleared ==
    /\ journal'.inflight = journal.inflight
    /\ \A t \in Services : task'[t].at \in Cleared => task[t].at \in Cleared \/ ~journal.inflight

\* Such a step keeps the invariant.
LEMMA StillEntry ==
  ASSUME EntryInv, StillCleared
  PROVE  EntryInv'
  BY DEF EntryInv, StillCleared

\* When the task that is stopped was the only one past reconcile, none is left.
LEMMA NoneCleared ==
  ASSUME TypeOK, SingleWriter, NEW s \in Services, task[s].at = "engine",
         task'[s].at \notin Cleared, \A t \in Services \ {s} : task'[t] = task[t]
  PROVE  EntryInv'
<1>1. lease = <<"task", s>>
  BY DEF SingleWriter
<1>2. \A t \in Services \ {s} : task[t].at \notin Cleared
  BY <1>1 DEF SingleWriter, Cleared
<1> QED
  BY <1>2 DEF EntryInv

\* The end of a process loses the outcome of a running operation at most.
LEMMA ProcessEndsEntry ==
  ASSUME TypeOK, SingleWriter, EntryInv, NEW s \in Services, ProcessEnds(s)
  PROVE  EntryInv'
<1>1. /\ task'[s].at = "idle" /\ \A t \in Services \ {s} : task'[t] = task[t]
  BY EndMoves DEF ProcessEnds
<1>2. CASE task[s].at = "engine"
  BY <1>1, <1>2, NoneCleared DEF Cleared
<1>3. CASE task[s].at # "engine"
  <2>1. journal'.inflight = journal.inflight
    BY <1>3 DEF ProcessEnds, TypeOK, RunState
  <2> QED
    BY <1>1, <2>1, StillEntry DEF StillCleared, Cleared
<1> QED
  BY <1>2, <1>3

\* So does an abort.
LEMMA JoinTimeoutEntry ==
  ASSUME TypeOK, SingleWriter, EntryInv, NEW s \in Services, JoinTimeout(s)
  PROVE  EntryInv'
<1>1. /\ task'[s].at = "idle" /\ \A t \in Services \ {s} : task'[t] = task[t]
  BY EndMoves DEF JoinTimeout, AbortTask
<1>2. CASE task[s].at = "engine"
  BY <1>1, <1>2, NoneCleared DEF Cleared
<1>3. CASE task[s].at # "engine"
  <2>1. journal'.inflight = journal.inflight
    BY <1>3 DEF JoinTimeout, AbortTask, TypeOK, RunState
  <2> QED
    BY <1>1, <2>1, StillEntry DEF StillCleared, Cleared
<1> QED
  BY <1>2, <1>3

\* The engine returns, canceled or not.
LEMMA EngineEntry ==
  ASSUME TypeOK, SingleWriter, EntryInv, NEW s \in Services, TaskEngine(s)
  PROVE  EntryInv'
<1>1. PICK p : Return(s, p)
  BY DEF TaskEngine, EngineSucceeds, EngineFails, EngineErrors, EngineAsks, EngineCancels,
         EngineYields
<1>2. /\ task'[s].at = "returned" /\ \A t \in Services \ {s} : task'[t] = task[t]
  BY <1>1, ReturnMoves
<1> QED
  BY <1>2, NoneCleared DEF TaskEngine, Cleared

\* A spawn request becomes a task that has yet to look, or is dropped.
LEMMA SpawnStepEntry ==
  ASSUME TypeOK, SingleWriter, EntryInv, NEW s \in Services, SpawnStep(s)
  PROVE  EntryInv'
<1>0. journal \in RunState
  BY DEF TypeOK
<1>1. CASE SpawnStarts(s)
  <2> StillCleared
    BY <1>0, <1>1, StartMoves DEF StillCleared, Cleared, SpawnStarts
  <2> QED
    BY StillEntry
<1>2. CASE SpawnAborts(s)
  <2> StillCleared
    BY <1>0, <1>2 DEF StillCleared, Cleared, SpawnAborts, shared
  <2> QED
    BY StillEntry
<1>3. CASE SpawnGivesUp(s)
  <2> StillCleared
    BY <1>0, <1>3 DEF StillCleared, Cleared, SpawnGivesUp, shared
  <2> QED
    BY StillEntry
<1> QED
  BY <1>1, <1>2, <1>3 DEF SpawnStep

\* The engine task: it passes reconcile only without an unresolved effect.
LEMMA TaskStepEntry ==
  ASSUME TypeOK, SingleWriter, EntryInv, NEW s \in Services, TaskStep(s)
  PROVE  EntryInv'
<1>0. journal \in RunState
  BY DEF TypeOK
<1>1. CASE TaskReconcile(s)
  <2> StillCleared
    BY <1>0, <1>1, GotoMoves, ExitMoves, SettleOnceFields, NoteFields DEF
       StillCleared, Cleared, TaskReconcile, FailClosed
  <2> QED
    BY StillEntry
<1>2. CASE TaskFail(s)
  <2> StillCleared
    BY <1>0, <1>2, ExitMoves DEF StillCleared, Cleared, TaskFail
  <2> QED
    BY StillEntry
<1>3. CASE TaskDrain(s)
  <2> StillCleared
    BY <1>0, <1>3, GotoMoves, ExitMoves, DrainMoves DEF StillCleared, Cleared,
       TaskDrain
  <2> QED
    BY StillEntry
<1>4. CASE TaskQueued(s)
  <2> StillCleared
    BY <1>0, <1>4, GotoMoves, ExitMoves DEF StillCleared, Cleared, TaskQueued
  <2> QED
    BY StillEntry
<1>5. CASE TaskAdmitted(s)
  <2> StillCleared
    BY <1>0, <1>5, GotoMoves, ExitMoves DEF StillCleared, Cleared, TaskAdmitted
  <2> QED
    BY StillEntry
<1>6. CASE TaskStart(s)
  <2> StillCleared
    BY <1>0, <1>6, GotoMoves, ReturnMoves, SettleFields, RestartFields DEF
       StillCleared, Cleared, TaskStart
  <2> QED
    BY StillEntry
<1>7. CASE TaskEngine(s)
  BY <1>7, EngineEntry
<1>8. CASE TaskReturned(s)
  <2> StillCleared
    BY <1>0, <1>8, GotoMoves, ExitMoves DEF StillCleared, Cleared, TaskReturned
  <2> QED
    BY StillEntry
<1>9. CASE FinishUntracked(s)
  <2> StillCleared
    BY <1>0, <1>9, ExitMoves DEF StillCleared, Cleared, FinishUntracked
  <2> QED
    BY StillEntry
<1>10. CASE FinishCanceled(s)
  <2> StillCleared
    BY <1>0, <1>10, GotoMoves DEF StillCleared, Cleared, FinishCanceled, shared
  <2> QED
    BY StillEntry
<1>11. CASE FinishOutcome(s)
  <2> StillCleared
    BY <1>0, <1>11, NoteMoves, ExitMoves, SettleOnceFields DEF StillCleared,
       Cleared, FinishOutcome
  <2> QED
    BY StillEntry
<1>12. CASE FinishSuspension(s)
  <2> StillCleared
    BY <1>0, <1>12, GotoMoves, ExitMoves, SuspensionMoves DEF StillCleared, Cleared
  <2> QED
    BY StillEntry
<1>13. CASE TaskRequeue(s)
  <2> StillCleared
    BY <1>0, <1>13, ExitMoves DEF StillCleared, Cleared, TaskRequeue
  <2> QED
    BY StillEntry
<1>14. CASE TaskCommit(s)
  <2> StillCleared
    BY <1>0, <1>14, ExitMoves, AgainMoves DEF StillCleared, Cleared, TaskCommit
  <2> QED
    BY StillEntry
<1>15. CASE TaskCancelDrain(s)
  <2> StillCleared
    BY <1>0, <1>15, GotoMoves, ExitMoves, DrainMoves DEF StillCleared, Cleared,
       TaskCancelDrain
  <2> QED
    BY StillEntry
<1>16. CASE TaskCancelAppend(s)
  <2> StillCleared
    BY <1>0, <1>16, CancelAppendMoves DEF StillCleared, Cleared
  <2> QED
    BY StillEntry
<1>17. CASE TaskCancelCommit(s)
  <2> StillCleared
    BY <1>0, <1>17, ExitMoves DEF StillCleared, Cleared, TaskCancelCommit
  <2> QED
    BY StillEntry
<1>18. CASE TaskSettleDrain(s)
  <2> StillCleared
    BY <1>0, <1>18, GotoMoves, ExitMoves, DrainMoves DEF StillCleared, Cleared,
       TaskSettleDrain
  <2> QED
    BY StillEntry
<1>19. CASE TaskSettleAppend(s)
  <2> StillCleared
    BY <1>0, <1>19, NoteMoves, ExitMoves, SettleFields DEF StillCleared, Cleared,
       TaskSettleAppend
  <2> QED
    BY StillEntry
<1>20. CASE TaskSettleCommit(s)
  <2> StillCleared
    BY <1>0, <1>20, ExitMoves DEF StillCleared, Cleared, TaskSettleCommit
  <2> QED
    BY StillEntry
<1>21. CASE TaskFinished(s)
  <2> StillCleared
    BY <1>0, <1>21, GotoMoves DEF StillCleared, Cleared, TaskFinished, shared
  <2> QED
    BY StillEntry
<1> QED
  BY <1>1, <1>2, <1>3, <1>4, <1>5, <1>6, <1>7, <1>8, <1>9, <1>10, <1>11, <1>12,
     <1>13, <1>14, <1>15, <1>16, <1>17, <1>18, <1>19, <1>20, <1>21 DEF TaskStep

\* A cancel call leaves effects and tasks alone.
LEMMA CancelStepEntry ==
  ASSUME TypeOK, SingleWriter, EntryInv, NEW op \in Operations, CancelStep(op)
  PROVE  EntryInv'
<1>0. journal \in RunState /\ cancel[op].on \in Services
  BY DEF TypeOK, CancelCall
<1>1. CASE CancelPublish(op)
  <2> StillCleared
    BY <1>0, <1>1 DEF StillCleared, Cleared, CancelPublish
  <2> QED
    BY StillEntry
<1>2. CASE CancelSignal(op)
  <2> StillCleared
    BY <1>0, <1>2 DEF StillCleared, Cleared, CancelSignal
  <2> QED
    BY StillEntry
<1>3. CASE CancelJoined(op)
  <2> StillCleared
    BY <1>0, <1>3, DrainMoves DEF StillCleared, Cleared, CancelJoined
  <2> QED
    BY StillEntry
<1>4. CASE CancelSettle(op)
  <2> StillCleared
    BY <1>0, <1>4, DrainMoves DEF StillCleared, Cleared, CancelSettle
  <2> QED
    BY StillEntry
<1>5. CASE CancelAppend(op)
  <2> StillCleared
    BY <1>0, <1>5, SettleOnceFields DEF StillCleared, Cleared, CancelAppend
  <2> QED
    BY StillEntry
<1>6. CASE CancelCommit(op)
  <2> StillCleared
    BY <1>0, <1>6 DEF StillCleared, Cleared, CancelCommit
  <2> QED
    BY StillEntry
<1> QED
  BY <1>1, <1>2, <1>3, <1>4, <1>5, <1>6 DEF CancelStep

\* So does a denial,
LEMMA DenialStepEntry ==
  ASSUME TypeOK, SingleWriter, EntryInv, NEW s \in Services, DenialStep(s)
  PROVE  EntryInv'
<1>0. journal \in RunState
  BY DEF TypeOK
<1>1. CASE DenialMark(s)
  <2> StillCleared
    BY <1>0, <1>1 DEF StillCleared, Cleared, DenialMark, shared
  <2> QED
    BY StillEntry
<1>2. CASE DenialSeal(s)
  <2> StillCleared
    BY <1>0, <1>2, NoteFields DEF StillCleared, Cleared, DenialSeal
  <2> QED
    BY StillEntry
<1>3. CASE DenialCommit(s)
  <2> StillCleared
    BY <1>0, <1>3 DEF StillCleared, Cleared, DenialCommit, shared
  <2> QED
    BY StillEntry
<1> QED
  BY <1>1, <1>2, <1>3 DEF DenialStep

\* a preemption,
LEMMA PreemptStepEntry ==
  ASSUME TypeOK, SingleWriter, EntryInv, NEW s \in Services, PreemptStep(s)
  PROVE  EntryInv'
<1>0. journal \in RunState
  BY DEF TypeOK
<1>1. CASE PreemptMark(s)
  <2> StillCleared
    BY <1>0, <1>1 DEF StillCleared, Cleared, PreemptMark, shared
  <2> QED
    BY StillEntry
<1>2. CASE PreemptLease(s)
  <2> StillCleared
    BY <1>0, <1>2 DEF StillCleared, Cleared, PreemptLease
  <2> QED
    BY StillEntry
<1>3. CASE PreemptRequeue(s)
  <2> StillCleared
    BY <1>0, <1>3, RestartFields, TruncateFields, TruncateType DEF StillCleared,
       Cleared, PreemptRequeue
  <2> QED
    BY StillEntry
<1>4. CASE PreemptCommit(s)
  <2> StillCleared
    BY <1>0, <1>4 DEF StillCleared, Cleared, PreemptCommit, shared
  <2> QED
    BY StillEntry
<1>5. CASE PreemptRelease(s)
  <2> StillCleared
    BY <1>0, <1>5 DEF StillCleared, Cleared, PreemptRelease
  <2> QED
    BY StillEntry
<1>6. CASE PreemptSettle(s)
  <2> StillCleared
    BY <1>0, <1>6, DrainMoves DEF StillCleared, Cleared, PreemptSettle,
       SettleSkipped, SettleDenied, SettleDrain, shared
  <2> QED
    BY StillEntry
<1>7. CASE PreemptAppend(s)
  <2> StillCleared
    BY <1>0, <1>7, SettleOnceFields DEF StillCleared, Cleared, PreemptAppend,
       SettleInterrupted
  <2> QED
    BY StillEntry
<1>8. CASE PreemptSettled(s)
  <2> StillCleared
    BY <1>0, <1>8 DEF StillCleared, Cleared, PreemptSettled
  <2> QED
    BY StillEntry
<1> QED
  BY <1>1, <1>2, <1>3, <1>4, <1>5, <1>6, <1>7, <1>8 DEF PreemptStep

\* a shutdown,
LEMMA ShutdownStepEntry ==
  ASSUME TypeOK, SingleWriter, EntryInv, NEW s \in Services, ShutdownStep(s)
  PROVE  EntryInv'
<1>0. journal \in RunState
  BY DEF TypeOK
<1>1. CASE ShutdownPublish(s)
  <2> StillCleared
    BY <1>0, <1>1 DEF StillCleared, Cleared, ShutdownPublish
  <2> QED
    BY StillEntry
<1>2. CASE ShutdownSignal(s)
  <2> StillCleared
    BY <1>0, <1>2 DEF StillCleared, Cleared, ShutdownSignal, shared
  <2> QED
    BY StillEntry
<1>3. CASE ShutdownTake(s)
  <2> StillCleared
    BY <1>0, <1>3 DEF StillCleared, Cleared, ShutdownTake, shared
  <2> QED
    BY StillEntry
<1>4. CASE ShutdownJoined(s)
  <2> StillCleared
    BY <1>0, <1>4, DrainMoves DEF StillCleared, Cleared, ShutdownJoined
  <2> QED
    BY StillEntry
<1>5. CASE ShutdownSettle(s)
  <2> StillCleared
    BY <1>0, <1>5, DrainMoves DEF StillCleared, Cleared, ShutdownSettle,
       SettleSkipped, SettleDenied, SettleDrain, shared
  <2> QED
    BY StillEntry
<1>6. CASE ShutdownAppend(s)
  <2> StillCleared
    BY <1>0, <1>6, SettleOnceFields DEF StillCleared, Cleared, ShutdownAppend,
       SettleInterrupted
  <2> QED
    BY StillEntry
<1>7. CASE ShutdownSettled(s)
  <2> StillCleared
    BY <1>0, <1>7 DEF StillCleared, Cleared, ShutdownSettled
  <2> QED
    BY StillEntry
<1>8. CASE ShutdownLate(s)
  <2> StillCleared
    BY <1>0, <1>8 DEF StillCleared, Cleared, ShutdownLate, shared
  <2> QED
    BY StillEntry
<1>9. CASE ShutdownOrphans(s)
  <2> StillCleared
    BY <1>0, <1>9, SettleFields DEF StillCleared, Cleared, ShutdownOrphans
  <2> QED
    BY StillEntry
<1>10. CASE ShutdownEnds(s)
  BY <1>10, ProcessEndsEntry DEF ShutdownEnds
<1> QED
  BY <1>1, <1>2, <1>3, <1>4, <1>5, <1>6, <1>7, <1>8, <1>9, <1>10 DEF ShutdownStep

\* a refresh,
LEMMA RefreshStepEntry ==
  ASSUME TypeOK, SingleWriter, EntryInv, NEW s \in Services, RefreshStep(s)
  PROVE  EntryInv'
<1>0. journal \in RunState
  BY DEF TypeOK
<1>1. CASE RefreshScan(s)
  <2> StillCleared
    BY <1>0, <1>1 DEF StillCleared, Cleared, RefreshScan, shared
  <2> QED
    BY StillEntry
<1>2. CASE RefreshInsert(s)
  <2> StillCleared
    BY <1>0, <1>2 DEF StillCleared, Cleared, RefreshInsert, shared
  <2> QED
    BY StillEntry
<1>3. CASE RefreshMerge(s)
  <2> StillCleared
    BY <1>0, <1>3 DEF StillCleared, Cleared, RefreshMerge, shared
  <2> QED
    BY StillEntry
<1> QED
  BY <1>1, <1>2, <1>3 DEF RefreshStep

\* and what clients, operators and the environment do.
LEMMA UserStepEntry ==
  ASSUME TypeOK, SingleWriter, EntryInv, NEW s \in Services, UserStep(s)
  PROVE  EntryInv'
<1>0. journal \in RunState
  BY DEF TypeOK
<1>1. CASE Answer(s)
  <2> StillCleared
    BY <1>0, <1>1, RespondFields DEF StillCleared, Cleared, Answer
  <2> QED
    BY StillEntry
<1>2. CASE Approve(s)
  <2> StillCleared
    BY <1>0, <1>2, RespondFields DEF StillCleared, Cleared, Approve
  <2> QED
    BY StillEntry
<1>3. CASE DenyConfirmation(s)
  <2> StillCleared
    BY <1>0, <1>3, RespondFields DEF StillCleared, Cleared, DenyConfirmation
  <2> QED
    BY StillEntry
<1>4. CASE Adopt(s)
  <2> StillCleared
    BY <1>0, <1>4 DEF StillCleared, Cleared, Adopt, shared
  <2> QED
    BY StillEntry
<1>5. CASE PreemptBegin(s)
  <2> StillCleared
    BY <1>0, <1>5 DEF StillCleared, Cleared, PreemptBegin, shared
  <2> QED
    BY StillEntry
<1>6. CASE ShutdownBegin(s)
  <2> StillCleared
    BY <1>0, <1>6 DEF StillCleared, Cleared, ShutdownBegin, shared
  <2> QED
    BY StillEntry
<1>7. CASE Crash(s)
  BY <1>7, ProcessEndsEntry DEF Crash
<1>8. CASE EvictTerminal(s)
  <2> StillCleared
    BY <1>0, <1>8 DEF StillCleared, Cleared, EvictTerminal, shared
  <2> QED
    BY StillEntry
<1> QED
  BY <1>1, <1>2, <1>3, <1>4, <1>5, <1>6, <1>7, <1>8 DEF UserStep

\* No step of any party breaks it.
LEMMA NextEntry ==
  ASSUME TypeOK, SingleWriter, EntryInv, [Next]_vars
  PROVE  EntryInv'
<1>1. CASE UNCHANGED vars
  BY <1>1 DEF EntryInv, vars, shared
<1>2. CASE Next
  <2>1. ASSUME NEW s \in Services,
               \/ SpawnStep(s) \/ TaskStep(s) \/ JoinTimeout(s) \/ DenialStep(s)
               \/ PreemptStep(s) \/ ShutdownStep(s) \/ RefreshStep(s) \/ UserStep(s)
               \/ Boot(s) \/ ResumeStuck(s)
        PROVE  EntryInv'
    <3>1. Boot(s) \/ ResumeStuck(s) => EntryInv'
      BY DEF Boot, ResumeStuck, EntryInv, shared
    <3> QED
      BY <2>1, <3>1, SpawnStepEntry, TaskStepEntry, JoinTimeoutEntry, DenialStepEntry,
         PreemptStepEntry, ShutdownStepEntry, RefreshStepEntry, UserStepEntry
  <2>2. ASSUME NEW op \in Operations,
               CancelStep(op) \/ (\E s \in Services : CancelBegin(op, s))
        PROVE  EntryInv'
    <3>1. (\E s \in Services : CancelBegin(op, s)) => EntryInv'
      BY DEF CancelBegin, EntryInv
    <3> QED
      BY <2>2, <3>1, CancelStepEntry
  <2> QED
    BY <1>2, <2>1, <2>2 DEF Next
<1> QED
  BY <1>1, <1>2

\* A run with an external effect of unknown outcome is never executed again,
\* whatever stopped the execution (crash, abort, cancel), whoever picks the
\* run up and however often.
THEOREM UnresolvedCorrect == Spec => UnresolvedNeverResumes
<1>1. Init => EntryInv
  BY DEF Init, EntryInv, NoTask, Cleared
<1>2. TypeOK /\ SingleWriter /\ EntryInv /\ [Next]_vars => EntryInv'
  BY NextEntry
<1>3. EntryInv => \A s \in Services :
          task[s].at = "start" /\ task'[s].at = "engine" => ~journal.inflight
  BY DEF EntryInv, Cleared
<1> QED
  BY <1>1, <1>2, <1>3, TypeCorrect, LeaseExcludes, PTL DEF Spec, UnresolvedNeverResumes
-----------------------------------------------------------------------------
(* One outcome.  A denial that races a settlement, and a spawn request that *)
(* carries an admission's snapshot past one, do write a second; the         *)
(* theorems are about runs without confirmations, admitted once.            *)

PlainRun == Confirmations = {} /\ MaxAdoptions = 0

Undenied == ~journal.denied /\ \A s \in Services : denial[s] # "commit"

NoSnapshot == \A s \in Services : ~task[s].snapshot /\ \A r \in spawns[s] : ~r.snapshot

\* The engine starts and works on a run without outcome.
FreshStart ==
    \A s \in Services : task[s].at \in {"start", "engine"} => journal.terminal = "none"

\* Unless a read has failed, the file holds the outcome that readers fold and no other.
Counted == used.faults = 0 => journal.terminals = IF journal.terminal = "none" THEN 0 ELSE 1

OutcomeInv == Undenied /\ NoSnapshot /\ FreshStart /\ Counted

\* Nobody else works beside a task, and no task beside another holder or none.
LEMMA Alone ==
  ASSUME SingleWriter, NEW s \in Services, task[s].at \notin {"idle", "exiting"}
  PROVE  \A t \in Services \ {s} : task[t].at \in {"idle", "exiting"}
  BY DEF SingleWriter

\* Where no task holds the lease, none works.
LEMMA NoneWorks ==
  ASSUME SingleWriter, \A t \in Services : lease # <<"task", t>>
  PROVE  \A t \in Services : task[t].at \in {"idle", "exiting"}
  BY DEF SingleWriter

\* A failing read is counted.
LEMMA FaultUsed ==
  ASSUME TypeOK, Fault
  PROVE  used'.faults # 0
  BY DEF TypeOK, Bounds, Fault

\* A spawn request of the record's own carries no snapshot.
LEMMA SpawnMoves ==
  ASSUME TypeOK, NEW s \in Services, NEW r, spawns' = [spawns EXCEPT ![s] = @ \cup {SpawnOf(r)}]
  PROVE  \A t \in Services : \A q \in spawns'[t] : q \in spawns[t] \/ ~q.snapshot
  BY DEF TypeOK, SpawnOf

\* Reconciling a denial does not yet commit one.
LEMMA ReconcileMoves ==
  ASSUME TypeOK, NEW s \in Services, ReconcileDenial(s)
  PROVE  \A t \in Services : denial'[t] = "commit" => denial[t] = "commit"
  BY DEF TypeOK, ReconcileDenial

\* The end of a process writes no outcome.
LEMMA ProcessEndsOutcome ==
  ASSUME TypeOK, SingleWriter, OutcomeInv, NEW s \in Services, ProcessEnds(s),
         used'.faults = used.faults
  PROVE  OutcomeInv'
<1>1. /\ task'[s].at = "idle" /\ ~task'[s].snapshot /\ \A t \in Services \ {s} : task'[t] = task[t]
  BY EndMoves DEF ProcessEnds
<1>2. /\ journal'.terminal = journal.terminal /\ journal'.terminals = journal.terminals
      /\ journal'.denied = journal.denied
  BY LostFields DEF ProcessEnds, TypeOK
<1>3. Undenied'
  BY <1>2 DEF Undenied, OutcomeInv, ProcessEnds, TypeOK
<1>4. NoSnapshot'
  BY <1>1 DEF NoSnapshot, OutcomeInv, ProcessEnds, TypeOK
<1>5. FreshStart'
  BY <1>1, <1>2 DEF FreshStart, OutcomeInv
<1>6. Counted'
  BY <1>2 DEF Counted, OutcomeInv
<1> QED
  BY <1>3, <1>4, <1>5, <1>6 DEF OutcomeInv

\* Nor does an abort.
LEMMA JoinTimeoutOutcome ==
  ASSUME TypeOK, SingleWriter, OutcomeInv, NEW s \in Services, JoinTimeout(s)
  PROVE  OutcomeInv'
<1>1. /\ task'[s].at = "idle" /\ ~task'[s].snapshot /\ \A t \in Services \ {s} : task'[t] = task[t]
  BY EndMoves DEF JoinTimeout, AbortTask
<1>2. /\ journal'.terminal = journal.terminal /\ journal'.terminals = journal.terminals
      /\ journal'.denied = journal.denied
  BY LostFields DEF JoinTimeout, AbortTask, TypeOK
<1>3. Undenied'
  BY <1>2 DEF Undenied, OutcomeInv, JoinTimeout
<1>4. NoSnapshot'
  BY <1>1 DEF NoSnapshot, OutcomeInv, JoinTimeout, local
<1>5. FreshStart'
  BY <1>1, <1>2 DEF FreshStart, OutcomeInv
<1>6. Counted'
  BY <1>2 DEF Counted, OutcomeInv, JoinTimeout
<1> QED
  BY <1>3, <1>4, <1>5, <1>6 DEF OutcomeInv

\* What the engine journals when it returns.
LEMMA EngineMoves ==
  ASSUME TypeOK, SingleWriter, OutcomeInv, NEW s \in Services, TaskEngine(s)
  PROVE  /\ task'[s].at = "returned" /\ task'[s].snapshot = task[s].snapshot
         /\ \A t \in Services \ {s} : task'[t] = task[t]
         /\ journal'.denied = journal.denied
         /\ \/ journal'.terminal = journal.terminal /\ journal'.terminals = journal.terminals
            \/ /\ journal'.terminal # "none"
               /\ journal'.terminals = IF journal.terminals < 2 THEN journal.terminals + 1
                                       ELSE journal.terminals
         /\ task'[s].progress = "done" => journal'.terminal = "succeeded"
<1>0. journal \in RunState
  BY DEF TypeOK
<1>1. CASE EngineSucceeds(s)
  BY <1>0, <1>1, SettleFields, ReturnMoves DEF EngineSucceeds
<1>2. CASE EngineFails(s)
  BY <1>0, <1>2, SettleFields, ReturnMoves DEF EngineFails
<1>3. CASE EngineErrors(s)
  BY <1>0, <1>3, ReturnMoves DEF EngineErrors
<1>4. CASE EngineAsks(s)
  BY <1>0, <1>4, NoteFields, ReturnMoves DEF EngineAsks
<1>5. CASE EngineCancels(s)
  <2>1. PICK lost : journal' = [Settle(journal, CancelOutcome(s)) EXCEPT !.inflight = lost]
    BY <1>5 DEF EngineCancels
  <2>2. CancelOutcome(s) \in Terminals /\ CancelOutcome(s) # "none"
    BY DEF CancelOutcome, Terminals, Final
  <2>3. Settle(journal, CancelOutcome(s)) \in RunState
    BY <1>0, <2>2, SettleType
  <2>4. /\ journal'.terminal = Settle(journal, CancelOutcome(s)).terminal
        /\ journal'.terminals = Settle(journal, CancelOutcome(s)).terminals
        /\ journal'.denied = Settle(journal, CancelOutcome(s)).denied
    BY <2>1, <2>3, LostFields
  <2>5. Return(s, "canceled")
    BY <1>5 DEF EngineCancels
  <2> QED
    BY <1>0, <2>2, <2>4, <2>5, SettleFields, ReturnMoves
<1>6. CASE EngineYields(s)
  BY <1>0, <1>6, NoteFields, ReturnMoves DEF EngineYields
<1> QED
  BY <1>1, <1>2, <1>3, <1>4, <1>5, <1>6 DEF TaskEngine

\* The engine starts without an outcome, so that its own is the first.
LEMMA EngineOutcome ==
  ASSUME TypeOK, SingleWriter, OutcomeInv, NEW s \in Services, TaskEngine(s)
  PROVE  OutcomeInv'
<1>1. task[s].at = "engine" /\ journal.terminal = "none"
  BY DEF TaskEngine, OutcomeInv, FreshStart
<1>2. Undenied'
  BY EngineMoves DEF Undenied, OutcomeInv, TaskEngine, calls
<1>3. NoSnapshot'
  BY EngineMoves DEF NoSnapshot, OutcomeInv, TaskEngine, local
<1>4. FreshStart'
  BY <1>1, EngineMoves, Alone DEF FreshStart
<1>5. Counted'
  BY <1>1, EngineMoves DEF Counted, OutcomeInv, TaskEngine
<1> QED
  BY <1>2, <1>3, <1>4, <1>5 DEF OutcomeInv

\* Spawn requests become tasks or are dropped.
LEMMA SpawnStepOutcome ==
  ASSUME PlainRun, TypeOK, SingleWriter, OutcomeInv, NEW s \in Services, SpawnStep(s)
  PROVE  OutcomeInv'
<1>0. journal \in RunState
      /\ task \in [Services -> EngineTask] /\ spawns \in [Services -> SUBSET SpawnRun]
      /\ denial \in [Services -> {"idle", "mark", "seal", "commit"}] /\ used \in Bounds
  BY DEF TypeOK
<1>a. Undenied /\ NoSnapshot /\ FreshStart /\ Counted
  BY DEF OutcomeInv
<1>1. CASE SpawnStarts(s)
  <2>1. Undenied'
    BY <1>0, <1>a, <1>1, StartMoves, ReconcileMoves DEF Undenied, SpawnStarts,
       Denied, calls
  <2>2. NoSnapshot'
    BY <1>0, <1>a, <1>1, StartMoves DEF NoSnapshot
  <2>3. FreshStart'
    BY <1>0, <1>a, <1>1, StartMoves, NoneWorks DEF FreshStart, Undenied,
       SpawnStarts, NoLease, Denied
  <2>4. Counted'
    BY <1>0, <1>a, <1>1, StartMoves, FaultUsed DEF Counted, FreshStart, Undenied,
       SpawnStarts, Bounds, Denied
  <2> QED
    BY <2>1, <2>2, <2>3, <2>4 DEF OutcomeInv
<1>2. CASE SpawnAborts(s)
  <2>1. Undenied'
    BY <1>0, <1>a, <1>2, ReconcileMoves DEF Undenied, SpawnAborts, shared, Denied,
       calls
  <2>2. NoSnapshot'
    BY <1>0, <1>a, <1>2, SpawnMoves DEF NoSnapshot, SpawnAborts, shared, local
  <2>3. FreshStart'
    BY <1>0, <1>a, <1>2, NoneWorks DEF FreshStart, Undenied, SpawnAborts, shared,
       NoLease, Denied
  <2>4. Counted'
    BY <1>0, <1>a, <1>2, FaultUsed DEF Counted, FreshStart, Undenied, SpawnAborts,
       shared, Bounds, Denied
  <2> QED
    BY <2>1, <2>2, <2>3, <2>4 DEF OutcomeInv
<1>3. CASE SpawnGivesUp(s)
  <2>1. Undenied'
    BY <1>0, <1>a, <1>3, ReconcileMoves DEF Undenied, SpawnGivesUp, shared, Denied,
       calls
  <2>2. NoSnapshot'
    BY <1>0, <1>a, <1>3, SpawnMoves DEF NoSnapshot, SpawnGivesUp, shared, local
  <2>3. FreshStart'
    BY <1>0, <1>a, <1>3, NoneWorks DEF FreshStart, Undenied, SpawnGivesUp, shared,
       NoLease, Denied
  <2>4. Counted'
    BY <1>0, <1>a, <1>3, FaultUsed DEF Counted, FreshStart, Undenied, SpawnGivesUp,
       shared, Bounds, Denied
  <2> QED
    BY <2>1, <2>2, <2>3, <2>4 DEF OutcomeInv
<1> QED
  BY <1>1, <1>2, <1>3 DEF SpawnStep

\* The engine task writes an outcome only over none, as long as it can read.
LEMMA TaskStepOutcome ==
  ASSUME PlainRun, TypeOK, SingleWriter, OutcomeInv, NEW s \in Services, TaskStep(s)
  PROVE  OutcomeInv'
<1>0. journal \in RunState
      /\ task \in [Services -> EngineTask] /\ spawns \in [Services -> SUBSET SpawnRun]
      /\ denial \in [Services -> {"idle", "mark", "seal", "commit"}] /\ used \in Bounds
  BY DEF TypeOK
<1>a. Undenied /\ NoSnapshot /\ FreshStart /\ Counted
  BY DEF OutcomeInv
<1>1. CASE TaskReconcile(s)
  <2>1. Undenied'
    BY <1>0, <1>a, <1>1, GotoMoves, ExitMoves, SettleOnceFields, NoteFields,
       ReconcileMoves DEF Undenied, TaskReconcile, FailClosed, Denied, calls
  <2>2. NoSnapshot'
    BY <1>0, <1>a, <1>1, GotoMoves, ExitMoves, SpawnMoves DEF NoSnapshot,
       TaskReconcile, FailClosed, local
  <2>3. FreshStart'
    BY <1>0, <1>a, <1>1, GotoMoves, ExitMoves, SettleOnceFields, NoteFields, Alone
       DEF FreshStart, Undenied, TaskReconcile, FailClosed, NoLease, Denied
  <2>4. Counted'
    BY <1>0, <1>a, <1>1, GotoMoves, ExitMoves, SettleOnceFields, NoteFields,
       FaultUsed DEF Counted, FreshStart, Undenied, TaskReconcile, FailClosed,
       Bounds, Denied
  <2> QED
    BY <2>1, <2>2, <2>3, <2>4 DEF OutcomeInv
<1>2. CASE TaskFail(s)
  <2>1. Undenied'
    BY <1>0, <1>a, <1>2, ExitMoves, ReconcileMoves DEF Undenied, TaskFail, Denied,
       calls
  <2>2. NoSnapshot'
    BY <1>0, <1>a, <1>2, ExitMoves, SpawnMoves DEF NoSnapshot, TaskFail, local
  <2>3. FreshStart'
    BY <1>0, <1>a, <1>2, ExitMoves, Alone DEF FreshStart, Undenied, TaskFail,
       NoLease, Denied
  <2>4. Counted'
    BY <1>0, <1>a, <1>2, ExitMoves, FaultUsed DEF Counted, FreshStart, Undenied,
       TaskFail, Bounds, Denied
  <2> QED
    BY <2>1, <2>2, <2>3, <2>4 DEF OutcomeInv
<1>3. CASE TaskDrain(s)
  <2>1. Undenied'
    BY <1>0, <1>a, <1>3, GotoMoves, ExitMoves, DrainMoves, ReconcileMoves DEF
       Undenied, TaskDrain, Denied, calls
  <2>2. NoSnapshot'
    BY <1>0, <1>a, <1>3, GotoMoves, ExitMoves, DrainMoves, SpawnMoves DEF
       NoSnapshot, TaskDrain, local
  <2>3. FreshStart'
    BY <1>0, <1>a, <1>3, GotoMoves, ExitMoves, DrainMoves, Alone DEF FreshStart,
       Undenied, TaskDrain, NoLease, Denied
  <2>4. Counted'
    BY <1>0, <1>a, <1>3, GotoMoves, ExitMoves, DrainMoves, FaultUsed DEF Counted,
       FreshStart, Undenied, TaskDrain, Bounds, Denied
  <2> QED
    BY <2>1, <2>2, <2>3, <2>4 DEF OutcomeInv
<1>4. CASE TaskQueued(s)
  <2>1. Undenied'
    BY <1>0, <1>a, <1>4, GotoMoves, ExitMoves, ReconcileMoves DEF Undenied,
       TaskQueued, Denied, calls
  <2>2. NoSnapshot'
    BY <1>0, <1>a, <1>4, GotoMoves, ExitMoves, SpawnMoves DEF NoSnapshot,
       TaskQueued, local
  <2>3. FreshStart'
    BY <1>0, <1>a, <1>4, GotoMoves, ExitMoves, Alone DEF FreshStart, Undenied,
       TaskQueued, NoLease, Denied
  <2>4. Counted'
    BY <1>0, <1>a, <1>4, GotoMoves, ExitMoves, FaultUsed DEF Counted, FreshStart,
       Undenied, TaskQueued, Bounds, Denied
  <2> QED
    BY <2>1, <2>2, <2>3, <2>4 DEF OutcomeInv
<1>5. CASE TaskAdmitted(s)
  <2>1. Undenied'
    BY <1>0, <1>a, <1>5, GotoMoves, ExitMoves, ReconcileMoves DEF Undenied,
       TaskAdmitted, Denied, calls
  <2>2. NoSnapshot'
    BY <1>0, <1>a, <1>5, GotoMoves, ExitMoves, SpawnMoves DEF NoSnapshot,
       TaskAdmitted, local
  <2>3. FreshStart'
    BY <1>0, <1>a, <1>5, GotoMoves, ExitMoves, Alone DEF FreshStart, NoSnapshot,
       TaskAdmitted, SettledOnDisk
  <2>4. Counted'
    BY <1>0, <1>a, <1>5, GotoMoves, ExitMoves, FaultUsed DEF Counted, FreshStart,
       Undenied, TaskAdmitted, Bounds, Denied
  <2> QED
    BY <2>1, <2>2, <2>3, <2>4 DEF OutcomeInv
<1>6. CASE TaskStart(s)
  <2>1. Undenied'
    BY <1>0, <1>a, <1>6, GotoMoves, ReturnMoves, SettleFields, RestartFields,
       ReconcileMoves DEF Undenied, TaskStart, Denied, calls
  <2>2. NoSnapshot'
    BY <1>0, <1>a, <1>6, GotoMoves, ReturnMoves, SpawnMoves DEF NoSnapshot,
       TaskStart, local
  <2>3. FreshStart'
    BY <1>0, <1>a, <1>6, GotoMoves, ReturnMoves, SettleFields, RestartFields, Alone
       DEF FreshStart, Undenied, TaskStart, NoLease, Denied
  <2>4. Counted'
    BY <1>0, <1>a, <1>6, GotoMoves, ReturnMoves, SettleFields, RestartFields,
       FaultUsed DEF Counted, FreshStart, Undenied, TaskStart, Bounds, Denied
  <2> QED
    BY <2>1, <2>2, <2>3, <2>4 DEF OutcomeInv
<1>7. CASE TaskEngine(s)
  BY <1>7, EngineOutcome
<1>8. CASE TaskReturned(s)
  <2>1. Undenied'
    BY <1>0, <1>a, <1>8, GotoMoves, ExitMoves, ReconcileMoves DEF Undenied,
       TaskReturned, Denied, calls
  <2>2. NoSnapshot'
    BY <1>0, <1>a, <1>8, GotoMoves, ExitMoves, SpawnMoves DEF NoSnapshot,
       TaskReturned, local
  <2>3. FreshStart'
    BY <1>0, <1>a, <1>8, GotoMoves, ExitMoves, Alone DEF FreshStart, Undenied,
       TaskReturned, NoLease, Denied
  <2>4. Counted'
    BY <1>0, <1>a, <1>8, GotoMoves, ExitMoves, FaultUsed DEF Counted, FreshStart,
       Undenied, TaskReturned, Bounds, Denied
  <2> QED
    BY <2>1, <2>2, <2>3, <2>4 DEF OutcomeInv
<1>9. CASE FinishUntracked(s)
  <2>1. Undenied'
    BY <1>0, <1>a, <1>9, ExitMoves, ReconcileMoves DEF Undenied, FinishUntracked,
       Denied, calls
  <2>2. NoSnapshot'
    BY <1>0, <1>a, <1>9, ExitMoves, SpawnMoves DEF NoSnapshot, FinishUntracked,
       local
  <2>3. FreshStart'
    BY <1>0, <1>a, <1>9, ExitMoves, Alone DEF FreshStart, Undenied, FinishUntracked,
       NoLease, Denied
  <2>4. Counted'
    BY <1>0, <1>a, <1>9, ExitMoves, FaultUsed DEF Counted, FreshStart, Undenied,
       FinishUntracked, Bounds, Denied
  <2> QED
    BY <2>1, <2>2, <2>3, <2>4 DEF OutcomeInv
<1>10. CASE FinishCanceled(s)
  <2>1. Undenied'
    BY <1>0, <1>a, <1>10, GotoMoves, ReconcileMoves DEF Undenied, FinishCanceled,
       shared, Denied, calls
  <2>2. NoSnapshot'
    BY <1>0, <1>a, <1>10, GotoMoves, SpawnMoves DEF NoSnapshot, FinishCanceled,
       shared, local
  <2>3. FreshStart'
    BY <1>0, <1>a, <1>10, GotoMoves, Alone DEF FreshStart, Undenied, FinishCanceled,
       shared, NoLease, Denied
  <2>4. Counted'
    BY <1>0, <1>a, <1>10, GotoMoves, FaultUsed DEF Counted, FreshStart, Undenied,
       FinishCanceled, shared, Bounds, Denied
  <2> QED
    BY <2>1, <2>2, <2>3, <2>4 DEF OutcomeInv
<1>11. CASE FinishOutcome(s)
  <2>1. Undenied'
    BY <1>0, <1>a, <1>11, NoteMoves, ExitMoves, SettleOnceFields, ReconcileMoves DEF
       Undenied, FinishOutcome, Denied, calls
  <2>2. NoSnapshot'
    BY <1>0, <1>a, <1>11, NoteMoves, ExitMoves, SpawnMoves DEF NoSnapshot,
       FinishOutcome, local
  <2>3. FreshStart'
    BY <1>0, <1>a, <1>11, FinishMoves, Alone DEF FreshStart
  <2>4. Counted'
    BY <1>0, <1>a, <1>11, NoteMoves, ExitMoves, SettleOnceFields, FaultUsed DEF
       Counted, FreshStart, Undenied, FinishOutcome, Bounds, Denied
  <2> QED
    BY <2>1, <2>2, <2>3, <2>4 DEF OutcomeInv
<1>12. CASE FinishSuspension(s)
  <2>1. Undenied'
    BY <1>0, <1>a, <1>12, GotoMoves, ExitMoves, SuspensionMoves, ReconcileMoves DEF
       Undenied, FinishSuspension, Denied, calls
  <2>2. NoSnapshot'
    BY <1>0, <1>a, <1>12, GotoMoves, ExitMoves, SuspensionMoves, SpawnMoves DEF
       NoSnapshot, FinishSuspension, local
  <2>3. FreshStart'
    BY <1>0, <1>a, <1>12, GotoMoves, ExitMoves, SuspensionMoves, Alone DEF
       FreshStart, Undenied, FinishSuspension, NoLease, Denied
  <2>4. Counted'
    BY <1>0, <1>a, <1>12, GotoMoves, ExitMoves, SuspensionMoves, FaultUsed DEF
       Counted, FreshStart, Undenied, FinishSuspension, Bounds, Denied
  <2> QED
    BY <2>1, <2>2, <2>3, <2>4 DEF OutcomeInv
<1>13. CASE TaskRequeue(s)
  <2>1. Undenied'
    BY <1>0, <1>a, <1>13, ExitMoves, ReconcileMoves DEF Undenied, TaskRequeue,
       Denied, calls
  <2>2. NoSnapshot'
    BY <1>0, <1>a, <1>13, ExitMoves, SpawnMoves DEF NoSnapshot, TaskRequeue, local
  <2>3. FreshStart'
    BY <1>0, <1>a, <1>13, ExitMoves, Alone DEF FreshStart, Undenied, TaskRequeue,
       NoLease, Denied
  <2>4. Counted'
    BY <1>0, <1>a, <1>13, ExitMoves, FaultUsed DEF Counted, FreshStart, Undenied,
       TaskRequeue, Bounds, Denied
  <2> QED
    BY <2>1, <2>2, <2>3, <2>4 DEF OutcomeInv
<1>14. CASE TaskCommit(s)
  <2>1. Undenied'
    BY <1>0, <1>a, <1>14, ExitMoves, AgainMoves, ReconcileMoves DEF Undenied,
       TaskCommit, Denied, calls
  <2>2. NoSnapshot'
    BY <1>0, <1>a, <1>14, ExitMoves, AgainMoves, SpawnMoves DEF NoSnapshot,
       TaskCommit, local
  <2>3. FreshStart'
    BY <1>0, <1>a, <1>14, ExitMoves, AgainMoves, Alone DEF FreshStart, Undenied,
       TaskCommit, NoLease, Denied
  <2>4. Counted'
    BY <1>0, <1>a, <1>14, ExitMoves, AgainMoves, FaultUsed DEF Counted, FreshStart,
       Undenied, TaskCommit, Bounds, Denied
  <2> QED
    BY <2>1, <2>2, <2>3, <2>4 DEF OutcomeInv
<1>15. CASE TaskCancelDrain(s)
  <2>1. Undenied'
    BY <1>0, <1>a, <1>15, GotoMoves, ExitMoves, DrainMoves, ReconcileMoves DEF
       Undenied, TaskCancelDrain, Denied, calls
  <2>2. NoSnapshot'
    BY <1>0, <1>a, <1>15, GotoMoves, ExitMoves, DrainMoves, SpawnMoves DEF
       NoSnapshot, TaskCancelDrain, local
  <2>3. FreshStart'
    BY <1>0, <1>a, <1>15, GotoMoves, ExitMoves, DrainMoves, Alone DEF FreshStart,
       Undenied, TaskCancelDrain, NoLease, Denied
  <2>4. Counted'
    BY <1>0, <1>a, <1>15, GotoMoves, ExitMoves, DrainMoves, FaultUsed DEF Counted,
       FreshStart, Undenied, TaskCancelDrain, Bounds, Denied
  <2> QED
    BY <2>1, <2>2, <2>3, <2>4 DEF OutcomeInv
<1>16. CASE TaskCancelAppend(s)
  <2>1. Undenied'
    BY <1>0, <1>a, <1>16, CancelAppendMoves, ReconcileMoves DEF Undenied,
       TaskCancelAppend, Denied, calls
  <2>2. NoSnapshot'
    BY <1>0, <1>a, <1>16, CancelAppendMoves, SpawnMoves DEF NoSnapshot,
       TaskCancelAppend, local
  <2>3. FreshStart'
    BY <1>0, <1>a, <1>16, CancelAppendMoves, Alone DEF FreshStart, Undenied,
       TaskCancelAppend, NoLease, Denied
  <2>4. Counted'
    BY <1>0, <1>a, <1>16, SettleOnceFields, FaultUsed DEF Counted, TaskCancelAppend,
       CancelOutcome
  <2> QED
    BY <2>1, <2>2, <2>3, <2>4 DEF OutcomeInv
<1>17. CASE TaskCancelCommit(s)
  <2>1. Undenied'
    BY <1>0, <1>a, <1>17, ExitMoves, ReconcileMoves DEF Undenied, TaskCancelCommit,
       Denied, calls
  <2>2. NoSnapshot'
    BY <1>0, <1>a, <1>17, ExitMoves, SpawnMoves DEF NoSnapshot, TaskCancelCommit,
       local
  <2>3. FreshStart'
    BY <1>0, <1>a, <1>17, ExitMoves, Alone DEF FreshStart, Undenied,
       TaskCancelCommit, NoLease, Denied
  <2>4. Counted'
    BY <1>0, <1>a, <1>17, ExitMoves, FaultUsed DEF Counted, FreshStart, Undenied,
       TaskCancelCommit, Bounds, Denied
  <2> QED
    BY <2>1, <2>2, <2>3, <2>4 DEF OutcomeInv
<1>18. CASE TaskSettleDrain(s)
  <2>1. Undenied'
    BY <1>0, <1>a, <1>18, GotoMoves, ExitMoves, DrainMoves, ReconcileMoves DEF
       Undenied, TaskSettleDrain, Denied, calls
  <2>2. NoSnapshot'
    BY <1>0, <1>a, <1>18, GotoMoves, ExitMoves, DrainMoves, SpawnMoves DEF
       NoSnapshot, TaskSettleDrain, local
  <2>3. FreshStart'
    BY <1>0, <1>a, <1>18, GotoMoves, ExitMoves, DrainMoves, Alone DEF FreshStart,
       Undenied, TaskSettleDrain, NoLease, Denied
  <2>4. Counted'
    BY <1>0, <1>a, <1>18, GotoMoves, ExitMoves, DrainMoves, FaultUsed DEF Counted,
       FreshStart, Undenied, TaskSettleDrain, Bounds, Denied
  <2> QED
    BY <2>1, <2>2, <2>3, <2>4 DEF OutcomeInv
<1>19. CASE TaskSettleAppend(s)
  <2>1. Undenied'
    BY <1>0, <1>a, <1>19, NoteMoves, ExitMoves, SettleFields, ReconcileMoves DEF
       Undenied, TaskSettleAppend, Denied, calls
  <2>2. NoSnapshot'
    BY <1>0, <1>a, <1>19, SettleAppendMoves DEF NoSnapshot
  <2>3. FreshStart'
    BY <1>0, <1>a, <1>19, SettleAppendMoves, Alone DEF FreshStart
  <2>4. Counted'
    BY <1>0, <1>a, <1>19, SettleAppendMoves, SettleFields, FaultUsed DEF Counted,
       TaskSettleAppend
  <2> QED
    BY <2>1, <2>2, <2>3, <2>4 DEF OutcomeInv
<1>20. CASE TaskSettleCommit(s)
  <2>1. Undenied'
    BY <1>0, <1>a, <1>20, ExitMoves, ReconcileMoves DEF Undenied, TaskSettleCommit,
       Denied, calls
  <2>2. NoSnapshot'
    BY <1>0, <1>a, <1>20, ExitMoves, SpawnMoves DEF NoSnapshot, TaskSettleCommit,
       local
  <2>3. FreshStart'
    BY <1>0, <1>a, <1>20, ExitMoves, Alone DEF FreshStart, Undenied,
       TaskSettleCommit, NoLease, Denied
  <2>4. Counted'
    BY <1>0, <1>a, <1>20, ExitMoves, FaultUsed DEF Counted, FreshStart, Undenied,
       TaskSettleCommit, Bounds, Denied
  <2> QED
    BY <2>1, <2>2, <2>3, <2>4 DEF OutcomeInv
<1>21. CASE TaskFinished(s)
  <2>1. Undenied'
    BY <1>0, <1>a, <1>21, GotoMoves, ReconcileMoves DEF Undenied, TaskFinished,
       shared, Denied, calls
  <2>2. NoSnapshot'
    BY <1>0, <1>a, <1>21, GotoMoves, SpawnMoves DEF NoSnapshot, TaskFinished,
       shared, local
  <2>3. FreshStart'
    BY <1>0, <1>a, <1>21, GotoMoves, Alone DEF FreshStart, Undenied, TaskFinished,
       shared, NoLease, Denied
  <2>4. Counted'
    BY <1>0, <1>a, <1>21, GotoMoves, FaultUsed DEF Counted, FreshStart, Undenied,
       TaskFinished, shared, Bounds, Denied
  <2> QED
    BY <2>1, <2>2, <2>3, <2>4 DEF OutcomeInv
<1> QED
  BY <1>1, <1>2, <1>3, <1>4, <1>5, <1>6, <1>7, <1>8, <1>9, <1>10, <1>11, <1>12,
     <1>13, <1>14, <1>15, <1>16, <1>17, <1>18, <1>19, <1>20, <1>21 DEF TaskStep

\* So does a cancel call.
LEMMA CancelStepOutcome ==
  ASSUME PlainRun, TypeOK, SingleWriter, OutcomeInv, NEW op \in Operations, CancelStep(op)
  PROVE  OutcomeInv'
<1>0. journal \in RunState /\ cancel[op].on \in Services
      /\ task \in [Services -> EngineTask] /\ spawns \in [Services -> SUBSET SpawnRun]
      /\ denial \in [Services -> {"idle", "mark", "seal", "commit"}] /\ used \in Bounds
  BY DEF TypeOK, CancelCall
<1>a. Undenied /\ NoSnapshot /\ FreshStart /\ Counted
  BY DEF OutcomeInv
<1>1. CASE CancelPublish(op)
  <2>1. Undenied'
    BY <1>0, <1>a, <1>1, ReconcileMoves DEF Undenied, CancelPublish, Denied, calls
  <2>2. NoSnapshot'
    BY <1>0, <1>a, <1>1, SpawnMoves DEF NoSnapshot, CancelPublish, local
  <2>3. FreshStart'
    BY <1>0, <1>a, <1>1, NoneWorks DEF FreshStart, Undenied, CancelPublish, NoLease,
       Denied
  <2>4. Counted'
    BY <1>0, <1>a, <1>1, FaultUsed DEF Counted, FreshStart, Undenied, CancelPublish,
       Bounds, Denied
  <2> QED
    BY <2>1, <2>2, <2>3, <2>4 DEF OutcomeInv
<1>2. CASE CancelSignal(op)
  <2>1. Undenied'
    BY <1>0, <1>a, <1>2, ReconcileMoves DEF Undenied, CancelSignal, Denied, calls
  <2>2. NoSnapshot'
    BY <1>0, <1>a, <1>2, SpawnMoves DEF NoSnapshot, CancelSignal, local
  <2>3. FreshStart'
    BY <1>0, <1>a, <1>2, NoneWorks DEF FreshStart, Undenied, CancelSignal, NoLease,
       Denied
  <2>4. Counted'
    BY <1>0, <1>a, <1>2, FaultUsed DEF Counted, FreshStart, Undenied, CancelSignal,
       Bounds, Denied
  <2> QED
    BY <2>1, <2>2, <2>3, <2>4 DEF OutcomeInv
<1>3. CASE CancelJoined(op)
  <2>1. Undenied'
    BY <1>0, <1>a, <1>3, DrainMoves, ReconcileMoves DEF Undenied, CancelJoined,
       Denied, calls
  <2>2. NoSnapshot'
    BY <1>0, <1>a, <1>3, DrainMoves, SpawnMoves DEF NoSnapshot, CancelJoined, local
  <2>3. FreshStart'
    BY <1>0, <1>a, <1>3, DrainMoves, NoneWorks DEF FreshStart, Undenied,
       CancelJoined, NoLease, Denied
  <2>4. Counted'
    BY <1>0, <1>a, <1>3, DrainMoves, FaultUsed DEF Counted, FreshStart, Undenied,
       CancelJoined, Bounds, Denied
  <2> QED
    BY <2>1, <2>2, <2>3, <2>4 DEF OutcomeInv
<1>4. CASE CancelSettle(op)
  <2>1. Undenied'
    BY <1>0, <1>a, <1>4, DrainMoves, ReconcileMoves DEF Undenied, CancelSettle,
       Denied, calls
  <2>2. NoSnapshot'
    BY <1>0, <1>a, <1>4, DrainMoves, SpawnMoves DEF NoSnapshot, CancelSettle, local
  <2>3. FreshStart'
    BY <1>0, <1>a, <1>4, DrainMoves, NoneWorks DEF FreshStart, Undenied,
       CancelSettle, NoLease, Denied
  <2>4. Counted'
    BY <1>0, <1>a, <1>4, DrainMoves, FaultUsed DEF Counted, FreshStart, Undenied,
       CancelSettle, Bounds, Denied
  <2> QED
    BY <2>1, <2>2, <2>3, <2>4 DEF OutcomeInv
<1>5. CASE CancelAppend(op)
  <2>1. Undenied'
    BY <1>0, <1>a, <1>5, SettleOnceFields, ReconcileMoves DEF Undenied,
       CancelAppend, Denied, calls
  <2>2. NoSnapshot'
    BY <1>0, <1>a, <1>5, SpawnMoves DEF NoSnapshot, CancelAppend, local
  <2>3. FreshStart'
    BY <1>0, <1>a, <1>5, SettleOnceFields, NoneWorks DEF FreshStart, CancelAppend,
       SingleWriter
  <2>4. Counted'
    BY <1>0, <1>a, <1>5, SettleOnceFields, FaultUsed DEF Counted, CancelAppend,
       CancelOutcome
  <2> QED
    BY <2>1, <2>2, <2>3, <2>4 DEF OutcomeInv
<1>6. CASE CancelCommit(op)
  <2>1. Undenied'
    BY <1>0, <1>a, <1>6, ReconcileMoves DEF Undenied, CancelCommit, Denied, calls
  <2>2. NoSnapshot'
    BY <1>0, <1>a, <1>6, SpawnMoves DEF NoSnapshot, CancelCommit, local
  <2>3. FreshStart'
    BY <1>0, <1>a, <1>6, NoneWorks DEF FreshStart, Undenied, CancelCommit, NoLease,
       Denied
  <2>4. Counted'
    BY <1>0, <1>a, <1>6, FaultUsed DEF Counted, FreshStart, Undenied, CancelCommit,
       Bounds, Denied
  <2> QED
    BY <2>1, <2>2, <2>3, <2>4 DEF OutcomeInv
<1> QED
  BY <1>1, <1>2, <1>3, <1>4, <1>5, <1>6 DEF CancelStep

\* Nothing was denied.
LEMMA DenialStepOutcome ==
  ASSUME PlainRun, TypeOK, SingleWriter, OutcomeInv, NEW s \in Services, DenialStep(s)
  PROVE  OutcomeInv'
<1>0. journal \in RunState
      /\ task \in [Services -> EngineTask] /\ spawns \in [Services -> SUBSET SpawnRun]
      /\ denial \in [Services -> {"idle", "mark", "seal", "commit"}] /\ used \in Bounds
  BY DEF TypeOK
<1>a. Undenied /\ NoSnapshot /\ FreshStart /\ Counted
  BY DEF OutcomeInv
<1>1. CASE DenialMark(s)
  <2>1. Undenied'
    BY <1>0, <1>a, <1>1, ReconcileMoves DEF Undenied, DenialMark, shared, Denied,
       calls
  <2>2. NoSnapshot'
    BY <1>0, <1>a, <1>1, SpawnMoves DEF NoSnapshot, DenialMark, shared, local
  <2>3. FreshStart'
    BY <1>0, <1>a, <1>1, NoneWorks DEF FreshStart, Undenied, DenialMark, shared,
       NoLease, Denied
  <2>4. Counted'
    BY <1>0, <1>a, <1>1, FaultUsed DEF Counted, FreshStart, Undenied, DenialMark,
       shared, Bounds, Denied
  <2> QED
    BY <2>1, <2>2, <2>3, <2>4 DEF OutcomeInv
<1>2. CASE DenialSeal(s)
  <2>0. /\ denial' = [denial EXCEPT ![s] = "idle"] /\ UNCHANGED <<journal, task, spawns>>
        /\ used' = used \/ used'.faults # 0
    BY <1>0, <1>a, <1>2, FaultUsed DEF DenialSeal, DenialIsUnambiguous, Denied,
       Undenied, local
  <2> QED
    BY <1>0, <1>a, <2>0 DEF OutcomeInv, Undenied, NoSnapshot, FreshStart, Counted
<1>3. CASE DenialCommit(s)
  <2>1. Undenied'
    BY <1>0, <1>a, <1>3, ReconcileMoves DEF Undenied, DenialCommit, shared, Denied,
       calls
  <2>2. NoSnapshot'
    BY <1>0, <1>a, <1>3, SpawnMoves DEF NoSnapshot, DenialCommit, shared, local
  <2>3. FreshStart'
    BY <1>0, <1>a, <1>3, NoneWorks DEF FreshStart, Undenied, DenialCommit, shared,
       NoLease, Denied
  <2>4. Counted'
    BY <1>0, <1>a, <1>3, FaultUsed DEF Counted, FreshStart, Undenied, DenialCommit,
       shared, Bounds, Denied
  <2> QED
    BY <2>1, <2>2, <2>3, <2>4 DEF OutcomeInv
<1> QED
  BY <1>1, <1>2, <1>3 DEF DenialStep

\* A preemption requeues only a run without outcome.
LEMMA PreemptStepOutcome ==
  ASSUME PlainRun, TypeOK, SingleWriter, OutcomeInv, NEW s \in Services, PreemptStep(s)
  PROVE  OutcomeInv'
<1>0. journal \in RunState
      /\ task \in [Services -> EngineTask] /\ spawns \in [Services -> SUBSET SpawnRun]
      /\ denial \in [Services -> {"idle", "mark", "seal", "commit"}] /\ used \in Bounds
  BY DEF TypeOK
<1>a. Undenied /\ NoSnapshot /\ FreshStart /\ Counted
  BY DEF OutcomeInv
<1>1. CASE PreemptMark(s)
  <2>1. Undenied'
    BY <1>0, <1>a, <1>1, ReconcileMoves DEF Undenied, PreemptMark, shared, Denied,
       calls
  <2>2. NoSnapshot'
    BY <1>0, <1>a, <1>1, SpawnMoves DEF NoSnapshot, PreemptMark, shared, local
  <2>3. FreshStart'
    BY <1>0, <1>a, <1>1, NoneWorks DEF FreshStart, Undenied, PreemptMark, shared,
       NoLease, Denied
  <2>4. Counted'
    BY <1>0, <1>a, <1>1, FaultUsed DEF Counted, FreshStart, Undenied, PreemptMark,
       shared, Bounds, Denied
  <2> QED
    BY <2>1, <2>2, <2>3, <2>4 DEF OutcomeInv
<1>2. CASE PreemptLease(s)
  <2>1. Undenied'
    BY <1>0, <1>a, <1>2, ReconcileMoves DEF Undenied, PreemptLease, Denied, calls
  <2>2. NoSnapshot'
    BY <1>0, <1>a, <1>2, SpawnMoves DEF NoSnapshot, PreemptLease, local
  <2>3. FreshStart'
    BY <1>0, <1>a, <1>2, NoneWorks DEF FreshStart, Undenied, PreemptLease, NoLease,
       Denied
  <2>4. Counted'
    BY <1>0, <1>a, <1>2, FaultUsed DEF Counted, FreshStart, Undenied, PreemptLease,
       Bounds, Denied
  <2> QED
    BY <2>1, <2>2, <2>3, <2>4 DEF OutcomeInv
<1>3. CASE PreemptRequeue(s)
  <2>1. Undenied'
    BY <1>0, <1>a, <1>3, RestartFields, TruncateFields, TruncateType, ReconcileMoves
       DEF Undenied, PreemptRequeue, Denied, calls
  <2>2. NoSnapshot'
    BY <1>0, <1>a, <1>3, SpawnMoves DEF NoSnapshot, PreemptRequeue, local
  <2>3. FreshStart'
    BY <1>0, <1>a, <1>3, RestartFields, TruncateFields, TruncateType, NoneWorks DEF
       FreshStart, Undenied, PreemptRequeue, NoLease, Denied
  <2>4. Counted'
    BY <1>0, <1>a, <1>3, RestartFields, TruncateFields, TruncateType, FaultUsed DEF
       Counted, FreshStart, Undenied, PreemptRequeue, Bounds, Denied
  <2> QED
    BY <2>1, <2>2, <2>3, <2>4 DEF OutcomeInv
<1>4. CASE PreemptCommit(s)
  <2>1. Undenied'
    BY <1>0, <1>a, <1>4, ReconcileMoves DEF Undenied, PreemptCommit, shared, Denied,
       calls
  <2>2. NoSnapshot'
    BY <1>0, <1>a, <1>4, SpawnMoves DEF NoSnapshot, PreemptCommit, shared, local
  <2>3. FreshStart'
    BY <1>0, <1>a, <1>4, NoneWorks DEF FreshStart, Undenied, PreemptCommit, shared,
       NoLease, Denied
  <2>4. Counted'
    BY <1>0, <1>a, <1>4, FaultUsed DEF Counted, FreshStart, Undenied, PreemptCommit,
       shared, Bounds, Denied
  <2> QED
    BY <2>1, <2>2, <2>3, <2>4 DEF OutcomeInv
<1>5. CASE PreemptRelease(s)
  <2>1. Undenied'
    BY <1>0, <1>a, <1>5, ReconcileMoves DEF Undenied, PreemptRelease, Denied, calls
  <2>2. NoSnapshot'
    BY <1>0, <1>a, <1>5, SpawnMoves DEF NoSnapshot, PreemptRelease, local
  <2>3. FreshStart'
    BY <1>0, <1>a, <1>5, NoneWorks DEF FreshStart, Undenied, PreemptRelease,
       NoLease, Denied
  <2>4. Counted'
    BY <1>0, <1>a, <1>5, FaultUsed DEF Counted, FreshStart, Undenied,
       PreemptRelease, Bounds, Denied
  <2> QED
    BY <2>1, <2>2, <2>3, <2>4 DEF OutcomeInv
<1>6. CASE PreemptSettle(s)
  <2>1. Undenied'
    BY <1>0, <1>a, <1>6, DrainMoves, ReconcileMoves DEF Undenied, PreemptSettle,
       SettleSkipped, SettleDenied, SettleDrain, shared, Denied, calls
  <2>2. NoSnapshot'
    BY <1>0, <1>a, <1>6, DrainMoves, SpawnMoves DEF NoSnapshot, PreemptSettle,
       SettleSkipped, SettleDenied, SettleDrain, shared, local
  <2>3. FreshStart'
    BY <1>0, <1>a, <1>6, DrainMoves, NoneWorks DEF FreshStart, Undenied,
       PreemptSettle, SettleSkipped, SettleDenied, SettleDrain, shared, NoLease,
       Denied
  <2>4. Counted'
    BY <1>0, <1>a, <1>6, DrainMoves, FaultUsed DEF Counted, FreshStart, Undenied,
       PreemptSettle, SettleSkipped, SettleDenied, SettleDrain, shared, Bounds,
       Denied
  <2> QED
    BY <2>1, <2>2, <2>3, <2>4 DEF OutcomeInv
<1>7. CASE PreemptAppend(s)
  <2>1. Undenied'
    BY <1>0, <1>a, <1>7, SettleOnceFields, ReconcileMoves DEF Undenied,
       PreemptAppend, SettleInterrupted, Denied, calls
  <2>2. NoSnapshot'
    BY <1>0, <1>a, <1>7, SpawnMoves DEF NoSnapshot, PreemptAppend,
       SettleInterrupted, local
  <2>3. FreshStart'
    BY <1>0, <1>a, <1>7, SettleOnceFields, NoneWorks DEF FreshStart, PreemptAppend,
       SingleWriter
  <2>4. Counted'
    BY <1>0, <1>a, <1>7, SettleOnceFields, FaultUsed DEF Counted, FreshStart,
       Undenied, PreemptAppend, SettleInterrupted, Bounds, Denied
  <2> QED
    BY <2>1, <2>2, <2>3, <2>4 DEF OutcomeInv
<1>8. CASE PreemptSettled(s)
  <2>1. Undenied'
    BY <1>0, <1>a, <1>8, ReconcileMoves DEF Undenied, PreemptSettled, Denied, calls
  <2>2. NoSnapshot'
    BY <1>0, <1>a, <1>8, SpawnMoves DEF NoSnapshot, PreemptSettled, local
  <2>3. FreshStart'
    BY <1>0, <1>a, <1>8, NoneWorks DEF FreshStart, Undenied, PreemptSettled,
       NoLease, Denied
  <2>4. Counted'
    BY <1>0, <1>a, <1>8, FaultUsed DEF Counted, FreshStart, Undenied,
       PreemptSettled, Bounds, Denied
  <2> QED
    BY <2>1, <2>2, <2>3, <2>4 DEF OutcomeInv
<1> QED
  BY <1>1, <1>2, <1>3, <1>4, <1>5, <1>6, <1>7, <1>8 DEF PreemptStep

\* A shutdown interrupts only a run without outcome.
LEMMA ShutdownStepOutcome ==
  ASSUME PlainRun, TypeOK, SingleWriter, OutcomeInv, NEW s \in Services, ShutdownStep(s)
  PROVE  OutcomeInv'
<1>0. journal \in RunState
      /\ task \in [Services -> EngineTask] /\ spawns \in [Services -> SUBSET SpawnRun]
      /\ denial \in [Services -> {"idle", "mark", "seal", "commit"}] /\ used \in Bounds
  BY DEF TypeOK
<1>a. Undenied /\ NoSnapshot /\ FreshStart /\ Counted
  BY DEF OutcomeInv
<1>1. CASE ShutdownPublish(s)
  <2>1. Undenied'
    BY <1>0, <1>a, <1>1, ReconcileMoves DEF Undenied, ShutdownPublish, Denied, calls
  <2>2. NoSnapshot'
    BY <1>0, <1>a, <1>1, SpawnMoves DEF NoSnapshot, ShutdownPublish, local
  <2>3. FreshStart'
    BY <1>0, <1>a, <1>1, NoneWorks DEF FreshStart, Undenied, ShutdownPublish,
       NoLease, Denied
  <2>4. Counted'
    BY <1>0, <1>a, <1>1, FaultUsed DEF Counted, FreshStart, Undenied,
       ShutdownPublish, Bounds, Denied
  <2> QED
    BY <2>1, <2>2, <2>3, <2>4 DEF OutcomeInv
<1>2. CASE ShutdownSignal(s)
  <2>1. Undenied'
    BY <1>0, <1>a, <1>2, ReconcileMoves DEF Undenied, ShutdownSignal, shared,
       Denied, calls
  <2>2. NoSnapshot'
    BY <1>0, <1>a, <1>2, SpawnMoves DEF NoSnapshot, ShutdownSignal, shared, local
  <2>3. FreshStart'
    BY <1>0, <1>a, <1>2, NoneWorks DEF FreshStart, Undenied, ShutdownSignal, shared,
       NoLease, Denied
  <2>4. Counted'
    BY <1>0, <1>a, <1>2, FaultUsed DEF Counted, FreshStart, Undenied,
       ShutdownSignal, shared, Bounds, Denied
  <2> QED
    BY <2>1, <2>2, <2>3, <2>4 DEF OutcomeInv
<1>3. CASE ShutdownTake(s)
  <2>1. Undenied'
    BY <1>0, <1>a, <1>3, ReconcileMoves DEF Undenied, ShutdownTake, shared, Denied,
       calls
  <2>2. NoSnapshot'
    BY <1>0, <1>a, <1>3, SpawnMoves DEF NoSnapshot, ShutdownTake, shared, local
  <2>3. FreshStart'
    BY <1>0, <1>a, <1>3, NoneWorks DEF FreshStart, Undenied, ShutdownTake, shared,
       NoLease, Denied
  <2>4. Counted'
    BY <1>0, <1>a, <1>3, FaultUsed DEF Counted, FreshStart, Undenied, ShutdownTake,
       shared, Bounds, Denied
  <2> QED
    BY <2>1, <2>2, <2>3, <2>4 DEF OutcomeInv
<1>4. CASE ShutdownJoined(s)
  <2>1. Undenied'
    BY <1>0, <1>a, <1>4, DrainMoves, ReconcileMoves DEF Undenied, ShutdownJoined,
       Denied, calls
  <2>2. NoSnapshot'
    BY <1>0, <1>a, <1>4, DrainMoves, SpawnMoves DEF NoSnapshot, ShutdownJoined,
       local
  <2>3. FreshStart'
    BY <1>0, <1>a, <1>4, DrainMoves, NoneWorks DEF FreshStart, Undenied,
       ShutdownJoined, NoLease, Denied
  <2>4. Counted'
    BY <1>0, <1>a, <1>4, DrainMoves, FaultUsed DEF Counted, FreshStart, Undenied,
       ShutdownJoined, Bounds, Denied
  <2> QED
    BY <2>1, <2>2, <2>3, <2>4 DEF OutcomeInv
<1>5. CASE ShutdownSettle(s)
  <2>1. Undenied'
    BY <1>0, <1>a, <1>5, DrainMoves, ReconcileMoves DEF Undenied, ShutdownSettle,
       SettleSkipped, SettleDenied, SettleDrain, shared, Denied, calls
  <2>2. NoSnapshot'
    BY <1>0, <1>a, <1>5, DrainMoves, SpawnMoves DEF NoSnapshot, ShutdownSettle,
       SettleSkipped, SettleDenied, SettleDrain, shared, local
  <2>3. FreshStart'
    BY <1>0, <1>a, <1>5, DrainMoves, NoneWorks DEF FreshStart, Undenied,
       ShutdownSettle, SettleSkipped, SettleDenied, SettleDrain, shared, NoLease,
       Denied
  <2>4. Counted'
    BY <1>0, <1>a, <1>5, DrainMoves, FaultUsed DEF Counted, FreshStart, Undenied,
       ShutdownSettle, SettleSkipped, SettleDenied, SettleDrain, shared, Bounds,
       Denied
  <2> QED
    BY <2>1, <2>2, <2>3, <2>4 DEF OutcomeInv
<1>6. CASE ShutdownAppend(s)
  <2>1. Undenied'
    BY <1>0, <1>a, <1>6, SettleOnceFields, ReconcileMoves DEF Undenied,
       ShutdownAppend, SettleInterrupted, Denied, calls
  <2>2. NoSnapshot'
    BY <1>0, <1>a, <1>6, SpawnMoves DEF NoSnapshot, ShutdownAppend,
       SettleInterrupted, local
  <2>3. FreshStart'
    BY <1>0, <1>a, <1>6, SettleOnceFields, NoneWorks DEF FreshStart, ShutdownAppend,
       SingleWriter
  <2>4. Counted'
    BY <1>0, <1>a, <1>6, SettleOnceFields, FaultUsed DEF Counted, FreshStart,
       Undenied, ShutdownAppend, SettleInterrupted, Bounds, Denied
  <2> QED
    BY <2>1, <2>2, <2>3, <2>4 DEF OutcomeInv
<1>7. CASE ShutdownSettled(s)
  <2>1. Undenied'
    BY <1>0, <1>a, <1>7, ReconcileMoves DEF Undenied, ShutdownSettled, Denied, calls
  <2>2. NoSnapshot'
    BY <1>0, <1>a, <1>7, SpawnMoves DEF NoSnapshot, ShutdownSettled, local
  <2>3. FreshStart'
    BY <1>0, <1>a, <1>7, NoneWorks DEF FreshStart, Undenied, ShutdownSettled,
       NoLease, Denied
  <2>4. Counted'
    BY <1>0, <1>a, <1>7, FaultUsed DEF Counted, FreshStart, Undenied,
       ShutdownSettled, Bounds, Denied
  <2> QED
    BY <2>1, <2>2, <2>3, <2>4 DEF OutcomeInv
<1>8. CASE ShutdownLate(s)
  <2>1. Undenied'
    BY <1>0, <1>a, <1>8, ReconcileMoves DEF Undenied, ShutdownLate, shared, Denied,
       calls
  <2>2. NoSnapshot'
    BY <1>0, <1>a, <1>8, SpawnMoves DEF NoSnapshot, ShutdownLate, shared, local
  <2>3. FreshStart'
    BY <1>0, <1>a, <1>8, NoneWorks DEF FreshStart, Undenied, ShutdownLate, shared,
       NoLease, Denied
  <2>4. Counted'
    BY <1>0, <1>a, <1>8, FaultUsed DEF Counted, FreshStart, Undenied, ShutdownLate,
       shared, Bounds, Denied
  <2> QED
    BY <2>1, <2>2, <2>3, <2>4 DEF OutcomeInv
<1>9. CASE ShutdownOrphans(s)
  <2>1. Undenied'
    BY <1>0, <1>a, <1>9, SettleFields, ReconcileMoves DEF Undenied, ShutdownOrphans,
       Denied, calls
  <2>2. NoSnapshot'
    BY <1>0, <1>a, <1>9, SpawnMoves DEF NoSnapshot, ShutdownOrphans, local
  <2>3. FreshStart'
    BY <1>0, <1>a, <1>9, SettleFields, NoneWorks DEF FreshStart, Undenied,
       ShutdownOrphans, NoLease, Denied
  <2>4. Counted'
    BY <1>0, <1>a, <1>9, SettleFields, FaultUsed DEF Counted, FreshStart, Undenied,
       ShutdownOrphans, Bounds, Denied
  <2> QED
    BY <2>1, <2>2, <2>3, <2>4 DEF OutcomeInv
<1>10. CASE ShutdownEnds(s)
  BY <1>10, ProcessEndsOutcome DEF ShutdownEnds
<1> QED
  BY <1>1, <1>2, <1>3, <1>4, <1>5, <1>6, <1>7, <1>8, <1>9, <1>10 DEF ShutdownStep

\* A refresh touches memory only.
LEMMA RefreshStepOutcome ==
  ASSUME PlainRun, TypeOK, SingleWriter, OutcomeInv, NEW s \in Services, RefreshStep(s)
  PROVE  OutcomeInv'
<1>0. journal \in RunState
      /\ task \in [Services -> EngineTask] /\ spawns \in [Services -> SUBSET SpawnRun]
      /\ denial \in [Services -> {"idle", "mark", "seal", "commit"}] /\ used \in Bounds
  BY DEF TypeOK
<1>a. Undenied /\ NoSnapshot /\ FreshStart /\ Counted
  BY DEF OutcomeInv
<1>1. CASE RefreshScan(s)
  <2>1. Undenied'
    BY <1>0, <1>a, <1>1, ReconcileMoves DEF Undenied, RefreshScan, shared, Denied,
       calls
  <2>2. NoSnapshot'
    BY <1>0, <1>a, <1>1, SpawnMoves DEF NoSnapshot, RefreshScan, shared, local
  <2>3. FreshStart'
    BY <1>0, <1>a, <1>1, NoneWorks DEF FreshStart, Undenied, RefreshScan, shared,
       NoLease, Denied
  <2>4. Counted'
    BY <1>0, <1>a, <1>1, FaultUsed DEF Counted, FreshStart, Undenied, RefreshScan,
       shared, Bounds, Denied
  <2> QED
    BY <2>1, <2>2, <2>3, <2>4 DEF OutcomeInv
<1>2. CASE RefreshInsert(s)
  <2>1. Undenied'
    BY <1>0, <1>a, <1>2, ReconcileMoves DEF Undenied, RefreshInsert, shared, Denied,
       calls
  <2>2. NoSnapshot'
    BY <1>0, <1>a, <1>2, SpawnMoves DEF NoSnapshot, RefreshInsert, shared, local
  <2>3. FreshStart'
    BY <1>0, <1>a, <1>2, NoneWorks DEF FreshStart, Undenied, RefreshInsert, shared,
       NoLease, Denied
  <2>4. Counted'
    BY <1>0, <1>a, <1>2, FaultUsed DEF Counted, FreshStart, Undenied, RefreshInsert,
       shared, Bounds, Denied
  <2> QED
    BY <2>1, <2>2, <2>3, <2>4 DEF OutcomeInv
<1>3. CASE RefreshMerge(s)
  <2>1. Undenied'
    BY <1>0, <1>a, <1>3, ReconcileMoves DEF Undenied, RefreshMerge, shared, Denied,
       calls
  <2>2. NoSnapshot'
    BY <1>0, <1>a, <1>3, SpawnMoves DEF NoSnapshot, RefreshMerge, shared, local
  <2>3. FreshStart'
    BY <1>0, <1>a, <1>3, NoneWorks DEF FreshStart, Undenied, RefreshMerge, shared,
       NoLease, Denied
  <2>4. Counted'
    BY <1>0, <1>a, <1>3, FaultUsed DEF Counted, FreshStart, Undenied, RefreshMerge,
       shared, Bounds, Denied
  <2> QED
    BY <2>1, <2>2, <2>3, <2>4 DEF OutcomeInv
<1> QED
  BY <1>1, <1>2, <1>3 DEF RefreshStep

\* Answers need an unsettled run.
LEMMA UserStepOutcome ==
  ASSUME PlainRun, TypeOK, SingleWriter, OutcomeInv, NEW s \in Services, UserStep(s)
  PROVE  OutcomeInv'
<1>0. journal \in RunState
      /\ task \in [Services -> EngineTask] /\ spawns \in [Services -> SUBSET SpawnRun]
      /\ denial \in [Services -> {"idle", "mark", "seal", "commit"}] /\ used \in Bounds
  BY DEF TypeOK
<1>a. Undenied /\ NoSnapshot /\ FreshStart /\ Counted
  BY DEF OutcomeInv
<1>1. CASE Answer(s)
  <2>1. Undenied'
    BY <1>0, <1>a, <1>1, RespondFields, ReconcileMoves DEF Undenied, Answer, Denied,
       calls
  <2>2. NoSnapshot'
    BY <1>0, <1>a, <1>1, SpawnMoves DEF NoSnapshot, Answer, Resume
  <2>3. FreshStart'
    BY <1>0, <1>a, <1>1, RespondFields, NoneWorks DEF FreshStart, Undenied, Answer,
       NoLease, Denied
  <2>4. Counted'
    BY <1>0, <1>a, <1>1, RespondFields DEF Counted, Answer, MayRespond
  <2> QED
    BY <2>1, <2>2, <2>3, <2>4 DEF OutcomeInv
<1>2. CASE Approve(s)
  BY <1>2 DEF PlainRun, Approve, PendingConfirmation
<1>3. CASE DenyConfirmation(s)
  BY <1>a, <1>3 DEF PlainRun, DenyConfirmation, PendingConfirmation, Undenied, Denied
<1>4. CASE Adopt(s)
  BY <1>0, <1>4 DEF PlainRun, Adopt, Bounds
<1>5. CASE PreemptBegin(s)
  <2>1. Undenied'
    BY <1>0, <1>a, <1>5, ReconcileMoves DEF Undenied, PreemptBegin, shared, Denied,
       calls
  <2>2. NoSnapshot'
    BY <1>0, <1>a, <1>5, SpawnMoves DEF NoSnapshot, PreemptBegin, shared, local
  <2>3. FreshStart'
    BY <1>0, <1>a, <1>5, NoneWorks DEF FreshStart, Undenied, PreemptBegin, shared,
       NoLease, Denied
  <2>4. Counted'
    BY <1>0, <1>a, <1>5, FaultUsed DEF Counted, FreshStart, Undenied, PreemptBegin,
       shared, Bounds, Denied
  <2> QED
    BY <2>1, <2>2, <2>3, <2>4 DEF OutcomeInv
<1>6. CASE ShutdownBegin(s)
  <2>1. Undenied'
    BY <1>0, <1>a, <1>6, ReconcileMoves DEF Undenied, ShutdownBegin, shared, Denied,
       calls
  <2>2. NoSnapshot'
    BY <1>0, <1>a, <1>6, SpawnMoves DEF NoSnapshot, ShutdownBegin, shared, local
  <2>3. FreshStart'
    BY <1>0, <1>a, <1>6, NoneWorks DEF FreshStart, Undenied, ShutdownBegin, shared,
       NoLease, Denied
  <2>4. Counted'
    BY <1>0, <1>a, <1>6, FaultUsed DEF Counted, FreshStart, Undenied, ShutdownBegin,
       shared, Bounds, Denied
  <2> QED
    BY <2>1, <2>2, <2>3, <2>4 DEF OutcomeInv
<1>7. CASE Crash(s)
  BY <1>7, ProcessEndsOutcome DEF Crash, Bounds
<1>8. CASE EvictTerminal(s)
  <2>1. Undenied'
    BY <1>0, <1>a, <1>8, ReconcileMoves DEF Undenied, EvictTerminal, shared, Denied,
       calls
  <2>2. NoSnapshot'
    BY <1>0, <1>a, <1>8, SpawnMoves DEF NoSnapshot, EvictTerminal, shared, local
  <2>3. FreshStart'
    BY <1>0, <1>a, <1>8, NoneWorks DEF FreshStart, Undenied, EvictTerminal, shared,
       NoLease, Denied
  <2>4. Counted'
    BY <1>0, <1>a, <1>8, FaultUsed DEF Counted, FreshStart, Undenied, EvictTerminal,
       shared, Bounds, Denied
  <2> QED
    BY <2>1, <2>2, <2>3, <2>4 DEF OutcomeInv
<1> QED
  BY <1>1, <1>2, <1>3, <1>4, <1>5, <1>6, <1>7, <1>8 DEF UserStep

\* No step of any party breaks it.
LEMMA NextOutcome ==
  ASSUME PlainRun, TypeOK, SingleWriter, OutcomeInv, [Next]_vars
  PROVE  OutcomeInv'
<1>1. CASE UNCHANGED vars
  BY <1>1 DEF OutcomeInv, Undenied, NoSnapshot, FreshStart, Counted, vars, shared, local, calls
<1>2. CASE Next
  <2>1. ASSUME NEW s \in Services,
               \/ SpawnStep(s) \/ TaskStep(s) \/ JoinTimeout(s) \/ DenialStep(s)
               \/ PreemptStep(s) \/ ShutdownStep(s) \/ RefreshStep(s) \/ UserStep(s)
               \/ Boot(s) \/ ResumeStuck(s)
        PROVE  OutcomeInv'
    <3>1. ResumeStuck(s) => OutcomeInv'
      BY SpawnMoves DEF ResumeStuck, OutcomeInv, Undenied, NoSnapshot, FreshStart, Counted,
         shared, calls
    <3>2. Boot(s) => OutcomeInv'
      BY DEF Boot, OutcomeInv, Undenied, NoSnapshot, FreshStart, Counted,
         shared, calls, TypeOK, SpawnOf
    <3> QED
      BY <2>1, <3>1, <3>2, SpawnStepOutcome, TaskStepOutcome, JoinTimeoutOutcome, DenialStepOutcome,
         PreemptStepOutcome, ShutdownStepOutcome, RefreshStepOutcome, UserStepOutcome
  <2>2. ASSUME NEW op \in Operations,
               CancelStep(op) \/ (\E s \in Services : CancelBegin(op, s))
        PROVE  OutcomeInv'
    <3>1. (\E s \in Services : CancelBegin(op, s)) => OutcomeInv'
      BY DEF CancelBegin, OutcomeInv, Undenied, NoSnapshot, FreshStart, Counted, local, Denied,
         TypeOK, Bounds
    <3> QED
      BY <2>2, <3>1, CancelStepOutcome
  <2> QED
    BY <1>2, <2>1, <2>2 DEF Next
<1> QED
  BY <1>1, <1>2

\* It holds at the start.
LEMMA InitOutcome ==
  ASSUME Init
  PROVE  OutcomeInv
<1>1. \A s \in Services : \A r \in spawns[s] : ~r.snapshot
  <2>1. PICK owner \in Services :
           spawns = [s \in Services |-> IF s = owner THEN {SpawnOf(Untracked)} ELSE {}]
    BY DEF Init
  <2> QED
    BY <2>1 DEF SpawnOf
<1> QED
  BY <1>1 DEF Init, OutcomeInv, Undenied, NoSnapshot, FreshStart, Counted, NoTask, Admitted

\* The inductive invariant of the outcome.
LEMMA OutcomeInvariant == ASSUME PlainRun PROVE Spec => []OutcomeInv
<1>1. Init => OutcomeInv
  BY InitOutcome
<1>2. TypeOK /\ SingleWriter /\ OutcomeInv /\ [Next]_vars => OutcomeInv'
  BY NextOutcome
<1> QED
  BY <1>1, <1>2, TypeCorrect, LeaseExcludes, PTL DEF Spec

\* As long as the journal can be read, a run without confirmations that was
\* admitted once gets at most one terminal event, whichever of the engine,
\* finish_run, a cancel, a preemption and a shutdown comes last, over every
\* number of processes, crashes and preemptions of both kinds.
THEOREM OneOutcomeCorrect == ASSUME PlainRun PROVE Spec => []AtMostOneOutcome
<1>1. OutcomeInv => AtMostOneOutcome
  BY DEF OutcomeInv, Counted, AtMostOneOutcome
<1> QED
  BY <1>1, OutcomeInvariant, PTL

\* The engine of such a run never starts on a settled journal, however old
\* the memory record is that the queue loop trusts.
THEOREM SettledStaysCorrect == ASSUME PlainRun PROVE Spec => NeverResumesSettled
<1>1. OutcomeInv => \A s \in Services :
          task[s].at = "start" /\ task'[s].at = "engine" => journal.terminal = "none"
  BY DEF OutcomeInv, FreshStart
<1> QED
  BY <1>1, OutcomeInvariant, PTL DEF NeverResumesSettled
-----------------------------------------------------------------------------
(* What is settled stays settled.  An interrupt preemption cuts a trailing   *)
(* run_canceled, and a failing read lets finish_canceled_run write over an   *)
(* interruption; the theorems are about step-boundary preemption and a       *)
(* journal that can be read.                                                 *)

SteadyRun == PlainRun /\ Mode = "step_boundary" /\ MaxFaults = 0

\* One step keeps the outcome.
Keeps == journal.terminal # "none" => journal'.terminal = journal.terminal

\* Nothing fails where MaxFaults is zero.
LEMMA NoFault ==
  ASSUME SteadyRun, TypeOK
  PROVE  ~Fault
  BY DEF SteadyRun, TypeOK, Bounds, Fault

\* Spawning leaves the journal alone.
LEMMA SpawnStepKeeps ==
  ASSUME SteadyRun, TypeOK, SingleWriter, OutcomeInv, NEW s \in Services, SpawnStep(s)
  PROVE  Keeps
<1>0. journal \in RunState
  BY DEF TypeOK
<1>a. ~journal.denied /\ FreshStart
  BY DEF OutcomeInv, Undenied
<1>1. CASE SpawnStarts(s)
  BY <1>0, <1>a, <1>1 DEF Keeps, SpawnStarts
<1>2. CASE SpawnAborts(s)
  BY <1>0, <1>a, <1>2 DEF Keeps, SpawnAborts, shared
<1>3. CASE SpawnGivesUp(s)
  BY <1>0, <1>a, <1>3 DEF Keeps, SpawnGivesUp, shared
<1> QED
  BY <1>1, <1>2, <1>3 DEF SpawnStep

\* The engine task writes an outcome only where there is none.
LEMMA TaskStepKeeps ==
  ASSUME SteadyRun, TypeOK, SingleWriter, OutcomeInv, NEW s \in Services, TaskStep(s)
  PROVE  Keeps
<1>0. journal \in RunState
  BY DEF TypeOK
<1>a. ~journal.denied /\ FreshStart
  BY DEF OutcomeInv, Undenied
<1>1. CASE TaskReconcile(s)
  BY <1>0, <1>a, <1>1, SettleOnceFields, NoFault DEF Keeps, TaskReconcile,
     DenialIsUnambiguous, Denied
<1>2. CASE TaskFail(s)
  BY <1>0, <1>a, <1>2 DEF Keeps, TaskFail
<1>3. CASE TaskDrain(s)
  BY <1>0, <1>a, <1>3, DrainMoves DEF Keeps, TaskDrain
<1>4. CASE TaskQueued(s)
  BY <1>0, <1>a, <1>4 DEF Keeps, TaskQueued
<1>5. CASE TaskAdmitted(s)
  BY <1>0, <1>a, <1>5 DEF Keeps, TaskAdmitted
<1>6. CASE TaskStart(s)
  BY <1>0, <1>a, <1>6, SettleFields, NoFault DEF Keeps, TaskStart, FreshStart
<1>7. CASE TaskEngine(s)
  BY <1>0, <1>a, <1>7, EngineMoves DEF Keeps, TaskEngine, FreshStart
<1>8. CASE TaskReturned(s)
  BY <1>0, <1>a, <1>8 DEF Keeps, TaskReturned
<1>9. CASE FinishUntracked(s)
  BY <1>0, <1>a, <1>9 DEF Keeps, FinishUntracked
<1>10. CASE FinishCanceled(s)
  BY <1>0, <1>a, <1>10 DEF Keeps, FinishCanceled, shared
<1>11. CASE FinishOutcome(s)
  BY <1>0, <1>a, <1>11, SettleOnceFields DEF Keeps, FinishOutcome
<1>12. CASE FinishSuspension(s)
  BY <1>0, <1>a, <1>12, SuspensionMoves DEF Keeps
<1>13. CASE TaskRequeue(s)
  BY <1>0, <1>a, <1>13 DEF Keeps, TaskRequeue
<1>14. CASE TaskCommit(s)
  BY <1>0, <1>a, <1>14 DEF Keeps, TaskCommit
<1>15. CASE TaskCancelDrain(s)
  BY <1>0, <1>a, <1>15, DrainMoves DEF Keeps, TaskCancelDrain
<1>16. CASE TaskCancelAppend(s)
  BY <1>0, <1>a, <1>16, SettleOnceFields, NoFault DEF Keeps, TaskCancelAppend
<1>17. CASE TaskCancelCommit(s)
  BY <1>0, <1>a, <1>17 DEF Keeps, TaskCancelCommit
<1>18. CASE TaskSettleDrain(s)
  BY <1>0, <1>a, <1>18, DrainMoves DEF Keeps, TaskSettleDrain
<1>19. CASE TaskSettleAppend(s)
  BY <1>0, <1>a, <1>19, SettleAppendMoves DEF Keeps
<1>20. CASE TaskSettleCommit(s)
  BY <1>0, <1>a, <1>20 DEF Keeps, TaskSettleCommit
<1>21. CASE TaskFinished(s)
  BY <1>0, <1>a, <1>21 DEF Keeps, TaskFinished, shared
<1> QED
  BY <1>1, <1>2, <1>3, <1>4, <1>5, <1>6, <1>7, <1>8, <1>9, <1>10, <1>11, <1>12,
     <1>13, <1>14, <1>15, <1>16, <1>17, <1>18, <1>19, <1>20, <1>21 DEF TaskStep

\* So does a cancel call.
LEMMA CancelStepKeeps ==
  ASSUME SteadyRun, TypeOK, SingleWriter, OutcomeInv, NEW op \in Operations, CancelStep(op)
  PROVE  Keeps
<1>0. journal \in RunState /\ cancel[op].on \in Services
  BY DEF TypeOK, CancelCall
<1>a. ~journal.denied /\ FreshStart
  BY DEF OutcomeInv, Undenied
<1>1. CASE CancelPublish(op)
  BY <1>0, <1>a, <1>1 DEF Keeps, CancelPublish
<1>2. CASE CancelSignal(op)
  BY <1>0, <1>a, <1>2 DEF Keeps, CancelSignal
<1>3. CASE CancelJoined(op)
  BY <1>0, <1>a, <1>3, DrainMoves DEF Keeps, CancelJoined
<1>4. CASE CancelSettle(op)
  BY <1>0, <1>a, <1>4, DrainMoves DEF Keeps, CancelSettle
<1>5. CASE CancelAppend(op)
  BY <1>0, <1>a, <1>5, SettleOnceFields DEF Keeps, CancelAppend
<1>6. CASE CancelCommit(op)
  BY <1>0, <1>a, <1>6 DEF Keeps, CancelCommit
<1> QED
  BY <1>1, <1>2, <1>3, <1>4, <1>5, <1>6 DEF CancelStep

\* Nothing was denied.
LEMMA DenialStepKeeps ==
  ASSUME SteadyRun, TypeOK, SingleWriter, OutcomeInv, NEW s \in Services, DenialStep(s)
  PROVE  Keeps
<1>0. journal \in RunState
  BY DEF TypeOK
<1>a. ~journal.denied /\ FreshStart
  BY DEF OutcomeInv, Undenied
<1>1. CASE DenialMark(s)
  BY <1>0, <1>a, <1>1 DEF Keeps, DenialMark, shared
<1>2. CASE DenialSeal(s)
  BY <1>0, <1>a, <1>2 DEF Keeps, DenialSeal, DenialIsUnambiguous, Denied
<1>3. CASE DenialCommit(s)
  BY <1>0, <1>a, <1>3 DEF Keeps, DenialCommit, shared
<1> QED
  BY <1>1, <1>2, <1>3 DEF DenialStep

\* A preemption requeues only a run without outcome.
LEMMA PreemptStepKeeps ==
  ASSUME SteadyRun, TypeOK, SingleWriter, OutcomeInv, NEW s \in Services, PreemptStep(s)
  PROVE  Keeps
<1>0. journal \in RunState
  BY DEF TypeOK
<1>a. ~journal.denied /\ FreshStart
  BY DEF OutcomeInv, Undenied
<1>1. CASE PreemptMark(s)
  BY <1>0, <1>a, <1>1 DEF Keeps, PreemptMark, shared
<1>2. CASE PreemptLease(s)
  BY <1>0, <1>a, <1>2 DEF Keeps, PreemptLease
<1>3. CASE PreemptRequeue(s)
  BY <1>0, <1>a, <1>3, RestartFields, NoFault DEF Keeps, PreemptRequeue, SteadyRun
<1>4. CASE PreemptCommit(s)
  BY <1>0, <1>a, <1>4 DEF Keeps, PreemptCommit, shared
<1>5. CASE PreemptRelease(s)
  BY <1>0, <1>a, <1>5 DEF Keeps, PreemptRelease
<1>6. CASE PreemptSettle(s)
  BY <1>0, <1>a, <1>6, DrainMoves DEF Keeps, PreemptSettle, SettleSkipped,
     SettleDenied, SettleDrain, shared
<1>7. CASE PreemptAppend(s)
  BY <1>0, <1>a, <1>7, SettleOnceFields DEF Keeps, PreemptAppend, SettleInterrupted
<1>8. CASE PreemptSettled(s)
  BY <1>0, <1>a, <1>8 DEF Keeps, PreemptSettled
<1> QED
  BY <1>1, <1>2, <1>3, <1>4, <1>5, <1>6, <1>7, <1>8 DEF PreemptStep

\* A shutdown interrupts only a run without outcome.
LEMMA ShutdownStepKeeps ==
  ASSUME SteadyRun, TypeOK, SingleWriter, OutcomeInv, NEW s \in Services, ShutdownStep(s)
  PROVE  Keeps
<1>0. journal \in RunState
  BY DEF TypeOK
<1>a. ~journal.denied /\ FreshStart
  BY DEF OutcomeInv, Undenied
<1>1. CASE ShutdownPublish(s)
  BY <1>0, <1>a, <1>1 DEF Keeps, ShutdownPublish
<1>2. CASE ShutdownSignal(s)
  BY <1>0, <1>a, <1>2 DEF Keeps, ShutdownSignal, shared
<1>3. CASE ShutdownTake(s)
  BY <1>0, <1>a, <1>3 DEF Keeps, ShutdownTake, shared
<1>4. CASE ShutdownJoined(s)
  BY <1>0, <1>a, <1>4, DrainMoves DEF Keeps, ShutdownJoined
<1>5. CASE ShutdownSettle(s)
  BY <1>0, <1>a, <1>5, DrainMoves DEF Keeps, ShutdownSettle, SettleSkipped,
     SettleDenied, SettleDrain, shared
<1>6. CASE ShutdownAppend(s)
  BY <1>0, <1>a, <1>6, SettleOnceFields DEF Keeps, ShutdownAppend, SettleInterrupted
<1>7. CASE ShutdownSettled(s)
  BY <1>0, <1>a, <1>7 DEF Keeps, ShutdownSettled
<1>8. CASE ShutdownLate(s)
  BY <1>0, <1>a, <1>8 DEF Keeps, ShutdownLate, shared
<1>9. CASE ShutdownOrphans(s)
  BY <1>0, <1>a, <1>9, SettleFields DEF Keeps, ShutdownOrphans
<1>10. CASE ShutdownEnds(s)
  BY <1>0, <1>a, <1>10, LostFields DEF Keeps, ShutdownEnds, ProcessEnds
<1> QED
  BY <1>1, <1>2, <1>3, <1>4, <1>5, <1>6, <1>7, <1>8, <1>9, <1>10 DEF ShutdownStep

\* A refresh touches memory only.
LEMMA RefreshStepKeeps ==
  ASSUME SteadyRun, TypeOK, SingleWriter, OutcomeInv, NEW s \in Services, RefreshStep(s)
  PROVE  Keeps
<1>0. journal \in RunState
  BY DEF TypeOK
<1>a. ~journal.denied /\ FreshStart
  BY DEF OutcomeInv, Undenied
<1>1. CASE RefreshScan(s)
  BY <1>0, <1>a, <1>1 DEF Keeps, RefreshScan, shared
<1>2. CASE RefreshInsert(s)
  BY <1>0, <1>a, <1>2 DEF Keeps, RefreshInsert, shared
<1>3. CASE RefreshMerge(s)
  BY <1>0, <1>a, <1>3 DEF Keeps, RefreshMerge, shared
<1> QED
  BY <1>1, <1>2, <1>3 DEF RefreshStep

\* Answers need an unsettled run.
LEMMA UserStepKeeps ==
  ASSUME SteadyRun, TypeOK, SingleWriter, OutcomeInv, NEW s \in Services, UserStep(s)
  PROVE  Keeps
<1>0. journal \in RunState
  BY DEF TypeOK
<1>a. ~journal.denied /\ FreshStart
  BY DEF OutcomeInv, Undenied
<1>1. CASE Answer(s)
  BY <1>0, <1>a, <1>1 DEF Keeps, Answer, MayRespond
<1>2. CASE Approve(s)
  BY <1>0, <1>a, <1>2 DEF Keeps, Approve, MayRespond
<1>3. CASE DenyConfirmation(s)
  BY <1>0, <1>a, <1>3 DEF Keeps, DenyConfirmation, MayRespond
<1>4. CASE Adopt(s)
  BY <1>0, <1>a, <1>4 DEF Keeps, Adopt, shared
<1>5. CASE PreemptBegin(s)
  BY <1>0, <1>a, <1>5 DEF Keeps, PreemptBegin, shared
<1>6. CASE ShutdownBegin(s)
  BY <1>0, <1>a, <1>6 DEF Keeps, ShutdownBegin, shared
<1>7. CASE Crash(s)
  BY <1>0, <1>a, <1>7, LostFields DEF Keeps, Crash, ProcessEnds
<1>8. CASE EvictTerminal(s)
  BY <1>0, <1>a, <1>8 DEF Keeps, EvictTerminal, shared
<1> QED
  BY <1>1, <1>2, <1>3, <1>4, <1>5, <1>6, <1>7, <1>8 DEF UserStep

\* No step of any party replaces an outcome.
LEMMA NextKeeps ==
  ASSUME SteadyRun, TypeOK, SingleWriter, OutcomeInv, [Next]_vars
  PROVE  Keeps
<1>1. CASE UNCHANGED vars
  BY <1>1 DEF Keeps, vars, shared
<1>2. CASE Next
  <2>1. ASSUME NEW s \in Services,
               \/ SpawnStep(s) \/ TaskStep(s) \/ JoinTimeout(s) \/ DenialStep(s)
               \/ PreemptStep(s) \/ ShutdownStep(s) \/ RefreshStep(s) \/ UserStep(s)
               \/ Boot(s) \/ ResumeStuck(s)
        PROVE  Keeps
    <3>1. Boot(s) \/ ResumeStuck(s) => Keeps
      BY DEF Boot, ResumeStuck, Keeps, shared
    <3>2. JoinTimeout(s) => Keeps
      BY LostFields DEF JoinTimeout, AbortTask, Keeps, TypeOK
    <3> QED
      BY <2>1, <3>1, <3>2, SpawnStepKeeps, TaskStepKeeps, DenialStepKeeps,
         PreemptStepKeeps, ShutdownStepKeeps, RefreshStepKeeps, UserStepKeeps
  <2>2. ASSUME NEW op \in Operations,
               CancelStep(op) \/ (\E s \in Services : CancelBegin(op, s))
        PROVE  Keeps
    <3>1. (\E s \in Services : CancelBegin(op, s)) => Keeps
      BY DEF CancelBegin, Keeps
    <3> QED
      BY <2>2, <3>1, CancelStepKeeps
  <2> QED
    BY <1>2, <2>1, <2>2 DEF Next
<1> QED
  BY <1>1, <1>2

\* A durable outcome is final: whoever comes later, over every number of
\* processes and crashes, keeps it.
THEOREM OutcomeFinalCorrect == ASSUME SteadyRun PROVE Spec => OutcomeNeverErased
<1>0. PlainRun
  BY DEF SteadyRun
<1>1. TypeOK /\ SingleWriter /\ OutcomeInv /\ [Next]_vars
         => (journal.terminal # "none" => journal'.terminal = journal.terminal)
  BY NextKeeps DEF Keeps
<1> QED
  BY <1>0, <1>1, OutcomeInvariant, TypeCorrect, LeaseExcludes, PTL DEF Spec, OutcomeNeverErased

-----------------------------------------------------------------------------
(* Memory never runs ahead of the journal.                                   *)

\* The outcome in the journal st justifies that memory shows state.
Backed(st, state) == /\ st.terminal # "none"
                     /\ state = "succeeded" => st.terminal = "succeeded"

Shown == \A s \in Services : mem[s].tracked /\ mem[s].state \in Settled => Backed(journal, mem[s].state)

\* What a task is about to show: a failure, the engine's success, the outcome it chose.
Chosen(s) ==
    /\ task[s].at = "fail" => journal.terminal # "none"
    /\ task[s].at \in {"returned", "finish", "commit"} /\ task[s].progress = "done"
          => journal.terminal = "succeeded"
    /\ task[s].at \in {"commit", "cancel_commit", "settle_commit"} => Backed(journal, task[s].outcome)
TaskChosen == \A s \in Services : Chosen(s)

\* What a cancel, a preemption and a shutdown are about to show.
CancelChosen == \A op \in Operations :
    cancel[op].at = "commit" => journal.terminal # "none" /\ cancel[op].outcome # "succeeded"
PreemptSealed == \A s \in Services : preempt[s].at = "settled" => journal.terminal # "none"
ShutdownSealed == \A s \in Services : shutdown[s].at = "settled" => journal.terminal # "none"

\* What a refresh has read.
Observed == \A s \in Services : /\ refresh[s].found \notin Settled
                                /\ refresh[s].terminal \in {"none", journal.terminal}

ShownInv == /\ Shown /\ TaskChosen /\ CancelChosen
            /\ PreemptSealed /\ ShutdownSealed /\ Observed

\* What is justified stays so.
LEMMA BackedStays ==
  ASSUME Keeps, NEW state, Backed(journal, state)
  PROVE  Backed(journal', state)
  BY DEF Keeps, Backed

\* Who does not move keeps its part.
LEMMA KeptParts ==
  ASSUME ShownInv, Keeps
  PROVE  /\ mem' = mem => Shown'
         /\ task' = task => TaskChosen'
         /\ cancel' = cancel => CancelChosen'
         /\ preempt' = preempt => PreemptSealed'
         /\ shutdown' = shutdown => ShutdownSealed'
         /\ refresh' = refresh => Observed'
<1>1. mem' = mem => Shown'
  BY BackedStays DEF ShownInv, Shown
<1>2. task' = task => TaskChosen'
  BY BackedStays DEF ShownInv, TaskChosen, Chosen, Keeps
<1> QED
  BY <1>1, <1>2 DEF ShownInv, CancelChosen, PreemptSealed, ShutdownSealed, Observed, Keeps

\* Only one record changes.
LEMMA ShownAt ==
  ASSUME Shown, Keeps, NEW s \in Services,
         \A t \in Services \ {s} : mem'[t] = mem[t],
         mem'[s].tracked /\ mem'[s].state \in Settled => Backed(journal', mem'[s].state)
  PROVE  Shown'
<1>1. \A t \in Services \ {s} :
         mem'[t].tracked /\ mem'[t].state \in Settled => Backed(journal', mem'[t].state)
  BY BackedStays DEF Shown
<1> QED
  BY <1>1 DEF Shown

\* It shows what it showed, or nothing settled.
LEMMA ShownMarks ==
  ASSUME TypeOK, Shown, Keeps, NEW s \in Services,
         \A t \in Services \ {s} : mem'[t] = mem[t],
         \/ ~mem'[s].tracked \/ mem'[s].state \notin Settled
         \/ mem'[s].tracked = mem[s].tracked /\ mem'[s].state = mem[s].state
  PROVE  Shown'
<1>1. mem'[s].tracked /\ mem'[s].state \in Settled => Backed(journal', mem'[s].state)
  BY BackedStays DEF Shown
<1> QED
  BY <1>1, ShownAt

\* The record is requeued.
LEMMA RequeuedShown ==
  ASSUME TypeOK, Shown, Keeps, NEW s \in Services, mem' = [mem EXCEPT ![s] = Requeued(@)]
  PROVE  Shown'
<1>1. mem'[s].state = "queued" /\ \A t \in Services \ {s} : mem'[t] = mem[t]
  BY DEF TypeOK, RunRecord, Requeued
<1> QED
  BY <1>1, ShownMarks DEF Settled, Terminals, Final

\* The record gets a state that the journal justifies.
LEMMA StateShown ==
  ASSUME TypeOK, Shown, Keeps, NEW s \in Services, NEW state,
         \/ mem' = [mem EXCEPT ![s].state = state, ![s].preempted = FALSE]
         \/ mem' = [mem EXCEPT ![s].state = state],
         state \in Settled => Backed(journal', state)
  PROVE  Shown'
<1>1. mem'[s].state = state /\ \A t \in Services \ {s} : mem'[t] = mem[t]
  BY DEF TypeOK, RunRecord
<1> QED
  BY <1>1, ShownAt

\* Only one task moves.
LEMMA ChosenAt ==
  ASSUME TaskChosen, Keeps, NEW s \in Services,
         \A t \in Services \ {s} : task'[t] = task[t], Chosen(s)'
  PROVE  TaskChosen'
<1>1. ASSUME NEW t \in Services \ {s} PROVE Chosen(t)'
  <2>1. task'[t] = task[t] /\ Chosen(t)
    BY DEF TaskChosen
  <2> QED
    BY <2>1, BackedStays DEF Chosen, Keeps
<1> QED
  BY <1>1 DEF TaskChosen

\* To a point where it chooses nothing.
LEMMA ChosenMoves ==
  ASSUME TaskChosen, Keeps, NEW s \in Services,
         \A t \in Services \ {s} : task'[t] = task[t],
         task'[s].at \notin {"fail", "returned", "finish", "commit", "cancel_commit", "settle_commit"}
  PROVE  TaskChosen'
<1>1. Chosen(s)'
  BY DEF Chosen
<1> QED
  BY <1>1, ChosenAt

\* The look for a denial or unresolved effects fails a run only with its event.
LEMMA ReconcileShown ==
  ASSUME SteadyRun, TypeOK, Undenied, TaskChosen, Keeps, NEW s \in Services, TaskReconcile(s)
  PROVE  TaskChosen'
<1>0. journal \in RunState /\ ~Denied(journal) /\ ~Fault
  BY NoFault DEF TypeOK, Undenied, Denied
<1>1. CASE journal' = SettleOnce(journal, "failed") /\ Goto(s, "fail")
  <2>1. journal'.terminal # "none"
    BY <1>0, <1>1, SettleOnceFields
  <2>2. task'[s].at = "fail" /\ \A t \in Services \ {s} : task'[t] = task[t]
    BY <1>1, GotoMoves
  <2>3. Chosen(s)'
    BY <2>1, <2>2 DEF Chosen
  <2> QED
    BY <2>2, <2>3, ChosenAt
<1>2. CASE Goto(s, "drain")
  BY <1>2, GotoMoves, ChosenMoves
<1> QED
  BY <1>0, <1>1, <1>2 DEF TaskReconcile

\* A failed start is journaled, a prompt is no outcome.
LEMMA StartShown ==
  ASSUME SteadyRun, TypeOK, FreshStart, TaskChosen, Keeps, NEW s \in Services, TaskStart(s)
  PROVE  TaskChosen'
<1>0. journal \in RunState /\ ~Fault /\ journal.terminal = "none"
  BY NoFault DEF TypeOK, FreshStart, TaskStart
<1>1. CASE journal' = Settle(journal, "failed") /\ Goto(s, "fail")
  <2>1. journal'.terminal # "none"
    BY <1>0, <1>1, SettleFields
  <2>2. task'[s].at = "fail" /\ \A t \in Services \ {s} : task'[t] = task[t]
    BY <1>1, GotoMoves
  <2>3. Chosen(s)'
    BY <2>1, <2>2 DEF Chosen
  <2> QED
    BY <2>2, <2>3, ChosenAt
<1>2. CASE Goto(s, "engine")
  BY <1>2, GotoMoves, ChosenMoves
<1>3. CASE Return(s, "suspended")
  <2>1. /\ task'[s].at = "returned" /\ task'[s].progress = "suspended"
        /\ \A t \in Services \ {s} : task'[t] = task[t]
    BY <1>3, ReturnMoves
  <2>2. Chosen(s)'
    BY <2>1 DEF Chosen
  <2> QED
    BY <2>1, <2>2, ChosenAt
<1> QED
  BY <1>0, <1>1, <1>2, <1>3 DEF TaskStart, AcceptsEvent, Final

\* The task takes what the engine returned to finish_run.
LEMMA ReturnedShown ==
  ASSUME TypeOK, TaskChosen, Keeps, NEW s \in Services, TaskReturned(s)
  PROVE  TaskChosen'
<1>1. CASE Exit(s)
  BY <1>1, ExitMoves, ChosenMoves
<1>2. CASE Goto(s, "finish")
  <2>1. /\ task[s].at = "returned" /\ task'[s].at = "finish" /\ task'[s].progress = task[s].progress
        /\ \A t \in Services \ {s} : task'[t] = task[t]
    BY <1>2, GotoMoves DEF TaskReturned
  <2>2. Chosen(s)'
    BY <2>1 DEF Chosen, TaskChosen, Keeps
  <2> QED
    BY <2>1, <2>2, ChosenAt
<1> QED
  BY <1>1, <1>2 DEF TaskReturned

\* finish_run chooses what the journal then holds.
LEMMA FinishShown ==
  ASSUME SteadyRun, TypeOK, TaskChosen, Keeps, NEW s \in Services, FinishOutcome(s)
  PROVE  TaskChosen'
<1>0. journal \in RunState /\ ~Fault /\ task[s].at = "finish"
  BY NoFault DEF TypeOK, FinishOutcome, Finishing
<1>1. /\ journal' = IF task[s].progress = "done" THEN journal ELSE SettleOnce(journal, "failed")
      /\ task' = [task EXCEPT ![s].at = "commit", ![s].outcome = FinishedAs(s)]
  BY <1>0 DEF FinishOutcome
<1>2. /\ task'[s].at = "commit" /\ task'[s].outcome = FinishedAs(s)
      /\ task'[s].progress = task[s].progress /\ \A t \in Services \ {s} : task'[t] = task[t]
  <2>1. task' = [task EXCEPT ![s].at = "commit", ![s].outcome = FinishedAs(s)]
    BY <1>1
  <2> QED
    BY <2>1 DEF TypeOK, EngineTask
<1>3. task[s].progress = "done" => journal'.terminal = "succeeded"
  BY <1>0, <1>1 DEF TaskChosen, Chosen
<1>4. task[s].progress # "done" => Backed(journal', FinishedAs(s))
  BY <1>0, <1>1, SettleOnceFields DEF Backed, FinishedAs
<1>5. Chosen(s)'
  BY <1>2, <1>3, <1>4 DEF Chosen, Backed
<1> QED
  BY <1>2, <1>5, ChosenAt

\* The loop shows its choice, or goes round with it.
LEMMA CommitShown ==
  ASSUME TypeOK, Shown, TaskChosen, Keeps, NEW s \in Services, TaskCommit(s)
  PROVE  Shown' /\ TaskChosen'
<1>1. task[s].at = "commit" /\ Backed(journal', task[s].outcome)
  BY BackedStays DEF TaskCommit, TaskChosen, Chosen
<1>2. Shown'
  <2>1. CASE mem' = mem
    BY <2>1, BackedStays DEF Shown
  <2>2. CASE mem' = [mem EXCEPT ![s].state = task[s].outcome]
    <3>1. mem'[s].state = task[s].outcome /\ \A t \in Services \ {s} : mem'[t] = mem[t]
      BY <2>2 DEF TypeOK, RunRecord
    <3> QED
      BY <1>1, <3>1, ShownAt
  <2> QED
    BY <2>1, <2>2 DEF TaskCommit
<1>3. TaskChosen'
  <2>1. CASE Exit(s)
    BY <2>1, ExitMoves, ChosenMoves
  <2>2. CASE task' = [task EXCEPT ![s].at = "finish", ![s].round = 2]
    <3>1. /\ task'[s].at = "finish" /\ task'[s].progress = task[s].progress
          /\ \A t \in Services \ {s} : task'[t] = task[t]
      BY <2>2, AgainMoves
    <3>2. Chosen(s)'
      BY <1>1, <3>1 DEF Chosen, TaskChosen, Keeps
    <3> QED
      BY <3>1, <3>2, ChosenAt
  <2> QED
    BY <2>1, <2>2 DEF TaskCommit
<1> QED
  BY <1>2, <1>3

\* finish_canceled_run chooses what the journal then holds.
LEMMA CancelAppendShown ==
  ASSUME SteadyRun, TypeOK, TaskChosen, Keeps, NEW s \in Services, TaskCancelAppend(s)
  PROVE  TaskChosen'
<1> DEFINE outcome == IF journal.terminal = "none" THEN CancelOutcome(s) ELSE journal.terminal
<1>0. journal \in RunState /\ ~Fault
  BY NoFault DEF TypeOK
<1>1. /\ journal' = SettleOnce(journal, outcome)
      /\ task' = [task EXCEPT ![s].at = "cancel_commit", ![s].outcome = outcome]
  BY <1>0 DEF TaskCancelAppend
<1>2. Backed(journal', outcome)
  BY <1>0, <1>1, SettleOnceFields DEF Backed, CancelOutcome
<1> HIDE DEF outcome
<1>3. /\ task'[s].at = "cancel_commit" /\ task'[s].outcome = outcome
      /\ \A t \in Services \ {s} : task'[t] = task[t]
  <2>1. task' = [task EXCEPT ![s].at = "cancel_commit", ![s].outcome = outcome]
    BY <1>1
  <2> QED
    BY <2>1 DEF TypeOK, EngineTask
<1>4. Chosen(s)'
  BY <1>2, <1>3 DEF Chosen
<1> QED
  BY <1>3, <1>4, ChosenAt

\* So does settle_queued_cancel.
LEMMA SettleAppendShown ==
  ASSUME SteadyRun, TypeOK, TaskChosen, Keeps, NEW s \in Services, TaskSettleAppend(s)
  PROVE  TaskChosen'
<1>0. journal \in RunState /\ ~Fault
  BY NoFault DEF TypeOK
<1>1. CASE Exit(s)
  BY <1>1, ExitMoves, ChosenMoves
<1>2. CASE /\ journal' = Settle(journal, CancelOutcome(s))
           /\ task' = [task EXCEPT ![s].at = "settle_commit", ![s].outcome = CancelOutcome(s)]
  <2>1. Backed(journal', CancelOutcome(s))
    BY <1>0, <1>2, SettleFields DEF Backed, CancelOutcome
  <2>2. /\ task'[s].at = "settle_commit" /\ task'[s].outcome = CancelOutcome(s)
        /\ \A t \in Services \ {s} : task'[t] = task[t]
    <3>1. task' = [task EXCEPT ![s].at = "settle_commit", ![s].outcome = CancelOutcome(s)]
      BY <1>2
    <3> QED
      BY <3>1 DEF TypeOK, EngineTask
  <2>3. Chosen(s)'
    BY <2>1, <2>2 DEF Chosen
  <2> QED
    BY <2>2, <2>3, ChosenAt
<1> QED
  BY <1>0, <1>1, <1>2 DEF TaskSettleAppend

\* What a boot or a scan makes of the journal is never an outcome.
LEMMA RehydratedUnsettled == Rehydrated \notin Settled
  BY DEF Rehydrated, Settled, Terminals, Final, Pending, PendingQuestion, PendingConfirmation

\* A merge shows an outcome that the journal still holds.
LEMMA MergeShown ==
  ASSUME TypeOK, Shown, Observed, Keeps, NEW s \in Services, RefreshMerge(s)
  PROVE  Shown'
<1>1. CASE mem' = mem
  BY <1>1, BackedStays DEF Shown
<1>2. CASE mem[s].tracked /\ mem' # mem
  <2>1. \A t \in Services \ {s} : mem'[t] = mem[t]
    BY <1>2 DEF RefreshMerge, TypeOK
  <2>2. mem'[s].state \in {refresh[s].terminal, "cancel_requested", "waiting", "confirming",
                           "queued", mem[s].state}
        /\ (mem'[s].state \in Settled => mem'[s].state \in {refresh[s].terminal, mem[s].state})
        /\ (mem'[s].state = refresh[s].terminal /\ mem'[s].state # mem[s].state => refresh[s].terminal # "none")
    BY <1>2 DEF RefreshMerge, TypeOK, RunRecord, RefreshCall, Settled, Terminals, Final
  <2>3. mem'[s].tracked /\ mem'[s].state \in Settled => Backed(journal', mem'[s].state)
    BY <1>2, <2>2, BackedStays DEF Shown, Observed, Backed, Keeps
  <2> QED
    BY <2>1, <2>3, ShownAt
<1> QED
  BY <1>1, <1>2 DEF RefreshMerge

\* The end of a process forgets what it was about to show.
LEMMA ProcessEndsShown ==
  ASSUME TypeOK, ShownInv, Keeps, NEW s \in Services, ProcessEnds(s)
  PROVE  ShownInv'
<1>1. Shown'
  BY ShownMarks DEF ShownInv, ProcessEnds, TypeOK, Untracked
<1>2. TaskChosen'
  BY EndMoves, ChosenMoves DEF ShownInv, ProcessEnds
<1>3. CancelChosen'
  BY DEF ShownInv, CancelChosen, ProcessEnds, TypeOK, CancelCall, Keeps
<1>4. PreemptSealed' /\ ShutdownSealed'
  BY DEF ShownInv, PreemptSealed, ShutdownSealed, ProcessEnds, TypeOK, Keeps
<1>5. Observed'
  BY DEF ShownInv, Observed, ProcessEnds, TypeOK, Keeps, NoRefresh, Settled, Terminals, Final
<1> QED
  BY <1>1, <1>2, <1>3, <1>4, <1>5 DEF ShownInv

\* So does an abort.
LEMMA JoinTimeoutShown ==
  ASSUME TypeOK, ShownInv, Keeps, NEW s \in Services, JoinTimeout(s)
  PROVE  ShownInv'
<1>1. TaskChosen'
  BY EndMoves, ChosenMoves DEF ShownInv, JoinTimeout, AbortTask
<1>2. CancelChosen'
  BY DEF ShownInv, CancelChosen, JoinTimeout, TypeOK, CancelCall, Keeps
<1>3. PreemptSealed' /\ ShutdownSealed'
  BY DEF ShownInv, PreemptSealed, ShutdownSealed, JoinTimeout, TypeOK, Keeps, Woken,
         PreemptCall, ShutdownCall
<1> QED
  BY <1>1, <1>2, <1>3, KeptParts DEF ShownInv, JoinTimeout, local

\* The permit is held: the record follows the journal, or runs.
LEMMA AdmittedShown ==
  ASSUME TypeOK, Shown, Keeps, NEW s \in Services, TaskAdmitted(s)
  PROVE  Shown'
<1>1. CASE mem' = mem
  BY <1>1, BackedStays DEF Shown
<1>2. CASE /\ journal.terminal # "none"
           /\ mem' = [mem EXCEPT ![s].state = journal.terminal, ![s].preempted = FALSE]
  BY <1>2, StateShown DEF Keeps, Backed
<1>3. CASE mem' = [mem EXCEPT ![s].state = "running"]
  <2>1. "running" \notin Settled
    BY DEF Settled, Terminals, Final
  <2> QED
    BY <1>3, <2>1, StateShown
<1> QED
  BY <1>1, <1>2, <1>3 DEF TaskAdmitted, SettledOnDisk

\* settle_queued_cancel copies an outcome.
LEMMA CopiedShown ==
  ASSUME SteadyRun, TypeOK, Shown, Keeps, NEW s \in Services, TaskSettleAppend(s)
  PROVE  Shown'
<1>1. CASE mem' = mem
  BY <1>1, BackedStays DEF Shown
<1>2. CASE /\ journal.terminal # "none"
           /\ mem' = [mem EXCEPT ![s].state = journal.terminal, ![s].preempted = FALSE]
  BY <1>2, StateShown DEF Keeps, Backed
<1> QED
  BY <1>1, <1>2, NoFault DEF TaskSettleAppend

\* mark_spawn_failed follows the event.
LEMMA FailShown ==
  ASSUME TypeOK, Shown, TaskChosen, Keeps, NEW s \in Services, TaskFail(s)
  PROVE  Shown'
<1>1. CASE mem' = mem
  BY <1>1, BackedStays DEF Shown
<1>2. CASE mem' = [mem EXCEPT ![s].state = "failed", ![s].preempted = FALSE]
  <2>1. Backed(journal', "failed")
    BY DEF TaskFail, TaskChosen, Chosen, Keeps, Backed
  <2> QED
    BY <1>2, <2>1, StateShown
<1> QED
  BY <1>1, <1>2 DEF TaskFail

\* A cancel request is no outcome.
LEMMA SignalShown ==
  ASSUME TypeOK, Shown, Keeps, NEW op \in Operations, cancel[op].on \in Services, CancelSignal(op)
  PROVE  Shown'
<1>1. CASE mem' = mem
  BY <1>1, BackedStays DEF Shown
<1>2. CASE mem' = [mem EXCEPT ![cancel[op].on].state = "cancel_requested",
                              ![cancel[op].on].preempted = FALSE]
  <2>1. "cancel_requested" \notin Settled
    BY DEF Settled, Terminals, Final
  <2> QED
    BY <1>2, <2>1, StateShown
<1> QED
  BY <1>1, <1>2 DEF CancelSignal

\* A spawned task shows nothing.
LEMMA SpawnStepShown ==
  ASSUME SteadyRun, TypeOK, SingleWriter, OutcomeInv, ShownInv, NEW s \in Services, SpawnStep(s)
  PROVE  ShownInv'
<1>0. journal \in RunState /\ Keeps
  BY SpawnStepKeeps DEF TypeOK
<1>a. /\ Undenied /\ FreshStart
      /\ Shown /\ TaskChosen /\ CancelChosen
      /\ PreemptSealed /\ ShutdownSealed /\ Observed
  BY DEF OutcomeInv, ShownInv
<1>b. /\ mem \in [Services -> RunRecord] /\ used \in Bounds
      /\ cancel \in [Operations -> CancelCall] /\ preempt \in [Services -> PreemptCall]
      /\ shutdown \in [Services -> ShutdownCall] /\ refresh \in [Services -> RefreshCall]
  BY DEF TypeOK
<1>1. CASE SpawnStarts(s)
  <2>1. TaskChosen'
    BY <1>0, <1>a, <1>b, <1>1, StartMoves, ChosenMoves
  <2> QED
    BY <1>0, <1>1, <2>1, KeptParts DEF ShownInv, SpawnStarts, local, calls, shared
<1>2. CASE SpawnAborts(s)
  <2> QED
    BY <1>0, <1>2, KeptParts DEF ShownInv, SpawnAborts, local, calls, shared
<1>3. CASE SpawnGivesUp(s)
  <2> QED
    BY <1>0, <1>3, KeptParts DEF ShownInv, SpawnGivesUp, local, calls, shared
<1> QED
  BY <1>1, <1>2, <1>3 DEF SpawnStep

\* The engine task writes the journal before the memory record.
LEMMA TaskStepShown ==
  ASSUME SteadyRun, TypeOK, SingleWriter, OutcomeInv, ShownInv, NEW s \in Services, TaskStep(s)
  PROVE  ShownInv'
<1>0. journal \in RunState /\ Keeps
  BY TaskStepKeeps DEF TypeOK
<1>a. /\ Undenied /\ FreshStart
      /\ Shown /\ TaskChosen /\ CancelChosen
      /\ PreemptSealed /\ ShutdownSealed /\ Observed
  BY DEF OutcomeInv, ShownInv
<1>b. /\ mem \in [Services -> RunRecord] /\ used \in Bounds
      /\ cancel \in [Operations -> CancelCall] /\ preempt \in [Services -> PreemptCall]
      /\ shutdown \in [Services -> ShutdownCall] /\ refresh \in [Services -> RefreshCall]
  BY DEF TypeOK
<1>1. CASE TaskReconcile(s)
  <2>1. TaskChosen'
    BY <1>0, <1>a, <1>b, <1>1, ReconcileShown
  <2> QED
    BY <1>0, <1>1, <2>1, KeptParts DEF ShownInv, TaskReconcile, local, calls, shared
<1>2. CASE TaskFail(s)
  <2>1. Shown'
    BY <1>0, <1>a, <1>b, <1>2, FailShown
  <2>2. TaskChosen'
    BY <1>0, <1>a, <1>b, <1>2, ExitMoves, ChosenMoves DEF TaskFail
  <2> QED
    BY <1>0, <1>2, <2>1, <2>2, KeptParts DEF ShownInv, TaskFail, local, calls,
       shared
<1>3. CASE TaskDrain(s)
  <2>1. TaskChosen'
    BY <1>0, <1>a, <1>b, <1>3, GotoMoves, ExitMoves, ChosenMoves DEF TaskDrain
  <2> QED
    BY <1>0, <1>3, <2>1, KeptParts DEF ShownInv, TaskDrain, local, calls, shared
<1>4. CASE TaskQueued(s)
  <2>1. TaskChosen'
    BY <1>0, <1>a, <1>b, <1>4, GotoMoves, ExitMoves, ChosenMoves DEF TaskQueued
  <2> QED
    BY <1>0, <1>4, <2>1, KeptParts DEF ShownInv, TaskQueued, local, calls, shared
<1>5. CASE TaskAdmitted(s)
  <2>1. Shown'
    BY <1>0, <1>a, <1>b, <1>5, AdmittedShown
  <2>2. TaskChosen'
    BY <1>0, <1>a, <1>b, <1>5, GotoMoves, ExitMoves, ChosenMoves DEF TaskAdmitted
  <2> QED
    BY <1>0, <1>5, <2>1, <2>2, KeptParts DEF ShownInv, TaskAdmitted, local, calls,
       shared
<1>6. CASE TaskStart(s)
  <2>1. TaskChosen'
    BY <1>0, <1>a, <1>b, <1>6, StartShown
  <2> QED
    BY <1>0, <1>6, <2>1, KeptParts DEF ShownInv, TaskStart, local, calls, shared
<1>7. CASE TaskEngine(s)
  <2>1. TaskChosen'
    BY <1>0, <1>a, <1>b, <1>7, EngineMoves, ChosenAt DEF Chosen
  <2> QED
    BY <1>0, <1>7, <2>1, KeptParts DEF ShownInv, TaskEngine, local, calls, shared
<1>8. CASE TaskReturned(s)
  <2>1. Shown'
    BY <1>0, <1>a, <1>b, <1>8, ShownMarks DEF TaskReturned, Settled, Terminals,
       Final, RunRecord
  <2>2. TaskChosen'
    BY <1>0, <1>a, <1>b, <1>8, ReturnedShown
  <2> QED
    BY <1>0, <1>8, <2>1, <2>2, KeptParts DEF ShownInv, TaskReturned, local, calls,
       shared
<1>9. CASE FinishUntracked(s)
  <2>1. TaskChosen'
    BY <1>0, <1>a, <1>b, <1>9, ExitMoves, ChosenMoves DEF FinishUntracked
  <2> QED
    BY <1>0, <1>9, <2>1, KeptParts DEF ShownInv, FinishUntracked, local, calls,
       shared
<1>10. CASE FinishCanceled(s)
  <2>1. TaskChosen'
    BY <1>0, <1>a, <1>b, <1>10, GotoMoves, ChosenMoves DEF FinishCanceled
  <2> QED
    BY <1>0, <1>10, <2>1, KeptParts DEF ShownInv, FinishCanceled, local, calls,
       shared
<1>11. CASE FinishOutcome(s)
  <2>1. TaskChosen'
    BY <1>0, <1>a, <1>b, <1>11, FinishShown
  <2> QED
    BY <1>0, <1>11, <2>1, KeptParts DEF ShownInv, FinishOutcome, local, calls,
       shared
<1>12. CASE FinishSuspension(s)
  <2>1. Shown'
    BY <1>0, <1>a, <1>b, <1>12, ShownMarks DEF FinishSuspension, Settled, Terminals,
       Final, RunRecord
  <2>2. TaskChosen'
    BY <1>0, <1>a, <1>b, <1>12, SuspensionMoves, GotoMoves, ExitMoves, ChosenMoves
  <2> QED
    BY <1>0, <1>12, <2>1, <2>2, KeptParts DEF ShownInv, FinishSuspension, local,
       calls, shared
<1>13. CASE TaskRequeue(s)
  <2>1. Shown'
    BY <1>0, <1>a, <1>b, <1>13, RequeuedShown, KeptParts DEF TaskRequeue
  <2>2. TaskChosen'
    BY <1>0, <1>a, <1>b, <1>13, ExitMoves, ChosenMoves DEF TaskRequeue
  <2> QED
    BY <1>0, <1>13, <2>1, <2>2, KeptParts DEF ShownInv, TaskRequeue, local, calls,
       shared
<1>14. CASE TaskCommit(s)
  <2>1. Shown'
    BY <1>0, <1>a, <1>b, <1>14, CommitShown
  <2>2. TaskChosen'
    BY <1>0, <1>a, <1>b, <1>14, CommitShown
  <2> QED
    BY <1>0, <1>14, <2>1, <2>2, KeptParts DEF ShownInv, TaskCommit, local, calls,
       shared
<1>15. CASE TaskCancelDrain(s)
  <2>1. TaskChosen'
    BY <1>0, <1>a, <1>b, <1>15, GotoMoves, ExitMoves, ChosenMoves DEF
       TaskCancelDrain
  <2> QED
    BY <1>0, <1>15, <2>1, KeptParts DEF ShownInv, TaskCancelDrain, local, calls,
       shared
<1>16. CASE TaskCancelAppend(s)
  <2>1. TaskChosen'
    BY <1>0, <1>a, <1>b, <1>16, CancelAppendShown
  <2> QED
    BY <1>0, <1>16, <2>1, KeptParts DEF ShownInv, TaskCancelAppend, local, calls,
       shared
<1>17. CASE TaskCancelCommit(s)
  <2>1. Shown'
    BY <1>0, <1>a, <1>b, <1>17, BackedStays, ShownAt DEF TaskCancelCommit,
       TaskChosen, Chosen, RunRecord, Shown
  <2>2. TaskChosen'
    BY <1>0, <1>a, <1>b, <1>17, ExitMoves, ChosenMoves DEF TaskCancelCommit
  <2> QED
    BY <1>0, <1>17, <2>1, <2>2, KeptParts DEF ShownInv, TaskCancelCommit, local,
       calls, shared
<1>18. CASE TaskSettleDrain(s)
  <2>1. TaskChosen'
    BY <1>0, <1>a, <1>b, <1>18, GotoMoves, ExitMoves, ChosenMoves DEF
       TaskSettleDrain
  <2> QED
    BY <1>0, <1>18, <2>1, KeptParts DEF ShownInv, TaskSettleDrain, local, calls,
       shared
<1>19. CASE TaskSettleAppend(s)
  <2>1. Shown'
    BY <1>0, <1>a, <1>b, <1>19, CopiedShown
  <2>2. TaskChosen'
    BY <1>0, <1>a, <1>b, <1>19, SettleAppendShown
  <2> QED
    BY <1>0, <1>19, <2>1, <2>2, KeptParts DEF ShownInv, TaskSettleAppend, local,
       calls, shared
<1>20. CASE TaskSettleCommit(s)
  <2>1. Shown'
    BY <1>0, <1>a, <1>b, <1>20, ShownAt, BackedStays DEF TaskSettleCommit,
       TaskChosen, Chosen, RunRecord, Shown
  <2>2. TaskChosen'
    BY <1>0, <1>a, <1>b, <1>20, ExitMoves, ChosenMoves DEF TaskSettleCommit
  <2> QED
    BY <1>0, <1>20, <2>1, <2>2, KeptParts DEF ShownInv, TaskSettleCommit, local,
       calls, shared
<1>21. CASE TaskFinished(s)
  <2>1. TaskChosen'
    BY <1>0, <1>a, <1>b, <1>21, GotoMoves, ChosenMoves DEF TaskFinished
  <2>2. CancelChosen'
    BY <1>0, <1>a, <1>b, <1>21 DEF CancelChosen, TaskFinished, WakeJoiners, Woken,
       CancelCall, shared
  <2>3. PreemptSealed'
    BY <1>0, <1>a, <1>b, <1>21 DEF PreemptSealed, TaskFinished, WakeJoiners, Woken,
       PreemptCall, shared
  <2>4. ShutdownSealed'
    BY <1>0, <1>a, <1>b, <1>21 DEF ShutdownSealed, TaskFinished, WakeJoiners, Woken,
       ShutdownCall, shared
  <2> QED
    BY <1>0, <1>21, <2>1, <2>2, <2>3, <2>4, KeptParts DEF ShownInv, TaskFinished,
       local, calls, shared
<1> QED
  BY <1>1, <1>2, <1>3, <1>4, <1>5, <1>6, <1>7, <1>8, <1>9, <1>10, <1>11, <1>12,
     <1>13, <1>14, <1>15, <1>16, <1>17, <1>18, <1>19, <1>20, <1>21 DEF TaskStep

\* So does a cancel call.
LEMMA CancelStepShown ==
  ASSUME SteadyRun, TypeOK, SingleWriter, OutcomeInv, ShownInv, NEW op \in Operations, CancelStep(op)
  PROVE  ShownInv'
<1>0. journal \in RunState /\ Keeps /\ cancel[op].on \in Services
  BY CancelStepKeeps DEF TypeOK, CancelCall
<1>a. /\ Undenied /\ FreshStart
      /\ Shown /\ TaskChosen /\ CancelChosen
      /\ PreemptSealed /\ ShutdownSealed /\ Observed
  BY DEF OutcomeInv, ShownInv
<1>b. /\ mem \in [Services -> RunRecord] /\ used \in Bounds
      /\ cancel \in [Operations -> CancelCall] /\ preempt \in [Services -> PreemptCall]
      /\ shutdown \in [Services -> ShutdownCall] /\ refresh \in [Services -> RefreshCall]
  BY DEF TypeOK
<1>1. CASE CancelPublish(op)
  <2>1. CancelChosen'
    BY <1>0, <1>a, <1>b, <1>1 DEF CancelChosen, CancelCall, CancelGoto,
       CancelPublish
  <2> QED
    BY <1>0, <1>1, <2>1, KeptParts DEF ShownInv, CancelPublish, local, calls, shared
<1>2. CASE CancelSignal(op)
  <2>1. Shown'
    BY <1>0, <1>a, <1>b, <1>2, SignalShown
  <2>2. CancelChosen'
    BY <1>0, <1>a, <1>b, <1>2 DEF CancelChosen, CancelCall, CancelGoto, CancelSignal
  <2> QED
    BY <1>0, <1>2, <2>1, <2>2, KeptParts DEF ShownInv, CancelSignal, local, calls,
       shared
<1>3. CASE CancelJoined(op)
  <2>1. CancelChosen'
    BY <1>0, <1>a, <1>b, <1>3 DEF CancelChosen, CancelCall, CancelGoto,
       CancelJoined, Keeps
  <2> QED
    BY <1>0, <1>3, <2>1, KeptParts DEF ShownInv, CancelJoined, local, calls, shared
<1>4. CASE CancelSettle(op)
  <2>1. CancelChosen'
    BY <1>0, <1>a, <1>b, <1>4 DEF CancelChosen, CancelCall, CancelGoto,
       CancelSettle, Keeps
  <2> QED
    BY <1>0, <1>4, <2>1, KeptParts DEF ShownInv, CancelSettle, local, calls, shared
<1>5. CASE CancelAppend(op)
  <2>1. CancelChosen'
    BY <1>0, <1>a, <1>b, <1>5, SettleOnceFields, NoFault DEF CancelChosen,
       CancelCall, CancelAppend, CancelOutcome, Keeps
  <2> QED
    BY <1>0, <1>5, <2>1, KeptParts DEF ShownInv, CancelAppend, local, calls, shared
<1>6. CASE CancelCommit(op)
  <2>1. Shown'
    BY <1>0, <1>a, <1>b, <1>6, ShownAt DEF CancelCommit, CancelChosen, Backed,
       RunRecord, Shown
  <2>2. CancelChosen'
    BY <1>0, <1>a, <1>b, <1>6 DEF CancelChosen, CancelCall, CancelGoto, CancelCommit
  <2> QED
    BY <1>0, <1>6, <2>1, <2>2, KeptParts DEF ShownInv, CancelCommit, local, calls,
       shared
<1> QED
  BY <1>1, <1>2, <1>3, <1>4, <1>5, <1>6 DEF CancelStep

\* Nothing was denied.
LEMMA DenialStepShown ==
  ASSUME SteadyRun, TypeOK, SingleWriter, OutcomeInv, ShownInv, NEW s \in Services, DenialStep(s)
  PROVE  ShownInv'
<1>0. journal \in RunState /\ Keeps
  BY DenialStepKeeps DEF TypeOK
<1>a. /\ Undenied /\ FreshStart
      /\ Shown /\ TaskChosen /\ CancelChosen
      /\ PreemptSealed /\ ShutdownSealed /\ Observed
  BY DEF OutcomeInv, ShownInv
<1>b. /\ mem \in [Services -> RunRecord] /\ used \in Bounds
      /\ cancel \in [Operations -> CancelCall] /\ preempt \in [Services -> PreemptCall]
      /\ shutdown \in [Services -> ShutdownCall] /\ refresh \in [Services -> RefreshCall]
  BY DEF TypeOK
<1>1. CASE DenialMark(s)
  <2>1. Shown'
    BY <1>0, <1>a, <1>b, <1>1, ShownMarks DEF DenialMark, Settled, Terminals, Final,
       RunRecord
  <2> QED
    BY <1>0, <1>1, <2>1, KeptParts DEF ShownInv, DenialMark, local, calls, shared
<1>2. CASE DenialSeal(s)
  <2> QED
    BY <1>0, <1>2, KeptParts DEF ShownInv, DenialSeal, local, calls, shared
<1>3. CASE DenialCommit(s)
  BY <1>a, <1>3 DEF DenialCommit, Undenied
<1> QED
  BY <1>1, <1>2, <1>3 DEF DenialStep

\* A preemption that meets a shutdown too.
LEMMA PreemptStepShown ==
  ASSUME SteadyRun, TypeOK, SingleWriter, OutcomeInv, ShownInv, NEW s \in Services, PreemptStep(s)
  PROVE  ShownInv'
<1>0. journal \in RunState /\ Keeps
  BY PreemptStepKeeps DEF TypeOK
<1>a. /\ Undenied /\ FreshStart
      /\ Shown /\ TaskChosen /\ CancelChosen
      /\ PreemptSealed /\ ShutdownSealed /\ Observed
  BY DEF OutcomeInv, ShownInv
<1>b. /\ mem \in [Services -> RunRecord] /\ used \in Bounds
      /\ cancel \in [Operations -> CancelCall] /\ preempt \in [Services -> PreemptCall]
      /\ shutdown \in [Services -> ShutdownCall] /\ refresh \in [Services -> RefreshCall]
  BY DEF TypeOK
<1>1. CASE PreemptMark(s)
  <2>1. Shown'
    BY <1>0, <1>a, <1>b, <1>1, ShownMarks DEF PreemptMark, Settled, Terminals,
       Final, RunRecord
  <2>2. PreemptSealed'
    BY <1>0, <1>a, <1>b, <1>1 DEF PreemptSealed, PreemptCall, PreemptGoto,
       PreemptMark, shared
  <2> QED
    BY <1>0, <1>1, <2>1, <2>2, KeptParts DEF ShownInv, PreemptMark, local, calls,
       shared
<1>2. CASE PreemptLease(s)
  <2>1. PreemptSealed'
    BY <1>0, <1>a, <1>b, <1>2 DEF PreemptSealed, PreemptCall, PreemptGoto,
       PreemptLease
  <2> QED
    BY <1>0, <1>2, <2>1, KeptParts DEF ShownInv, PreemptLease, local, calls, shared
<1>3. CASE PreemptRequeue(s)
  <2>1. Shown'
    BY <1>0, <1>a, <1>b, <1>3, ShownMarks, NoFault DEF PreemptRequeue, Settled,
       Terminals, Final, RunRecord
  <2>2. PreemptSealed'
    BY <1>0, <1>a, <1>b, <1>3, NoFault DEF PreemptSealed, PreemptCall, PreemptGoto,
       PreemptRequeue, Keeps
  <2> QED
    BY <1>0, <1>3, <2>1, <2>2, KeptParts DEF ShownInv, PreemptRequeue, local, calls,
       shared
<1>4. CASE PreemptCommit(s)
  <2>1. Shown'
    BY <1>0, <1>a, <1>b, <1>4, RequeuedShown, KeptParts DEF PreemptCommit
  <2>2. PreemptSealed'
    BY <1>0, <1>a, <1>b, <1>4 DEF PreemptSealed, PreemptCall, PreemptGoto,
       PreemptCommit, shared
  <2> QED
    BY <1>0, <1>4, <2>1, <2>2, KeptParts DEF ShownInv, PreemptCommit, local, calls,
       shared
<1>5. CASE PreemptRelease(s)
  <2>1. PreemptSealed'
    BY <1>0, <1>a, <1>b, <1>5 DEF PreemptSealed, PreemptCall, PreemptGoto,
       PreemptRelease
  <2> QED
    BY <1>0, <1>5, <2>1, KeptParts DEF ShownInv, PreemptRelease, local, calls,
       shared
<1>6. CASE PreemptSettle(s)
  <2>1. PreemptSealed'
    BY <1>0, <1>a, <1>b, <1>6 DEF PreemptSealed, PreemptCall, PreemptGoto,
       PreemptSettle, Keeps
  <2> QED
    BY <1>0, <1>6, <2>1, KeptParts DEF ShownInv, PreemptSettle, local, calls, shared
<1>7. CASE PreemptAppend(s)
  <2>1. PreemptSealed'
    BY <1>0, <1>a, <1>b, <1>7, SettleOnceFields, NoFault DEF PreemptSealed,
       PreemptCall, PreemptGoto, PreemptAppend, SettleInterrupted, Keeps
  <2> QED
    BY <1>0, <1>7, <2>1, KeptParts DEF ShownInv, PreemptAppend, local, calls, shared
<1>8. CASE PreemptSettled(s)
  <2>1. Shown'
    BY <1>0, <1>a, <1>b, <1>8, ShownAt DEF PreemptSettled, MarkInterrupted,
       PreemptSealed, Backed, RunRecord, Shown
  <2>2. PreemptSealed'
    BY <1>0, <1>a, <1>b, <1>8 DEF PreemptSealed, PreemptCall, PreemptGoto,
       PreemptSettled
  <2> QED
    BY <1>0, <1>8, <2>1, <2>2, KeptParts DEF ShownInv, PreemptSettled, local, calls,
       shared
<1> QED
  BY <1>1, <1>2, <1>3, <1>4, <1>5, <1>6, <1>7, <1>8 DEF PreemptStep

\* And the shutdown itself.
LEMMA ShutdownStepShown ==
  ASSUME SteadyRun, TypeOK, SingleWriter, OutcomeInv, ShownInv, NEW s \in Services, ShutdownStep(s)
  PROVE  ShownInv'
<1>0. journal \in RunState /\ Keeps
  BY ShutdownStepKeeps DEF TypeOK
<1>a. /\ Undenied /\ FreshStart
      /\ Shown /\ TaskChosen /\ CancelChosen
      /\ PreemptSealed /\ ShutdownSealed /\ Observed
  BY DEF OutcomeInv, ShownInv
<1>b. /\ mem \in [Services -> RunRecord] /\ used \in Bounds
      /\ cancel \in [Operations -> CancelCall] /\ preempt \in [Services -> PreemptCall]
      /\ shutdown \in [Services -> ShutdownCall] /\ refresh \in [Services -> RefreshCall]
  BY DEF TypeOK
<1>1. CASE ShutdownPublish(s)
  <2>1. ShutdownSealed'
    BY <1>0, <1>a, <1>b, <1>1 DEF ShutdownSealed, ShutdownCall, ShutdownGoto,
       ShutdownPublish
  <2> QED
    BY <1>0, <1>1, <2>1, KeptParts DEF ShownInv, ShutdownPublish, local, calls,
       shared
<1>2. CASE ShutdownSignal(s)
  <2>1. Shown'
    BY <1>0, <1>a, <1>b, <1>2, ShownMarks DEF ShutdownSignal, Settled, Terminals,
       Final, RunRecord
  <2>2. ShutdownSealed'
    BY <1>0, <1>a, <1>b, <1>2 DEF ShutdownSealed, ShutdownCall, ShutdownGoto,
       ShutdownSignal, shared
  <2> QED
    BY <1>0, <1>2, <2>1, <2>2, KeptParts DEF ShownInv, ShutdownSignal, local, calls,
       shared
<1>3. CASE ShutdownTake(s)
  <2>1. ShutdownSealed'
    BY <1>0, <1>a, <1>b, <1>3 DEF ShutdownSealed, ShutdownCall, ShutdownGoto,
       ShutdownTake, shared
  <2> QED
    BY <1>0, <1>3, <2>1, KeptParts DEF ShownInv, ShutdownTake, local, calls, shared
<1>4. CASE ShutdownJoined(s)
  <2>1. ShutdownSealed'
    BY <1>0, <1>a, <1>b, <1>4 DEF ShutdownSealed, ShutdownCall, ShutdownGoto,
       ShutdownJoined, Keeps
  <2> QED
    BY <1>0, <1>4, <2>1, KeptParts DEF ShownInv, ShutdownJoined, local, calls,
       shared
<1>5. CASE ShutdownSettle(s)
  <2>1. ShutdownSealed'
    BY <1>0, <1>a, <1>b, <1>5 DEF ShutdownSealed, ShutdownCall, ShutdownGoto,
       ShutdownSettle, AfterSettle, Keeps
  <2> QED
    BY <1>0, <1>5, <2>1, KeptParts DEF ShownInv, ShutdownSettle, local, calls,
       shared
<1>6. CASE ShutdownAppend(s)
  <2>1. ShutdownSealed'
    BY <1>0, <1>a, <1>b, <1>6, SettleOnceFields, NoFault DEF ShutdownSealed,
       ShutdownCall, ShutdownGoto, ShutdownAppend, SettleInterrupted, Keeps
  <2> QED
    BY <1>0, <1>6, <2>1, KeptParts DEF ShownInv, ShutdownAppend, local, calls,
       shared
<1>7. CASE ShutdownSettled(s)
  <2>1. Shown'
    BY <1>0, <1>a, <1>b, <1>7, ShownAt DEF ShutdownSettled, MarkInterrupted,
       ShutdownSealed, Backed, RunRecord, Shown
  <2>2. ShutdownSealed'
    BY <1>0, <1>a, <1>b, <1>7 DEF ShutdownSealed, ShutdownCall, ShutdownGoto,
       ShutdownSettled, AfterSettle
  <2> QED
    BY <1>0, <1>7, <2>1, <2>2, KeptParts DEF ShownInv, ShutdownSettled, local,
       calls, shared
<1>8. CASE ShutdownLate(s)
  <2>1. ShutdownSealed'
    BY <1>0, <1>a, <1>b, <1>8 DEF ShutdownSealed, ShutdownCall, ShutdownGoto,
       ShutdownLate, shared
  <2> QED
    BY <1>0, <1>8, <2>1, KeptParts DEF ShownInv, ShutdownLate, local, calls, shared
<1>9. CASE ShutdownOrphans(s)
  <2>1. ShutdownSealed'
    BY <1>0, <1>a, <1>b, <1>9 DEF ShutdownSealed, ShutdownCall, ShutdownGoto,
       ShutdownOrphans, Keeps
  <2> QED
    BY <1>0, <1>9, <2>1, KeptParts DEF ShownInv, ShutdownOrphans, local, calls,
       shared
<1>10. CASE ShutdownEnds(s)
  BY <1>0, <1>10, ProcessEndsShown DEF ShutdownEnds
<1> QED
  BY <1>1, <1>2, <1>3, <1>4, <1>5, <1>6, <1>7, <1>8, <1>9, <1>10 DEF ShutdownStep

\* A refresh shows what it has read.
LEMMA RefreshStepShown ==
  ASSUME SteadyRun, TypeOK, SingleWriter, OutcomeInv, ShownInv, NEW s \in Services, RefreshStep(s)
  PROVE  ShownInv'
<1>0. journal \in RunState /\ Keeps
  BY RefreshStepKeeps DEF TypeOK
<1>a. /\ Undenied /\ FreshStart
      /\ Shown /\ TaskChosen /\ CancelChosen
      /\ PreemptSealed /\ ShutdownSealed /\ Observed
  BY DEF OutcomeInv, ShownInv
<1>b. /\ mem \in [Services -> RunRecord] /\ used \in Bounds
      /\ cancel \in [Operations -> CancelCall] /\ preempt \in [Services -> PreemptCall]
      /\ shutdown \in [Services -> ShutdownCall] /\ refresh \in [Services -> RefreshCall]
  BY DEF TypeOK
<1>1. CASE RefreshScan(s)
  <2>1. Observed'
    BY <1>0, <1>a, <1>b, <1>1, RehydratedUnsettled DEF Observed, RefreshScan,
       NoRefresh, shared
  <2> QED
    BY <1>0, <1>1, <2>1, KeptParts DEF ShownInv, RefreshScan, local, calls, shared
<1>2. CASE RefreshInsert(s)
  <2>1. Shown'
    BY <1>0, <1>a, <1>b, <1>2, ShownMarks DEF RefreshInsert, Observed, Untracked
  <2>2. Observed'
    BY <1>0, <1>a, <1>b, <1>2 DEF Observed, RefreshInsert, NoRefresh, Settled,
       Terminals, Final, shared
  <2> QED
    BY <1>0, <1>2, <2>1, <2>2, KeptParts DEF ShownInv, RefreshInsert, local, calls,
       shared
<1>3. CASE RefreshMerge(s)
  <2>1. Shown'
    BY <1>0, <1>a, <1>b, <1>3, MergeShown
  <2>2. Observed'
    BY <1>0, <1>a, <1>b, <1>3 DEF Observed, RefreshMerge, NoRefresh, Settled,
       Terminals, Final, shared
  <2> QED
    BY <1>0, <1>3, <2>1, <2>2, KeptParts DEF ShownInv, RefreshMerge, local, calls,
       shared
<1> QED
  BY <1>1, <1>2, <1>3 DEF RefreshStep

\* Clients settle nothing.
LEMMA UserStepShown ==
  ASSUME SteadyRun, TypeOK, SingleWriter, OutcomeInv, ShownInv, NEW s \in Services, UserStep(s)
  PROVE  ShownInv'
<1>0. journal \in RunState /\ Keeps
  BY UserStepKeeps DEF TypeOK
<1>a. /\ Undenied /\ FreshStart
      /\ Shown /\ TaskChosen /\ CancelChosen
      /\ PreemptSealed /\ ShutdownSealed /\ Observed
  BY DEF OutcomeInv, ShownInv
<1>b. /\ mem \in [Services -> RunRecord] /\ used \in Bounds
      /\ cancel \in [Operations -> CancelCall] /\ preempt \in [Services -> PreemptCall]
      /\ shutdown \in [Services -> ShutdownCall] /\ refresh \in [Services -> RefreshCall]
  BY DEF TypeOK
<1>1. CASE Answer(s)
  <2>1. Shown'
    BY <1>0, <1>a, <1>b, <1>1, ShownMarks DEF Answer, Settled, Terminals, Final,
       RunRecord, Resume, Requeued
  <2> QED
    BY <1>0, <1>1, <2>1, KeptParts DEF ShownInv, Answer, local, calls, shared
<1>2. CASE Approve(s)
  BY <1>2 DEF SteadyRun, PlainRun, Approve, PendingConfirmation
<1>3. CASE DenyConfirmation(s)
  BY <1>a, <1>3 DEF SteadyRun, PlainRun, DenyConfirmation, PendingConfirmation, Undenied, Denied
<1>4. CASE Adopt(s)
  BY <1>b, <1>4 DEF SteadyRun, PlainRun, Adopt, Bounds
<1>5. CASE PreemptBegin(s)
  <2>1. PreemptSealed'
    BY <1>0, <1>a, <1>b, <1>5 DEF PreemptSealed, PreemptCall, PreemptGoto,
       PreemptBegin, shared
  <2> QED
    BY <1>0, <1>5, <2>1, KeptParts DEF ShownInv, PreemptBegin, local, calls, shared
<1>6. CASE ShutdownBegin(s)
  <2>1. ShutdownSealed'
    BY <1>0, <1>a, <1>b, <1>6 DEF ShutdownSealed, ShutdownCall, ShutdownGoto,
       ShutdownBegin, shared
  <2> QED
    BY <1>0, <1>6, <2>1, KeptParts DEF ShownInv, ShutdownBegin, local, calls, shared
<1>7. CASE Crash(s)
  BY <1>0, <1>7, ProcessEndsShown DEF Crash
<1>8. CASE EvictTerminal(s)
  <2>1. Shown'
    BY <1>0, <1>a, <1>b, <1>8, ShownMarks DEF EvictTerminal, Untracked
  <2> QED
    BY <1>0, <1>8, <2>1, KeptParts DEF ShownInv, EvictTerminal, local, calls, shared
<1> QED
  BY <1>1, <1>2, <1>3, <1>4, <1>5, <1>6, <1>7, <1>8 DEF UserStep

\* A start shows a run that is not settled.
LEMMA BootShown ==
  ASSUME TypeOK, ShownInv, Keeps, NEW s \in Services, Boot(s)
  PROVE  ShownInv'
<1>1. Shown'
  <2>1. CASE mem' = mem
    BY <2>1, KeptParts
  <2>2. CASE mem' = [mem EXCEPT ![s] = [Untracked EXCEPT !.tracked = TRUE, !.state = Rehydrated]]
    <3>1. mem'[s].state = Rehydrated /\ \A t \in Services \ {s} : mem'[t] = mem[t]
      BY <2>2 DEF TypeOK, Untracked
    <3> QED
      BY <3>1, RehydratedUnsettled, ShownMarks DEF ShownInv
  <2> QED
    BY <2>1, <2>2 DEF Boot
<1> QED
  BY <1>1, KeptParts DEF ShownInv, Boot, calls

\* No step of any party breaks it.
LEMMA NextShown ==
  ASSUME SteadyRun, TypeOK, SingleWriter, OutcomeInv, ShownInv, [Next]_vars
  PROVE  ShownInv'
<1>0. Keeps
  BY NextKeeps
<1>1. CASE UNCHANGED vars
  BY <1>0, <1>1, KeptParts DEF ShownInv, vars, local, calls
<1>2. CASE Next
  <2>1. ASSUME NEW s \in Services,
               \/ SpawnStep(s) \/ TaskStep(s) \/ JoinTimeout(s) \/ DenialStep(s)
               \/ PreemptStep(s) \/ ShutdownStep(s) \/ RefreshStep(s) \/ UserStep(s)
               \/ Boot(s) \/ ResumeStuck(s)
        PROVE  ShownInv'
    <3>1. ResumeStuck(s) => ShownInv'
      BY <1>0, KeptParts DEF ShownInv, ResumeStuck, calls
    <3> QED
      BY <1>0, <2>1, <3>1, BootShown, SpawnStepShown, TaskStepShown, JoinTimeoutShown,
         DenialStepShown, PreemptStepShown, ShutdownStepShown, RefreshStepShown, UserStepShown
  <2>2. ASSUME NEW op \in Operations,
               CancelStep(op) \/ (\E s \in Services : CancelBegin(op, s))
        PROVE  ShownInv'
    <3>1. (\E s \in Services : CancelBegin(op, s)) => ShownInv'
      <4>1. SUFFICES ASSUME NEW s \in Services, CancelBegin(op, s)
                     PROVE  ShownInv'
        OBVIOUS
      <4>2. CancelChosen'
        BY <4>1 DEF CancelBegin, ShownInv, CancelChosen, TypeOK, CancelCall
      <4> QED
        BY <1>0, <4>1, <4>2, KeptParts DEF ShownInv, CancelBegin, local
    <3> QED
      BY <2>2, <3>1, CancelStepShown
  <2> QED
    BY <1>2, <2>1, <2>2 DEF Next
<1> QED
  BY <1>1, <1>2

\* It holds at the start.
LEMMA InitShown ==
  ASSUME Init
  PROVE  ShownInv
<1>1. PICK owner \in Services :
         /\ mem = [s \in Services |-> [Untracked EXCEPT !.tracked = (s = owner)]]
         /\ cancel = [op \in Operations |->
                        [at |-> "idle", on |-> owner, fresh |-> FALSE, outcome |-> "queued"]]
  BY DEF Init
<1>2. Shown /\ CancelChosen
  BY <1>1 DEF Shown, CancelChosen, Untracked, Settled, Terminals, Final
<1>3. TaskChosen /\ PreemptSealed /\ ShutdownSealed
  BY DEF Init, TaskChosen, Chosen, NoTask, PreemptSealed, ShutdownSealed
<1>4. Observed
  BY DEF Init, Observed, NoRefresh, Settled, Terminals, Final
<1> QED
  BY <1>2, <1>3, <1>4 DEF ShownInv

\* The inductive invariant of what memory shows.
LEMMA ShownInvariant == ASSUME SteadyRun PROVE Spec => []ShownInv
<1>0. PlainRun
  BY DEF SteadyRun
<1>1. Init => ShownInv
  BY InitShown
<1>2. TypeOK /\ SingleWriter /\ OutcomeInv /\ ShownInv /\ [Next]_vars => ShownInv'
  BY NextShown
<1> QED
  BY <1>0, <1>1, <1>2, OutcomeInvariant, TypeCorrect, LeaseExcludes, PTL DEF Spec

\* A status query that shows a settled run shows something that survives a
\* restart: the journal is settled too, and as a success when it says so.
THEOREM DurableCorrect == ASSUME SteadyRun PROVE Spec => []ReportedOutcomeIsDurable
<1>1. ShownInv => ReportedOutcomeIsDurable
  BY DEF ShownInv, Shown, Backed, ReportedOutcomeIsDurable, IsTerminal
<1> QED
  BY <1>1, ShownInvariant, PTL
-----------------------------------------------------------------------------
(* The cancel mailbox.                                                       *)

\* What the mailbox loses in one step is recorded, moot or refused.
Retired ==
    \A op \in mailbox \ mailbox' :
          \/ op \in journal'.cancel_operations
          \/ journal'.terminal # "none"
          \/ op \in Operations /\ cancel[op].at = "signal" /\ ShuttingDown(cancel[op].on)

\* A drain records what it takes, or an outcome is there.
LEMMA DrainRetires ==
  ASSUME TypeOK, NEW s \in Services, Drain(s)
  PROVE  Retired
<1>1. CASE journal.terminal = "none"
  BY <1>1, DrainMoves DEF Retired
<1>2. CASE journal.terminal # "none"
  BY <1>2, DrainMoves DEF Retired
<1> QED
  BY <1>1, <1>2

\* A file that stays retires nothing.
LEMMA KeptRetires ==
  ASSUME mailbox \subseteq mailbox'
  PROVE  Retired
  BY DEF Retired

\* The engine task drains at three points.
LEMMA TaskRetires ==
  ASSUME TypeOK, NEW s \in Services, TaskStep(s)
  PROVE  Retired
<1>1. CASE TaskDrain(s)
  BY <1>1, DrainRetires, KeptRetires DEF TaskDrain
<1>2. CASE TaskCancelDrain(s)
  BY <1>2, DrainRetires, KeptRetires DEF TaskCancelDrain
<1>3. CASE TaskSettleDrain(s)
  BY <1>3, DrainRetires, KeptRetires DEF TaskSettleDrain
<1>4. TaskStep(s) => mailbox' = mailbox \/ TaskDrain(s) \/ TaskCancelDrain(s) \/ TaskSettleDrain(s)
  BY DEF TaskStep, TaskReconcile, TaskFail, TaskQueued, TaskAdmitted, TaskStart, TaskEngine,
         TaskReturned, FinishUntracked, FinishCanceled, FinishOutcome, FinishSuspension,
         TaskRequeue, TaskCommit, TaskCancelAppend, TaskCancelCommit, TaskSettleAppend,
         TaskSettleCommit, TaskFinished, shared
<1> QED
  BY <1>1, <1>2, <1>3, <1>4, KeptRetires

\* A cancel call drains, and takes its own file back from a settled or stopping service.
LEMMA CancelRetires ==
  ASSUME TypeOK, Shown, NEW op \in Operations, CancelStep(op)
  PROVE  Retired
<1>0. cancel[op].on \in Services
  BY DEF TypeOK, CancelCall
<1>1. CASE CancelJoined(op)
  BY <1>0, <1>1, DrainRetires, KeptRetires DEF CancelJoined
<1>2. CASE CancelSettle(op)
  BY <1>0, <1>2, DrainRetires, KeptRetires DEF CancelSettle
<1>3. CASE CancelSignal(op)
  BY <1>0, <1>3 DEF CancelSignal, Retired, Shown, Backed, IsTerminal
<1>4. CASE CancelPublish(op) \/ CancelAppend(op) \/ CancelCommit(op)
  BY <1>4, KeptRetires DEF CancelPublish, CancelAppend, CancelCommit
<1> QED
  BY <1>1, <1>2, <1>3, <1>4 DEF CancelStep

\* A repeated call takes its file back when it is answered from the journal.
LEMMA BeginRetires ==
  ASSUME TypeOK, NEW op \in Operations, NEW s \in Services, CancelBegin(op, s)
  PROVE  Retired
  BY DEF CancelBegin, Retired

\* settle_shutdown_without_task drains under the lease.
LEMMA SettleRetires ==
  ASSUME TypeOK, NEW s \in Services,
         SettleSkipped \/ (\E h : SettleDenied(s, h) \/ SettleDrain(s, h)) \/ UNCHANGED mailbox
  PROVE  Retired
  BY DrainRetires, KeptRetires DEF SettleSkipped, SettleDenied, SettleDrain

\* A preemption drains there only.
LEMMA PreemptRetires ==
  ASSUME TypeOK, NEW s \in Services, PreemptStep(s)
  PROVE  Retired
<1>1. CASE PreemptSettle(s)
  BY <1>1, SettleRetires DEF PreemptSettle, shared
<1>2. PreemptStep(s) => PreemptSettle(s) \/ mailbox' = mailbox
  BY DEF PreemptStep, PreemptMark, PreemptLease, PreemptRequeue, PreemptCommit, PreemptRelease,
         PreemptAppend, PreemptSettled, shared
<1> QED
  BY <1>1, <1>2, KeptRetires

\* A shutdown there and after it has joined the task.
LEMMA ShutdownRetires ==
  ASSUME TypeOK, NEW s \in Services, ShutdownStep(s)
  PROVE  Retired
<1>1. CASE ShutdownSettle(s)
  BY <1>1, SettleRetires DEF ShutdownSettle, shared
<1>2. CASE ShutdownJoined(s)
  BY <1>2, DrainRetires, KeptRetires DEF ShutdownJoined
<1>3. ShutdownStep(s) => ShutdownSettle(s) \/ ShutdownJoined(s) \/ mailbox \subseteq mailbox'
  BY DEF ShutdownStep, ShutdownPublish, ShutdownSignal, ShutdownTake, ShutdownAppend,
         ShutdownSettled, ShutdownLate, ShutdownOrphans, ShutdownEnds, ProcessEnds, shared
<1> QED
  BY <1>1, <1>2, <1>3, KeptRetires

\* No step of any party loses a request.
LEMMA NextRetires ==
  ASSUME TypeOK, Shown, [Next]_vars
  PROVE  Retired
<1>1. CASE UNCHANGED vars
  BY <1>1, KeptRetires DEF vars, shared
<1>2. CASE Next
  <2>1. ASSUME NEW s \in Services,
               \/ SpawnStep(s) \/ TaskStep(s) \/ JoinTimeout(s) \/ DenialStep(s)
               \/ PreemptStep(s) \/ ShutdownStep(s) \/ RefreshStep(s) \/ UserStep(s)
               \/ Boot(s) \/ ResumeStuck(s)
        PROVE  Retired
    <3>1. SpawnStep(s) \/ DenialStep(s) \/ RefreshStep(s) \/ Boot(s) \/ ResumeStuck(s)
             \/ JoinTimeout(s) => mailbox' = mailbox
      BY DEF SpawnStep, SpawnStarts, SpawnAborts, SpawnGivesUp, DenialStep, DenialMark, DenialSeal,
             DenialCommit, RefreshStep, RefreshScan, RefreshInsert, RefreshMerge, Boot, ResumeStuck,
             JoinTimeout, shared
    <3>2. UserStep(s) => mailbox' = mailbox
      BY DEF UserStep, Answer, Approve, DenyConfirmation, Adopt, PreemptBegin, ShutdownBegin,
             Crash, ProcessEnds, EvictTerminal, shared
    <3> QED
      BY <2>1, <3>1, <3>2, KeptRetires, TaskRetires, PreemptRetires, ShutdownRetires
  <2>2. ASSUME NEW op \in Operations,
               CancelStep(op) \/ (\E s \in Services : CancelBegin(op, s))
        PROVE  Retired
    BY <2>2, CancelRetires, BeginRetires
  <2> QED
    BY <1>2, <2>1, <2>2 DEF Next
<1> QED
  BY <1>1, <1>2

\* No accepted cancel is lost: a control leaves the mailbox into the journal,
\* beside a durable outcome, or with the refusal of a stopping service.
THEOREM ControlCorrect == ASSUME SteadyRun PROVE Spec => ControlConsumedOnlyWhenRecorded
<1>1. TypeOK /\ ShownInv /\ [Next]_vars =>
         \A op \in mailbox \ mailbox' :
            \/ op \in journal'.cancel_operations
            \/ journal'.terminal # "none"
            \/ op \in Operations /\ cancel[op].at = "signal" /\ ShuttingDown(cancel[op].on)
  BY NextRetires DEF ShownInv, Retired
<1> QED
  BY <1>1, ShownInvariant, TypeCorrect, PTL DEF Spec, ControlConsumedOnlyWhenRecorded

-----------------------------------------------------------------------------
(* A denied confirmation.  The task looks for a denial only once, so that   *)
(* what must be shown is that none can be accepted behind its back: while a *)
(* confirmation is shown no task and no spawn request is on its way.  One   *)
(* process that does not crash and asks for confirmations only: a boot, a   *)
(* refresh or an answer that meets the suspending engine leaves a request.  *)

ConfirmedRun ==
    /\ \E s : Services = {s}
    /\ Mode = "step_boundary" /\ Confirmations = 1..MaxPrompts
    /\ MaxCrashes = 0 /\ MaxFaults = 0 /\ MaxAdoptions = 0 /\ MaxRefreshes = 0

\* The journal itself accepts no answer any more; neither does a pending control.
Recorded == journal.cancel_requested \/ journal.terminal # "none"
Closed == mailbox # {} \/ Recorded

\* No refresh is under way.
Unrefreshed == \A s \in Services : refresh[s].at = "idle"

\* What the journal and a denial's reconciliation say of each other.
Journaled ==
    /\ journal.cancel_operations # {} => journal.cancel_requested
    /\ journal.open => journal.asked # 0
    /\ \A s \in Services : denial[s] # "idle" => journal.denied

\* Memory is settled, or about to be, only behind the journal.
Noted ==
    /\ \A s \in Services :
          /\ task[s].at \in {"fail", "commit", "cancel_commit", "settle_commit"}
                => Recorded \/ journal.denied
          /\ task[s].at \in {"returned", "finish"} /\ task[s].progress = "done" => Recorded
          /\ preempt[s].at = "settled" \/ shutdown[s].at = "settled" => Recorded
          /\ process[s] = "up" /\ (~mem[s].tracked \/ IsTerminal(s)) => Recorded \/ journal.denied
    /\ \A op \in Operations : cancel[op].at = "commit" => Recorded

\* A shutdown leaves nothing that could be answered after the next boot.
Halted ==
    \A s \in Services :
        /\ process[s] # "stopping" => shutdown[s].at = "idle" /\ preempt[s].at \notin Settling
        /\ process[s] # "up" /\ shutdown[s].at # "publish" =>
              s \in mailbox \/ Recorded \/ journal.denied

\* A run that nobody stops: its record, its task and its one spawn request.
Going(s) == process[s] = "up" /\ ~Closed /\ ~journal.denied
Resting(s) == task[s].at \in {"idle", "exiting"}
Steady(s) ==
    /\ mem[s].tracked /\ canceled[s] = {}
    /\ \A op \in Operations : cancel[op].at \in {"idle", "publish"}
    /\ mem[s].yield => mem[s].preempted
    /\ preempt[s].resume => preempt[s].at = "release" /\ mem[s].state = "queued" /\ ~mem[s].preempted
    /\ spawns[s] \subseteq {SpawnOf(mem[s])}
    /\ spawns[s] # {} => Resting(s) /\ mem[s].state = "queued" /\ ~mem[s].preempted
    /\ ~Resting(s) => slot[s]
    /\ \/ /\ mem[s].state = "queued" /\ ~journal.open
          /\ task[s].at \in {"idle", "exiting", "reconcile", "drain", "queued", "admitted"}
       \/ /\ mem[s].state = "running" /\ ~journal.open
          /\ task[s].at \in {"start", "engine"} \/ (Resting(s) /\ mem[s].preempted)
       \/ /\ mem[s].state = "running" /\ task[s].at \in {"returned", "finish"}
          /\ journal.open <=> task[s].progress = "suspended"
          /\ task[s].progress = "yielded" => mem[s].preempted
       \/ mem[s].state = "confirming" /\ journal.open /\ Resting(s)
Undisturbed == \A s \in Services : Going(s) => Steady(s)

\* Once a denial is accepted nobody is left who would execute or settle otherwise.
Refused ==
    journal.denied =>
        /\ journal.terminal \in {"none", "failed"}
        /\ \A s \in Services :
              /\ task[s].at \in {"idle", "exiting", "reconcile", "fail"}
              /\ preempt[s].at \notin {"append", "settled"}
              /\ shutdown[s].at \notin {"signal", "take", "join", "joined", "append", "settled"}
        /\ \A op \in Operations : cancel[op].at \in {"idle", "publish"}

DenialInv == NoSnapshot /\ Unrefreshed /\ FreshStart /\ Journaled /\ Noted /\ Halted /\ Undisturbed /\ Refused
\* What the journal's operators leave alone of prompts, controls and denials.
Same(st, to) ==
    /\ to.cancel_requested = st.cancel_requested /\ to.cancel_operations = st.cancel_operations
    /\ to.denied = st.denied /\ to.open = st.open /\ to.asked = st.asked

\* A terminal event.
LEMMA SettleKeeps ==
  ASSUME NEW st \in RunState, NEW outcome
  PROVE  Same(st, Settle(st, outcome)) /\ Settle(st, outcome).terminal = outcome
  BY DEF RunState, Same, Settle

\* One that is written where none is.
LEMMA OnceKeeps ==
  ASSUME NEW st \in RunState, NEW outcome
  PROVE  /\ Same(st, SettleOnce(st, outcome))
         /\ SettleOnce(st, outcome).terminal = IF st.terminal = "none" THEN outcome ELSE st.terminal
  BY DEF RunState, Same, Settle, SettleOnce

\* One of an engine that was canceled.
LEMMA CutKeeps ==
  ASSUME NEW st \in RunState, NEW outcome, NEW lost
  PROVE  /\ Same(st, [Settle(st, outcome) EXCEPT !.inflight = lost])
         /\ [Settle(st, outcome) EXCEPT !.inflight = lost].terminal = outcome
  BY DEF RunState, Same, Settle

\* A lost operation.
LEMMA LostKeeps ==
  ASSUME NEW st \in RunState, NEW lost
  PROVE  Same(st, [st EXCEPT !.inflight = lost]) /\ [st EXCEPT !.inflight = lost].terminal = st.terminal
  BY DEF RunState, Same

\* An event that says nothing of the outcome.
LEMMA NoteKeeps ==
  ASSUME NEW st \in RunState, NEW what
  PROVE  Same(st, [st EXCEPT !.last = what]) /\ [st EXCEPT !.last = what].terminal = st.terminal
  BY DEF RunState, Same

\* A restart.
LEMMA RestartKeeps ==
  ASSUME NEW st \in RunState
  PROVE  /\ Same(st, Start(st)) /\ Start(st).terminal = "none"
         /\ Same(st, Restart(st)) /\ Restart(st).terminal = "none"
  BY DEF RunState, Same, Start, Restart

\* A sealed denial is a failure.
LEMMA SealKeeps ==
  ASSUME NEW st \in RunState
  PROVE  /\ Same(st, SealDenial(st)) /\ SealDenial(st).terminal \in {st.terminal, "failed"}
         /\ st.terminal # "none" => SealDenial(st).terminal # "none"
  BY DEF RunState, Same, SealDenial, Settle

\* Prompts and their answers.
LEMMA PromptKeeps ==
  ASSUME NEW st \in RunState
  PROVE  /\ Ask(st).terminal = st.terminal /\ Ask(st).cancel_requested = st.cancel_requested
         /\ Ask(st).cancel_operations = st.cancel_operations /\ Ask(st).denied = st.denied
         /\ Ask(st).open /\ Ask(st).asked = st.asked + 1
         /\ Respond(st).terminal = "none" /\ Respond(st).cancel_requested = st.cancel_requested
         /\ Respond(st).cancel_operations = st.cancel_operations /\ Respond(st).denied = st.denied
         /\ ~Respond(st).open
         /\ Deny(st).terminal = "none" /\ Deny(st).cancel_requested = st.cancel_requested
         /\ Deny(st).cancel_operations = st.cancel_operations /\ Deny(st).denied /\ ~Deny(st).open
  BY DEF RunState, Ask, Respond, Deny

\* What a step may do to the mailbox and the requests in the journal: nothing is lost.
Drained ==
    /\ journal'.terminal = journal.terminal /\ journal'.denied = journal.denied
    /\ journal'.open = journal.open /\ journal'.asked = journal.asked
    /\ journal.cancel_requested => journal'.cancel_requested
    /\ (journal.cancel_operations # {} => journal.cancel_requested) =>
          (journal'.cancel_operations # {} => journal'.cancel_requested)
    /\ mailbox = {} => mailbox' = {} /\ journal' = journal
    /\ \A c \in mailbox \ mailbox' : journal'.cancel_requested \/ journal'.terminal # "none"

\* A drain records what it takes, unless there is an outcome.
LEMMA DrainRecords ==
  ASSUME TypeOK, NEW s \in Services, Drain(s) \/ UNCHANGED <<journal, mailbox>>
  PROVE  Drained
  BY DEF TypeOK, RunState, Drain, DrainControls, Drained

\* Nothing fails where MaxFaults is zero.
LEMMA Unfailing ==
  ASSUME ConfirmedRun, TypeOK
  PROVE  ~Fault
  BY DEF ConfirmedRun, TypeOK, Bounds, Fault

\* A record that re-enters the queue.
LEMMA RequeuedFields ==
  ASSUME TypeOK, NEW s \in Services, mem' = [mem EXCEPT ![s] = Requeued(@)]
  PROVE  /\ mem'[s] = Requeued(mem[s]) /\ mem'[s].tracked = mem[s].tracked
         /\ mem'[s].state = "queued" /\ ~mem'[s].preempted /\ ~mem'[s].yield
         /\ "queued" \notin Settled
<1>1. mem[s] \in RunRecord /\ mem'[s] = Requeued(mem[s])
  BY DEF TypeOK
<1>2. /\ Requeued(mem[s]).tracked = mem[s].tracked /\ Requeued(mem[s]).state = "queued"
      /\ ~Requeued(mem[s]).preempted /\ ~Requeued(mem[s]).yield
  BY <1>1 DEF RunRecord, Requeued
<1>3. "queued" \notin Settled
  BY DEF Settled, Terminals, Final
<1> QED
  BY <1>1, <1>2, <1>3

\* The one look for a denial.
LEMMA TaskReconcileDenial ==
  ASSUME ConfirmedRun, TypeOK, SingleWriter, DenialInv, NEW s \in Services, Services = {s},
         TaskReconcile(s)
  PROVE  DenialInv'
<1>1. journal \in RunState /\ ~Fault /\ task[s].at = "reconcile" /\ lease = <<"task", s>>
  BY Unfailing DEF TypeOK, SingleWriter, TaskReconcile
<1>2. UNCHANGED <<mailbox, process, mem, slot, canceled, spawns, cancel, preempt, shutdown, denial, refresh>>
  BY DEF TaskReconcile, local, calls
<1>3. /\ Same(journal, journal') /\ journal'.terminal \in {journal.terminal, "failed"}
      /\ journal.terminal # "none" => journal'.terminal # "none"
      /\ task'[s].at \in {"fail", "exiting", "drain"} /\ ~task'[s].snapshot
      /\ task'[s].at = "fail" => journal'.terminal # "none" \/ journal.denied
      /\ task'[s].at = "exiting" => journal.denied
      /\ task'[s].at = "drain" => ~journal.denied
  <2>1. CASE journal.denied /\ Goto(s, "fail") /\ journal' = SealDenial(journal)
    BY <1>1, <2>1, SealKeeps, GotoMoves DEF DenialInv, NoSnapshot
  <2>2. CASE journal.denied /\ Exit(s) /\ journal' = journal
    BY <1>1, <2>2, ExitMoves DEF Same
  <2>3. CASE ~journal.denied /\ Goto(s, "fail") /\ journal' = SettleOnce(journal, "failed")
    BY <1>1, <2>3, OnceKeeps, GotoMoves DEF DenialInv, NoSnapshot
  <2>4. CASE ~journal.denied /\ Goto(s, "drain") /\ journal' = journal
    BY <1>1, <2>4, GotoMoves DEF Same, DenialInv, NoSnapshot
  <2> QED
    BY <1>1, <2>1, <2>2, <2>3, <2>4 DEF TaskReconcile, Denied
<1>4. (NoSnapshot /\ Unrefreshed /\ FreshStart /\ Journaled)'
  BY <1>1, <1>2, <1>3 DEF DenialInv, NoSnapshot, Unrefreshed, FreshStart, Journaled, Same, Drained
<1>5. Noted'
  BY <1>1, <1>2, <1>3 DEF DenialInv, Noted, Same, Recorded, IsTerminal, Drained
<1>6. Halted'
  BY <1>1, <1>2, <1>3 DEF DenialInv, Halted, Same, Recorded, Drained
<1>7. Undisturbed'
  BY <1>1, <1>2, <1>3 DEF DenialInv, Undisturbed, Same, Recorded, Going, Closed, Steady, Resting, SpawnOf,
     IsTerminal, Drained
<1>8. Refused'
  BY <1>1, <1>2, <1>3 DEF DenialInv, Refused, Same, Drained
<1> QED
  BY <1>4, <1>5, <1>6, <1>7, <1>8 DEF DenialInv

\* A refused spawn shows its failure.
LEMMA TaskFailDenial ==
  ASSUME ConfirmedRun, TypeOK, SingleWriter, DenialInv, NEW s \in Services, Services = {s},
         TaskFail(s)
  PROVE  DenialInv'
<1>1. journal \in RunState /\ ~Fault /\ task[s].at = "fail"
  BY Unfailing DEF TypeOK, SingleWriter, TaskFail
<1>2. UNCHANGED <<journal, mailbox, process, slot, canceled, spawns, cancel, preempt, shutdown, denial, refresh>>
  BY DEF TaskFail, calls
<1>3. task'[s].at = "exiting" /\ ~task'[s].snapshot
  BY ExitMoves DEF TaskFail
<1>4. (NoSnapshot /\ Unrefreshed /\ FreshStart /\ Journaled)'
  BY <1>1, <1>2, <1>3 DEF DenialInv, NoSnapshot, Unrefreshed, FreshStart, Journaled, Same, Drained
<1>5. Noted'
  BY <1>1, <1>2, <1>3 DEF DenialInv, Noted, Same, Recorded, IsTerminal, Drained
<1>6. Halted'
  BY <1>1, <1>2, <1>3 DEF DenialInv, Halted, Same, Recorded, Drained
<1>7. Undisturbed'
  BY <1>1, <1>2, <1>3 DEF DenialInv, Undisturbed, Same, Recorded, Going, Closed, Steady, Resting, SpawnOf,
     IsTerminal, Drained
<1>8. Refused'
  BY <1>1, <1>2, <1>3 DEF DenialInv, Refused, Same, Drained
<1> QED
  BY <1>4, <1>5, <1>6, <1>7, <1>8 DEF DenialInv

\* The first drain.
LEMMA TaskDrainDenial ==
  ASSUME ConfirmedRun, TypeOK, SingleWriter, DenialInv, NEW s \in Services, Services = {s},
         TaskDrain(s)
  PROVE  DenialInv'
<1>1. journal \in RunState /\ ~Fault /\ task[s].at = "drain" /\ lease = <<"task", s>>
  BY Unfailing DEF TypeOK, SingleWriter, TaskDrain
<1>2. UNCHANGED <<process, mem, slot, canceled, spawns, cancel, preempt, shutdown, denial, refresh>>
  BY DEF TaskDrain, local, calls
<1>3. \/ Drain(s) /\ task'[s].at = "queued" /\ ~task'[s].snapshot
      \/ mailbox # {} /\ UNCHANGED <<journal, mailbox>> /\ task'[s].at = "exiting" /\ ~task'[s].snapshot
  BY <1>1, GotoMoves, ExitMoves DEF TaskDrain, DrainRefused, DenialInv, NoSnapshot
<1>4. Drained
  BY <1>3, DrainRecords
<1>5. (NoSnapshot /\ Unrefreshed /\ FreshStart /\ Journaled)'
  BY <1>1, <1>2, <1>3, <1>4 DEF DenialInv, NoSnapshot, Unrefreshed, FreshStart, Journaled, Same, Drained
<1>6. Noted'
  BY <1>1, <1>2, <1>3, <1>4 DEF DenialInv, Noted, Same, Recorded, IsTerminal, Drained
<1>7. Halted'
  BY <1>1, <1>2, <1>3, <1>4 DEF DenialInv, Halted, Same, Recorded, Drained
<1>8. Undisturbed'
  BY <1>1, <1>2, <1>3, <1>4 DEF DenialInv, Undisturbed, Same, Recorded, Going, Closed, Steady, Resting, SpawnOf,
     IsTerminal, Drained
<1>9. Refused'
  BY <1>1, <1>2, <1>3, <1>4 DEF DenialInv, Refused, Same, Drained
<1> QED
  BY <1>5, <1>6, <1>7, <1>8, <1>9 DEF DenialInv

\* One turn of the queue loop.
LEMMA TaskQueuedDenial ==
  ASSUME ConfirmedRun, TypeOK, SingleWriter, DenialInv, NEW s \in Services, Services = {s},
         TaskQueued(s)
  PROVE  DenialInv'
<1>1. journal \in RunState /\ ~Fault /\ task[s].at = "queued" /\ lease = <<"task", s>>
  BY Unfailing DEF TypeOK, SingleWriter, TaskQueued
<1>2. UNCHANGED <<journal, mailbox, process, mem, slot, canceled, spawns, cancel, preempt, shutdown, denial, refresh>>
  BY DEF TaskQueued, local, calls
<1>3. /\ ~task'[s].snapshot
      /\ \/ task'[s].at = "settle_drain" /\ (Closed \/ canceled[s] # {})
         \/ task'[s].at = "exiting" /\ ~(mem[s].tracked /\ mem[s].state = "queued")
         \/ task'[s].at = "admitted"
  BY <1>1, GotoMoves, ExitMoves DEF TaskQueued, DenialInv, NoSnapshot, RemoteCancelRequested,
     TokenCancelled, Closed, Recorded
<1>4. (NoSnapshot /\ Unrefreshed /\ FreshStart /\ Journaled)'
  BY <1>1, <1>2, <1>3 DEF DenialInv, NoSnapshot, Unrefreshed, FreshStart, Journaled, Same, Drained
<1>5. Noted'
  BY <1>1, <1>2, <1>3 DEF DenialInv, Noted, Same, Recorded, IsTerminal, Drained
<1>6. Halted'
  BY <1>1, <1>2, <1>3 DEF DenialInv, Halted, Same, Recorded, Drained
<1>7. Undisturbed'
  BY <1>1, <1>2, <1>3 DEF DenialInv, Undisturbed, Same, Recorded, Going, Closed, Steady, Resting, SpawnOf,
     IsTerminal, Drained
<1>8. Refused'
  BY <1>1, <1>2, <1>3 DEF DenialInv, Refused, Same, Drained
<1> QED
  BY <1>4, <1>5, <1>6, <1>7, <1>8 DEF DenialInv

\* The section under the run-map lock.
LEMMA TaskAdmittedDenial ==
  ASSUME ConfirmedRun, TypeOK, SingleWriter, DenialInv, NEW s \in Services, Services = {s},
         TaskAdmitted(s)
  PROVE  DenialInv'
<1>1. journal \in RunState /\ ~Fault /\ task[s].at = "admitted" /\ lease = <<"task", s>>
  BY Unfailing DEF TypeOK, SingleWriter, TaskAdmitted
<1>2. UNCHANGED <<journal, mailbox, process, slot, canceled, spawns, cancel, preempt, shutdown, denial, refresh>>
  BY DEF TaskAdmitted, calls
<1>3. ~task[s].snapshot
  BY DEF DenialInv, NoSnapshot
<1>4. /\ ~task'[s].snapshot
      /\ \/ /\ task'[s].at = "exiting" /\ mem' = mem
            /\ ~mem[s].tracked \/ IsTerminal(s)
         \/ /\ task'[s].at = "settle_drain" /\ mem' = mem
            /\ mem[s].state = "cancel_requested" \/ Closed \/ canceled[s] # {}
         \/ task'[s].at = "exiting" /\ journal.terminal # "none"
         \/ /\ task'[s].at = "start" /\ journal.terminal = "none"
            /\ mem' = [mem EXCEPT ![s].state = "running"]
  BY <1>1, <1>3, GotoMoves, ExitMoves DEF TaskAdmitted, SettledOnDisk, RemoteCancelRequested,
     TokenCancelled, Closed, Recorded
<1>5. mem' = [mem EXCEPT ![s].state = "running"] =>
         /\ mem'[s].state = "running" /\ mem'[s].tracked = mem[s].tracked
         /\ mem'[s].preempted = mem[s].preempted /\ mem'[s].yield = mem[s].yield
         /\ mem'[s].token = mem[s].token
  BY DEF TypeOK, RunRecord
<1>6. "running" \notin Settled /\ "queued" \notin Settled
  BY DEF Settled, Terminals, Final
<1>7. (NoSnapshot /\ Unrefreshed /\ FreshStart /\ Journaled)'
  BY <1>1, <1>2, <1>3, <1>4, <1>5, <1>6 DEF DenialInv, NoSnapshot, Unrefreshed, FreshStart, Journaled, Same, Drained
<1>8. Noted'
  BY <1>1, <1>2, <1>3, <1>4, <1>5, <1>6 DEF DenialInv, Noted, Same, Recorded, IsTerminal, Drained
<1>9. Halted'
  BY <1>1, <1>2, <1>3, <1>4, <1>5, <1>6 DEF DenialInv, Halted, Same, Recorded, Drained
<1>10. Undisturbed'
  <2>1. SUFFICES ASSUME Going(s)'
                 PROVE  Steady(s)'
    BY DEF Undisturbed
  <2>2. Going(s)
    BY <1>1, <1>2, <1>3, <1>4, <1>5, <1>6, <2>1 DEF Going, Closed, Recorded, Same, Drained, DenialInv, Halted
  <2>3. Steady(s)
    BY <2>2 DEF DenialInv, Undisturbed
  <2>4. /\ ~Closed /\ mailbox = {} /\ journal.terminal = "none" /\ ~journal.cancel_requested
        /\ mem[s].state \in {"queued", "running", "confirming"} /\ ~IsTerminal(s)
    BY <2>2, <2>3 DEF Going, Closed, Recorded, Steady, IsTerminal, Settled, Terminals, Final
  <2>5. task'[s].at = "start" /\ mem' = [mem EXCEPT ![s].state = "running"]
    BY <1>1, <1>4, <2>3, <2>4 DEF Steady, Resting
  <2>6. spawns[s] = {} /\ slot[s] /\ ~journal.open /\ ~preempt[s].resume
    BY <1>1, <2>3 DEF Steady, Resting, SingleWriter
  <2> QED
    BY <1>2, <1>5, <2>3, <2>5, <2>6 DEF Steady, Resting
<1>11. Refused'
  BY <1>1, <1>2, <1>3, <1>4, <1>5, <1>6 DEF DenialInv, Refused, Same, Drained
<1> QED
  BY <1>7, <1>8, <1>9, <1>10, <1>11 DEF DenialInv

\* The engine opens the journal.
LEMMA TaskStartDenial ==
  ASSUME ConfirmedRun, TypeOK, SingleWriter, DenialInv, NEW s \in Services, Services = {s},
         TaskStart(s)
  PROVE  DenialInv'
<1>1. journal \in RunState /\ ~Fault /\ task[s].at = "start" /\ lease = <<"task", s>>
  BY Unfailing DEF TypeOK, SingleWriter, TaskStart
<1>2. UNCHANGED <<mailbox, process, mem, slot, canceled, spawns, cancel, preempt, shutdown, denial, refresh>>
  BY DEF TaskStart, local, calls
<1>3. journal.terminal = "none" /\ ~journal.denied /\ AcceptsEvent(journal)
  BY <1>1 DEF DenialInv, FreshStart, Refused, AcceptsEvent, Final
<1>4. /\ Same(journal, journal') /\ ~task'[s].snapshot
      /\ \/ task'[s].at = "fail" /\ journal'.terminal = "failed"
         \/ /\ task'[s].at = "returned" /\ task'[s].progress = "suspended"
            /\ journal.open /\ journal' = journal
         \/ task'[s].at = "engine" /\ ~journal.open /\ journal'.terminal = "none"
  <2>1. CASE Goto(s, "fail") /\ journal' = Settle(journal, "failed")
    BY <1>1, <2>1, SettleKeeps, GotoMoves DEF DenialInv, NoSnapshot
  <2>2. CASE journal.open /\ Return(s, "suspended") /\ journal' = journal
    BY <1>1, <2>2, ReturnMoves DEF DenialInv, NoSnapshot, Same
  <2>3. CASE ~journal.open /\ Goto(s, "engine") /\ journal' = Start(journal)
    BY <1>1, <2>3, RestartKeeps, GotoMoves DEF DenialInv, NoSnapshot
  <2> QED
    BY <1>1, <1>3, <2>1, <2>2, <2>3 DEF TaskStart
<1>5. (NoSnapshot /\ Unrefreshed /\ FreshStart /\ Journaled)'
  BY <1>1, <1>2, <1>3, <1>4 DEF DenialInv, NoSnapshot, Unrefreshed, FreshStart, Journaled, Same, Drained
<1>6. Noted'
  BY <1>1, <1>2, <1>3, <1>4 DEF DenialInv, Noted, Same, Recorded, IsTerminal, Drained
<1>7. Halted'
  BY <1>1, <1>2, <1>3, <1>4 DEF DenialInv, Halted, Same, Recorded, Drained
<1>8. Undisturbed'
  BY <1>1, <1>2, <1>3, <1>4 DEF DenialInv, Undisturbed, Same, Recorded, Going, Closed, Steady, Resting, SpawnOf,
     IsTerminal, Drained
<1>9. Refused'
  BY <1>1, <1>2, <1>3, <1>4 DEF DenialInv, Refused, Same, Drained
<1> QED
  BY <1>5, <1>6, <1>7, <1>8, <1>9 DEF DenialInv

\* The engine call returns.
LEMMA TaskEngineDenial ==
  ASSUME ConfirmedRun, TypeOK, SingleWriter, DenialInv, NEW s \in Services, Services = {s},
         TaskEngine(s)
  PROVE  DenialInv'
<1>1. journal \in RunState /\ ~Fault /\ task[s].at = "engine" /\ lease = <<"task", s>>
  BY Unfailing DEF TypeOK, SingleWriter, TaskEngine
<1>2. UNCHANGED <<mailbox, process, mem, slot, canceled, spawns, cancel, preempt, shutdown, denial, refresh>>
  BY DEF TaskEngine, local, calls
<1>3. journal.terminal = "none" /\ ~journal.denied /\ ~task[s].snapshot
  BY <1>1 DEF DenialInv, FreshStart, Refused, NoSnapshot
<1>4. /\ task'[s].at = "returned" /\ ~task'[s].snapshot
      /\ \/ Same(journal, journal') /\ journal'.terminal \in Terminals
         \/ journal' = journal /\ task'[s].progress = "failed"
         \/ /\ journal'.open /\ journal'.asked # 0 /\ journal'.terminal = "none"
            /\ journal'.cancel_requested = journal.cancel_requested
            /\ journal'.cancel_operations = journal.cancel_operations
            /\ ~journal'.denied /\ task'[s].progress = "suspended"
         \/ /\ Same(journal, journal') /\ journal'.terminal = "none"
            /\ mem[s].yield /\ task'[s].progress = "yielded"
  <2>1. CASE EngineSucceeds(s)
    BY <1>1, <1>3, <2>1, SettleKeeps, ReturnMoves DEF EngineSucceeds, Terminals, Final
  <2>6. CASE EngineFails(s)
    BY <1>1, <1>3, <2>6, SettleKeeps, ReturnMoves DEF EngineFails, Terminals, Final
  <2>2. CASE EngineErrors(s)
    BY <1>1, <1>3, <2>2, ReturnMoves DEF EngineErrors
  <2>3. CASE EngineAsks(s)
    BY <1>1, <1>3, <2>3, PromptKeeps, ReturnMoves DEF EngineAsks, RunState
  <2>4. CASE EngineCancels(s)
    <3>1. CancelOutcome(s) \in Terminals /\ CancelOutcome(s) # "none"
      BY DEF CancelOutcome, Terminals, Final
    <3> QED
      BY <1>1, <1>3, <2>4, <3>1, CutKeeps, ReturnMoves DEF EngineCancels
  <2>5. CASE EngineYields(s)
    BY <1>1, <1>3, <2>5, NoteKeeps, ReturnMoves DEF EngineYields
  <2> QED
    BY <2>1, <2>2, <2>3, <2>4, <2>5, <2>6 DEF TaskEngine
<1>5. "none" \notin Terminals
  BY DEF Terminals, Final
<1>6. (NoSnapshot /\ Unrefreshed /\ FreshStart /\ Journaled)'
  BY <1>1, <1>2, <1>3, <1>4, <1>5 DEF DenialInv, NoSnapshot, Unrefreshed, FreshStart, Journaled, Same, Drained
<1>7. Noted'
  BY <1>1, <1>2, <1>3, <1>4, <1>5 DEF DenialInv, Noted, Same, Recorded, IsTerminal, Drained
<1>8. Halted'
  BY <1>1, <1>2, <1>3, <1>4, <1>5 DEF DenialInv, Halted, Same, Recorded, Drained
<1>9. Undisturbed'
  BY <1>1, <1>2, <1>3, <1>4, <1>5 DEF DenialInv, Undisturbed, Same, Recorded, Going, Closed, Steady, Resting, SpawnOf,
     IsTerminal, Drained
<1>10. Refused'
  BY <1>1, <1>2, <1>3, <1>4, <1>5 DEF DenialInv, Refused, Same, Drained
<1> QED
  BY <1>6, <1>7, <1>8, <1>9, <1>10 DEF DenialInv

\* Back from the engine: to the rendezvous or to finish_run.
LEMMA TaskReturnedDenial ==
  ASSUME ConfirmedRun, TypeOK, SingleWriter, DenialInv, NEW s \in Services, Services = {s},
         TaskReturned(s)
  PROVE  DenialInv'
<1>1. journal \in RunState /\ ~Fault /\ task[s].at = "returned" /\ lease = <<"task", s>>
  BY Unfailing DEF TypeOK, SingleWriter, TaskReturned
<1>2. UNCHANGED <<journal, mailbox, process, slot, canceled, spawns, cancel, preempt, shutdown, denial, refresh>>
  BY DEF TaskReturned, calls
<1>3. /\ ~task'[s].snapshot
      /\ \/ task[s].progress = "yielded" /\ task'[s].at = "exiting" /\ mem' = mem
         \/ /\ task'[s].at = "finish" /\ task'[s].progress = task[s].progress
            /\ task[s].progress # "yielded"
            /\ mem' = mem \/ (mem'[s].yield = FALSE /\ mem'[s].preempted = FALSE)
  BY <1>1, GotoMoves, ExitMoves DEF TaskReturned, LeftToRendezvous, ConfirmedRun, DenialInv, NoSnapshot,
     TypeOK, RunRecord
<1>4. mem'[s].tracked = mem[s].tracked /\ mem'[s].state = mem[s].state /\ mem'[s].token = mem[s].token
  BY DEF TaskReturned, TypeOK, RunRecord
<1>5. (NoSnapshot /\ Unrefreshed /\ FreshStart /\ Journaled)'
  BY <1>1, <1>2, <1>3, <1>4 DEF DenialInv, NoSnapshot, Unrefreshed, FreshStart, Journaled, Same, Drained
<1>6. Noted'
  BY <1>1, <1>2, <1>3, <1>4 DEF DenialInv, Noted, Same, Recorded, IsTerminal, Drained
<1>7. Halted'
  BY <1>1, <1>2, <1>3, <1>4 DEF DenialInv, Halted, Same, Recorded, Drained
<1>8. Undisturbed'
  BY <1>1, <1>2, <1>3, <1>4 DEF DenialInv, Undisturbed, Same, Recorded, Going, Closed, Steady, Resting, SpawnOf,
     IsTerminal, Drained
<1>9. Refused'
  BY <1>1, <1>2, <1>3, <1>4 DEF DenialInv, Refused, Same, Drained
<1> QED
  BY <1>5, <1>6, <1>7, <1>8, <1>9 DEF DenialInv

\* The record is gone.
LEMMA FinishUntrackedDenial ==
  ASSUME ConfirmedRun, TypeOK, SingleWriter, DenialInv, NEW s \in Services, Services = {s},
         FinishUntracked(s)
  PROVE  DenialInv'
<1>1. journal \in RunState /\ ~Fault /\ task[s].at = "finish" /\ ~mem[s].tracked
  BY Unfailing DEF TypeOK, SingleWriter, FinishUntracked
<1>2. UNCHANGED <<journal, mailbox, process, mem, slot, canceled, spawns, cancel, preempt, shutdown, denial, refresh>>
  BY DEF FinishUntracked, local, calls
<1>3. task'[s].at = "exiting" /\ ~task'[s].snapshot
  BY ExitMoves DEF FinishUntracked
<1>4. (NoSnapshot /\ Unrefreshed /\ FreshStart /\ Journaled)'
  BY <1>1, <1>2, <1>3 DEF DenialInv, NoSnapshot, Unrefreshed, FreshStart, Journaled, Same, Drained
<1>5. Noted'
  BY <1>1, <1>2, <1>3 DEF DenialInv, Noted, Same, Recorded, IsTerminal, Drained
<1>6. Halted'
  BY <1>1, <1>2, <1>3 DEF DenialInv, Halted, Same, Recorded, Drained
<1>7. Undisturbed'
  BY <1>1, <1>2, <1>3 DEF DenialInv, Undisturbed, Same, Recorded, Going, Closed, Steady, Resting, SpawnOf,
     IsTerminal, Drained
<1>8. Refused'
  BY <1>1, <1>2, <1>3 DEF DenialInv, Refused, Same, Drained
<1> QED
  BY <1>4, <1>5, <1>6, <1>7, <1>8 DEF DenialInv

\* A cancel was accepted meanwhile.
LEMMA FinishCanceledDenial ==
  ASSUME ConfirmedRun, TypeOK, SingleWriter, DenialInv, NEW s \in Services, Services = {s},
         FinishCanceled(s)
  PROVE  DenialInv'
<1>1. journal \in RunState /\ ~Fault /\ task[s].at = "finish" /\ mem[s].state \in {"canceled", "cancel_requested"}
  BY Unfailing DEF TypeOK, SingleWriter, FinishCanceled, CancelAccepted
<1>2. UNCHANGED <<journal, mailbox, process, mem, slot, canceled, spawns, cancel, preempt, shutdown, denial, refresh>>
  BY DEF FinishCanceled, shared, local, calls
<1>3. task'[s].at = "cancel_drain" /\ ~task'[s].snapshot
  BY GotoMoves DEF FinishCanceled, DenialInv, NoSnapshot
<1>4. (NoSnapshot /\ Unrefreshed /\ FreshStart /\ Journaled)'
  BY <1>1, <1>2, <1>3 DEF DenialInv, NoSnapshot, Unrefreshed, FreshStart, Journaled, Same, Drained
<1>5. Noted'
  BY <1>1, <1>2, <1>3 DEF DenialInv, Noted, Same, Recorded, IsTerminal, Drained
<1>6. Halted'
  BY <1>1, <1>2, <1>3 DEF DenialInv, Halted, Same, Recorded, Drained
<1>7. Undisturbed'
  BY <1>1, <1>2, <1>3 DEF DenialInv, Undisturbed, Same, Recorded, Going, Closed, Steady, Resting, SpawnOf,
     IsTerminal, Drained
<1>8. Refused'
  BY <1>1, <1>2, <1>3 DEF DenialInv, Refused, Same, Drained
<1> QED
  BY <1>4, <1>5, <1>6, <1>7, <1>8 DEF DenialInv

\* finish_run with an outcome.
LEMMA FinishOutcomeDenial ==
  ASSUME ConfirmedRun, TypeOK, SingleWriter, DenialInv, NEW s \in Services, Services = {s},
         FinishOutcome(s)
  PROVE  DenialInv'
<1>1. journal \in RunState /\ ~Fault /\ task[s].at = "finish"
  BY Unfailing DEF TypeOK, SingleWriter, FinishOutcome, Finishing
<1>2. UNCHANGED <<mailbox, process, mem, slot, canceled, spawns, cancel, preempt, shutdown, denial, refresh>>
  BY DEF FinishOutcome, local, calls
<1>3. /\ task'[s].at = "commit" /\ ~task'[s].snapshot /\ Same(journal, journal')
      /\ journal.terminal # "none" => journal'.terminal = journal.terminal
      /\ journal'.terminal # "none" \/ Recorded
  <2>1. task' = [task EXCEPT ![s].at = "commit", ![s].outcome = FinishedAs(s)]
    BY <1>1 DEF FinishOutcome
  <2>2. task'[s].at = "commit" /\ ~task'[s].snapshot
    BY <2>1, NoteMoves DEF DenialInv, NoSnapshot
  <2>3. CASE task[s].progress = "done"
    BY <1>1, <2>2, <2>3 DEF FinishOutcome, Same, DenialInv, Noted
  <2>4. CASE task[s].progress # "done"
    <3>1. journal' = SettleOnce(journal, "failed")
      BY <1>1, <2>4 DEF FinishOutcome
    <3> QED
      BY <1>1, <2>2, <3>1, OnceKeeps
  <2> QED
    BY <2>3, <2>4
<1>4. (NoSnapshot /\ Unrefreshed /\ FreshStart /\ Journaled)'
  BY <1>1, <1>2, <1>3 DEF DenialInv, NoSnapshot, Unrefreshed, FreshStart, Journaled, Same, Drained
<1>5. Noted'
  BY <1>1, <1>2, <1>3 DEF DenialInv, Noted, Same, Recorded, IsTerminal, Drained
<1>6. Halted'
  BY <1>1, <1>2, <1>3 DEF DenialInv, Halted, Same, Recorded, Drained
<1>7. Undisturbed'
  BY <1>1, <1>2, <1>3 DEF DenialInv, Undisturbed, Same, Recorded, Going, Closed, Steady, Resting, SpawnOf,
     IsTerminal, Drained
<1>8. Refused'
  BY <1>1, <1>2, <1>3 DEF DenialInv, Refused, Same, Drained
<1> QED
  BY <1>4, <1>5, <1>6, <1>7, <1>8 DEF DenialInv

\* The prompt becomes visible.
LEMMA FinishSuspensionDenial ==
  ASSUME ConfirmedRun, TypeOK, SingleWriter, DenialInv, NEW s \in Services, Services = {s},
         FinishSuspension(s)
  PROVE  DenialInv'
<1>1. journal \in RunState /\ ~Fault /\ task[s].at = "finish" /\ mem[s].tracked /\ task[s].progress = "suspended" /\ lease = <<"task", s>>
  BY Unfailing DEF TypeOK, SingleWriter, FinishSuspension, Finishing
<1>2. UNCHANGED <<mailbox, process, slot, canceled, spawns, cancel, preempt, shutdown, denial, refresh>>
  BY DEF FinishSuspension, calls
<1>3. /\ Same(journal, journal') /\ journal'.terminal = journal.terminal
      /\ mem'[s].tracked = mem[s].tracked /\ mem'[s].token = mem[s].token
      /\ mem'[s].preempted = mem[s].preempted /\ mem'[s].yield = mem[s].yield
  <2>1. journal' = journal \/ journal' = [journal EXCEPT !.last = "other"]
    BY DEF FinishSuspension
  <2>2. Same(journal, journal') /\ journal'.terminal = journal.terminal
    <3>1. CASE journal' = journal
      BY <3>1 DEF Same
    <3>2. CASE journal' = [journal EXCEPT !.last = "other"]
      BY <1>1, <3>2, NoteKeeps
    <3> QED
      BY <2>1, <3>1, <3>2
  <2>3. \/ mem' = mem \/ mem' = [mem EXCEPT ![s].state = "waiting"]
        \/ mem' = [mem EXCEPT ![s].state = "confirming"]
    BY DEF FinishSuspension
  <2> QED
    BY <2>2, <2>3 DEF TypeOK, RunRecord
<1>4. journal.open => journal.asked \in Confirmations
  BY <1>1 DEF ConfirmedRun, DenialInv, Journaled, RunState
<1>5. /\ ~task'[s].snapshot
      /\ \/ task'[s].at = "exiting" /\ mem' = mem /\ IsTerminal(s)
         \/ task'[s].at = "requeue" /\ mem' = mem /\ ~journal.open
         \/ task'[s].at = "exiting" /\ mem'[s].state = "confirming" /\ journal.open
  <2>1. CASE Exit(s) /\ mem' = mem /\ IsTerminal(s)
    BY <2>1, ExitMoves
  <2>2. CASE Goto(s, "requeue") /\ mem' = mem /\ ~journal.open
    BY <2>2, GotoMoves DEF DenialInv, NoSnapshot
  <2>3. CASE Exit(s) /\ mem' = [mem EXCEPT ![s].state = "confirming"] /\ journal.open
    <3>1. mem'[s].state = "confirming"
      BY <2>3 DEF TypeOK, RunRecord
    <3> QED
      BY <2>3, <3>1, ExitMoves
  <2> QED
    BY <1>1, <1>4, <2>1, <2>2, <2>3 DEF FinishSuspension
<1>6. "running" \notin Settled /\ "confirming" \notin Settled
  BY DEF Settled, Terminals, Final
<1>7. (NoSnapshot /\ Unrefreshed /\ FreshStart /\ Journaled)'
  BY <1>1, <1>2, <1>3, <1>4, <1>5, <1>6 DEF DenialInv, NoSnapshot, Unrefreshed, FreshStart, Journaled, Same, Drained
<1>8. Noted'
  BY <1>1, <1>2, <1>3, <1>4, <1>5, <1>6 DEF DenialInv, Noted, Same, Recorded, IsTerminal, Drained
<1>9. Halted'
  BY <1>1, <1>2, <1>3, <1>4, <1>5, <1>6 DEF DenialInv, Halted, Same, Recorded, Drained
<1>10. Undisturbed'
  <2>1. SUFFICES ASSUME Going(s)'
                 PROVE  Steady(s)'
    BY DEF Undisturbed
  <2>2. Going(s)
    BY <1>1, <1>2, <1>3, <1>4, <1>5, <1>6, <2>1 DEF Going, Closed, Recorded, Same, Drained, DenialInv, Halted
  <2>3. Steady(s)
    BY <2>2 DEF DenialInv, Undisturbed
  <2>4. /\ ~Closed /\ mailbox = {} /\ journal.terminal = "none" /\ ~journal.cancel_requested
        /\ mem[s].state \in {"queued", "running", "confirming"} /\ ~IsTerminal(s)
    BY <2>2, <2>3 DEF Going, Closed, Recorded, Steady, IsTerminal, Settled, Terminals, Final
  <2> QED
    BY <1>1, <1>2, <1>3, <1>4, <1>5, <1>6, <2>1, <2>2, <2>3, <2>4 DEF Going, Steady, Resting, SpawnOf, Same
<1>11. Refused'
  BY <1>1, <1>2, <1>3, <1>4, <1>5, <1>6 DEF DenialInv, Refused, Same, Drained
<1> QED
  BY <1>7, <1>8, <1>9, <1>10, <1>11 DEF DenialInv

\* An answered suspension is requeued; a confirmation never is.
LEMMA TaskRequeueDenial ==
  ASSUME ConfirmedRun, TypeOK, SingleWriter, DenialInv, NEW s \in Services, Services = {s},
         TaskRequeue(s)
  PROVE  DenialInv'
<1>1. journal \in RunState /\ ~Fault /\ task[s].at = "requeue"
  BY Unfailing DEF TypeOK, SingleWriter, TaskRequeue
<1>2. UNCHANGED <<journal, mailbox, process, slot, canceled, cancel, preempt, shutdown, denial, refresh>>
  BY DEF TaskRequeue, calls
<1>3. task'[s].at = "exiting" /\ ~task'[s].snapshot
  BY ExitMoves DEF TaskRequeue
<1>4. \A r \in spawns'[s] : ~r.snapshot
  BY DEF TaskRequeue, SpawnOf, TypeOK, DenialInv, NoSnapshot
<1>5. mem' = mem \/ (mem'[s].tracked = mem[s].tracked /\ mem'[s].state = "queued")
  <2>1. mem' = mem \/ mem' = [mem EXCEPT ![s] = Requeued(@)]
    BY <1>1 DEF TaskRequeue
  <2> QED
    BY <2>1, RequeuedFields
<1>6. "queued" \notin Settled
  BY DEF Settled, Terminals, Final
<1>7. (NoSnapshot /\ Unrefreshed /\ FreshStart /\ Journaled)'
  BY <1>1, <1>2, <1>3, <1>4, <1>5, <1>6 DEF DenialInv, NoSnapshot, Unrefreshed, FreshStart, Journaled, Same, Drained
<1>8. Noted'
  BY <1>1, <1>2, <1>3, <1>4, <1>5, <1>6 DEF DenialInv, Noted, Same, Recorded, IsTerminal, Drained
<1>9. Halted'
  BY <1>1, <1>2, <1>3, <1>4, <1>5, <1>6 DEF DenialInv, Halted, Same, Recorded, Drained
<1>10. Undisturbed'
  BY <1>1, <1>2, <1>3, <1>4, <1>5, <1>6 DEF DenialInv, Undisturbed, Same, Recorded, Going, Closed, Steady, Resting, SpawnOf,
     IsTerminal, Drained
<1>11. Refused'
  BY <1>1, <1>2, <1>3, <1>4, <1>5, <1>6 DEF DenialInv, Refused, Same, Drained
<1> QED
  BY <1>7, <1>8, <1>9, <1>10, <1>11 DEF DenialInv

\* Memory follows the journal.
LEMMA TaskCommitDenial ==
  ASSUME ConfirmedRun, TypeOK, SingleWriter, DenialInv, NEW s \in Services, Services = {s},
         TaskCommit(s)
  PROVE  DenialInv'
<1>1. journal \in RunState /\ ~Fault /\ task[s].at = "commit"
  BY Unfailing DEF TypeOK, SingleWriter, TaskCommit
<1>2. UNCHANGED <<journal, mailbox, process, slot, canceled, spawns, cancel, preempt, shutdown, denial, refresh>>
  BY DEF TaskCommit, calls
<1>3. /\ ~task'[s].snapshot
      /\ task'[s].at = "exiting" \/ task'[s].at = "finish"
  BY <1>1, ExitMoves, AgainMoves DEF TaskCommit, DenialInv, NoSnapshot
<1>4. ~journal.denied /\ Recorded
  BY <1>1 DEF DenialInv, Refused, Noted
<1>5. (NoSnapshot /\ Unrefreshed /\ FreshStart /\ Journaled)'
  BY <1>1, <1>2, <1>3, <1>4 DEF DenialInv, NoSnapshot, Unrefreshed, FreshStart, Journaled, Same, Drained
<1>6. Noted'
  BY <1>1, <1>2, <1>3, <1>4 DEF DenialInv, Noted, Same, Recorded, IsTerminal, Drained
<1>7. Halted'
  BY <1>1, <1>2, <1>3, <1>4 DEF DenialInv, Halted, Same, Recorded, Drained
<1>8. Undisturbed'
  BY <1>1, <1>2, <1>3, <1>4 DEF DenialInv, Undisturbed, Same, Recorded, Going, Closed, Steady, Resting, SpawnOf,
     IsTerminal, Drained
<1>9. Refused'
  BY <1>1, <1>2, <1>3, <1>4 DEF DenialInv, Refused, Same, Drained
<1> QED
  BY <1>5, <1>6, <1>7, <1>8, <1>9 DEF DenialInv

\* finish_canceled_run consumes the mailbox.
LEMMA TaskCancelDrainDenial ==
  ASSUME ConfirmedRun, TypeOK, SingleWriter, DenialInv, NEW s \in Services, Services = {s},
         TaskCancelDrain(s)
  PROVE  DenialInv'
<1>1. journal \in RunState /\ ~Fault /\ task[s].at = "cancel_drain"
  BY Unfailing DEF TypeOK, SingleWriter, TaskCancelDrain
<1>2. UNCHANGED <<process, mem, slot, canceled, spawns, cancel, preempt, shutdown, denial, refresh>>
  BY DEF TaskCancelDrain, local, calls
<1>3. task'[s].at \in {"cancel_append", "exiting"} /\ ~task'[s].snapshot
  BY <1>1, GotoMoves, ExitMoves DEF TaskCancelDrain, DenialInv, NoSnapshot
<1>4. Drained
  BY <1>1, DrainRecords DEF TaskCancelDrain
<1>5. (NoSnapshot /\ Unrefreshed /\ FreshStart /\ Journaled)'
  BY <1>1, <1>2, <1>3, <1>4 DEF DenialInv, NoSnapshot, Unrefreshed, FreshStart, Journaled, Same, Drained
<1>6. Noted'
  BY <1>1, <1>2, <1>3, <1>4 DEF DenialInv, Noted, Same, Recorded, IsTerminal, Drained
<1>7. Halted'
  BY <1>1, <1>2, <1>3, <1>4 DEF DenialInv, Halted, Same, Recorded, Drained
<1>8. Undisturbed'
  BY <1>1, <1>2, <1>3, <1>4 DEF DenialInv, Undisturbed, Same, Recorded, Going, Closed, Steady, Resting, SpawnOf,
     IsTerminal, Drained
<1>9. Refused'
  BY <1>1, <1>2, <1>3, <1>4 DEF DenialInv, Refused, Same, Drained
<1> QED
  BY <1>5, <1>6, <1>7, <1>8, <1>9 DEF DenialInv

\* It writes the missing outcome.
LEMMA TaskCancelAppendDenial ==
  ASSUME ConfirmedRun, TypeOK, SingleWriter, DenialInv, NEW s \in Services, Services = {s},
         TaskCancelAppend(s)
  PROVE  DenialInv'
<1>1. journal \in RunState /\ ~Fault /\ task[s].at = "cancel_append"
  BY Unfailing DEF TypeOK, SingleWriter, TaskCancelAppend
<1>2. UNCHANGED <<mailbox, process, mem, slot, canceled, spawns, cancel, preempt, shutdown, denial, refresh>>
  BY DEF TaskCancelAppend, local, calls
<1>3. task'[s].at = "cancel_commit" /\ ~task'[s].snapshot
  BY <1>1, NoteMoves DEF TaskCancelAppend, DenialInv, NoSnapshot
<1>4. /\ Same(journal, journal') /\ journal'.terminal # "none"
      /\ journal.terminal # "none" => journal'.terminal = journal.terminal
  BY <1>1, OnceKeeps DEF TaskCancelAppend, CancelOutcome
<1>5. (NoSnapshot /\ Unrefreshed /\ FreshStart /\ Journaled)'
  BY <1>1, <1>2, <1>3, <1>4 DEF DenialInv, NoSnapshot, Unrefreshed, FreshStart, Journaled, Same, Drained
<1>6. Noted'
  BY <1>1, <1>2, <1>3, <1>4 DEF DenialInv, Noted, Same, Recorded, IsTerminal, Drained
<1>7. Halted'
  BY <1>1, <1>2, <1>3, <1>4 DEF DenialInv, Halted, Same, Recorded, Drained
<1>8. Undisturbed'
  BY <1>1, <1>2, <1>3, <1>4 DEF DenialInv, Undisturbed, Same, Recorded, Going, Closed, Steady, Resting, SpawnOf,
     IsTerminal, Drained
<1>9. Refused'
  BY <1>1, <1>2, <1>3, <1>4 DEF DenialInv, Refused, Same, Drained
<1> QED
  BY <1>5, <1>6, <1>7, <1>8, <1>9 DEF DenialInv

\* Memory follows.
LEMMA TaskCancelCommitDenial ==
  ASSUME ConfirmedRun, TypeOK, SingleWriter, DenialInv, NEW s \in Services, Services = {s},
         TaskCancelCommit(s)
  PROVE  DenialInv'
<1>1. journal \in RunState /\ ~Fault /\ task[s].at = "cancel_commit"
  BY Unfailing DEF TypeOK, SingleWriter, TaskCancelCommit
<1>2. UNCHANGED <<journal, mailbox, process, slot, canceled, spawns, cancel, preempt, shutdown, denial, refresh>>
  BY DEF TaskCancelCommit, calls
<1>3. task'[s].at = "exiting" /\ ~task'[s].snapshot
  BY ExitMoves DEF TaskCancelCommit
<1>4. ~journal.denied /\ Recorded
  BY <1>1 DEF DenialInv, Refused, Noted
<1>5. (NoSnapshot /\ Unrefreshed /\ FreshStart /\ Journaled)'
  BY <1>1, <1>2, <1>3, <1>4 DEF DenialInv, NoSnapshot, Unrefreshed, FreshStart, Journaled, Same, Drained
<1>6. Noted'
  BY <1>1, <1>2, <1>3, <1>4 DEF DenialInv, Noted, Same, Recorded, IsTerminal, Drained
<1>7. Halted'
  BY <1>1, <1>2, <1>3, <1>4 DEF DenialInv, Halted, Same, Recorded, Drained
<1>8. Undisturbed'
  BY <1>1, <1>2, <1>3, <1>4 DEF DenialInv, Undisturbed, Same, Recorded, Going, Closed, Steady, Resting, SpawnOf,
     IsTerminal, Drained
<1>9. Refused'
  BY <1>1, <1>2, <1>3, <1>4 DEF DenialInv, Refused, Same, Drained
<1> QED
  BY <1>5, <1>6, <1>7, <1>8, <1>9 DEF DenialInv

\* settle_queued_cancel consumes the mailbox.
LEMMA TaskSettleDrainDenial ==
  ASSUME ConfirmedRun, TypeOK, SingleWriter, DenialInv, NEW s \in Services, Services = {s},
         TaskSettleDrain(s)
  PROVE  DenialInv'
<1>1. journal \in RunState /\ ~Fault /\ task[s].at = "settle_drain"
  BY Unfailing DEF TypeOK, SingleWriter, TaskSettleDrain
<1>2. UNCHANGED <<process, mem, slot, canceled, spawns, cancel, preempt, shutdown, denial, refresh>>
  BY DEF TaskSettleDrain, local, calls
<1>3. task'[s].at \in {"settle_append", "exiting"} /\ ~task'[s].snapshot
  BY <1>1, GotoMoves, ExitMoves DEF TaskSettleDrain, DenialInv, NoSnapshot
<1>4. Drained
  BY <1>1, DrainRecords DEF TaskSettleDrain
<1>5. (NoSnapshot /\ Unrefreshed /\ FreshStart /\ Journaled)'
  BY <1>1, <1>2, <1>3, <1>4 DEF DenialInv, NoSnapshot, Unrefreshed, FreshStart, Journaled, Same, Drained
<1>6. Noted'
  BY <1>1, <1>2, <1>3, <1>4 DEF DenialInv, Noted, Same, Recorded, IsTerminal, Drained
<1>7. Halted'
  BY <1>1, <1>2, <1>3, <1>4 DEF DenialInv, Halted, Same, Recorded, Drained
<1>8. Undisturbed'
  BY <1>1, <1>2, <1>3, <1>4 DEF DenialInv, Undisturbed, Same, Recorded, Going, Closed, Steady, Resting, SpawnOf,
     IsTerminal, Drained
<1>9. Refused'
  BY <1>1, <1>2, <1>3, <1>4 DEF DenialInv, Refused, Same, Drained
<1> QED
  BY <1>5, <1>6, <1>7, <1>8, <1>9 DEF DenialInv

\* It writes the outcome.
LEMMA TaskSettleAppendDenial ==
  ASSUME ConfirmedRun, TypeOK, SingleWriter, DenialInv, NEW s \in Services, Services = {s},
         TaskSettleAppend(s)
  PROVE  DenialInv'
<1>1. journal \in RunState /\ ~Fault /\ task[s].at = "settle_append"
  BY Unfailing DEF TypeOK, SingleWriter, TaskSettleAppend
<1>2. UNCHANGED <<mailbox, process, canceled, spawns, cancel, preempt, shutdown, denial, refresh>>
  BY DEF TaskSettleAppend, calls
<1>3. CancelOutcome(s) # "none" /\ ~task[s].snapshot
  BY DEF CancelOutcome, DenialInv, NoSnapshot
<1>4. /\ task'[s].at \in {"settle_commit", "exiting"} /\ ~task'[s].snapshot
      /\ Same(journal, journal')
      /\ journal.terminal # "none" => journal'.terminal = journal.terminal
      /\ task'[s].at = "settle_commit" => journal'.terminal # "none" /\ mem' = mem
      /\ journal.terminal = "none" => mem' = mem
  <2>1. CASE journal.terminal # "none" /\ Exit(s) /\ journal' = journal
    BY <2>1, ExitMoves DEF Same
  <2>2. CASE journal.terminal = "none" /\ Exit(s) /\ UNCHANGED <<journal, mem>>
    BY <2>2, ExitMoves DEF Same
  <2>3. CASE /\ journal.terminal = "none" /\ journal' = Settle(journal, CancelOutcome(s)) /\ mem' = mem
             /\ task' = [task EXCEPT ![s].at = "settle_commit", ![s].outcome = CancelOutcome(s)]
    <3>1. task'[s].at = "settle_commit" /\ ~task'[s].snapshot
      BY <1>3, <2>3, NoteMoves
    <3>2. Same(journal, journal') /\ journal'.terminal = CancelOutcome(s)
      BY <1>1, <2>3, SettleKeeps
    <3> QED
      BY <1>3, <2>3, <3>1, <3>2
  <2> QED
    BY <1>1, <2>1, <2>2, <2>3 DEF TaskSettleAppend
<1>5. (NoSnapshot /\ Unrefreshed /\ FreshStart /\ Journaled)'
  BY <1>1, <1>2, <1>3, <1>4 DEF DenialInv, NoSnapshot, Unrefreshed, FreshStart, Journaled, Same, Drained
<1>6. Noted'
  BY <1>1, <1>2, <1>3, <1>4 DEF DenialInv, Noted, Same, Recorded, IsTerminal, Drained
<1>7. Halted'
  BY <1>1, <1>2, <1>3, <1>4 DEF DenialInv, Halted, Same, Recorded, Drained
<1>8. Undisturbed'
  BY <1>1, <1>2, <1>3, <1>4 DEF DenialInv, Undisturbed, Same, Recorded, Going, Closed, Steady, Resting, SpawnOf,
     IsTerminal, Drained
<1>9. Refused'
  BY <1>1, <1>2, <1>3, <1>4 DEF DenialInv, Refused, Same, Drained
<1> QED
  BY <1>5, <1>6, <1>7, <1>8, <1>9 DEF DenialInv

\* Memory follows.
LEMMA TaskSettleCommitDenial ==
  ASSUME ConfirmedRun, TypeOK, SingleWriter, DenialInv, NEW s \in Services, Services = {s},
         TaskSettleCommit(s)
  PROVE  DenialInv'
<1>1. journal \in RunState /\ ~Fault /\ task[s].at = "settle_commit"
  BY Unfailing DEF TypeOK, SingleWriter, TaskSettleCommit
<1>2. UNCHANGED <<journal, mailbox, process, canceled, spawns, cancel, preempt, shutdown, denial, refresh>>
  BY DEF TaskSettleCommit, calls
<1>3. task'[s].at = "exiting" /\ ~task'[s].snapshot
  BY ExitMoves DEF TaskSettleCommit
<1>4. ~journal.denied /\ Recorded
  BY <1>1 DEF DenialInv, Refused, Noted
<1>5. (NoSnapshot /\ Unrefreshed /\ FreshStart /\ Journaled)'
  BY <1>1, <1>2, <1>3, <1>4 DEF DenialInv, NoSnapshot, Unrefreshed, FreshStart, Journaled, Same, Drained
<1>6. Noted'
  BY <1>1, <1>2, <1>3, <1>4 DEF DenialInv, Noted, Same, Recorded, IsTerminal, Drained
<1>7. Halted'
  BY <1>1, <1>2, <1>3, <1>4 DEF DenialInv, Halted, Same, Recorded, Drained
<1>8. Undisturbed'
  BY <1>1, <1>2, <1>3, <1>4 DEF DenialInv, Undisturbed, Same, Recorded, Going, Closed, Steady, Resting, SpawnOf,
     IsTerminal, Drained
<1>9. Refused'
  BY <1>1, <1>2, <1>3, <1>4 DEF DenialInv, Refused, Same, Drained
<1> QED
  BY <1>5, <1>6, <1>7, <1>8, <1>9 DEF DenialInv

\* The task is gone and its joiners are woken.
LEMMA TaskFinishedDenial ==
  ASSUME ConfirmedRun, TypeOK, SingleWriter, DenialInv, NEW s \in Services, Services = {s},
         TaskFinished(s)
  PROVE  DenialInv'
<1>1. journal \in RunState /\ ~Fault /\ task[s].at = "exiting"
  BY Unfailing DEF TypeOK, SingleWriter, TaskFinished
<1>2. UNCHANGED <<journal, mailbox, process, mem, slot, canceled, spawns, denial, refresh>>
  BY DEF TaskFinished, shared, local
<1>3. task'[s].at = "idle" /\ ~task'[s].snapshot
  BY GotoMoves DEF TaskFinished, DenialInv, NoSnapshot
<1>4. \A op \in Operations :
         cancel'[op].at = cancel[op].at \/ (cancel[op].at = "join" /\ cancel'[op].at = "joined")
  BY DEF TaskFinished, WakeJoiners, Woken, TypeOK, CancelCall
<1>5. /\ preempt'[s].resume = preempt[s].resume
      /\ preempt'[s].at = preempt[s].at \/ (preempt[s].at = "join" /\ preempt'[s].at = "joined")
      /\ shutdown'[s].at = shutdown[s].at \/ (shutdown[s].at = "join" /\ shutdown'[s].at = "joined")
  BY DEF TaskFinished, WakeJoiners, Woken, TypeOK, PreemptCall, ShutdownCall
<1>6. "joined" \notin Settling
  BY DEF Settling
<1>7. (NoSnapshot /\ Unrefreshed /\ FreshStart /\ Journaled)'
  BY <1>1, <1>2, <1>3, <1>4, <1>5, <1>6 DEF DenialInv, NoSnapshot, Unrefreshed, FreshStart, Journaled, Same, Drained
<1>8. Noted'
  BY <1>1, <1>2, <1>3, <1>4, <1>5, <1>6 DEF DenialInv, Noted, Same, Recorded, IsTerminal, Drained
<1>9. Halted'
  BY <1>1, <1>2, <1>3, <1>4, <1>5, <1>6 DEF DenialInv, Halted, Same, Recorded, Drained
<1>10. Undisturbed'
  BY <1>1, <1>2, <1>3, <1>4, <1>5, <1>6 DEF DenialInv, Undisturbed, Same, Recorded, Going, Closed, Steady, Resting, SpawnOf,
     IsTerminal, Drained
<1>11. Refused'
  BY <1>1, <1>2, <1>3, <1>4, <1>5, <1>6 DEF DenialInv, Refused, Same, Drained
<1> QED
  BY <1>7, <1>8, <1>9, <1>10, <1>11 DEF DenialInv

\* A join times out.
LEMMA JoinTimeoutDenial ==
  ASSUME ConfirmedRun, TypeOK, SingleWriter, DenialInv, NEW s \in Services, Services = {s},
         JoinTimeout(s)
  PROVE  DenialInv'
<1>1. journal \in RunState /\ ~Fault
  BY Unfailing DEF TypeOK
<1>2. UNCHANGED <<mailbox, process, mem, slot, canceled, spawns, denial, refresh>>
  BY DEF JoinTimeout, local
<1>3. task'[s].at = "idle" /\ ~task'[s].snapshot
  BY EndMoves DEF JoinTimeout, AbortTask
<1>4. \A op \in Operations :
         cancel'[op].at = cancel[op].at \/ (cancel[op].at = "join" /\ cancel'[op].at = "aborted")
  BY DEF JoinTimeout, TypeOK, CancelCall
<1>5. /\ preempt'[s].resume = preempt[s].resume
      /\ preempt'[s].at = preempt[s].at \/ (preempt[s].at = "join" /\ preempt'[s].at = "joined")
      /\ shutdown'[s].at = shutdown[s].at \/ (shutdown[s].at = "join" /\ shutdown'[s].at = "settle")
  BY DEF JoinTimeout, Woken, TypeOK, PreemptCall, ShutdownCall
<1>6. "joined" \notin Settling
  BY DEF Settling
<1>7. (\E op \in Operations : cancel[op].at = "join") \/ shutdown[s].at = "join"
  BY DEF JoinTimeout, Overdue, ConfirmedRun
<1>8. Same(journal, journal') /\ journal'.terminal = journal.terminal
  BY <1>1, LostKeeps DEF JoinTimeout, AbortTask
<1>9. (NoSnapshot /\ Unrefreshed /\ FreshStart /\ Journaled)'
  BY <1>1, <1>2, <1>3, <1>4, <1>5, <1>6, <1>7, <1>8 DEF DenialInv, NoSnapshot, Unrefreshed, FreshStart, Journaled, Same, Drained
<1>10. Noted'
  BY <1>1, <1>2, <1>3, <1>4, <1>5, <1>6, <1>7, <1>8 DEF DenialInv, Noted, Same, Recorded, IsTerminal, Drained
<1>11. Halted'
  BY <1>1, <1>2, <1>3, <1>4, <1>5, <1>6, <1>7, <1>8 DEF DenialInv, Halted, Same, Recorded, Drained
<1>12. Undisturbed'
  <2>1. SUFFICES ASSUME Going(s)'
                 PROVE  Steady(s)'
    BY DEF Undisturbed
  <2>2. Going(s)
    BY <1>1, <1>2, <1>3, <1>4, <1>5, <1>6, <1>7, <1>8, <2>1 DEF Going, Closed, Recorded, Same, Drained, DenialInv, Halted
  <2>3. Steady(s)
    BY <2>2 DEF DenialInv, Undisturbed
  <2>4. /\ ~Closed /\ mailbox = {} /\ journal.terminal = "none" /\ ~journal.cancel_requested
        /\ mem[s].state \in {"queued", "running", "confirming"} /\ ~IsTerminal(s)
    BY <2>2, <2>3 DEF Going, Closed, Recorded, Steady, IsTerminal, Settled, Terminals, Final
  <2> QED
    BY <1>7, <2>2, <2>3 DEF Steady, Going, DenialInv, Halted
<1>13. Refused'
  BY <1>1, <1>2, <1>3, <1>4, <1>5, <1>6, <1>7, <1>8 DEF DenialInv, Refused, Same, Drained
<1> QED
  BY <1>9, <1>10, <1>11, <1>12, <1>13 DEF DenialInv

\* The lease is free: the task starts.
LEMMA SpawnStartsDenial ==
  ASSUME ConfirmedRun, TypeOK, SingleWriter, DenialInv, NEW s \in Services, Services = {s},
         SpawnStarts(s)
  PROVE  DenialInv'
<1>1. journal \in RunState /\ ~Fault /\ process[s] = "up" /\ task[s].at = "idle" /\ lease = NoLease
  BY Unfailing DEF TypeOK, SingleWriter, SpawnStarts
<1>2. UNCHANGED <<journal, mailbox, process, mem, canceled, cancel, preempt, shutdown, denial, refresh>>
  BY DEF SpawnStarts, calls
<1>3. PICK r \in spawns[s] :
         /\ spawns' = [spawns EXCEPT ![s] = @ \ {r}]
         /\ task' = [task EXCEPT ![s] = [NoTask EXCEPT !.at = "reconcile",
                                            !.token = r.token, !.snapshot = r.snapshot]]
  BY DEF SpawnStarts
<1>4. /\ spawns'[s] = spawns[s] \ {r} /\ slot'[s]
      /\ task'[s].at = "reconcile" /\ ~task'[s].snapshot
  BY <1>3 DEF SpawnStarts, TypeOK, NoTask, DenialInv, NoSnapshot
<1>5. preempt[s].at # "release"
  BY <1>1 DEF SingleWriter, NoLease
<1>6. (NoSnapshot /\ Unrefreshed /\ FreshStart /\ Journaled)'
  BY <1>1, <1>2, <1>3, <1>4, <1>5 DEF DenialInv, NoSnapshot, Unrefreshed, FreshStart, Journaled, Same, Drained
<1>7. Noted'
  BY <1>1, <1>2, <1>3, <1>4, <1>5 DEF DenialInv, Noted, Same, Recorded, IsTerminal, Drained
<1>8. Halted'
  BY <1>1, <1>2, <1>3, <1>4, <1>5 DEF DenialInv, Halted, Same, Recorded, Drained
<1>9. Undisturbed'
  <2>1. SUFFICES ASSUME Going(s)'
                 PROVE  Steady(s)'
    BY DEF Undisturbed
  <2>2. Going(s)
    BY <1>1, <1>2, <1>3, <1>4, <1>5, <2>1 DEF Going, Closed, Recorded, Same, Drained, DenialInv, Halted
  <2>3. Steady(s)
    BY <2>2 DEF DenialInv, Undisturbed
  <2>4. /\ ~Closed /\ mailbox = {} /\ journal.terminal = "none" /\ ~journal.cancel_requested
        /\ mem[s].state \in {"queued", "running", "confirming"} /\ ~IsTerminal(s)
    BY <2>2, <2>3 DEF Going, Closed, Recorded, Steady, IsTerminal, Settled, Terminals, Final
  <2>5. spawns'[s] = {} /\ ~preempt[s].resume /\ mem[s].state = "queued" /\ ~journal.open
    BY <1>3, <1>4, <1>5, <2>3 DEF Steady
  <2> QED
    BY <1>2, <1>4, <2>3, <2>5 DEF Steady, Resting
<1>10. Refused'
  BY <1>1, <1>2, <1>3, <1>4, <1>5 DEF DenialInv, Refused, Same, Drained
<1> QED
  BY <1>6, <1>7, <1>8, <1>9, <1>10 DEF DenialInv

\* The slot is still live: the request is lost.
LEMMA SpawnAbortsDenial ==
  ASSUME ConfirmedRun, TypeOK, SingleWriter, DenialInv, NEW s \in Services, Services = {s},
         SpawnAborts(s)
  PROVE  DenialInv'
<1>1. journal \in RunState /\ ~Fault /\ process[s] = "up"
  BY Unfailing DEF TypeOK, SingleWriter, SpawnAborts
<1>2. UNCHANGED <<journal, mailbox, process, mem, slot, canceled, task, cancel, preempt, shutdown, denial, refresh>>
  BY DEF SpawnAborts, shared, calls
<1>3. spawns'[s] \subseteq spawns[s]
  BY DEF SpawnAborts, TypeOK
<1>4. (NoSnapshot /\ Unrefreshed /\ FreshStart /\ Journaled)'
  BY <1>1, <1>2, <1>3 DEF DenialInv, NoSnapshot, Unrefreshed, FreshStart, Journaled, Same, Drained
<1>5. Noted'
  BY <1>1, <1>2, <1>3 DEF DenialInv, Noted, Same, Recorded, IsTerminal, Drained
<1>6. Halted'
  BY <1>1, <1>2, <1>3 DEF DenialInv, Halted, Same, Recorded, Drained
<1>7. Undisturbed'
  <2>1. SUFFICES ASSUME Going(s)'
                 PROVE  Steady(s)'
    BY DEF Undisturbed
  <2>2. Going(s)
    BY <1>1, <1>2, <1>3, <2>1 DEF Going, Closed, Recorded, Same, Drained, DenialInv, Halted
  <2>3. Steady(s)
    BY <2>2 DEF DenialInv, Undisturbed
  <2>4. /\ ~Closed /\ mailbox = {} /\ journal.terminal = "none" /\ ~journal.cancel_requested
        /\ mem[s].state \in {"queued", "running", "confirming"} /\ ~IsTerminal(s)
    BY <2>2, <2>3 DEF Going, Closed, Recorded, Steady, IsTerminal, Settled, Terminals, Final
  <2> QED
    BY <1>1, <1>2, <1>3, <2>1, <2>2, <2>3, <2>4 DEF Going, Steady, Resting, SpawnOf, Same
<1>8. Refused'
  BY <1>1, <1>2, <1>3 DEF DenialInv, Refused, Same, Drained
<1> QED
  BY <1>4, <1>5, <1>6, <1>7, <1>8 DEF DenialInv

\* The request is dropped.
LEMMA SpawnGivesUpDenial ==
  ASSUME ConfirmedRun, TypeOK, SingleWriter, DenialInv, NEW s \in Services, Services = {s},
         SpawnGivesUp(s)
  PROVE  DenialInv'
<1>1. journal \in RunState
  BY DEF TypeOK
<1>2. UNCHANGED <<journal, mailbox, process, mem, slot, canceled, task, cancel, preempt, shutdown, denial, refresh>>
  BY DEF SpawnGivesUp, shared, calls
<1>3. spawns'[s] \subseteq spawns[s]
  BY DEF SpawnGivesUp, TypeOK
<1>4. (NoSnapshot /\ Unrefreshed /\ FreshStart /\ Journaled)'
  BY <1>1, <1>2, <1>3 DEF DenialInv, NoSnapshot, Unrefreshed, FreshStart, Journaled, Same, Drained
<1>5. Noted'
  BY <1>1, <1>2, <1>3 DEF DenialInv, Noted, Same, Recorded, IsTerminal, Drained
<1>6. Halted'
  BY <1>1, <1>2, <1>3 DEF DenialInv, Halted, Same, Recorded, Drained
<1>7. Undisturbed'
  <2>1. SUFFICES ASSUME Going(s)'
                 PROVE  Steady(s)'
    BY DEF Undisturbed
  <2>2. Going(s)
    BY <1>1, <1>2, <1>3, <2>1 DEF Going, Closed, Recorded, Same, Drained, DenialInv, Halted
  <2>3. Steady(s)
    BY <2>2 DEF DenialInv, Undisturbed
  <2>4. /\ ~Closed /\ mailbox = {} /\ journal.terminal = "none" /\ ~journal.cancel_requested
        /\ mem[s].state \in {"queued", "running", "confirming"} /\ ~IsTerminal(s)
    BY <2>2, <2>3 DEF Going, Closed, Recorded, Steady, IsTerminal, Settled, Terminals, Final
  <2> QED
    BY <1>1, <1>2, <1>3, <2>1, <2>2, <2>3, <2>4 DEF Going, Steady, Resting, SpawnOf, Same
<1>8. Refused'
  BY <1>1, <1>2, <1>3 DEF DenialInv, Refused, Same, Drained
<1> QED
  BY <1>4, <1>5, <1>6, <1>7, <1>8 DEF DenialInv

\* A cancel call begins.
LEMMA CancelBeginDenial ==
  ASSUME ConfirmedRun, TypeOK, SingleWriter, DenialInv, NEW s \in Services, Services = {s}, NEW op \in Operations,
         CancelBegin(op, s)
  PROVE  DenialInv'
<1>1. journal \in RunState /\ op # s
  BY IdentityAssumption DEF TypeOK
<1>2. UNCHANGED <<journal, process, mem, slot, canceled, spawns, task, preempt, shutdown, refresh>>
  BY DEF CancelBegin, local
<1>3. /\ denial' = denial \/ journal.denied
      /\ mailbox' = mailbox \/ (mailbox' = mailbox \ {op} /\ Recorded)
      /\ cancel' = cancel \/ (~journal.denied /\ cancel' = [cancel EXCEPT ![op] =
            [at |-> "publish", on |-> s, fresh |-> FALSE, outcome |-> "queued"]])
  BY DEF CancelBegin, Denied, Recorded, DenialInv, Journaled
<1>4. \A o \in Operations : cancel'[o].at = cancel[o].at \/ cancel'[o].at = "publish"
  BY <1>3 DEF TypeOK
<1>5. (NoSnapshot /\ Unrefreshed /\ FreshStart /\ Journaled)'
  BY <1>1, <1>2, <1>3, <1>4 DEF DenialInv, NoSnapshot, Unrefreshed, FreshStart, Journaled, Same, Drained
<1>6. Noted'
  BY <1>1, <1>2, <1>3, <1>4 DEF DenialInv, Noted, Same, Recorded, IsTerminal, Drained
<1>7. Halted'
  BY <1>1, <1>2, <1>3, <1>4 DEF DenialInv, Halted, Same, Recorded, Drained
<1>8. Undisturbed'
  BY <1>1, <1>2, <1>3, <1>4 DEF DenialInv, Undisturbed, Same, Recorded, Going, Closed, Steady, Resting, SpawnOf,
     IsTerminal, Drained
<1>9. Refused'
  BY <1>1, <1>2, <1>3, <1>4 DEF DenialInv, Refused, Same, Drained
<1> QED
  BY <1>5, <1>6, <1>7, <1>8, <1>9 DEF DenialInv

\* The control file is published.
LEMMA CancelPublishDenial ==
  ASSUME ConfirmedRun, TypeOK, SingleWriter, DenialInv, NEW s \in Services, Services = {s}, NEW op \in Operations,
         CancelPublish(op)
  PROVE  DenialInv'
<1>1. journal \in RunState /\ ~Fault /\ op # s /\ cancel[op].on = s 
  BY Unfailing, IdentityAssumption DEF TypeOK, CancelCall, CancelPublish
<1>2. UNCHANGED <<journal, process, mem, slot, canceled, spawns, task, preempt, shutdown, refresh>>
  BY DEF CancelPublish, local
<1>3. \/ /\ journal.denied /\ mailbox' = mailbox
         /\ \A o \in Operations : cancel'[o].at = cancel[o].at \/ cancel'[o].at = "idle"
      \/ ~journal.denied /\ mailbox' = mailbox \cup {op} /\ denial' = denial
  BY <1>1 DEF CancelPublish, Denied, CancelGoto, TypeOK, CancelCall
<1>4. mailbox' = mailbox \/ mailbox' # {}
  BY <1>3
<1>5. \A o \in Operations : cancel'[o].at = cancel[o].at \/ (o = op /\ cancel'[o].at \in {"idle", "signal"})
  BY <1>1 DEF CancelPublish, CancelGoto, TypeOK, CancelCall
<1>6. (NoSnapshot /\ Unrefreshed /\ FreshStart /\ Journaled)'
  BY <1>1, <1>2, <1>3, <1>4, <1>5 DEF DenialInv, NoSnapshot, Unrefreshed, FreshStart, Journaled, Same, Drained
<1>7. Noted'
  BY <1>1, <1>2, <1>3, <1>4, <1>5 DEF DenialInv, Noted, Same, Recorded, IsTerminal, Drained
<1>8. Halted'
  BY <1>1, <1>2, <1>3, <1>4, <1>5 DEF DenialInv, Halted, Same, Recorded, Drained
<1>9. Undisturbed'
  BY <1>1, <1>2, <1>3, <1>4, <1>5 DEF DenialInv, Undisturbed, Same, Recorded, Going, Closed, Steady, Resting, SpawnOf,
     IsTerminal, Drained
<1>10. Refused'
  BY <1>1, <1>2, <1>3, <1>4, <1>5 DEF DenialInv, Refused, Same, Drained
<1> QED
  BY <1>6, <1>7, <1>8, <1>9, <1>10 DEF DenialInv

\* One section under the run-map lock.
LEMMA CancelSignalDenial ==
  ASSUME ConfirmedRun, TypeOK, SingleWriter, DenialInv, NEW s \in Services, Services = {s}, NEW op \in Operations,
         CancelSignal(op)
  PROVE  DenialInv'
<1>1. journal \in RunState /\ ~Fault /\ op # s /\ cancel[op].on = s /\ cancel[op].at = "signal"
  BY Unfailing, IdentityAssumption DEF TypeOK, CancelCall, CancelSignal
<1>2. UNCHANGED <<journal, process, spawns, task, preempt, shutdown, denial, refresh>>
  BY DEF CancelSignal
<1>3. \A o \in Operations : cancel'[o].at = cancel[o].at \/ (o = op /\ cancel'[o].at \in {"idle", "join", "settle"})
  BY <1>1 DEF CancelSignal, CancelGoto, TypeOK, CancelCall
<1>4. ~journal.denied /\ ~(\A o \in Operations : cancel[o].at \in {"idle", "publish"})
  BY <1>1 DEF DenialInv, Refused
<1>5. mailbox' = mailbox \/ mailbox' = mailbox \ {op}
  BY <1>1 DEF CancelSignal
<1>6. mailbox' = mailbox \/ process[s] # "up" \/ Recorded
  BY <1>1, <1>4 DEF CancelSignal, ShuttingDown, DenialInv, Noted
<1>7. /\ mem'[s].tracked = mem[s].tracked
      /\ mem'[s].state = mem[s].state \/ mem'[s].state = "cancel_requested"
  <2>1. mem' = mem \/ mem' = [mem EXCEPT ![s].state = "cancel_requested", ![s].preempted = FALSE]
    BY <1>1 DEF CancelSignal
  <2> QED
    BY <2>1 DEF TypeOK, RunRecord
<1>8. "cancel_requested" \notin Settled
  BY DEF Settled, Terminals, Final
<1>9. (NoSnapshot /\ Unrefreshed /\ FreshStart /\ Journaled)'
  BY <1>1, <1>2, <1>3, <1>4, <1>5, <1>6, <1>7, <1>8 DEF DenialInv, NoSnapshot, Unrefreshed, FreshStart, Journaled, Same, Drained
<1>10. Noted'
  BY <1>1, <1>2, <1>3, <1>4, <1>5, <1>6, <1>7, <1>8 DEF DenialInv, Noted, Same, Recorded, IsTerminal, Drained
<1>11. Halted'
  BY <1>1, <1>2, <1>3, <1>4, <1>5, <1>6, <1>7, <1>8 DEF DenialInv, Halted, Same, Recorded, Drained
<1>12. Undisturbed'
  <2>1. SUFFICES ASSUME Going(s)'
                 PROVE  Steady(s)'
    BY DEF Undisturbed
  <2>2. Going(s)
    BY <1>1, <1>2, <1>3, <1>4, <1>5, <1>6, <1>7, <1>8, <2>1 DEF Going, Closed, Recorded, Same, Drained, DenialInv, Halted
  <2>3. Steady(s)
    BY <2>2 DEF DenialInv, Undisturbed
  <2>4. /\ ~Closed /\ mailbox = {} /\ journal.terminal = "none" /\ ~journal.cancel_requested
        /\ mem[s].state \in {"queued", "running", "confirming"} /\ ~IsTerminal(s)
    BY <2>2, <2>3 DEF Going, Closed, Recorded, Steady, IsTerminal, Settled, Terminals, Final
  <2> QED
    BY <1>4, <2>3 DEF Steady
<1>13. Refused'
  BY <1>1, <1>2, <1>3, <1>4, <1>5, <1>6, <1>7, <1>8 DEF DenialInv, Refused, Same, Drained
<1> QED
  BY <1>9, <1>10, <1>11, <1>12, <1>13 DEF DenialInv

\* The joined task settled the run, or the caller has to.
LEMMA CancelJoinedDenial ==
  ASSUME ConfirmedRun, TypeOK, SingleWriter, DenialInv, NEW s \in Services, Services = {s}, NEW op \in Operations,
         CancelJoined(op)
  PROVE  DenialInv'
<1>1. journal \in RunState /\ ~Fault /\ op # s /\ cancel[op].on = s /\ cancel[op].at = "joined"
  BY Unfailing, IdentityAssumption DEF TypeOK, CancelCall, CancelJoined
<1>2. UNCHANGED <<process, mem, slot, canceled, spawns, task, preempt, shutdown, denial, refresh>>
  BY DEF CancelJoined, local
<1>3. \A o \in Operations : cancel'[o].at = cancel[o].at \/ (o = op /\ cancel'[o].at \in {"idle", "settle"})
  BY <1>1 DEF CancelJoined, CancelGoto, TypeOK, CancelCall
<1>4. ~journal.denied /\ ~(\A o \in Operations : cancel[o].at \in {"idle", "publish"})
  BY <1>1 DEF DenialInv, Refused
<1>5. Drained
  BY <1>1, DrainRecords DEF CancelJoined
<1>6. (NoSnapshot /\ Unrefreshed /\ FreshStart /\ Journaled)'
  BY <1>1, <1>2, <1>3, <1>4, <1>5 DEF DenialInv, NoSnapshot, Unrefreshed, FreshStart, Journaled, Same, Drained
<1>7. Noted'
  BY <1>1, <1>2, <1>3, <1>4, <1>5 DEF DenialInv, Noted, Same, Recorded, IsTerminal, Drained
<1>8. Halted'
  BY <1>1, <1>2, <1>3, <1>4, <1>5 DEF DenialInv, Halted, Same, Recorded, Drained
<1>9. Undisturbed'
  <2>1. SUFFICES ASSUME Going(s)'
                 PROVE  Steady(s)'
    BY DEF Undisturbed
  <2>2. Going(s)
    BY <1>1, <1>2, <1>3, <1>4, <1>5, <2>1 DEF Going, Closed, Recorded, Same, Drained, DenialInv, Halted
  <2>3. Steady(s)
    BY <2>2 DEF DenialInv, Undisturbed
  <2>4. /\ ~Closed /\ mailbox = {} /\ journal.terminal = "none" /\ ~journal.cancel_requested
        /\ mem[s].state \in {"queued", "running", "confirming"} /\ ~IsTerminal(s)
    BY <2>2, <2>3 DEF Going, Closed, Recorded, Steady, IsTerminal, Settled, Terminals, Final
  <2> QED
    BY <1>4, <2>3 DEF Steady
<1>10. Refused'
  BY <1>1, <1>2, <1>3, <1>4, <1>5 DEF DenialInv, Refused, Same, Drained
<1> QED
  BY <1>6, <1>7, <1>8, <1>9, <1>10 DEF DenialInv

\* settle_canceled_here takes the lease and consumes the mailbox.
LEMMA CancelSettleDenial ==
  ASSUME ConfirmedRun, TypeOK, SingleWriter, DenialInv, NEW s \in Services, Services = {s}, NEW op \in Operations,
         CancelSettle(op)
  PROVE  DenialInv'
<1>1. journal \in RunState /\ ~Fault /\ op # s /\ cancel[op].on = s /\ cancel[op].at \in {"settle", "aborted"}
  BY Unfailing, IdentityAssumption DEF TypeOK, CancelCall, CancelSettle
<1>2. UNCHANGED <<process, mem, slot, canceled, spawns, task, preempt, shutdown, denial, refresh>>
  BY DEF CancelSettle, local
<1>3. \A o \in Operations : cancel'[o].at = cancel[o].at \/ (o = op /\ cancel'[o].at \in {"idle", "append"})
  BY <1>1 DEF CancelSettle, CancelGoto, TypeOK, CancelCall
<1>4. ~journal.denied /\ ~(\A o \in Operations : cancel[o].at \in {"idle", "publish"})
  BY <1>1 DEF DenialInv, Refused
<1>5. Drained
  BY <1>1, DrainRecords DEF CancelSettle
<1>6. (NoSnapshot /\ Unrefreshed /\ FreshStart /\ Journaled)'
  BY <1>1, <1>2, <1>3, <1>4, <1>5 DEF DenialInv, NoSnapshot, Unrefreshed, FreshStart, Journaled, Same, Drained
<1>7. Noted'
  BY <1>1, <1>2, <1>3, <1>4, <1>5 DEF DenialInv, Noted, Same, Recorded, IsTerminal, Drained
<1>8. Halted'
  BY <1>1, <1>2, <1>3, <1>4, <1>5 DEF DenialInv, Halted, Same, Recorded, Drained
<1>9. Undisturbed'
  <2>1. SUFFICES ASSUME Going(s)'
                 PROVE  Steady(s)'
    BY DEF Undisturbed
  <2>2. Going(s)
    BY <1>1, <1>2, <1>3, <1>4, <1>5, <2>1 DEF Going, Closed, Recorded, Same, Drained, DenialInv, Halted
  <2>3. Steady(s)
    BY <2>2 DEF DenialInv, Undisturbed
  <2>4. /\ ~Closed /\ mailbox = {} /\ journal.terminal = "none" /\ ~journal.cancel_requested
        /\ mem[s].state \in {"queued", "running", "confirming"} /\ ~IsTerminal(s)
    BY <2>2, <2>3 DEF Going, Closed, Recorded, Steady, IsTerminal, Settled, Terminals, Final
  <2> QED
    BY <1>4, <2>3 DEF Steady
<1>10. Refused'
  BY <1>1, <1>2, <1>3, <1>4, <1>5 DEF DenialInv, Refused, Same, Drained
<1> QED
  BY <1>6, <1>7, <1>8, <1>9, <1>10 DEF DenialInv

\* It writes the outcome.
LEMMA CancelAppendDenial ==
  ASSUME ConfirmedRun, TypeOK, SingleWriter, DenialInv, NEW s \in Services, Services = {s}, NEW op \in Operations,
         CancelAppend(op)
  PROVE  DenialInv'
<1>1. journal \in RunState /\ ~Fault /\ op # s /\ cancel[op].on = s /\ cancel[op].at = "append" /\ lease = <<"cancel", op>> /\ task[s].at \in {"idle", "exiting"}
  BY Unfailing, IdentityAssumption DEF TypeOK, CancelCall, CancelAppend, SingleWriter
<1>2. UNCHANGED <<mailbox, process, mem, slot, canceled, spawns, task, preempt, shutdown, denial, refresh>>
  BY DEF CancelAppend, local
<1>3. \A o \in Operations : cancel'[o].at = cancel[o].at \/ (o = op /\ cancel'[o].at \in {"commit"})
  BY <1>1 DEF CancelAppend, CancelGoto, TypeOK, CancelCall
<1>4. ~journal.denied /\ ~(\A o \in Operations : cancel[o].at \in {"idle", "publish"})
  BY <1>1 DEF DenialInv, Refused
<1>5. /\ Same(journal, journal') /\ journal'.terminal # "none"
      /\ journal.terminal # "none" => journal'.terminal = journal.terminal
  BY <1>1, OnceKeeps DEF CancelAppend, CancelOutcome
<1>6. (NoSnapshot /\ Unrefreshed /\ FreshStart /\ Journaled)'
  BY <1>1, <1>2, <1>3, <1>4, <1>5 DEF DenialInv, NoSnapshot, Unrefreshed, FreshStart, Journaled, Same, Drained
<1>7. Noted'
  BY <1>1, <1>2, <1>3, <1>4, <1>5 DEF DenialInv, Noted, Same, Recorded, IsTerminal, Drained
<1>8. Halted'
  BY <1>1, <1>2, <1>3, <1>4, <1>5 DEF DenialInv, Halted, Same, Recorded, Drained
<1>9. Undisturbed'
  BY <1>1, <1>2, <1>3, <1>4, <1>5 DEF DenialInv, Undisturbed, Same, Recorded, Going, Closed, Steady, Resting, SpawnOf,
     IsTerminal, Drained
<1>10. Refused'
  BY <1>1, <1>2, <1>3, <1>4, <1>5 DEF DenialInv, Refused, Same, Drained
<1> QED
  BY <1>6, <1>7, <1>8, <1>9, <1>10 DEF DenialInv

\* Memory follows.
LEMMA CancelCommitDenial ==
  ASSUME ConfirmedRun, TypeOK, SingleWriter, DenialInv, NEW s \in Services, Services = {s}, NEW op \in Operations,
         CancelCommit(op)
  PROVE  DenialInv'
<1>1. journal \in RunState /\ ~Fault /\ op # s /\ cancel[op].on = s /\ cancel[op].at = "commit"
  BY Unfailing, IdentityAssumption DEF TypeOK, CancelCall, CancelCommit
<1>2. UNCHANGED <<journal, mailbox, process, slot, canceled, spawns, task, preempt, shutdown, denial, refresh>>
  BY DEF CancelCommit
<1>3. \A o \in Operations : cancel'[o].at = cancel[o].at \/ (o = op /\ cancel'[o].at \in {"idle"})
  BY <1>1 DEF CancelCommit, CancelGoto, TypeOK, CancelCall
<1>4. ~journal.denied /\ ~(\A o \in Operations : cancel[o].at \in {"idle", "publish"})
  BY <1>1 DEF DenialInv, Refused
<1>5. Recorded
  BY <1>1 DEF DenialInv, Noted
<1>6. (NoSnapshot /\ Unrefreshed /\ FreshStart /\ Journaled)'
  BY <1>1, <1>2, <1>3, <1>4, <1>5 DEF DenialInv, NoSnapshot, Unrefreshed, FreshStart, Journaled, Same, Drained
<1>7. Noted'
  BY <1>1, <1>2, <1>3, <1>4, <1>5 DEF DenialInv, Noted, Same, Recorded, IsTerminal, Drained
<1>8. Halted'
  BY <1>1, <1>2, <1>3, <1>4, <1>5 DEF DenialInv, Halted, Same, Recorded, Drained
<1>9. Undisturbed'
  <2>1. SUFFICES ASSUME Going(s)'
                 PROVE  Steady(s)'
    BY DEF Undisturbed
  <2>2. Going(s)
    BY <1>1, <1>2, <1>3, <1>4, <1>5, <2>1 DEF Going, Closed, Recorded, Same, Drained, DenialInv, Halted
  <2>3. Steady(s)
    BY <2>2 DEF DenialInv, Undisturbed
  <2>4. /\ ~Closed /\ mailbox = {} /\ journal.terminal = "none" /\ ~journal.cancel_requested
        /\ mem[s].state \in {"queued", "running", "confirming"} /\ ~IsTerminal(s)
    BY <2>2, <2>3 DEF Going, Closed, Recorded, Steady, IsTerminal, Settled, Terminals, Final
  <2> QED
    BY <1>4, <2>3 DEF Steady
<1>10. Refused'
  BY <1>1, <1>2, <1>3, <1>4, <1>5 DEF DenialInv, Refused, Same, Drained
<1> QED
  BY <1>6, <1>7, <1>8, <1>9, <1>10 DEF DenialInv

\* The record shows the denial.
LEMMA DenialMarkDenial ==
  ASSUME ConfirmedRun, TypeOK, SingleWriter, DenialInv, NEW s \in Services, Services = {s},
         DenialMark(s)
  PROVE  DenialInv'
<1>1. journal \in RunState /\ ~Fault /\ denial[s] = "mark" /\ journal.denied
  BY Unfailing DEF TypeOK, SingleWriter, DenialMark, DenialInv, Journaled
<1>2. UNCHANGED <<journal, mailbox, process, slot, canceled, spawns, task, cancel, preempt, shutdown, refresh>>
  BY DEF DenialMark, shared
<1>3. (NoSnapshot /\ Unrefreshed /\ FreshStart /\ Journaled)'
  BY <1>1, <1>2 DEF DenialInv, NoSnapshot, Unrefreshed, FreshStart, Journaled, Same, Drained
<1>4. Noted'
  BY <1>1, <1>2 DEF DenialInv, Noted, Same, Recorded, IsTerminal, Drained
<1>5. Halted'
  BY <1>1, <1>2 DEF DenialInv, Halted, Same, Recorded, Drained
<1>6. Undisturbed'
  BY <1>1, <1>2 DEF DenialInv, Undisturbed, Same, Recorded, Going, Closed, Steady, Resting, SpawnOf,
     IsTerminal, Drained
<1>7. Refused'
  BY <1>1, <1>2 DEF DenialInv, Refused, Same, Drained
<1> QED
  BY <1>3, <1>4, <1>5, <1>6, <1>7 DEF DenialInv

\* It is sealed under the journal lock.
LEMMA DenialSealDenial ==
  ASSUME ConfirmedRun, TypeOK, SingleWriter, DenialInv, NEW s \in Services, Services = {s},
         DenialSeal(s)
  PROVE  DenialInv'
<1>1. journal \in RunState /\ ~Fault /\ denial[s] = "seal" /\ journal.denied
  BY Unfailing DEF TypeOK, SingleWriter, DenialSeal, DenialInv, Journaled
<1>2. UNCHANGED <<mailbox, process, mem, slot, canceled, spawns, task, cancel, preempt, shutdown, refresh>>
  BY DEF DenialSeal, local
<1>3. /\ Same(journal, journal') /\ journal'.terminal \in {journal.terminal, "failed"}
      /\ journal.terminal # "none" => journal'.terminal # "none"
  <2>1. CASE journal' = SealDenial(journal)
    BY <1>1, <2>1, SealKeeps
  <2>2. CASE journal' = journal
    BY <2>2 DEF Same
  <2> QED
    BY <2>1, <2>2 DEF DenialSeal
<1>4. task[s].at \in {"idle", "exiting", "reconcile", "fail"}
  BY <1>1 DEF DenialInv, Refused
<1>5. (NoSnapshot /\ Unrefreshed /\ FreshStart /\ Journaled)'
  BY <1>1, <1>2, <1>3, <1>4 DEF DenialInv, NoSnapshot, Unrefreshed, FreshStart, Journaled, Same, Drained
<1>6. Noted'
  BY <1>1, <1>2, <1>3, <1>4 DEF DenialInv, Noted, Same, Recorded, IsTerminal, Drained
<1>7. Halted'
  BY <1>1, <1>2, <1>3, <1>4 DEF DenialInv, Halted, Same, Recorded, Drained
<1>8. Undisturbed'
  BY <1>1, <1>2, <1>3, <1>4 DEF DenialInv, Undisturbed, Same, Recorded, Going, Closed, Steady, Resting, SpawnOf,
     IsTerminal, Drained
<1>9. Refused'
  BY <1>1, <1>2, <1>3, <1>4 DEF DenialInv, Refused, Same, Drained
<1> QED
  BY <1>5, <1>6, <1>7, <1>8, <1>9 DEF DenialInv

\* Memory follows.
LEMMA DenialCommitDenial ==
  ASSUME ConfirmedRun, TypeOK, SingleWriter, DenialInv, NEW s \in Services, Services = {s},
         DenialCommit(s)
  PROVE  DenialInv'
<1>1. journal \in RunState /\ ~Fault /\ denial[s] = "commit" /\ journal.denied
  BY Unfailing DEF TypeOK, SingleWriter, DenialCommit, DenialInv, Journaled
<1>2. UNCHANGED <<journal, mailbox, process, slot, canceled, spawns, task, cancel, preempt, shutdown, refresh>>
  BY DEF DenialCommit, shared
<1>3. (NoSnapshot /\ Unrefreshed /\ FreshStart /\ Journaled)'
  BY <1>1, <1>2 DEF DenialInv, NoSnapshot, Unrefreshed, FreshStart, Journaled, Same, Drained
<1>4. Noted'
  BY <1>1, <1>2 DEF DenialInv, Noted, Same, Recorded, IsTerminal, Drained
<1>5. Halted'
  BY <1>1, <1>2 DEF DenialInv, Halted, Same, Recorded, Drained
<1>6. Undisturbed'
  BY <1>1, <1>2 DEF DenialInv, Undisturbed, Same, Recorded, Going, Closed, Steady, Resting, SpawnOf,
     IsTerminal, Drained
<1>7. Refused'
  BY <1>1, <1>2 DEF DenialInv, Refused, Same, Drained
<1> QED
  BY <1>3, <1>4, <1>5, <1>6, <1>7 DEF DenialInv

\* A preemption is asked for.
LEMMA PreemptBeginDenial ==
  ASSUME ConfirmedRun, TypeOK, SingleWriter, DenialInv, NEW s \in Services, Services = {s},
         PreemptBegin(s)
  PROVE  DenialInv'
<1>1. journal \in RunState /\ ~Fault /\ process[s] = "up"
  BY Unfailing DEF TypeOK, SingleWriter, PreemptBegin
<1>2. UNCHANGED <<journal, mailbox, process, mem, slot, canceled, spawns, task, cancel, shutdown, denial, refresh>>
  BY DEF PreemptBegin, shared, local
<1>3. preempt'[s].at = "mark" /\ ~preempt'[s].resume /\ "mark" \notin Settling
  BY DEF PreemptBegin, TypeOK, Settling
<1>4. (NoSnapshot /\ Unrefreshed /\ FreshStart /\ Journaled)'
  BY <1>1, <1>2, <1>3 DEF DenialInv, NoSnapshot, Unrefreshed, FreshStart, Journaled, Same, Drained
<1>5. Noted'
  BY <1>1, <1>2, <1>3 DEF DenialInv, Noted, Same, Recorded, IsTerminal, Drained
<1>6. Halted'
  BY <1>1, <1>2, <1>3 DEF DenialInv, Halted, Same, Recorded, Drained
<1>7. Undisturbed'
  BY <1>1, <1>2, <1>3 DEF DenialInv, Undisturbed, Same, Recorded, Going, Closed, Steady, Resting, SpawnOf,
     IsTerminal, Drained
<1>8. Refused'
  BY <1>1, <1>2, <1>3 DEF DenialInv, Refused, Same, Drained
<1> QED
  BY <1>4, <1>5, <1>6, <1>7, <1>8 DEF DenialInv

\* The yield is requested.
LEMMA PreemptMarkDenial ==
  ASSUME ConfirmedRun, TypeOK, SingleWriter, DenialInv, NEW s \in Services, Services = {s},
         PreemptMark(s)
  PROVE  DenialInv'
<1>1. journal \in RunState /\ ~Fault /\ preempt[s].at = "mark"
  BY Unfailing DEF TypeOK, SingleWriter, PreemptMark
<1>2. UNCHANGED <<journal, mailbox, process, slot, canceled, spawns, task, cancel, shutdown, denial, refresh>>
  BY DEF PreemptMark, shared, ConfirmedRun
<1>3. preempt'[s].resume = preempt[s].resume /\ preempt'[s].at \in {"idle", "join", "joined"}
  BY <1>1 DEF PreemptMark, PreemptGoto, TypeOK, PreemptCall
<1>4. \/ mem' = mem
      \/ /\ mem[s].state = "running" /\ mem'[s].preempted /\ mem'[s].state = mem[s].state
         /\ mem'[s].tracked = mem[s].tracked /\ mem'[s].token = mem[s].token
  <2>1. \/ mem' = mem
        \/ /\ mem[s].state = "running"
           /\ mem' = [mem EXCEPT ![s].preempted = TRUE, ![s].yield = TRUE]
    BY DEF PreemptMark, ConfirmedRun
  <2> QED
    BY <2>1 DEF TypeOK, RunRecord
<1>5. {"idle", "join", "joined"} \cap Settling = {}
  BY DEF Settling
<1>6. (NoSnapshot /\ Unrefreshed /\ FreshStart /\ Journaled)'
  BY <1>1, <1>2, <1>3, <1>4, <1>5 DEF DenialInv, NoSnapshot, Unrefreshed, FreshStart, Journaled, Same, Drained
<1>7. Noted'
  BY <1>1, <1>2, <1>3, <1>4, <1>5 DEF DenialInv, Noted, Same, Recorded, IsTerminal, Drained
<1>8. Halted'
  BY <1>1, <1>2, <1>3, <1>4, <1>5 DEF DenialInv, Halted, Same, Recorded, Drained
<1>9. Undisturbed'
  <2>1. SUFFICES ASSUME Going(s)'
                 PROVE  Steady(s)'
    BY DEF Undisturbed
  <2>2. Going(s)
    BY <1>1, <1>2, <1>3, <1>4, <1>5, <2>1 DEF Going, Closed, Recorded, Same, Drained, DenialInv, Halted
  <2>3. Steady(s)
    BY <2>2 DEF DenialInv, Undisturbed
  <2>4. /\ ~Closed /\ mailbox = {} /\ journal.terminal = "none" /\ ~journal.cancel_requested
        /\ mem[s].state \in {"queued", "running", "confirming"} /\ ~IsTerminal(s)
    BY <2>2, <2>3 DEF Going, Closed, Recorded, Steady, IsTerminal, Settled, Terminals, Final
  <2>5. ~preempt[s].resume
    BY <1>1, <2>3 DEF Steady
  <2>6. mem[s].state = "running" => spawns[s] = {}
    BY <2>3 DEF Steady
  <2> QED
    BY <1>2, <1>3, <1>4, <2>3, <2>5, <2>6 DEF Steady, Resting
<1>10. Refused'
  BY <1>1, <1>2, <1>3, <1>4, <1>5 DEF DenialInv, Refused, Same, Drained
<1> QED
  BY <1>6, <1>7, <1>8, <1>9, <1>10 DEF DenialInv

\* The rendezvous waits for the lease.
LEMMA PreemptLeaseDenial ==
  ASSUME ConfirmedRun, TypeOK, SingleWriter, DenialInv, NEW s \in Services, Services = {s},
         PreemptLease(s)
  PROVE  DenialInv'
<1>1. journal \in RunState /\ ~Fault /\ preempt[s].at = "joined"
  BY Unfailing DEF TypeOK, SingleWriter, PreemptLease
<1>2. UNCHANGED <<journal, mailbox, process, mem, slot, canceled, spawns, task, cancel, shutdown, denial, refresh>>
  BY DEF PreemptLease, local
<1>3. preempt'[s].resume = preempt[s].resume /\ preempt'[s].at \in {"requeue", "settle"}
  BY <1>1 DEF PreemptLease, PreemptGoto, TypeOK, PreemptCall
<1>4. preempt'[s].at = "settle" => process[s] = "stopping"
  BY <1>1 DEF PreemptLease, PreemptGoto, ShuttingDown, TypeOK, PreemptCall
<1>5. "requeue" \notin Settling
  BY DEF Settling
<1>6. (NoSnapshot /\ Unrefreshed /\ FreshStart /\ Journaled)'
  BY <1>1, <1>2, <1>3, <1>4, <1>5 DEF DenialInv, NoSnapshot, Unrefreshed, FreshStart, Journaled, Same, Drained
<1>7. Noted'
  BY <1>1, <1>2, <1>3, <1>4, <1>5 DEF DenialInv, Noted, Same, Recorded, IsTerminal, Drained
<1>8. Halted'
  BY <1>1, <1>2, <1>3, <1>4, <1>5 DEF DenialInv, Halted, Same, Recorded, Drained
<1>9. Undisturbed'
  <2>1. SUFFICES ASSUME Going(s)'
                 PROVE  Steady(s)'
    BY DEF Undisturbed
  <2>2. Going(s)
    BY <1>1, <1>2, <1>3, <1>4, <1>5, <2>1 DEF Going, Closed, Recorded, Same, Drained, DenialInv, Halted
  <2>3. Steady(s)
    BY <2>2 DEF DenialInv, Undisturbed
  <2>4. /\ ~Closed /\ mailbox = {} /\ journal.terminal = "none" /\ ~journal.cancel_requested
        /\ mem[s].state \in {"queued", "running", "confirming"} /\ ~IsTerminal(s)
    BY <2>2, <2>3 DEF Going, Closed, Recorded, Steady, IsTerminal, Settled, Terminals, Final
  <2>5. ~preempt[s].resume
    BY <1>1, <2>3 DEF Steady
  <2> QED
    BY <1>2, <1>3, <2>3, <2>5 DEF Steady, Resting
<1>10. Refused'
  BY <1>1, <1>2, <1>3, <1>4, <1>5 DEF DenialInv, Refused, Same, Drained
<1> QED
  BY <1>6, <1>7, <1>8, <1>9, <1>10 DEF DenialInv

\* The durable requeue.
LEMMA PreemptRequeueDenial ==
  ASSUME ConfirmedRun, TypeOK, SingleWriter, DenialInv, NEW s \in Services, Services = {s},
         PreemptRequeue(s)
  PROVE  DenialInv'
<1>1. journal \in RunState /\ ~Fault /\ preempt[s].at = "requeue" /\ lease = <<"preempt", s>>
  BY Unfailing DEF TypeOK, SingleWriter, PreemptRequeue
<1>2. UNCHANGED <<mailbox, process, slot, canceled, spawns, task, cancel, shutdown, denial, refresh>>
  BY DEF PreemptRequeue
<1>3. preempt'[s].resume = preempt[s].resume /\ preempt'[s].at \in {"commit", "release"}
  BY <1>1 DEF PreemptRequeue, PreemptGoto, TypeOK, PreemptCall
<1>4. /\ Same(journal, journal') /\ journal'.terminal = journal.terminal
      /\ \/ mem' = mem
         \/ /\ ~journal.open /\ mem[s].state = "running" /\ mem'[s].state = "queued"
            /\ mem'[s].preempted = mem[s].preempted /\ mem'[s].yield = mem[s].yield
            /\ mem'[s].tracked = mem[s].tracked /\ mem'[s].token = mem[s].token
  <2>1. \/ mem' = mem /\ journal' = journal
        \/ /\ ~journal.open /\ journal.terminal = "none" /\ journal' = Restart(journal)
           /\ mem[s].state = "running" /\ mem' = [mem EXCEPT ![s].state = "queued"]
    BY <1>1 DEF PreemptRequeue, ConfirmedRun
  <2>2. CASE mem' = mem /\ journal' = journal
    BY <2>2 DEF Same
  <2>3. CASE /\ ~journal.open /\ journal.terminal = "none" /\ journal' = Restart(journal)
             /\ mem[s].state = "running" /\ mem' = [mem EXCEPT ![s].state = "queued"]
    <3>1. Same(journal, journal') /\ journal'.terminal = journal.terminal
      BY <1>1, <2>3, RestartKeeps
    <3> QED
      BY <2>3, <3>1 DEF TypeOK, RunRecord
  <2> QED
    BY <2>1, <2>2, <2>3
<1>5. "queued" \notin Settled /\ "commit" \notin Settling /\ "release" \notin Settling
  BY DEF Settled, Terminals, Final, Settling
<1>6. task[s].at \in {"idle", "exiting"}
  BY <1>1 DEF SingleWriter
<1>7. (NoSnapshot /\ Unrefreshed /\ FreshStart /\ Journaled)'
  BY <1>1, <1>2, <1>3, <1>4, <1>5, <1>6 DEF DenialInv, NoSnapshot, Unrefreshed, FreshStart, Journaled, Same, Drained
<1>8. Noted'
  BY <1>1, <1>2, <1>3, <1>4, <1>5, <1>6 DEF DenialInv, Noted, Same, Recorded, IsTerminal, Drained
<1>9. Halted'
  BY <1>1, <1>2, <1>3, <1>4, <1>5, <1>6 DEF DenialInv, Halted, Same, Recorded, Drained
<1>10. Undisturbed'
  <2>1. SUFFICES ASSUME Going(s)'
                 PROVE  Steady(s)'
    BY DEF Undisturbed
  <2>2. Going(s)
    BY <1>1, <1>2, <1>3, <1>4, <1>5, <1>6, <2>1 DEF Going, Closed, Recorded, Same, Drained, DenialInv, Halted
  <2>3. Steady(s)
    BY <2>2 DEF DenialInv, Undisturbed
  <2>4. /\ ~Closed /\ mailbox = {} /\ journal.terminal = "none" /\ ~journal.cancel_requested
        /\ mem[s].state \in {"queued", "running", "confirming"} /\ ~IsTerminal(s)
    BY <2>2, <2>3 DEF Going, Closed, Recorded, Steady, IsTerminal, Settled, Terminals, Final
  <2>5. ~preempt[s].resume
    BY <1>1, <2>3 DEF Steady
  <2>6. mem[s].state = "running" => spawns[s] = {}
    BY <2>3 DEF Steady
  <2> QED
    BY <1>2, <1>3, <1>4, <1>6, <2>3, <2>5, <2>6 DEF Steady, Resting, Same
<1>11. Refused'
  BY <1>1, <1>2, <1>3, <1>4, <1>5, <1>6 DEF DenialInv, Refused, Same, Drained
<1> QED
  BY <1>7, <1>8, <1>9, <1>10, <1>11 DEF DenialInv

\* A concurrent cancel wins over the resume.
LEMMA PreemptCommitDenial ==
  ASSUME ConfirmedRun, TypeOK, SingleWriter, DenialInv, NEW s \in Services, Services = {s},
         PreemptCommit(s)
  PROVE  DenialInv'
<1>1. journal \in RunState /\ ~Fault /\ preempt[s].at = "commit" /\ lease = <<"preempt", s>>
  BY Unfailing DEF TypeOK, SingleWriter, PreemptCommit
<1>2. UNCHANGED <<journal, mailbox, process, slot, canceled, spawns, task, cancel, shutdown, denial, refresh>>
  BY DEF PreemptCommit, shared
<1>3. \/ /\ mem' = mem /\ preempt'[s].at = "release" /\ preempt'[s].resume = preempt[s].resume
      \/ /\ mem[s].preempted /\ preempt'[s].at = "release" /\ preempt'[s].resume
         /\ mem'[s].state = "queued" /\ ~mem'[s].preempted /\ ~mem'[s].yield
         /\ mem'[s].tracked = mem[s].tracked /\ mem[s].state = "queued"
  <2>1. CASE mem[s].tracked /\ mem[s].state = "queued" /\ mem[s].preempted
    <3>1. mem' = [mem EXCEPT ![s] = Requeued(@)]
      BY <2>1 DEF PreemptCommit
    <3>2. preempt'[s].at = "release" /\ preempt'[s].resume
      BY <2>1 DEF PreemptCommit, TypeOK
    <3> QED
      BY <2>1, <3>1, <3>2, RequeuedFields
  <2>2. CASE ~(mem[s].tracked /\ mem[s].state = "queued" /\ mem[s].preempted)
    BY <2>2 DEF PreemptCommit, PreemptGoto, TypeOK, PreemptCall
  <2> QED
    BY <2>1, <2>2
<1>4. "queued" \notin Settled /\ "release" \notin Settling
  BY DEF Settled, Terminals, Final, Settling
<1>5. task[s].at \in {"idle", "exiting"}
  BY <1>1 DEF SingleWriter
<1>6. (NoSnapshot /\ Unrefreshed /\ FreshStart /\ Journaled)'
  BY <1>1, <1>2, <1>3, <1>4, <1>5 DEF DenialInv, NoSnapshot, Unrefreshed, FreshStart, Journaled, Same, Drained
<1>7. Noted'
  BY <1>1, <1>2, <1>3, <1>4, <1>5 DEF DenialInv, Noted, Same, Recorded, IsTerminal, Drained
<1>8. Halted'
  BY <1>1, <1>2, <1>3, <1>4, <1>5 DEF DenialInv, Halted, Same, Recorded, Drained
<1>9. Undisturbed'
  <2>1. SUFFICES ASSUME Going(s)'
                 PROVE  Steady(s)'
    BY DEF Undisturbed
  <2>2. Going(s)
    BY <1>1, <1>2, <1>3, <1>4, <1>5, <2>1 DEF Going, Closed, Recorded, Same, Drained, DenialInv, Halted
  <2>3. Steady(s)
    BY <2>2 DEF DenialInv, Undisturbed
  <2>4. /\ ~Closed /\ mailbox = {} /\ journal.terminal = "none" /\ ~journal.cancel_requested
        /\ mem[s].state \in {"queued", "running", "confirming"} /\ ~IsTerminal(s)
    BY <2>2, <2>3 DEF Going, Closed, Recorded, Steady, IsTerminal, Settled, Terminals, Final
  <2>5. ~preempt[s].resume /\ (mem[s].preempted => spawns[s] = {})
    BY <1>1, <2>3 DEF Steady
  <2>6. CASE mem' = mem
    BY <1>2, <1>3, <2>3, <2>5, <2>6 DEF Steady, Resting
  <2>7. CASE mem' # mem
    <3>1. /\ mem[s].preempted /\ preempt'[s].at = "release" /\ mem'[s].state = "queued"
          /\ ~mem'[s].preempted /\ ~mem'[s].yield /\ mem'[s].tracked /\ spawns'[s] = {} /\ ~journal.open
      BY <1>2, <1>3, <2>3, <2>5, <2>7 DEF Steady
    <3> QED
      BY <1>2, <1>5, <2>3, <3>1 DEF Steady, Resting
  <2> QED
    BY <2>6, <2>7
<1>10. Refused'
  BY <1>1, <1>2, <1>3, <1>4, <1>5 DEF DenialInv, Refused, Same, Drained
<1> QED
  BY <1>6, <1>7, <1>8, <1>9, <1>10 DEF DenialInv

\* The rendezvous releases the lease and asks for the resume.
LEMMA PreemptReleaseDenial ==
  ASSUME ConfirmedRun, TypeOK, SingleWriter, DenialInv, NEW s \in Services, Services = {s},
         PreemptRelease(s)
  PROVE  DenialInv'
<1>1. journal \in RunState /\ ~Fault /\ preempt[s].at = "release" /\ lease = <<"preempt", s>>
  BY Unfailing DEF TypeOK, SingleWriter, PreemptRelease
<1>2. UNCHANGED <<journal, mailbox, process, mem, slot, canceled, task, cancel, shutdown, denial, refresh>>
  BY DEF PreemptRelease
<1>3. /\ ~preempt'[s].resume /\ preempt'[s].at \in {"settle", "idle"}
      /\ preempt'[s].at = "settle" => process[s] = "stopping"
  BY DEF PreemptRelease, ShuttingDown, TypeOK
<1>4. spawns'[s] = spawns[s] \/ (preempt[s].resume /\ spawns'[s] = spawns[s] \cup {SpawnOf(mem[s])})
  BY DEF PreemptRelease, TypeOK
<1>5. "idle" \notin Settling /\ task[s].at \in {"idle", "exiting"} /\ ~SpawnOf(mem[s]).snapshot
  BY <1>1 DEF Settling, SingleWriter, SpawnOf
<1>6. (NoSnapshot /\ Unrefreshed /\ FreshStart /\ Journaled)'
  BY <1>1, <1>2, <1>3, <1>4, <1>5 DEF DenialInv, NoSnapshot, Unrefreshed, FreshStart, Journaled, Same, Drained
<1>7. Noted'
  BY <1>1, <1>2, <1>3, <1>4, <1>5 DEF DenialInv, Noted, Same, Recorded, IsTerminal, Drained
<1>8. Halted'
  BY <1>1, <1>2, <1>3, <1>4, <1>5 DEF DenialInv, Halted, Same, Recorded, Drained
<1>9. Undisturbed'
  <2>1. SUFFICES ASSUME Going(s)'
                 PROVE  Steady(s)'
    BY DEF Undisturbed
  <2>2. Going(s)
    BY <1>1, <1>2, <1>3, <1>4, <1>5, <2>1 DEF Going, Closed, Recorded, Same, Drained, DenialInv, Halted
  <2>3. Steady(s)
    BY <2>2 DEF DenialInv, Undisturbed
  <2>4. /\ ~Closed /\ mailbox = {} /\ journal.terminal = "none" /\ ~journal.cancel_requested
        /\ mem[s].state \in {"queued", "running", "confirming"} /\ ~IsTerminal(s)
    BY <2>2, <2>3 DEF Going, Closed, Recorded, Steady, IsTerminal, Settled, Terminals, Final
  <2>5. spawns'[s] \subseteq {SpawnOf(mem[s])}
    BY <1>4, <2>3 DEF Steady
  <2>6. spawns'[s] # {} => mem[s].state = "queued" /\ ~mem[s].preempted
    BY <1>4, <2>3 DEF Steady
  <2> QED
    BY <1>2, <1>3, <1>5, <2>3, <2>5, <2>6 DEF Steady, Resting
<1>10. Refused'
  BY <1>1, <1>2, <1>3, <1>4, <1>5 DEF DenialInv, Refused, Same, Drained
<1> QED
  BY <1>6, <1>7, <1>8, <1>9, <1>10 DEF DenialInv

\* A preemption that meets a shutdown settles without a task.
LEMMA PreemptSettleDenial ==
  ASSUME ConfirmedRun, TypeOK, SingleWriter, DenialInv, NEW s \in Services, Services = {s},
         PreemptSettle(s)
  PROVE  DenialInv'
<1>1. journal \in RunState /\ ~Fault /\ process[s] = "stopping" /\ preempt[s].at = "settle"
  BY Unfailing DEF TypeOK, SingleWriter, DenialInv, Halted, Settling, PreemptSettle
<1>2. UNCHANGED <<process, mem, slot, canceled, spawns, task, cancel, shutdown, refresh>>
  BY DEF PreemptSettle, local
<1>3. preempt'[s].resume = preempt[s].resume /\ preempt'[s].at \in {"idle", "over", "append"}
  BY <1>1 DEF PreemptSettle, PreemptGoto, TypeOK, PreemptCall
<1>4. \/ UNCHANGED <<journal, mailbox>> /\ preempt'[s].at # "append" /\ (denial' = denial \/ journal.denied)
      \/ ~journal.denied /\ Drain(s) /\ denial' = denial
  BY <1>1 DEF PreemptSettle, SettleSkipped, SettleDenied, SettleDrain, Denied, PreemptGoto, TypeOK, PreemptCall
<1>5. Drained
  BY <1>4, DrainRecords
<1>6. (NoSnapshot /\ Unrefreshed /\ FreshStart /\ Journaled)'
  BY <1>1, <1>2, <1>3, <1>4, <1>5 DEF DenialInv, NoSnapshot, Unrefreshed, FreshStart, Journaled, Same, Drained
<1>7. Noted'
  BY <1>1, <1>2, <1>3, <1>4, <1>5 DEF DenialInv, Noted, Same, Recorded, IsTerminal, Drained
<1>8. Halted'
  BY <1>1, <1>2, <1>3, <1>4, <1>5 DEF DenialInv, Halted, Same, Recorded, Drained
<1>9. Undisturbed'
  <2>1. SUFFICES ASSUME Going(s)'
                 PROVE  Steady(s)'
    BY DEF Undisturbed
  <2>2. Going(s)
    BY <1>1, <1>2, <1>3, <1>4, <1>5, <2>1 DEF Going, Closed, Recorded, Same, Drained, DenialInv, Halted
  <2>3. Steady(s)
    BY <2>2 DEF DenialInv, Undisturbed
  <2>4. /\ ~Closed /\ mailbox = {} /\ journal.terminal = "none" /\ ~journal.cancel_requested
        /\ mem[s].state \in {"queued", "running", "confirming"} /\ ~IsTerminal(s)
    BY <2>2, <2>3 DEF Going, Closed, Recorded, Steady, IsTerminal, Settled, Terminals, Final
  <2> QED
    BY <1>1, <2>2 DEF Going
<1>10. Refused'
  BY <1>1, <1>2, <1>3, <1>4, <1>5 DEF DenialInv, Refused, Same, Drained
<1> QED
  BY <1>6, <1>7, <1>8, <1>9, <1>10 DEF DenialInv

\* It writes the interruption.
LEMMA PreemptAppendDenial ==
  ASSUME ConfirmedRun, TypeOK, SingleWriter, DenialInv, NEW s \in Services, Services = {s},
         PreemptAppend(s)
  PROVE  DenialInv'
<1>1. journal \in RunState /\ ~Fault /\ process[s] = "stopping" /\ preempt[s].at = "append" /\ ~journal.denied /\ task[s].at \in {"idle", "exiting"}
  BY Unfailing DEF TypeOK, SingleWriter, DenialInv, Halted, Settling, PreemptAppend, Refused
<1>2. UNCHANGED <<mailbox, process, mem, slot, canceled, spawns, task, cancel, shutdown, denial, refresh>>
  BY DEF PreemptAppend, local
<1>3. preempt'[s].resume = preempt[s].resume /\ preempt'[s].at \in {"over", "settled"}
  BY <1>1 DEF PreemptAppend, PreemptGoto, TypeOK, PreemptCall
<1>4. /\ Same(journal, journal') /\ journal'.terminal # "none"
      /\ journal.terminal # "none" => journal'.terminal = journal.terminal
  BY <1>1, OnceKeeps DEF PreemptAppend, SettleInterrupted
<1>5. (NoSnapshot /\ Unrefreshed /\ FreshStart /\ Journaled)'
  BY <1>1, <1>2, <1>3, <1>4 DEF DenialInv, NoSnapshot, Unrefreshed, FreshStart, Journaled, Same, Drained
<1>6. Noted'
  BY <1>1, <1>2, <1>3, <1>4 DEF DenialInv, Noted, Same, Recorded, IsTerminal, Drained
<1>7. Halted'
  BY <1>1, <1>2, <1>3, <1>4 DEF DenialInv, Halted, Same, Recorded, Drained
<1>8. Undisturbed'
  <2>1. SUFFICES ASSUME Going(s)'
                 PROVE  Steady(s)'
    BY DEF Undisturbed
  <2>2. Going(s)
    BY <1>1, <1>2, <1>3, <1>4, <2>1 DEF Going, Closed, Recorded, Same, Drained, DenialInv, Halted
  <2>3. Steady(s)
    BY <2>2 DEF DenialInv, Undisturbed
  <2>4. /\ ~Closed /\ mailbox = {} /\ journal.terminal = "none" /\ ~journal.cancel_requested
        /\ mem[s].state \in {"queued", "running", "confirming"} /\ ~IsTerminal(s)
    BY <2>2, <2>3 DEF Going, Closed, Recorded, Steady, IsTerminal, Settled, Terminals, Final
  <2> QED
    BY <1>1, <2>2 DEF Going
<1>9. Refused'
  BY <1>1, <1>2, <1>3, <1>4 DEF DenialInv, Refused, Same, Drained
<1> QED
  BY <1>5, <1>6, <1>7, <1>8, <1>9 DEF DenialInv

\* Memory follows.
LEMMA PreemptSettledDenial ==
  ASSUME ConfirmedRun, TypeOK, SingleWriter, DenialInv, NEW s \in Services, Services = {s},
         PreemptSettled(s)
  PROVE  DenialInv'
<1>1. journal \in RunState /\ ~Fault /\ process[s] = "stopping" /\ preempt[s].at \in {"settled", "over"}
  BY Unfailing DEF TypeOK, SingleWriter, DenialInv, Halted, Settling, PreemptSettled
<1>2. UNCHANGED <<journal, mailbox, process, slot, canceled, spawns, task, cancel, shutdown, denial, refresh>>
  BY DEF PreemptSettled
<1>3. preempt'[s].resume = preempt[s].resume /\ preempt'[s].at \in {"idle"}
  BY <1>1 DEF PreemptSettled, PreemptGoto, TypeOK, PreemptCall
<1>4. (NoSnapshot /\ Unrefreshed /\ FreshStart /\ Journaled)'
  BY <1>1, <1>2, <1>3 DEF DenialInv, NoSnapshot, Unrefreshed, FreshStart, Journaled, Same, Drained
<1>5. Noted'
  BY <1>1, <1>2, <1>3 DEF DenialInv, Noted, Same, Recorded, IsTerminal, Drained
<1>6. Halted'
  BY <1>1, <1>2, <1>3 DEF DenialInv, Halted, Same, Recorded, Drained
<1>7. Undisturbed'
  <2>1. SUFFICES ASSUME Going(s)'
                 PROVE  Steady(s)'
    BY DEF Undisturbed
  <2>2. Going(s)
    BY <1>1, <1>2, <1>3, <2>1 DEF Going, Closed, Recorded, Same, Drained, DenialInv, Halted
  <2>3. Steady(s)
    BY <2>2 DEF DenialInv, Undisturbed
  <2>4. /\ ~Closed /\ mailbox = {} /\ journal.terminal = "none" /\ ~journal.cancel_requested
        /\ mem[s].state \in {"queued", "running", "confirming"} /\ ~IsTerminal(s)
    BY <2>2, <2>3 DEF Going, Closed, Recorded, Steady, IsTerminal, Settled, Terminals, Final
  <2> QED
    BY <1>1, <2>2 DEF Going
<1>8. Refused'
  BY <1>1, <1>2, <1>3 DEF DenialInv, Refused, Same, Drained
<1> QED
  BY <1>4, <1>5, <1>6, <1>7, <1>8 DEF DenialInv

\* A shutdown begins.
LEMMA ShutdownBeginDenial ==
  ASSUME ConfirmedRun, TypeOK, SingleWriter, DenialInv, NEW s \in Services, Services = {s},
         ShutdownBegin(s)
  PROVE  DenialInv'
<1>1. journal \in RunState /\ ~Fault /\ process[s] = "up"
  BY Unfailing DEF TypeOK, SingleWriter, ShutdownBegin
<1>2. UNCHANGED <<journal, mailbox, mem, slot, canceled, spawns, task, cancel, preempt, denial, refresh>>
  BY DEF ShutdownBegin, shared, local
<1>3. process'[s] = "stopping"
  BY DEF ShutdownBegin, TypeOK
<1>4. /\ shutdown'[s].at \in {"publish", "late"}
      /\ shutdown'[s].at # "publish" => ~mem[s].tracked \/ IsTerminal(s)
  BY DEF ShutdownBegin, ShutdownGoto, TypeOK, ShutdownCall
<1>5. shutdown'[s].at # "publish" => Recorded \/ journal.denied
  BY <1>1, <1>4 DEF DenialInv, Noted
<1>6. (NoSnapshot /\ Unrefreshed /\ FreshStart /\ Journaled)'
  BY <1>1, <1>2, <1>3, <1>4, <1>5 DEF DenialInv, NoSnapshot, Unrefreshed, FreshStart, Journaled, Same, Drained
<1>7. Noted'
  BY <1>1, <1>2, <1>3, <1>4, <1>5 DEF DenialInv, Noted, Same, Recorded, IsTerminal, Drained
<1>8. Halted'
  BY <1>1, <1>2, <1>3, <1>4, <1>5 DEF DenialInv, Halted, Same, Recorded, Drained
<1>9. Undisturbed'
  <2>1. SUFFICES ASSUME Going(s)'
                 PROVE  Steady(s)'
    BY DEF Undisturbed
  <2>2. Going(s)
    BY <1>1, <1>2, <1>3, <1>4, <1>5, <2>1 DEF Going, Closed, Recorded, Same, Drained, DenialInv, Halted
  <2>3. Steady(s)
    BY <2>2 DEF DenialInv, Undisturbed
  <2>4. /\ ~Closed /\ mailbox = {} /\ journal.terminal = "none" /\ ~journal.cancel_requested
        /\ mem[s].state \in {"queued", "running", "confirming"} /\ ~IsTerminal(s)
    BY <2>2, <2>3 DEF Going, Closed, Recorded, Steady, IsTerminal, Settled, Terminals, Final
  <2> QED
    BY <1>3, <2>1 DEF Going
<1>10. Refused'
  BY <1>1, <1>2, <1>3, <1>4, <1>5 DEF DenialInv, Refused, Same, Drained
<1> QED
  BY <1>6, <1>7, <1>8, <1>9, <1>10 DEF DenialInv

\* Its control is published, unless a denial was accepted.
LEMMA ShutdownPublishDenial ==
  ASSUME ConfirmedRun, TypeOK, SingleWriter, DenialInv, NEW s \in Services, Services = {s},
         ShutdownPublish(s)
  PROVE  DenialInv'
<1>1. journal \in RunState /\ ~Fault /\ process[s] = "stopping" /\ shutdown[s].at = "publish"
  BY Unfailing DEF TypeOK, SingleWriter, DenialInv, Halted, Settling, ShutdownPublish
<1>2. UNCHANGED <<journal, process, mem, slot, canceled, spawns, task, cancel, preempt, refresh>>
  BY DEF ShutdownPublish, local
<1>3. \/ journal.denied /\ mailbox' = mailbox /\ shutdown'[s].at = "late"
      \/ ~journal.denied /\ mailbox' = mailbox \cup {s} /\ shutdown'[s].at = "signal" /\ denial' = denial
  BY DEF ShutdownPublish, Denied, ShutdownGoto, TypeOK, ShutdownCall
<1>4. (NoSnapshot /\ Unrefreshed /\ FreshStart /\ Journaled)'
  BY <1>1, <1>2, <1>3 DEF DenialInv, NoSnapshot, Unrefreshed, FreshStart, Journaled, Same, Drained
<1>5. Noted'
  BY <1>1, <1>2, <1>3 DEF DenialInv, Noted, Same, Recorded, IsTerminal, Drained
<1>6. Halted'
  BY <1>1, <1>2, <1>3 DEF DenialInv, Halted, Same, Recorded, Drained
<1>7. Undisturbed'
  <2>1. SUFFICES ASSUME Going(s)'
                 PROVE  Steady(s)'
    BY DEF Undisturbed
  <2>2. Going(s)
    BY <1>1, <1>2, <1>3, <2>1 DEF Going, Closed, Recorded, Same, Drained, DenialInv, Halted
  <2>3. Steady(s)
    BY <2>2 DEF DenialInv, Undisturbed
  <2>4. /\ ~Closed /\ mailbox = {} /\ journal.terminal = "none" /\ ~journal.cancel_requested
        /\ mem[s].state \in {"queued", "running", "confirming"} /\ ~IsTerminal(s)
    BY <2>2, <2>3 DEF Going, Closed, Recorded, Steady, IsTerminal, Settled, Terminals, Final
  <2> QED
    BY <1>1, <2>2 DEF Going
<1>8. Refused'
  BY <1>1, <1>2, <1>3 DEF DenialInv, Refused, Same, Drained
<1> QED
  BY <1>4, <1>5, <1>6, <1>7, <1>8 DEF DenialInv

\* The token is cancelled.
LEMMA ShutdownSignalDenial ==
  ASSUME ConfirmedRun, TypeOK, SingleWriter, DenialInv, NEW s \in Services, Services = {s},
         ShutdownSignal(s)
  PROVE  DenialInv'
<1>1. journal \in RunState /\ ~Fault /\ process[s] = "stopping" /\ shutdown[s].at = "signal" /\ ~journal.denied
  BY Unfailing DEF TypeOK, SingleWriter, DenialInv, Halted, Settling, ShutdownSignal, Refused
<1>2. UNCHANGED <<journal, mailbox, process, slot, spawns, task, cancel, preempt, denial, refresh>>
  BY DEF ShutdownSignal, shared
<1>3. shutdown'[s].at \in {"take", "late"}
  BY <1>1 DEF ShutdownSignal, ShutdownGoto, TypeOK, ShutdownCall
<1>4. (NoSnapshot /\ Unrefreshed /\ FreshStart /\ Journaled)'
  BY <1>1, <1>2, <1>3 DEF DenialInv, NoSnapshot, Unrefreshed, FreshStart, Journaled, Same, Drained
<1>5. Noted'
  BY <1>1, <1>2, <1>3 DEF DenialInv, Noted, Same, Recorded, IsTerminal, Drained
<1>6. Halted'
  BY <1>1, <1>2, <1>3 DEF DenialInv, Halted, Same, Recorded, Drained
<1>7. Undisturbed'
  <2>1. SUFFICES ASSUME Going(s)'
                 PROVE  Steady(s)'
    BY DEF Undisturbed
  <2>2. Going(s)
    BY <1>1, <1>2, <1>3, <2>1 DEF Going, Closed, Recorded, Same, Drained, DenialInv, Halted
  <2>3. Steady(s)
    BY <2>2 DEF DenialInv, Undisturbed
  <2>4. /\ ~Closed /\ mailbox = {} /\ journal.terminal = "none" /\ ~journal.cancel_requested
        /\ mem[s].state \in {"queued", "running", "confirming"} /\ ~IsTerminal(s)
    BY <2>2, <2>3 DEF Going, Closed, Recorded, Steady, IsTerminal, Settled, Terminals, Final
  <2> QED
    BY <1>1, <2>2 DEF Going
<1>8. Refused'
  BY <1>1, <1>2, <1>3 DEF DenialInv, Refused, Same, Drained
<1> QED
  BY <1>4, <1>5, <1>6, <1>7, <1>8 DEF DenialInv

\* The handle is taken.
LEMMA ShutdownTakeDenial ==
  ASSUME ConfirmedRun, TypeOK, SingleWriter, DenialInv, NEW s \in Services, Services = {s},
         ShutdownTake(s)
  PROVE  DenialInv'
<1>1. journal \in RunState /\ ~Fault /\ process[s] = "stopping" /\ shutdown[s].at = "take" /\ ~journal.denied
  BY Unfailing DEF TypeOK, SingleWriter, DenialInv, Halted, Settling, ShutdownTake, Refused
<1>2. UNCHANGED <<journal, mailbox, process, mem, canceled, spawns, task, cancel, preempt, denial, refresh>>
  BY DEF ShutdownTake, shared
<1>3. shutdown'[s].at \in {"join", "joined", "settle"}
  BY <1>1 DEF ShutdownTake, ShutdownGoto, TypeOK, ShutdownCall
<1>4. (NoSnapshot /\ Unrefreshed /\ FreshStart /\ Journaled)'
  BY <1>1, <1>2, <1>3 DEF DenialInv, NoSnapshot, Unrefreshed, FreshStart, Journaled, Same, Drained
<1>5. Noted'
  BY <1>1, <1>2, <1>3 DEF DenialInv, Noted, Same, Recorded, IsTerminal, Drained
<1>6. Halted'
  BY <1>1, <1>2, <1>3 DEF DenialInv, Halted, Same, Recorded, Drained
<1>7. Undisturbed'
  <2>1. SUFFICES ASSUME Going(s)'
                 PROVE  Steady(s)'
    BY DEF Undisturbed
  <2>2. Going(s)
    BY <1>1, <1>2, <1>3, <2>1 DEF Going, Closed, Recorded, Same, Drained, DenialInv, Halted
  <2>3. Steady(s)
    BY <2>2 DEF DenialInv, Undisturbed
  <2>4. /\ ~Closed /\ mailbox = {} /\ journal.terminal = "none" /\ ~journal.cancel_requested
        /\ mem[s].state \in {"queued", "running", "confirming"} /\ ~IsTerminal(s)
    BY <2>2, <2>3 DEF Going, Closed, Recorded, Steady, IsTerminal, Settled, Terminals, Final
  <2> QED
    BY <1>1, <2>2 DEF Going
<1>8. Refused'
  BY <1>1, <1>2, <1>3 DEF DenialInv, Refused, Same, Drained
<1> QED
  BY <1>4, <1>5, <1>6, <1>7, <1>8 DEF DenialInv

\* The task settled the journal.
LEMMA ShutdownJoinedDenial ==
  ASSUME ConfirmedRun, TypeOK, SingleWriter, DenialInv, NEW s \in Services, Services = {s},
         ShutdownJoined(s)
  PROVE  DenialInv'
<1>1. journal \in RunState /\ ~Fault /\ process[s] = "stopping" /\ shutdown[s].at = "joined" /\ ~journal.denied
  BY Unfailing DEF TypeOK, SingleWriter, DenialInv, Halted, Settling, ShutdownJoined, Refused
<1>2. UNCHANGED <<process, mem, slot, canceled, spawns, task, cancel, preempt, denial, refresh>>
  BY DEF ShutdownJoined, local
<1>3. shutdown'[s].at \in {"late"}
  BY <1>1 DEF ShutdownJoined, ShutdownGoto, TypeOK, ShutdownCall
<1>4. Drained
  BY <1>1, DrainRecords DEF ShutdownJoined
<1>5. (NoSnapshot /\ Unrefreshed /\ FreshStart /\ Journaled)'
  BY <1>1, <1>2, <1>3, <1>4 DEF DenialInv, NoSnapshot, Unrefreshed, FreshStart, Journaled, Same, Drained
<1>6. Noted'
  BY <1>1, <1>2, <1>3, <1>4 DEF DenialInv, Noted, Same, Recorded, IsTerminal, Drained
<1>7. Halted'
  BY <1>1, <1>2, <1>3, <1>4 DEF DenialInv, Halted, Same, Recorded, Drained
<1>8. Undisturbed'
  <2>1. SUFFICES ASSUME Going(s)'
                 PROVE  Steady(s)'
    BY DEF Undisturbed
  <2>2. Going(s)
    BY <1>1, <1>2, <1>3, <1>4, <2>1 DEF Going, Closed, Recorded, Same, Drained, DenialInv, Halted
  <2>3. Steady(s)
    BY <2>2 DEF DenialInv, Undisturbed
  <2>4. /\ ~Closed /\ mailbox = {} /\ journal.terminal = "none" /\ ~journal.cancel_requested
        /\ mem[s].state \in {"queued", "running", "confirming"} /\ ~IsTerminal(s)
    BY <2>2, <2>3 DEF Going, Closed, Recorded, Steady, IsTerminal, Settled, Terminals, Final
  <2> QED
    BY <1>1, <2>2 DEF Going
<1>9. Refused'
  BY <1>1, <1>2, <1>3, <1>4 DEF DenialInv, Refused, Same, Drained
<1> QED
  BY <1>5, <1>6, <1>7, <1>8, <1>9 DEF DenialInv

\* The shutdown settles without a task.
LEMMA ShutdownSettleDenial ==
  ASSUME ConfirmedRun, TypeOK, SingleWriter, DenialInv, NEW s \in Services, Services = {s},
         ShutdownSettle(s)
  PROVE  DenialInv'
<1>1. journal \in RunState /\ ~Fault /\ process[s] = "stopping" /\ shutdown[s].at = "settle"
  BY Unfailing DEF TypeOK, SingleWriter, DenialInv, Halted, Settling, ShutdownSettle
<1>2. UNCHANGED <<process, mem, slot, canceled, spawns, task, cancel, preempt, refresh>>
  BY DEF ShutdownSettle, local
<1>3. shutdown'[s].at \in {"late", "orphans", "over", "append"}
  BY <1>1 DEF ShutdownSettle, AfterSettle, ShutdownGoto, TypeOK, ShutdownCall
<1>4. \/ UNCHANGED <<journal, mailbox>> /\ shutdown'[s].at # "append" /\ (denial' = denial \/ journal.denied)
      \/ ~journal.denied /\ Drain(s) /\ denial' = denial
  BY <1>1 DEF ShutdownSettle, SettleSkipped, SettleDenied, SettleDrain, Denied, ShutdownGoto, AfterSettle, TypeOK, ShutdownCall
<1>5. Drained
  BY <1>4, DrainRecords
<1>6. (NoSnapshot /\ Unrefreshed /\ FreshStart /\ Journaled)'
  BY <1>1, <1>2, <1>3, <1>4, <1>5 DEF DenialInv, NoSnapshot, Unrefreshed, FreshStart, Journaled, Same, Drained
<1>7. Noted'
  BY <1>1, <1>2, <1>3, <1>4, <1>5 DEF DenialInv, Noted, Same, Recorded, IsTerminal, Drained
<1>8. Halted'
  BY <1>1, <1>2, <1>3, <1>4, <1>5 DEF DenialInv, Halted, Same, Recorded, Drained
<1>9. Undisturbed'
  <2>1. SUFFICES ASSUME Going(s)'
                 PROVE  Steady(s)'
    BY DEF Undisturbed
  <2>2. Going(s)
    BY <1>1, <1>2, <1>3, <1>4, <1>5, <2>1 DEF Going, Closed, Recorded, Same, Drained, DenialInv, Halted
  <2>3. Steady(s)
    BY <2>2 DEF DenialInv, Undisturbed
  <2>4. /\ ~Closed /\ mailbox = {} /\ journal.terminal = "none" /\ ~journal.cancel_requested
        /\ mem[s].state \in {"queued", "running", "confirming"} /\ ~IsTerminal(s)
    BY <2>2, <2>3 DEF Going, Closed, Recorded, Steady, IsTerminal, Settled, Terminals, Final
  <2> QED
    BY <1>1, <2>2 DEF Going
<1>10. Refused'
  BY <1>1, <1>2, <1>3, <1>4, <1>5 DEF DenialInv, Refused, Same, Drained
<1> QED
  BY <1>6, <1>7, <1>8, <1>9, <1>10 DEF DenialInv

\* It writes the interruption.
LEMMA ShutdownAppendDenial ==
  ASSUME ConfirmedRun, TypeOK, SingleWriter, DenialInv, NEW s \in Services, Services = {s},
         ShutdownAppend(s)
  PROVE  DenialInv'
<1>1. journal \in RunState /\ ~Fault /\ process[s] = "stopping" /\ shutdown[s].at = "append" /\ ~journal.denied /\ task[s].at \in {"idle", "exiting"}
  BY Unfailing DEF TypeOK, SingleWriter, DenialInv, Halted, Settling, ShutdownAppend, Refused
<1>2. UNCHANGED <<mailbox, process, mem, slot, canceled, spawns, task, cancel, preempt, denial, refresh>>
  BY DEF ShutdownAppend, local
<1>3. shutdown'[s].at \in {"over", "settled"}
  BY <1>1 DEF ShutdownAppend, ShutdownGoto, TypeOK, ShutdownCall
<1>4. /\ Same(journal, journal') /\ journal'.terminal # "none"
      /\ journal.terminal # "none" => journal'.terminal = journal.terminal
  BY <1>1, OnceKeeps DEF ShutdownAppend, SettleInterrupted
<1>5. (NoSnapshot /\ Unrefreshed /\ FreshStart /\ Journaled)'
  BY <1>1, <1>2, <1>3, <1>4 DEF DenialInv, NoSnapshot, Unrefreshed, FreshStart, Journaled, Same, Drained
<1>6. Noted'
  BY <1>1, <1>2, <1>3, <1>4 DEF DenialInv, Noted, Same, Recorded, IsTerminal, Drained
<1>7. Halted'
  BY <1>1, <1>2, <1>3, <1>4 DEF DenialInv, Halted, Same, Recorded, Drained
<1>8. Undisturbed'
  <2>1. SUFFICES ASSUME Going(s)'
                 PROVE  Steady(s)'
    BY DEF Undisturbed
  <2>2. Going(s)
    BY <1>1, <1>2, <1>3, <1>4, <2>1 DEF Going, Closed, Recorded, Same, Drained, DenialInv, Halted
  <2>3. Steady(s)
    BY <2>2 DEF DenialInv, Undisturbed
  <2>4. /\ ~Closed /\ mailbox = {} /\ journal.terminal = "none" /\ ~journal.cancel_requested
        /\ mem[s].state \in {"queued", "running", "confirming"} /\ ~IsTerminal(s)
    BY <2>2, <2>3 DEF Going, Closed, Recorded, Steady, IsTerminal, Settled, Terminals, Final
  <2> QED
    BY <1>1, <2>2 DEF Going
<1>9. Refused'
  BY <1>1, <1>2, <1>3, <1>4 DEF DenialInv, Refused, Same, Drained
<1> QED
  BY <1>5, <1>6, <1>7, <1>8, <1>9 DEF DenialInv

\* Memory follows.
LEMMA ShutdownSettledDenial ==
  ASSUME ConfirmedRun, TypeOK, SingleWriter, DenialInv, NEW s \in Services, Services = {s},
         ShutdownSettled(s)
  PROVE  DenialInv'
<1>1. journal \in RunState /\ ~Fault /\ process[s] = "stopping" /\ shutdown[s].at \in {"settled", "over"}
  BY Unfailing DEF TypeOK, SingleWriter, DenialInv, Halted, Settling, ShutdownSettled
<1>2. UNCHANGED <<journal, mailbox, process, slot, canceled, spawns, task, cancel, preempt, denial, refresh>>
  BY DEF ShutdownSettled
<1>3. shutdown'[s].at \in {"late", "orphans"}
  BY <1>1 DEF ShutdownSettled, AfterSettle, ShutdownGoto, TypeOK, ShutdownCall
<1>4. (NoSnapshot /\ Unrefreshed /\ FreshStart /\ Journaled)'
  BY <1>1, <1>2, <1>3 DEF DenialInv, NoSnapshot, Unrefreshed, FreshStart, Journaled, Same, Drained
<1>5. Noted'
  BY <1>1, <1>2, <1>3 DEF DenialInv, Noted, Same, Recorded, IsTerminal, Drained
<1>6. Halted'
  BY <1>1, <1>2, <1>3 DEF DenialInv, Halted, Same, Recorded, Drained
<1>7. Undisturbed'
  <2>1. SUFFICES ASSUME Going(s)'
                 PROVE  Steady(s)'
    BY DEF Undisturbed
  <2>2. Going(s)
    BY <1>1, <1>2, <1>3, <2>1 DEF Going, Closed, Recorded, Same, Drained, DenialInv, Halted
  <2>3. Steady(s)
    BY <2>2 DEF DenialInv, Undisturbed
  <2>4. /\ ~Closed /\ mailbox = {} /\ journal.terminal = "none" /\ ~journal.cancel_requested
        /\ mem[s].state \in {"queued", "running", "confirming"} /\ ~IsTerminal(s)
    BY <2>2, <2>3 DEF Going, Closed, Recorded, Steady, IsTerminal, Settled, Terminals, Final
  <2> QED
    BY <1>1, <2>2 DEF Going
<1>8. Refused'
  BY <1>1, <1>2, <1>3 DEF DenialInv, Refused, Same, Drained
<1> QED
  BY <1>4, <1>5, <1>6, <1>7, <1>8 DEF DenialInv

\* Late admissions.
LEMMA ShutdownLateDenial ==
  ASSUME ConfirmedRun, TypeOK, SingleWriter, DenialInv, NEW s \in Services, Services = {s},
         ShutdownLate(s)
  PROVE  DenialInv'
<1>1. journal \in RunState /\ ~Fault /\ process[s] = "stopping" /\ shutdown[s].at = "late"
  BY Unfailing DEF TypeOK, SingleWriter, DenialInv, Halted, Settling, ShutdownLate
<1>2. UNCHANGED <<journal, mailbox, process, mem, slot, canceled, spawns, task, cancel, preempt, denial, refresh>>
  BY DEF ShutdownLate, shared, local
<1>3. shutdown'[s].at \in {"settle", "orphans"}
  BY <1>1 DEF ShutdownLate, ShutdownGoto, TypeOK, ShutdownCall
<1>4. (NoSnapshot /\ Unrefreshed /\ FreshStart /\ Journaled)'
  BY <1>1, <1>2, <1>3 DEF DenialInv, NoSnapshot, Unrefreshed, FreshStart, Journaled, Same, Drained
<1>5. Noted'
  BY <1>1, <1>2, <1>3 DEF DenialInv, Noted, Same, Recorded, IsTerminal, Drained
<1>6. Halted'
  BY <1>1, <1>2, <1>3 DEF DenialInv, Halted, Same, Recorded, Drained
<1>7. Undisturbed'
  <2>1. SUFFICES ASSUME Going(s)'
                 PROVE  Steady(s)'
    BY DEF Undisturbed
  <2>2. Going(s)
    BY <1>1, <1>2, <1>3, <2>1 DEF Going, Closed, Recorded, Same, Drained, DenialInv, Halted
  <2>3. Steady(s)
    BY <2>2 DEF DenialInv, Undisturbed
  <2>4. /\ ~Closed /\ mailbox = {} /\ journal.terminal = "none" /\ ~journal.cancel_requested
        /\ mem[s].state \in {"queued", "running", "confirming"} /\ ~IsTerminal(s)
    BY <2>2, <2>3 DEF Going, Closed, Recorded, Steady, IsTerminal, Settled, Terminals, Final
  <2> QED
    BY <1>1, <2>2 DEF Going
<1>8. Refused'
  BY <1>1, <1>2, <1>3 DEF DenialInv, Refused, Same, Drained
<1> QED
  BY <1>4, <1>5, <1>6, <1>7, <1>8 DEF DenialInv

\* A run that only the disk knows.
LEMMA ShutdownOrphansDenial ==
  ASSUME ConfirmedRun, TypeOK, SingleWriter, DenialInv, NEW s \in Services, Services = {s},
         ShutdownOrphans(s)
  PROVE  DenialInv'
<1>1. journal \in RunState /\ ~Fault /\ process[s] = "stopping" /\ shutdown[s].at = "orphans"
  BY Unfailing DEF TypeOK, SingleWriter, DenialInv, Halted, Settling, ShutdownOrphans
<1>2. UNCHANGED <<mailbox, process, mem, slot, canceled, spawns, task, cancel, preempt, refresh>>
  BY DEF ShutdownOrphans, local
<1>3. shutdown'[s].at \in {"done"}
  BY <1>1 DEF ShutdownOrphans, ShutdownGoto, TypeOK, ShutdownCall
<1>4. \/ journal' = journal /\ (denial' = denial \/ journal.denied)
      \/ /\ journal' = Settle(journal, "interrupted") /\ journal.terminal = "none"
         /\ ~journal.denied /\ denial' = denial /\ lease = NoLease
  BY DEF ShutdownOrphans, Denied
<1>5. /\ Same(journal, journal')
      /\ \/ journal'.terminal = journal.terminal
         \/ journal'.terminal # "none" /\ ~journal.denied /\ task[s].at \in {"idle", "exiting"}
  <2>1. CASE journal' = journal
    BY <2>1 DEF Same
  <2>2. CASE journal' = Settle(journal, "interrupted") /\ ~journal.denied /\ lease = NoLease
    <3>1. task[s].at \in {"idle", "exiting"}
      BY <2>2 DEF SingleWriter, NoLease
    <3> QED
      BY <1>1, <2>2, <3>1, SettleKeeps
  <2> QED
    BY <1>4, <2>1, <2>2
<1>6. (NoSnapshot /\ Unrefreshed /\ FreshStart /\ Journaled)'
  BY <1>1, <1>2, <1>3, <1>4, <1>5 DEF DenialInv, NoSnapshot, Unrefreshed, FreshStart, Journaled, Same, Drained
<1>7. Noted'
  BY <1>1, <1>2, <1>3, <1>4, <1>5 DEF DenialInv, Noted, Same, Recorded, IsTerminal, Drained
<1>8. Halted'
  BY <1>1, <1>2, <1>3, <1>4, <1>5 DEF DenialInv, Halted, Same, Recorded, Drained
<1>9. Undisturbed'
  <2>1. SUFFICES ASSUME Going(s)'
                 PROVE  Steady(s)'
    BY DEF Undisturbed
  <2>2. Going(s)
    BY <1>1, <1>2, <1>3, <1>4, <1>5, <2>1 DEF Going, Closed, Recorded, Same, Drained, DenialInv, Halted
  <2>3. Steady(s)
    BY <2>2 DEF DenialInv, Undisturbed
  <2>4. /\ ~Closed /\ mailbox = {} /\ journal.terminal = "none" /\ ~journal.cancel_requested
        /\ mem[s].state \in {"queued", "running", "confirming"} /\ ~IsTerminal(s)
    BY <2>2, <2>3 DEF Going, Closed, Recorded, Steady, IsTerminal, Settled, Terminals, Final
  <2> QED
    BY <1>1, <2>2 DEF Going
<1>10. Refused'
  BY <1>1, <1>2, <1>3, <1>4, <1>5 DEF DenialInv, Refused, Same, Drained
<1> QED
  BY <1>6, <1>7, <1>8, <1>9, <1>10 DEF DenialInv

\* The process ends.
LEMMA ShutdownEndsDenial ==
  ASSUME ConfirmedRun, TypeOK, SingleWriter, DenialInv, NEW s \in Services, Services = {s},
         ShutdownEnds(s)
  PROVE  DenialInv'
<1>1. journal \in RunState /\ ~Fault /\ process[s] = "stopping" /\ shutdown[s].at = "done"
  BY Unfailing DEF TypeOK, SingleWriter, DenialInv, Halted, Settling, ShutdownEnds
<1>2. UNCHANGED mailbox
  BY DEF ShutdownEnds, ProcessEnds
<1>3. /\ process'[s] = "down" /\ task'[s].at = "idle" /\ ~task'[s].snapshot /\ spawns'[s] = {}
      /\ preempt'[s].at = "idle" /\ shutdown'[s].at = "idle" /\ denial'[s] = "idle"
      /\ refresh'[s].at = "idle"
  BY DEF ShutdownEnds, ProcessEnds, TypeOK, NoTask, NoRefresh
<1>4. \A op \in Operations : cancel'[op].at \in {cancel[op].at, "idle"}
  BY DEF ShutdownEnds, ProcessEnds, TypeOK, CancelCall
<1>5. Same(journal, journal') /\ journal'.terminal = journal.terminal
  <2>1. PICK lost : journal' = [journal EXCEPT !.inflight = lost]
    BY DEF ShutdownEnds, ProcessEnds
  <2> QED
    BY <1>1, <2>1, LostKeeps
<1>6. "idle" \notin Settling
  BY DEF Settling
<1>7. (NoSnapshot /\ Unrefreshed /\ FreshStart /\ Journaled)'
  BY <1>1, <1>2, <1>3, <1>4, <1>5, <1>6 DEF DenialInv, NoSnapshot, Unrefreshed, FreshStart, Journaled, Same, Drained
<1>8. Noted'
  BY <1>1, <1>2, <1>3, <1>4, <1>5, <1>6 DEF DenialInv, Noted, Same, Recorded, IsTerminal, Drained
<1>9. Halted'
  BY <1>1, <1>2, <1>3, <1>4, <1>5, <1>6 DEF DenialInv, Halted, Same, Recorded, Drained
<1>10. Undisturbed'
  <2>1. SUFFICES ASSUME Going(s)'
                 PROVE  Steady(s)'
    BY DEF Undisturbed
  <2>2. Going(s)
    BY <1>1, <1>2, <1>3, <1>4, <1>5, <1>6, <2>1 DEF Going, Closed, Recorded, Same, Drained, DenialInv, Halted
  <2>3. Steady(s)
    BY <2>2 DEF DenialInv, Undisturbed
  <2>4. /\ ~Closed /\ mailbox = {} /\ journal.terminal = "none" /\ ~journal.cancel_requested
        /\ mem[s].state \in {"queued", "running", "confirming"} /\ ~IsTerminal(s)
    BY <2>2, <2>3 DEF Going, Closed, Recorded, Steady, IsTerminal, Settled, Terminals, Final
  <2> QED
    BY <1>3, <2>1 DEF Going
<1>11. Refused'
  BY <1>1, <1>2, <1>3, <1>4, <1>5, <1>6 DEF DenialInv, Refused, Same, Drained
<1> QED
  BY <1>7, <1>8, <1>9, <1>10, <1>11 DEF DenialInv

\* An approval.
LEMMA ApproveDenial ==
  ASSUME ConfirmedRun, TypeOK, SingleWriter, DenialInv, NEW s \in Services, Services = {s},
         Approve(s)
  PROVE  DenialInv'
<1>1. journal \in RunState /\ ~Fault /\ process[s] = "up" /\ mem[s].state = "confirming" /\ journal.open
  BY Unfailing DEF TypeOK, SingleWriter, Approve, MayRespond
<1>2. UNCHANGED <<mailbox, process, slot, canceled, task, cancel, preempt, shutdown, denial, refresh>>
  BY DEF Approve, calls
<1>3. /\ journal.terminal = "none" /\ ~journal.cancel_requested /\ mailbox = {}
      /\ journal' = Respond(journal)
  BY DEF Approve, MayRespond
<1>4. /\ journal'.terminal = "none" /\ ~journal'.cancel_requested
      /\ journal'.cancel_operations = journal.cancel_operations /\ journal'.denied = journal.denied
      /\ ~journal'.open
  BY <1>1, <1>3, PromptKeeps
<1>5. /\ mem'[s].tracked = mem[s].tracked /\ mem'[s].state = "queued" /\ ~mem'[s].preempted
      /\ ~mem'[s].yield /\ "queued" \notin Settled /\ mem'[s] = Requeued(mem[s])
  BY RequeuedFields DEF Approve, Resume
<1>6. spawns'[s] = spawns[s] \cup {SpawnOf(mem'[s])} /\ ~SpawnOf(mem'[s]).snapshot
  BY <1>5 DEF Approve, Resume, TypeOK, SpawnOf
<1>7. (NoSnapshot /\ Unrefreshed /\ FreshStart /\ Journaled)'
  BY <1>1, <1>2, <1>3, <1>4, <1>5, <1>6 DEF DenialInv, NoSnapshot, Unrefreshed, FreshStart, Journaled, Same, Drained
<1>8. Noted'
  BY <1>1, <1>2, <1>3, <1>4, <1>5, <1>6 DEF DenialInv, Noted, Same, Recorded, IsTerminal, Drained
<1>9. Halted'
  BY <1>1, <1>2, <1>3, <1>4, <1>5, <1>6 DEF DenialInv, Halted, Same, Recorded, Drained
<1>10. Undisturbed'
  <2>1. SUFFICES ASSUME Going(s)'
                 PROVE  Steady(s)'
    BY DEF Undisturbed
  <2>2. Going(s)
    BY <1>1, <1>2, <1>3, <1>4, <1>5, <1>6, <2>1 DEF Going, Closed, Recorded, Same, Drained, DenialInv, Halted
  <2>3. Steady(s)
    BY <2>2 DEF DenialInv, Undisturbed
  <2>4. /\ ~Closed /\ mailbox = {} /\ journal.terminal = "none" /\ ~journal.cancel_requested
        /\ mem[s].state \in {"queued", "running", "confirming"} /\ ~IsTerminal(s)
    BY <2>2, <2>3 DEF Going, Closed, Recorded, Steady, IsTerminal, Settled, Terminals, Final
  <2>5. /\ spawns[s] = {} /\ ~preempt[s].resume /\ task[s].at \in {"idle", "exiting"}
    BY <1>1, <2>3 DEF Steady, Resting
  <2> QED
    BY <1>2, <1>4, <1>5, <1>6, <2>3, <2>5 DEF Steady, Resting
<1>11. Refused'
  BY <1>1, <1>2, <1>3, <1>4, <1>5, <1>6 DEF DenialInv, Refused, Same, Drained
<1> QED
  BY <1>7, <1>8, <1>9, <1>10, <1>11 DEF DenialInv

\* A denial is accepted or repeated.
LEMMA DenyConfirmationDenial ==
  ASSUME ConfirmedRun, TypeOK, SingleWriter, DenialInv, NEW s \in Services, Services = {s},
         DenyConfirmation(s)
  PROVE  DenialInv'
<1>1. journal \in RunState /\ ~Fault /\ process[s] = "up"
  BY Unfailing DEF TypeOK, SingleWriter, DenyConfirmation
<1>2. UNCHANGED <<mailbox, process, slot, canceled, spawns, task, cancel, preempt, shutdown, refresh>>
  BY DEF DenyConfirmation
<1>3. \/ journal' = journal /\ mem' = mem /\ journal.denied
      \/ /\ mem[s].state = "confirming" /\ mem' = [mem EXCEPT ![s].state = "queued"]
         /\ journal.terminal = "none" /\ ~journal.cancel_requested /\ mailbox = {}
         /\ journal' = Deny(journal)
  BY DEF DenyConfirmation, Denied, MayRespond
<1>4. \/ journal' = journal /\ journal.denied
      \/ /\ mem[s].state = "confirming" /\ journal.terminal = "none" /\ ~journal.cancel_requested
         /\ mailbox = {} /\ journal'.terminal = "none" /\ ~journal'.cancel_requested
         /\ journal'.cancel_operations = journal.cancel_operations /\ journal'.denied /\ ~journal'.open
  BY <1>1, <1>3, PromptKeeps
<1>5. journal'.denied
  BY <1>4
<1>6. \/ journal.denied
      \/ /\ task[s].at \in {"idle", "exiting"} /\ shutdown[s].at = "idle" /\ preempt[s].at \notin Settling
         /\ \A op \in Operations : cancel[op].at \in {"idle", "publish"}
  BY <1>1, <1>4 DEF DenialInv, Halted, Undisturbed, Going, Closed, Recorded, Steady, Resting
<1>7. "append" \in Settling /\ "settled" \in Settling
  BY DEF Settling
<1>8. (NoSnapshot /\ Unrefreshed /\ FreshStart /\ Journaled)'
  BY <1>1, <1>2, <1>3, <1>4, <1>5, <1>6, <1>7 DEF DenialInv, NoSnapshot, Unrefreshed, FreshStart, Journaled, Same, Drained
<1>9. Noted'
  BY <1>1, <1>2, <1>3, <1>4, <1>5, <1>6, <1>7 DEF DenialInv, Noted, Same, Recorded, IsTerminal, Drained
<1>10. Halted'
  BY <1>1, <1>2, <1>3, <1>4, <1>5, <1>6, <1>7 DEF DenialInv, Halted, Same, Recorded, Drained
<1>11. Undisturbed'
  BY <1>1, <1>2, <1>3, <1>4, <1>5, <1>6, <1>7 DEF DenialInv, Undisturbed, Same, Recorded, Going, Closed, Steady, Resting, SpawnOf,
     IsTerminal, Drained
<1>12. Refused'
  BY <1>1, <1>2, <1>3, <1>4, <1>5, <1>6, <1>7 DEF DenialInv, Refused, Same, Drained
<1> QED
  BY <1>8, <1>9, <1>10, <1>11, <1>12 DEF DenialInv

\* A terminal record is evicted.
LEMMA EvictTerminalDenial ==
  ASSUME ConfirmedRun, TypeOK, SingleWriter, DenialInv, NEW s \in Services, Services = {s},
         EvictTerminal(s)
  PROVE  DenialInv'
<1>1. journal \in RunState /\ IsTerminal(s)
  BY DEF TypeOK, EvictTerminal
<1>2. UNCHANGED <<journal, mailbox, process, canceled, spawns, task, cancel, preempt, shutdown, denial, refresh>>
  BY DEF EvictTerminal, shared, calls
<1>3. (NoSnapshot /\ Unrefreshed /\ FreshStart /\ Journaled)'
  BY <1>1, <1>2 DEF DenialInv, NoSnapshot, Unrefreshed, FreshStart, Journaled, Same, Drained
<1>4. Noted'
  BY <1>1, <1>2 DEF DenialInv, Noted, Same, Recorded, IsTerminal, Drained
<1>5. Halted'
  BY <1>1, <1>2 DEF DenialInv, Halted, Same, Recorded, Drained
<1>6. Undisturbed'
  <2>1. SUFFICES ASSUME Going(s)'
                 PROVE  Steady(s)'
    BY DEF Undisturbed
  <2>2. Going(s)
    BY <1>1, <1>2, <2>1 DEF Going, Closed, Recorded, Same, Drained, DenialInv, Halted
  <2>3. Steady(s)
    BY <2>2 DEF DenialInv, Undisturbed
  <2>4. /\ ~Closed /\ mailbox = {} /\ journal.terminal = "none" /\ ~journal.cancel_requested
        /\ mem[s].state \in {"queued", "running", "confirming"} /\ ~IsTerminal(s)
    BY <2>2, <2>3 DEF Going, Closed, Recorded, Steady, IsTerminal, Settled, Terminals, Final
  <2> QED
    BY <1>1, <2>4
<1>7. Refused'
  BY <1>1, <1>2 DEF DenialInv, Refused, Same, Drained
<1> QED
  BY <1>3, <1>4, <1>5, <1>6, <1>7 DEF DenialInv

\* A process starts.
LEMMA BootDenial ==
  ASSUME ConfirmedRun, TypeOK, SingleWriter, DenialInv, NEW s \in Services, Services = {s},
         Boot(s)
  PROVE  DenialInv'
<1>1. journal \in RunState /\ ~Fault /\ process[s] = "down" /\ process'[s] = "up"
  BY Unfailing DEF TypeOK, SingleWriter, Boot
<1>2. UNCHANGED <<journal, mailbox, slot, canceled, task, cancel, preempt, shutdown, denial, refresh>>
  BY DEF Boot, shared, calls
<1>3. Closed \/ journal.denied
  BY <1>1 DEF DenialInv, Halted, Closed
<1>4. \A r \in spawns'[s] : ~r.snapshot
  BY DEF Boot, SpawnOf, TypeOK, DenialInv, NoSnapshot
<1>5. Recorded \/ (mem'[s].tracked /\ mem'[s].state \notin Settled)
  <2>1. CASE journal.terminal # "none"
    BY <2>1 DEF Recorded
  <2>2. CASE journal.terminal = "none"
    <3>1. Rehydrated \in {"waiting", "confirming", "cancel_requested", "queued"}
      BY <2>2 DEF Rehydrated, PendingQuestion, PendingConfirmation
    <3>2. Rehydrated \notin Settled /\ Rehydrated # "none"
      BY <3>1 DEF Settled, Terminals, Final
    <3>3. mem' = [mem EXCEPT ![s] = [Untracked EXCEPT !.tracked = TRUE, !.state = Rehydrated]]
      BY <3>2 DEF Boot
    <3>4. mem'[s].tracked /\ mem'[s].state = Rehydrated
      BY <3>3 DEF TypeOK, Untracked
    <3> QED
      BY <3>2, <3>4
  <2> QED
    BY <2>1, <2>2
<1>6. (NoSnapshot /\ Unrefreshed /\ FreshStart /\ Journaled)'
  BY <1>1, <1>2, <1>3, <1>4, <1>5 DEF DenialInv, NoSnapshot, Unrefreshed, FreshStart, Journaled, Same, Drained
<1>7. Noted'
  BY <1>1, <1>2, <1>3, <1>4, <1>5 DEF DenialInv, Noted, Same, Recorded, IsTerminal, Drained
<1>8. Halted'
  BY <1>1, <1>2, <1>3, <1>4, <1>5 DEF DenialInv, Halted, Same, Recorded, Drained
<1>9. Undisturbed'
  <2>1. SUFFICES ASSUME Going(s)'
                 PROVE  Steady(s)'
    BY DEF Undisturbed
  <2>2. Going(s)
    BY <1>1, <1>2, <1>3, <1>4, <1>5, <2>1 DEF Going, Closed, Recorded, Same, Drained, DenialInv, Halted
  <2>3. Steady(s)
    BY <2>2 DEF DenialInv, Undisturbed
  <2>4. /\ ~Closed /\ mailbox = {} /\ journal.terminal = "none" /\ ~journal.cancel_requested
        /\ mem[s].state \in {"queued", "running", "confirming"} /\ ~IsTerminal(s)
    BY <2>2, <2>3 DEF Going, Closed, Recorded, Steady, IsTerminal, Settled, Terminals, Final
  <2> QED
    BY <1>1, <2>2 DEF Going
<1>10. Refused'
  BY <1>1, <1>2, <1>3, <1>4, <1>5 DEF DenialInv, Refused, Same, Drained
<1> QED
  BY <1>6, <1>7, <1>8, <1>9, <1>10 DEF DenialInv

\* The periodic resumer.
LEMMA ResumeStuckDenial ==
  ASSUME ConfirmedRun, TypeOK, SingleWriter, DenialInv, NEW s \in Services, Services = {s},
         ResumeStuck(s)
  PROVE  DenialInv'
<1>1. journal \in RunState /\ ~Fault /\ process[s] = "up" /\ ~mem[s].preempted /\ ~SlotIsLive(s)
  BY Unfailing DEF TypeOK, SingleWriter, ResumeStuck
<1>2. UNCHANGED <<journal, mailbox, process, mem, slot, canceled, task, cancel, preempt, shutdown, denial, refresh>>
  BY DEF ResumeStuck, shared, calls
<1>3. /\ mem[s].state \in {"queued", "cancel_requested", "running"}
      /\ spawns'[s] = spawns[s] \cup {SpawnOf(mem[s])} /\ ~SpawnOf(mem[s]).snapshot
  BY DEF ResumeStuck, Resumable, TypeOK, SpawnOf
<1>4. (NoSnapshot /\ Unrefreshed /\ FreshStart /\ Journaled)'
  BY <1>1, <1>2, <1>3 DEF DenialInv, NoSnapshot, Unrefreshed, FreshStart, Journaled, Same, Drained
<1>5. Noted'
  BY <1>1, <1>2, <1>3 DEF DenialInv, Noted, Same, Recorded, IsTerminal, Drained
<1>6. Halted'
  BY <1>1, <1>2, <1>3 DEF DenialInv, Halted, Same, Recorded, Drained
<1>7. Undisturbed'
  <2>1. SUFFICES ASSUME Going(s)'
                 PROVE  Steady(s)'
    BY DEF Undisturbed
  <2>2. Going(s)
    BY <1>1, <1>2, <1>3, <2>1 DEF Going, Closed, Recorded, Same, Drained, DenialInv, Halted
  <2>3. Steady(s)
    BY <2>2 DEF DenialInv, Undisturbed
  <2>4. /\ ~Closed /\ mailbox = {} /\ journal.terminal = "none" /\ ~journal.cancel_requested
        /\ mem[s].state \in {"queued", "running", "confirming"} /\ ~IsTerminal(s)
    BY <2>2, <2>3 DEF Going, Closed, Recorded, Steady, IsTerminal, Settled, Terminals, Final
  <2>5. Resting(s) /\ mem[s].state = "queued"
    BY <1>1, <1>3, <2>3 DEF Steady, Resting, SlotIsLive
  <2> QED
    BY <1>1, <1>2, <1>3, <2>3, <2>5 DEF Steady, Resting
<1>8. Refused'
  BY <1>1, <1>2, <1>3 DEF DenialInv, Refused, Same, Drained
<1> QED
  BY <1>4, <1>5, <1>6, <1>7, <1>8 DEF DenialInv

\* What ConfirmedRun rules out: questions, adoptions, crashes and refreshes.
LEMMA RuledOut ==
  ASSUME ConfirmedRun, TypeOK, DenialInv, NEW s \in Services
  PROVE  ~Answer(s) /\ ~Adopt(s) /\ ~Crash(s) /\ ~RefreshStep(s)
<1>1. ~Answer(s)
  <2>1. journal.open => journal.asked \in Confirmations
    BY DEF ConfirmedRun, DenialInv, Journaled, TypeOK, RunState
  <2> QED
    BY <2>1 DEF Answer, PendingQuestion, Pending
<1>2. used.adoptions = 0 /\ used.crashes = 0 /\ used.refreshes = 0
  BY DEF ConfirmedRun, TypeOK, Bounds
<1>3. ~Adopt(s) /\ ~Crash(s)
  BY <1>2 DEF Adopt, Crash, ConfirmedRun
<1>4. ~RefreshStep(s)
  BY <1>2 DEF RefreshStep, RefreshScan, RefreshInsert, RefreshMerge, ConfirmedRun, DenialInv, Unrefreshed
<1> QED
  BY <1>1, <1>3, <1>4

\* Every step keeps the invariant of a denial.
LEMMA NextDenial ==
  ASSUME ConfirmedRun, TypeOK, SingleWriter, DenialInv, [Next]_vars
  PROVE  DenialInv'
<1>1. CASE UNCHANGED vars
  BY <1>1 DEF DenialInv, NoSnapshot, Unrefreshed, FreshStart, Journaled, Noted, Halted, Undisturbed,
     Refused, Recorded, Closed, Going, Steady, Resting, IsTerminal, vars, shared, local, calls
<1>2. CASE Next
  <2>1. PICK s \in Services : Services = {s}
    BY <1>2 DEF ConfirmedRun
  <2>2. CASE SpawnStep(s)
    BY <2>1, <2>2, SpawnStartsDenial, SpawnAbortsDenial, SpawnGivesUpDenial DEF SpawnStep
  <2>3. CASE TaskStep(s)
    BY <2>1, <2>3, TaskReconcileDenial, TaskFailDenial, TaskDrainDenial, TaskQueuedDenial,
       TaskAdmittedDenial, TaskStartDenial, TaskEngineDenial, TaskReturnedDenial,
       FinishUntrackedDenial, FinishCanceledDenial, FinishOutcomeDenial, FinishSuspensionDenial,
       TaskRequeueDenial, TaskCommitDenial, TaskCancelDrainDenial, TaskCancelAppendDenial,
       TaskCancelCommitDenial, TaskSettleDrainDenial, TaskSettleAppendDenial,
       TaskSettleCommitDenial, TaskFinishedDenial DEF TaskStep
  <2>4. CASE JoinTimeout(s) \/ Boot(s) \/ ResumeStuck(s)
    BY <2>1, <2>4, JoinTimeoutDenial, BootDenial, ResumeStuckDenial
  <2>5. CASE DenialStep(s)
    BY <2>1, <2>5, DenialMarkDenial, DenialSealDenial, DenialCommitDenial DEF DenialStep
  <2>6. CASE PreemptStep(s)
    BY <2>1, <2>6, PreemptMarkDenial, PreemptLeaseDenial, PreemptRequeueDenial, PreemptCommitDenial,
       PreemptReleaseDenial, PreemptSettleDenial, PreemptAppendDenial, PreemptSettledDenial
       DEF PreemptStep
  <2>7. CASE ShutdownStep(s)
    BY <2>1, <2>7, ShutdownPublishDenial, ShutdownSignalDenial, ShutdownTakeDenial,
       ShutdownJoinedDenial, ShutdownSettleDenial, ShutdownAppendDenial, ShutdownSettledDenial,
       ShutdownLateDenial, ShutdownOrphansDenial, ShutdownEndsDenial DEF ShutdownStep
  <2>8. CASE RefreshStep(s) \/ UserStep(s)
    BY <2>1, <2>8, RuledOut, ApproveDenial, DenyConfirmationDenial, PreemptBeginDenial,
       ShutdownBeginDenial, EvictTerminalDenial DEF UserStep
  <2>9. ASSUME NEW op \in Operations, CancelStep(op) \/ CancelBegin(op, s)
        PROVE  DenialInv'
    BY <2>1, <2>9, CancelPublishDenial, CancelSignalDenial, CancelJoinedDenial, CancelSettleDenial,
       CancelAppendDenial, CancelCommitDenial, CancelBeginDenial DEF CancelStep
  <2> QED
    BY <1>2, <2>1, <2>2, <2>3, <2>4, <2>5, <2>6, <2>7, <2>8, <2>9 DEF Next
<1> QED
  BY <1>1, <1>2

\* A freshly admitted run is undisturbed.
LEMMA InitDenial ==
  ASSUME ConfirmedRun, Init
  PROVE  DenialInv
<1>1. PICK s \in Services : Services = {s}
  BY DEF ConfirmedRun, Init
<1>2. PICK owner \in Services :
         /\ mem = [t \in Services |-> [Untracked EXCEPT !.tracked = (t = owner)]]
         /\ spawns = [t \in Services |-> IF t = owner THEN {SpawnOf(Untracked)} ELSE {}]
         /\ cancel = [op \in Operations |->
                        [at |-> "idle", on |-> owner, fresh |-> FALSE, outcome |-> "queued"]]
  BY DEF Init
<1>3. /\ mem[s].tracked /\ mem[s].state = "queued" /\ ~mem[s].preempted /\ ~mem[s].yield
      /\ mem[s].token = 0 /\ spawns[s] = {SpawnOf(mem[s])} /\ ~SpawnOf(mem[s]).snapshot
      /\ \A op \in Operations : cancel[op].at = "idle"
  BY <1>1, <1>2 DEF Untracked, SpawnOf
<1>4. /\ task[s].at = "idle" /\ ~task[s].snapshot /\ process[s] = "up" /\ canceled[s] = {}
      /\ preempt[s].at = "idle" /\ ~preempt[s].resume /\ shutdown[s].at = "idle"
      /\ denial[s] = "idle" /\ refresh[s].at = "idle"
  BY DEF Init, NoTask, NoRefresh
<1>5. /\ ~journal.denied /\ ~journal.open /\ journal.terminal = "none"
      /\ journal.cancel_operations = {} /\ mailbox = {}
  BY DEF Init, Admitted
<1>6. "queued" \notin Settled /\ "idle" \notin Settling
  BY DEF Settled, Terminals, Final, Settling
<1>7. NoSnapshot /\ Unrefreshed /\ FreshStart /\ Journaled
  BY <1>1, <1>3, <1>4, <1>5 DEF NoSnapshot, Unrefreshed, FreshStart, Journaled
<1>8. Noted
  BY <1>1, <1>3, <1>4, <1>6 DEF Noted, IsTerminal
<1>9. Halted
  BY <1>1, <1>4, <1>6 DEF Halted
<1>10. Undisturbed
  BY <1>1, <1>3, <1>4, <1>5 DEF Undisturbed, Steady, Resting
<1>11. Refused
  BY <1>5 DEF Refused
<1> QED
  BY <1>7, <1>8, <1>9, <1>10, <1>11 DEF DenialInv

\* The invariant of a denial.
LEMMA DenialInvariant == ASSUME ConfirmedRun PROVE Spec => []DenialInv
<1>1. Init => DenialInv
  BY InitDenial
<1>2. TypeOK /\ SingleWriter /\ DenialInv /\ [Next]_vars => DenialInv'
  BY NextDenial
<1> QED
  BY <1>1, <1>2, TypeCorrect, LeaseExcludes, PTL DEF Spec

\* A run whose confirmation was denied never executes again, and the only
\* outcome it can get is the failure that seals the denial, although cancels,
\* preemptions and shutdowns with restarts are under way: confirm accepts a
\* denial only where no task and no spawn request is left to pass it by.
THEOREM DeniedCorrect == ASSUME ConfirmedRun PROVE Spec => []DeniedRunNeverExecutes
<1>1. DenialInv => DeniedRunNeverExecutes
  BY DEF DenialInv, Refused, DeniedRunNeverExecutes
<1> QED
  BY <1>1, DenialInvariant, PTL

=============================================================================
