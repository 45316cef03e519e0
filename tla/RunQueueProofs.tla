--------------------------- MODULE RunQueueProofs ---------------------------
(***************************************************************************)
(* The execution slots of RunQueue are conserved, and equals are served    *)
(* first come first served, for every set of runs, every priority, both    *)
(* preemption modes and every max_active_runs.                             *)
(*                                                                         *)
(* A step moves at most one task, so the set of slot holders gains one     *)
(* run, loses one run or stays.  Only LoopTake makes a holder and it takes *)
(* a free slot; only TaskAbandon and EngineReturns end one and they give   *)
(* the slot back.  SlotsConserved is not inductive: AdmitDirect moves the   *)
(* task of a direct run to the queue loop, which would end a hold unless   *)
(* an untracked run has no task.  Untracked adds that, with the calls that *)
(* could start the task; SlotInv adds where tasks can be and that the      *)
(* counter is a number.  FifoAmongEquals needs HeadInv, AheadInv and       *)
(* EpisodeInv, introduced below.                                           *)
(***************************************************************************)
EXTENDS RunQueue, FiniteSetTheorems, TLAPS

Points == {"none", "start", "top", "head", "take", "parked", "settle",
           "admitted", "abandon", "engine", "finish"}
Holding == {"admitted", "abandon", "engine"}

Records == {"absent", "queued", "running", "confirming", "cancel_requested", "settled"}
Calls == {"idle", "staged", "admit", "arrived", "spawn", "deny"}

Untracked == /\ record \in [Runs -> Records]
             /\ call \in [Runs -> Calls]
             /\ cancel \in [Runs -> {"idle", "settle", "join"}]
             /\ \A r \in Runs : record[r] = "absent" =>
                   task[r] = "none" /\ call[r] \in {"idle", "staged"} /\ cancel[r] = "idle"
             /\ \A r \in Runs : call[r] = "staged" =>
                   record[r] = "absent" /\ r \notin PeerRuns \cup DirectRuns

SlotInv == /\ task \in [Runs -> Points]
           /\ available \in Nat
           /\ SlotsConserved

\* A run that the service does not track has no task, no call that would
\* spawn one, and stays so until it is admitted or found in the shared store.
LEMMA TaskStepUntracked ==
    ASSUME Untracked, task \in [Runs -> Points], NEW r \in Runs, TaskStep(r)
    PROVE  Untracked'
  <1>1. CASE TaskStart(r) \/ LoopTop(r) \/ LoopHead(r)
    BY <1>1 DEF Untracked, TaskStart, LoopTop, LoopHead, Goto, Records, calls, queue
  <1>2. CASE LoopTake(r) \/ LoopWake(r) \/ TaskSettle(r)
    BY <1>2 DEF Untracked, LoopTake, LoopWake, TaskSettle, Goto, Records, calls, queue
  <1>3. CASE TaskAdmitted(r) \/ TaskAbandon(r)
    BY <1>3 DEF Untracked, TaskAdmitted, TaskAbandon, Goto, Records, calls, queue
  <1>4. CASE EngineReturns(r)
    BY <1>4 DEF Untracked, EngineReturns, Goto, Records, calls, queue
  <1>5. CASE TaskFinish(r)
    BY <1>5 DEF Untracked, TaskFinish, Goto, Records, calls, queue
  <1> QED
    BY <1>1, <1>2, <1>3, <1>4, <1>5 DEF TaskStep

LEMMA OtherStepUntracked ==
    ASSUME Untracked, task \in [Runs -> Points], NEW r \in Runs,
           CallStep(r) \/ PreemptStep(r) \/ PeerStep(r) \/ ResumeStuck(r) \/ UserStep(r)
    PROVE  Untracked'
  <1>0. CASE Register(r)
    BY <1>0 DEF Untracked, Register, Records, Calls
  <1>1. CASE SpawnCall(r)
    BY <1>1 DEF Untracked, SpawnCall, Goto, Calls, queue
  <1>2. CASE PreemptForPriority(r) \/ DenyCommit(r) \/ CancelEnds(r)
    BY <1>2 DEF Untracked, PreemptForPriority, DenyCommit, CancelEnds, Records, Calls, queue
  <1>3. CASE PreemptBegin(r)
    BY <1>3 DEF Untracked, PreemptBegin, Records
  <1>4. CASE PreemptAppend(r) \/ PreemptInstall(r)
    BY <1>4 DEF Untracked, PreemptAppend, PreemptInstall, Records, Calls
  <1>5. CASE PeerStep(r)
    BY <1>5 DEF Untracked, PeerStep, PeerSettles, RefreshMerge, Records, calls, queue
  <1>6. CASE ResumeStuck(r)
    BY <1>6 DEF Untracked, ResumeStuck, Goto, calls, queue
  <1>7. CASE Stage(r) \/ AdmitDirect(r)
    BY <1>7 DEF Untracked, Stage, AdmitDirect, Goto, Records, Calls, calls
  <1>8. CASE Approve(r) \/ Deny(r) \/ Cancel(r)
    BY <1>8 DEF Untracked, Approve, Deny, Cancel, Records, Calls
  <1>9. CASE RefreshInsert(r)
    BY <1>9 DEF Untracked, RefreshInsert, Records, calls
  <1> QED
    BY <1>0, <1>1, <1>2, <1>3, <1>4, <1>5, <1>6, <1>7, <1>8, <1>9
       DEF CallStep, PreemptStep, UserStep

-----------------------------------------------------------------------------
\* The holders are a finite set: their number is a natural number.
LEMMA HoldersFinite == IsFiniteSet(Holders) /\ Cardinality(Holders) \in Nat
  <1>1. Holders \in SUBSET Runs
    BY DEF Holders
  <1>2. IsFiniteSet(Holders)
    BY <1>1, RunsAssumption, FS_Subset
  <1> QED
    BY <1>2, FS_CardinalityType

\* A task that moves between two points on the same side of the slot leaves
\* the holders as they are.
LEMMA SameHolders ==
    ASSUME SlotInv, NEW r \in Runs, NEW p \in Points, Goto(r, p),
           task[r] \in Holding <=> p \in Holding, UNCHANGED available
    PROVE  SlotInv'
  <1>1. task' \in [Runs -> Points]
    BY DEF SlotInv, Goto
  <1>2. Holders' = Holders
    BY DEF SlotInv, Goto, Holders, Holding
  <1> QED
    BY <1>1, <1>2 DEF SlotInv, SlotsConserved

\* A step that moves no task and leaves the counter alone.
LEMMA NoTaskMoves ==
    ASSUME SlotInv, UNCHANGED <<task, available>>
    PROVE  SlotInv'
  BY DEF SlotInv, SlotsConserved, Holders

\* A task that takes a slot from the counter.
LEMMA SlotTaken ==
    ASSUME SlotInv, NEW r \in Runs, NEW p \in Holding, Goto(r, p),
           task[r] \notin Holding, available > 0, available' = available - 1
    PROVE  SlotInv'
  <1>1. task' \in [Runs -> Points] /\ available' \in Nat
    BY DEF SlotInv, Goto, Points, Holding
  <1>2. Holders' = Holders \cup {r} /\ r \notin Holders
    BY DEF SlotInv, Goto, Holders, Holding
  <1>3. Cardinality(Holders') = Cardinality(Holders) + 1
    BY <1>2, HoldersFinite, FS_AddElement
  <1>4. available' + Cardinality(Holders') = available + Cardinality(Holders)
    BY <1>3, HoldersFinite DEF SlotInv
  <1> QED
    BY <1>1, <1>4 DEF SlotInv, SlotsConserved

\* A task that ends its hold and returns the slot.
LEMMA SlotReturned ==
    ASSUME SlotInv, NEW r \in Runs, NEW p \in Points \ Holding, Goto(r, p),
           task[r] \in Holding, available' = available + 1
    PROVE  SlotInv'
  <1>1. task' \in [Runs -> Points] /\ available' \in Nat
    BY DEF SlotInv, Goto
  <1>2. Holders' = Holders \ {r} /\ r \in Holders
    BY DEF SlotInv, Goto, Holders, Holding
  <1>3. Cardinality(Holders') = Cardinality(Holders) - 1
    BY <1>2, HoldersFinite, FS_RemoveElement
  <1>4. available' + Cardinality(Holders') = available + Cardinality(Holders)
    BY <1>3, HoldersFinite DEF SlotInv
  <1> QED
    BY <1>1, <1>4 DEF SlotInv, SlotsConserved

LEMMA InitSlots == Init => SlotInv /\ Untracked
  <1> SUFFICES ASSUME Init PROVE SlotInv /\ Untracked
    OBVIOUS
  <1>0. Untracked
    BY DEF Init, Untracked, Records, Calls
  <1>1. task \in [Runs -> Points] /\ available \in Nat
    BY RunsAssumption DEF Init, Points
  <1>2. Holders = {}
    BY DEF Init, Holders
  <1> QED
    BY <1>0, <1>1, <1>2, FS_EmptySet, RunsAssumption DEF Init, SlotInv, SlotsConserved

\* The steps of a run's task.
LEMMA TaskStepSlots ==
    ASSUME SlotInv, NEW r \in Runs, TaskStep(r)
    PROVE  SlotInv'
  <1>1. CASE TaskStart(r)
    <2>1. PICK p \in {"none", "top"} : Goto(r, p)
      BY <1>1 DEF TaskStart
    <2> QED
      BY <1>1, <2>1, SameHolders DEF TaskStart, Points, Holding
  <1>2. CASE LoopTop(r)
    <2>1. PICK p \in {"settle", "head"} : Goto(r, p)
      BY <1>2 DEF LoopTop
    <2> QED
      BY <1>2, <2>1, SameHolders DEF LoopTop, Points, Holding
  <1>3. CASE LoopHead(r)
    <2>1. PICK p \in {"none", "take", "parked"} : Goto(r, p)
      BY <1>3 DEF LoopHead
    <2> QED
      BY <1>3, <2>1, SameHolders DEF LoopHead, Points, Holding
  <1>4. CASE LoopTake(r)
    <2>1. CASE available > 0 /\ available' = available - 1 /\ Goto(r, "admitted")
      BY <1>4, <2>1, SlotTaken DEF LoopTake, Holding
    <2>2. CASE Goto(r, "parked") /\ UNCHANGED available
      BY <1>4, <2>2, SameHolders DEF LoopTake, Points, Holding
    <2> QED
      BY <1>4, <2>1, <2>2 DEF LoopTake
  <1>5. CASE LoopWake(r)
    <2>1. PICK p \in {"top", "settle"} : Goto(r, p)
      BY <1>5 DEF LoopWake
    <2> QED
      BY <1>5, <2>1, SameHolders DEF LoopWake, Points, Holding
  <1>6. CASE TaskSettle(r)
    BY <1>6, SameHolders DEF TaskSettle, Points, Holding
  <1>7. CASE TaskAdmitted(r)
    <2>1. PICK p \in {"abandon", "engine"} : Goto(r, p)
      BY <1>7 DEF TaskAdmitted
    <2> QED
      BY <1>7, <2>1, SameHolders DEF TaskAdmitted, Points, Holding
  <1>8. CASE TaskAbandon(r)
    BY <1>8, SlotReturned DEF TaskAbandon, Release, Points, Holding
  <1>9. CASE EngineReturns(r)
    <2>1. PICK p \in {"none", "finish"} : Goto(r, p)
      BY <1>9 DEF EngineReturns
    <2> QED
      BY <1>9, <2>1, SlotReturned DEF EngineReturns, Release, Points, Holding
  <1>10. CASE TaskFinish(r)
    BY <1>10, SameHolders DEF TaskFinish, Points, Holding
  <1> QED
    BY <1>1, <1>2, <1>3, <1>4, <1>5, <1>6, <1>7, <1>8, <1>9, <1>10 DEF TaskStep

\* Calls, preemptions, peers and clients start tasks but hold no slot.
LEMMA OtherStepSlots ==
    ASSUME SlotInv, Untracked, NEW r \in Runs,
           CallStep(r) \/ PreemptStep(r) \/ PeerStep(r) \/ ResumeStuck(r) \/ UserStep(r)
    PROVE  SlotInv'
  <1>1. CASE SpawnCall(r)
    <2>1. CASE task[r] = "none" /\ Goto(r, "start")
      BY <1>1, <2>1, SameHolders DEF SpawnCall, Points, Holding
    <2>2. CASE UNCHANGED task
      BY <1>1, <2>2, NoTaskMoves DEF SpawnCall
    <2> QED
      BY <1>1, <2>1, <2>2 DEF SpawnCall
  <1>2. CASE Register(r) \/ PreemptForPriority(r) \/ DenyCommit(r) \/ CancelEnds(r)
    BY <1>2, NoTaskMoves DEF Register, PreemptForPriority, DenyCommit, CancelEnds
  <1>3. CASE PreemptStep(r)
    BY <1>3, NoTaskMoves DEF PreemptStep, PreemptBegin, PreemptAppend, PreemptInstall
  <1>4. CASE PeerStep(r)
    BY <1>4, NoTaskMoves DEF PeerStep, PeerSettles, RefreshMerge
  <1>5. CASE ResumeStuck(r)
    <2>1. CASE Goto(r, "start")
      BY <1>5, <2>1, SameHolders DEF ResumeStuck, Points, Holding
    <2>2. CASE UNCHANGED task
      BY <1>5, <2>2, NoTaskMoves DEF ResumeStuck
    <2> QED
      BY <1>5, <2>1, <2>2 DEF ResumeStuck
  <1>6. CASE AdmitDirect(r)
    <2>1. task[r] = "none" /\ UNCHANGED available
      BY <1>6 DEF AdmitDirect, Untracked
    <2> QED
      BY <1>6, <2>1, SameHolders DEF AdmitDirect, Points, Holding
  <1>7. CASE Stage(r) \/ Approve(r) \/ Deny(r) \/ Cancel(r) \/ RefreshInsert(r)
    BY <1>7, NoTaskMoves DEF Stage, Approve, Deny, Cancel, RefreshInsert
  <1> QED
    BY <1>1, <1>2, <1>3, <1>4, <1>5, <1>6, <1>7 DEF CallStep, UserStep

\* The strengthened invariant holds throughout.
LEMMA SlotInvariant == Spec => [](SlotInv /\ Untracked)
  <1> DEFINE Inv == SlotInv /\ Untracked
  <1>1. Inv /\ [Next]_vars => Inv'
    <2> SUFFICES ASSUME SlotInv, Untracked, [Next]_vars PROVE SlotInv' /\ Untracked'
      OBVIOUS
    <2>1. CASE UNCHANGED vars
      <3>1. SlotInv'
        BY <2>1, NoTaskMoves DEF vars, service
      <3>2. Untracked'
        BY <2>1 DEF Untracked, vars, service, queue, calls
      <3> QED
        BY <3>1, <3>2
    <2>2. ASSUME NEW r \in Runs, TaskStep(r)
          PROVE  SlotInv' /\ Untracked'
      BY <2>2, TaskStepSlots, TaskStepUntracked DEF SlotInv
    <2>3. ASSUME NEW r \in Runs,
                 CallStep(r) \/ PreemptStep(r) \/ PeerStep(r) \/ ResumeStuck(r) \/ UserStep(r)
          PROVE  SlotInv' /\ Untracked'
      BY <2>3, OtherStepSlots, OtherStepUntracked DEF SlotInv
    <2> QED
      BY <2>1, <2>2, <2>3 DEF Next, Step
  <1> QED
    BY InitSlots, <1>1, PTL DEF Spec

\* Every behaviour conserves the slots: whatever the arrivals, decisions,
\* cancels and preemptions do, the permits of PriorityPermits are neither
\* lost on an early return nor handed out twice.
THEOREM SlotsKept == Spec => []SlotsConserved
  <1>1. SlotInv /\ Untracked => SlotsConserved
    BY DEF SlotInv
  <1> QED
    BY SlotInvariant, <1>1, PTL

\* The runs that an engine executes are no more than max_active_runs allows.
Executing == {r \in Runs : task[r] = "engine"}
AtMostMaxActive == Cardinality(Executing) <= MaxActive

\* That bound holds at all times, however many queue loops race for a slot.
COROLLARY EnginesBounded == Spec => []AtMostMaxActive
  <1>1. SlotInv => AtMostMaxActive
    <2> SUFFICES ASSUME SlotInv PROVE AtMostMaxActive
      OBVIOUS
    <2>1. Executing \in SUBSET Holders
      BY DEF Executing, Holders
    <2>2. Cardinality(Executing) <= Cardinality(Holders)
      BY <2>1, HoldersFinite, FS_Subset
    <2>3. Cardinality(Executing) \in Nat
      BY <2>1, HoldersFinite, FS_Subset, FS_CardinalityType
    <2>4. Cardinality(Holders) <= MaxActive
      BY HoldersFinite, RunsAssumption DEF SlotInv, SlotsConserved
    <2> QED
      BY <2>2, <2>3, <2>4, HoldersFinite, RunsAssumption DEF AtMostMaxActive
  <1>2. Spec => []SlotInv
    BY SlotInvariant, PTL
  <1> QED
    BY <1>1, <1>2, PTL


-----------------------------------------------------------------------------
\* Types.  What the proof of the slots does not already fix.

\* A new place in the order of stamps.
LEMMA PlacedTypes ==
    ASSUME NEW r \in Runs, earlier \in [Runs -> SUBSET Runs]
    PROVE  /\ Stamped(r) \in [Runs -> SUBSET Runs]
           /\ Runs \ {r} \in Places(r)
           /\ \A E \in Places(r) : Placed(r, E) \in [Runs -> SUBSET Runs]
  <1>1. \A E \in SUBSET Runs : Placed(r, E) \in [Runs -> SUBSET Runs]
    BY DEF Placed
  <1> QED
    BY <1>1 DEF Stamped, Places

LEMMA OtherTypesKept ==
    ASSUME TypeOK, Next
    PROVE  /\ preempted' \in [Runs -> BOOLEAN] /\ denied' \in [Runs -> BOOLEAN]
           /\ earlier' \in [Runs -> SUBSET Runs]
           /\ stop' \in [Runs -> BOOLEAN] /\ woken' \in [Runs -> BOOLEAN]
           /\ progress' \in [Runs -> {"none", "settled", "asked", "yielded", "canceled"}]
           /\ cancel' \in [Runs -> {"idle", "settle", "join"}]
           /\ preempt' \in [Runs -> {"idle", "begin", "wait", "requeue"}]
           /\ peer' \in [Runs -> {"none", "executing", "settled"}]
           /\ ahead' \in [Runs -> SUBSET Runs]
  <1> DEFINE Kept == /\ preempted' \in [Runs -> BOOLEAN] /\ denied' \in [Runs -> BOOLEAN]
                     /\ earlier' \in [Runs -> SUBSET Runs]
                     /\ stop' \in [Runs -> BOOLEAN] /\ woken' \in [Runs -> BOOLEAN]
                     /\ progress' \in [Runs -> {"none", "settled", "asked", "yielded", "canceled"}]
                     /\ cancel' \in [Runs -> {"idle", "settle", "join"}]
                     /\ preempt' \in [Runs -> {"idle", "begin", "wait", "requeue"}]
                     /\ peer' \in [Runs -> {"none", "executing", "settled"}]
  <1>0. Kept => ahead' \in [Runs -> SUBSET Runs]
    BY DEF Next, Remember
  <1> SUFFICES Kept
    BY <1>0
  <1> PICK r \in Runs : Step(r)
    BY DEF Next
  <1>1. Notify => woken' \in [Runs -> BOOLEAN]
    BY DEF Notify, Waiting, TypeOK
  <1>2. \A q \in Runs : /\ Stamped(q) \in [Runs -> SUBSET Runs]
                        /\ \A E \in Places(q) : Placed(q, E) \in [Runs -> SUBSET Runs]
    BY PlacedTypes DEF TypeOK
  <1> USE <1>1 DEF TypeOK, Goto
  <1> HIDE DEF Notify
  <1>3. CASE TaskStep(r)
    <2>1. CASE TaskStart(r)
      BY <2>1 DEF TaskStart, queue, calls
    <2>2. CASE LoopTop(r)
      BY <2>2 DEF LoopTop, queue, calls
    <2>3. CASE LoopHead(r)
      BY <2>3 DEF LoopHead, queue, calls
    <2>4. CASE LoopTake(r)
      BY <2>4 DEF LoopTake, queue, calls
    <2>5. CASE LoopWake(r)
      BY <2>5 DEF LoopWake, queue, calls
    <2>6. CASE TaskSettle(r)
      BY <2>6 DEF TaskSettle, queue, calls
    <2>7. CASE TaskAdmitted(r)
      BY <2>7 DEF TaskAdmitted, queue, calls
    <2>8. CASE TaskAbandon(r)
      BY <2>8 DEF TaskAbandon, Release, queue, calls
    <2>9. CASE TaskFinish(r)
      BY <2>9 DEF TaskFinish, queue, calls
    <2>10. CASE EngineReturns(r)
      BY <2>10 DEF EngineReturns, Release, queue, calls
    <2> QED
      BY <1>3, <2>1, <2>2, <2>3, <2>4, <2>5, <2>6, <2>7, <2>8, <2>9, <2>10
         DEF TaskStep
  <1>6. CASE CallStep(r)
    <2>1. CASE Register(r) \/ SpawnCall(r) \/ DenyCommit(r) \/ CancelEnds(r)
      BY <2>1 DEF Register, SpawnCall, DenyCommit, CancelEnds, queue, calls
    <2>2. CASE PreemptForPriority(r)
      <3>1. Victims(r) \in SUBSET Runs
        BY DEF Victims
      <3>2. preempt' \in [Runs -> {"idle", "begin", "wait", "requeue"}]
        BY <2>2, <3>1 DEF PreemptForPriority
      <3> QED
        BY <2>2, <3>2 DEF PreemptForPriority, queue, calls
    <2> QED
      BY <1>6, <2>1, <2>2 DEF CallStep
  <1>7. CASE PreemptBegin(r)
    <2>1. CASE UNCHANGED <<preempted, stop>> /\ preempt' = [preempt EXCEPT ![r] = "idle"]
      BY <1>7, <2>1 DEF PreemptBegin
    <2>2. CASE /\ preempt' = [preempt EXCEPT ![r] = "wait"]
               /\ preempted' = [preempted EXCEPT ![r] = TRUE]
      BY <1>7, <2>2 DEF PreemptBegin
    <2> QED
      BY <1>7, <2>1, <2>2 DEF PreemptBegin
  <1>8. CASE PreemptAppend(r)
    BY <1>8 DEF PreemptAppend
  <1>17. CASE PreemptInstall(r)
    <2>1. preempt' \in [Runs -> {"idle", "begin", "wait", "requeue"}]
      BY <1>17 DEF PreemptInstall
    <2>2. \/ UNCHANGED <<preempted, stop>>
          \/ /\ preempted' = [preempted EXCEPT ![r] = FALSE]
             /\ stop' = [stop EXCEPT ![r] = FALSE]
      BY <1>17 DEF PreemptInstall
    <2>3. preempted' \in [Runs -> BOOLEAN] /\ stop' \in [Runs -> BOOLEAN]
      BY <2>2
    <2>4. earlier' = earlier \/ \E E \in Places(r) : earlier' = Placed(r, E)
      BY <1>17 DEF PreemptInstall
    <2>5. earlier' \in [Runs -> SUBSET Runs]
      BY <2>4, <1>2
    <2>6. woken' = woken \/ Notify
      BY <1>17 DEF PreemptInstall
    <2> QED
      BY <1>17, <2>1, <2>3, <2>5, <2>6 DEF PreemptInstall
  <1>9. CASE PeerSettles(r)
    BY <1>9 DEF PeerSettles, queue, calls
  <1>10. CASE RefreshMerge(r)
    BY <1>10 DEF RefreshMerge, queue, calls
  <1>11. CASE ResumeStuck(r)
    BY <1>11 DEF ResumeStuck, queue, calls
  <1>12. CASE Stage(r)
    BY <1>12, <1>2 DEF Stage, queue, calls
  <1>18. CASE AdmitDirect(r)
    BY <1>18, <1>2 DEF AdmitDirect, queue, calls
  <1>13. CASE RefreshInsert(r)
    BY <1>13, <1>2 DEF RefreshInsert, queue, calls
  <1>14. CASE Approve(r)
    BY <1>14, <1>2 DEF Approve, queue, calls
  <1>15. CASE Deny(r)
    BY <1>15 DEF Deny, queue, calls
  <1>16. CASE Cancel(r)
    BY <1>16 DEF Cancel, queue, calls
  <1> QED
    BY <1>3, <1>6, <1>7, <1>8, <1>9, <1>10, <1>11, <1>12, <1>13, <1>14, <1>15, <1>16,
       <1>17, <1>18 DEF Step, PreemptStep, PeerStep, UserStep

\* Every variable keeps its type; the counter of free slots stays within
\* max_active_runs because the slots are conserved.
THEOREM QueueTypesCorrect == Spec => []TypeOK
  <1> DEFINE Slots == available \in 0..MaxActive
  <1>1. SlotInv /\ Untracked => Slots
    BY HoldersFinite, RunsAssumption DEF SlotInv, SlotsConserved
  <1>2. Init => TypeOK
    BY RunsAssumption DEF Init, TypeOK
  <1>3. TypeOK /\ (SlotInv /\ Untracked)' /\ Slots' /\ [Next]_vars => TypeOK'
    <2> SUFFICES ASSUME TypeOK, SlotInv', Untracked', Slots', [Next]_vars PROVE TypeOK'
      OBVIOUS
    <2>1. CASE UNCHANGED vars
      BY <2>1 DEF TypeOK, vars, service, queue, calls
    <2>2. CASE Next
      BY <2>2, OtherTypesKept DEF TypeOK, SlotInv, Untracked, Points, Records, Calls
    <2> QED
      BY <2>1, <2>2
  <1> HIDE DEF Slots
  <1> QED
    BY <1>1, <1>2, <1>3, SlotInvariant, PTL DEF Spec


-----------------------------------------------------------------------------
(***************************************************************************)
(* First come first served.  A run that stands behind an equal when it      *)
(* enters the queue cannot pass the head check while that equal waits in    *)
(* front of it; and no run enters the queue, or enters it again, between    *)
(* its head check and its start.  For the second part EpisodeInv ties the   *)
(* record of a run to its task: a confirming run has no task, a running one *)
(* is in its engine call or was preempted, and the task of a preempted run  *)
(* whose requeue is under way has ended.                                    *)
(***************************************************************************)

InCall(r) == task[r] \in {"engine", "finish"}

Episode(r) ==
    /\ call[r] \in {"admit", "spawn"} =>
          task[r] = "none" /\ record[r] # "confirming" /\ ~preempted[r]
    /\ record[r] = "confirming" => task[r] = "none"
    /\ record[r] = "running" => InCall(r) \/ (task[r] = "none" /\ preempted[r])
    /\ record[r] = "queued" /\ InCall(r) => preempted[r]
    /\ record[r] = "running" /\ task[r] = "finish" /\ progress[r] = "yielded" => preempted[r]
    /\ preempted[r] => InCall(r) \/ task[r] = "none"
    /\ preempted[r] /\ preempt[r] = "requeue" => task[r] = "none"
    /\ record[r] = "absent" => ~preempted[r]
EpisodeInv == \A r \in Runs : Episode(r)

\* What the history holds.
AheadInv == \A r \in Runs : /\ r \notin earlier[r]
                            /\ \A q \in ahead[r] : q \in earlier[r] /\ record[q] = "queued"

Passed(r) == task[r] \in {"take", "admitted"}
HeadInv == \A r \in Runs : Passed(r) => \A q \in ahead[r] : Priority[q] # Priority[r]

\* An episode that a step does not touch.
LEMMA EpisodeUntouched ==
    ASSUME NEW q \in Runs, Episode(q), call'[q] = call[q], task'[q] = task[q],
           record'[q] = record[q], preempted'[q] = preempted[q], progress'[q] = progress[q],
           preempt'[q] = "requeue" => preempt[q] = "requeue"
    PROVE  Episode(q)'
  BY DEF Episode, InCall

\* What a step of one run leaves alone of the others.
LEMMA OthersKept ==
    ASSUME TypeOK, NEW s \in Runs, NEW q \in Runs, q # s, Step(s)
    PROVE  /\ task'[q] = task[q] /\ record'[q] = record[q]
           /\ call'[q] = call[q] /\ preempted'[q] = preempted[q]
           /\ progress'[q] = progress[q]
           /\ preempt'[q] = "requeue" => preempt[q] = "requeue"
  <1> USE DEF TypeOK, Goto
  <1>1. task'[q] = task[q] /\ record'[q] = record[q]
    BY DEF TaskStep, TaskStart, LoopTop, LoopHead, LoopTake, LoopWake, TaskSettle,
           TaskAdmitted, TaskAbandon, EngineReturns, TaskFinish, CallStep, Register, SpawnCall,
           PreemptForPriority, DenyCommit, CancelEnds, PreemptStep, PreemptBegin,
           PreemptAppend, PreemptInstall, PeerStep, PeerSettles, RefreshMerge, ResumeStuck,
           UserStep, Stage, AdmitDirect, Approve, Deny, Cancel, RefreshInsert, Step, queue, calls
  <1>2. call'[q] = call[q] /\ preempted'[q] = preempted[q]
    BY DEF TaskStep, TaskStart, LoopTop, LoopHead, LoopTake, LoopWake, TaskSettle,
           TaskAdmitted, TaskAbandon, EngineReturns, TaskFinish, CallStep, Register, SpawnCall,
           PreemptForPriority, DenyCommit, CancelEnds, PreemptStep, PreemptBegin,
           PreemptAppend, PreemptInstall, PeerStep, PeerSettles, RefreshMerge, ResumeStuck,
           UserStep, Stage, AdmitDirect, Approve, Deny, Cancel, RefreshInsert, Step, queue, calls
  <1>3. progress'[q] = progress[q]
    BY DEF TaskStep, TaskStart, LoopTop, LoopHead, LoopTake, LoopWake, TaskSettle,
           TaskAdmitted, TaskAbandon, EngineReturns, TaskFinish, CallStep, Register, SpawnCall,
           PreemptForPriority, DenyCommit, CancelEnds, PreemptStep, PreemptBegin,
           PreemptAppend, PreemptInstall, PeerStep, PeerSettles, RefreshMerge, ResumeStuck,
           UserStep, Stage, AdmitDirect, Approve, Deny, Cancel, RefreshInsert, Step, queue, calls
  <1>4. preempt'[q] = "requeue" => preempt[q] = "requeue"
    <2>1. CASE PreemptForPriority(s)
      BY <2>1 DEF PreemptForPriority, Victims
    <2> QED
      BY <2>1 DEF TaskStep, TaskStart, LoopTop, LoopHead, LoopTake, LoopWake, TaskSettle,
           TaskAdmitted, TaskAbandon, EngineReturns, TaskFinish, CallStep, Register, SpawnCall,
           DenyCommit, CancelEnds, PreemptStep, PreemptBegin,
           PreemptAppend, PreemptInstall, PeerStep, PeerSettles, RefreshMerge, ResumeStuck,
           UserStep, Stage, AdmitDirect, Approve, Deny, Cancel, RefreshInsert, Step, queue, calls
  <1> QED
    BY <1>1, <1>2, <1>3, <1>4

LEMMA EpisodeKept ==
    ASSUME TypeOK, Untracked, EpisodeInv, Next
    PROVE  EpisodeInv'
  <1> PICK r \in Runs : Step(r)
    BY DEF Next
  <1>0. Episode(r) /\ (record[r] = "absent" => task[r] = "none" /\ call[r] \in {"idle", "staged"})
       /\ (call[r] = "staged" => record[r] = "absent")
    BY DEF EpisodeInv, Untracked
  <1>1. ASSUME NEW q \in Runs, q # r
        PROVE  Episode(q)'
    <2>0. Episode(q)
      BY DEF EpisodeInv
    <2> QED
      BY <1>1, <2>0, OthersKept, EpisodeUntouched
  <1>2. Episode(r)'
    <2> USE <1>0 DEF TypeOK, Goto, Episode, InCall
    <2>1. CASE TaskStart(r)
      BY <2>1 DEF TaskStart, queue, calls
    <2>2. CASE LoopTop(r)
      BY <2>2 DEF LoopTop, queue, calls
    <2>3. CASE LoopHead(r)
      BY <2>3 DEF LoopHead, queue, calls
    <2>4. CASE LoopTake(r)
      BY <2>4 DEF LoopTake, queue, calls
    <2>5. CASE LoopWake(r)
      BY <2>5 DEF LoopWake, queue, calls
    <2>6. CASE TaskSettle(r)
      BY <2>6 DEF TaskSettle, queue, calls
    <2>7. CASE TaskAdmitted(r)
      BY <2>7 DEF TaskAdmitted, queue, calls
    <2>8. CASE TaskAbandon(r)
      BY <2>8 DEF TaskAbandon, queue, calls
    <2>9. CASE EngineReturns(r)
      BY <2>9 DEF EngineReturns, MayReturn, queue, calls
    <2>10. CASE TaskFinish(r)
      BY <2>10 DEF TaskFinish, queue, calls
    <2>11. CASE SpawnCall(r)
      BY <2>11 DEF SpawnCall, queue, calls
    <2>12. CASE PreemptForPriority(r)
      BY <2>12 DEF PreemptForPriority, queue, calls
    <2>13. CASE DenyCommit(r)
      BY <2>13 DEF DenyCommit, queue, calls
    <2>14. CASE CancelEnds(r)
      BY <2>14 DEF CancelEnds, queue, calls
    <2>15. CASE PreemptBegin(r)
      BY <2>15 DEF PreemptBegin, queue, calls
    <2>16. CASE PreemptAppend(r)
      BY <2>16 DEF PreemptAppend, queue, calls
    <2>25. CASE PreemptInstall(r)
      BY <2>25 DEF PreemptInstall, queue, calls
    <2>26. CASE Register(r)
      BY <2>26 DEF Register, queue, calls
    <2>17. CASE PeerSettles(r)
      BY <2>17 DEF PeerSettles, queue, calls
    <2>18. CASE RefreshMerge(r)
      BY <2>18 DEF RefreshMerge, queue, calls
    <2>19. CASE ResumeStuck(r)
      BY <2>19 DEF ResumeStuck, queue, calls
    <2>20. CASE Stage(r)
      BY <2>20 DEF Stage, queue, calls
    <2>27. CASE AdmitDirect(r)
      BY <2>27 DEF AdmitDirect, queue, calls
    <2>21. CASE Approve(r)
      BY <2>21 DEF Approve, queue, calls
    <2>22. CASE Deny(r)
      BY <2>22 DEF Deny, queue, calls
    <2>23. CASE Cancel(r)
      BY <2>23 DEF Cancel, queue, calls
    <2>24. CASE RefreshInsert(r)
      BY <2>24 DEF RefreshInsert, queue, calls
    <2> QED
      BY <2>1, <2>2, <2>3, <2>4, <2>5, <2>6, <2>7, <2>8, <2>9, <2>10, <2>11, <2>12,
         <2>13, <2>14, <2>15, <2>16, <2>17, <2>18, <2>19, <2>20, <2>21, <2>22, <2>23, <2>24,
         <2>25, <2>26, <2>27 DEF Step, TaskStep, CallStep, PreemptStep, PeerStep, UserStep
  <1> QED
    BY <1>1, <1>2 DEF EpisodeInv

\* A run that is between its head check and its start came there from the
\* check, and does not enter the queue meanwhile.
LEMMA PassedStays ==
    ASSUME TypeOK, Untracked, NEW r \in Runs, Episode(r), Passed(r)', Step(r)
    PROVE  /\ record'[r] = "queued" => record[r] = "queued"
           /\ Passed(r) \/ (task[r] = "head" /\ IsHead(r))
  <1>1. /\ record[r] = "absent" => task[r] = "none" /\ call[r] \in {"idle", "staged"}
        /\ call[r] = "staged" => record[r] = "absent"
    BY DEF Untracked
  <1>2. /\ record[r] = "confirming" => task[r] = "none"
        /\ record[r] = "running" => task[r] \in {"engine", "finish", "none"}
    BY DEF Episode, InCall
  <1> USE <1>1, <1>2 DEF TypeOK, Goto, Passed
  <1>3. CASE TaskStart(r)
    BY <1>3 DEF TaskStart, queue, calls
  <1>4. CASE LoopTop(r)
    BY <1>4 DEF LoopTop, queue, calls
  <1>5. CASE LoopHead(r)
    BY <1>5 DEF LoopHead, queue, calls
  <1>6. CASE LoopTake(r)
    BY <1>6 DEF LoopTake, queue, calls
  <1>7. CASE LoopWake(r)
    BY <1>7 DEF LoopWake, queue, calls
  <1>8. CASE TaskSettle(r)
    BY <1>8 DEF TaskSettle, queue, calls
  <1>9. CASE TaskAdmitted(r)
    BY <1>9 DEF TaskAdmitted, queue, calls
  <1>10. CASE TaskAbandon(r)
    BY <1>10 DEF TaskAbandon, queue, calls
  <1>11. CASE EngineReturns(r)
    BY <1>11 DEF EngineReturns, queue, calls
  <1>12. CASE TaskFinish(r)
    BY <1>12 DEF TaskFinish, queue, calls
  <1>13. CASE Register(r)
    BY <1>13 DEF Register, queue, calls
  <1>14. CASE SpawnCall(r)
    BY <1>14 DEF SpawnCall, queue, calls
  <1>15. CASE PreemptForPriority(r)
    BY <1>15 DEF PreemptForPriority, queue, calls
  <1>16. CASE DenyCommit(r)
    BY <1>16 DEF DenyCommit, queue, calls
  <1>17. CASE CancelEnds(r)
    BY <1>17 DEF CancelEnds, queue, calls
  <1>18. CASE PreemptBegin(r)
    BY <1>18 DEF PreemptBegin, queue, calls
  <1>19. CASE PreemptAppend(r)
    BY <1>19 DEF PreemptAppend, queue, calls
  <1>20. CASE PreemptInstall(r)
    BY <1>20 DEF PreemptInstall, queue, calls
  <1>21. CASE PeerSettles(r)
    BY <1>21 DEF PeerSettles, queue, calls
  <1>22. CASE RefreshMerge(r)
    BY <1>22 DEF RefreshMerge, queue, calls
  <1>23. CASE ResumeStuck(r)
    BY <1>23 DEF ResumeStuck, queue, calls
  <1>24. CASE Stage(r)
    BY <1>24 DEF Stage, queue, calls
  <1>25. CASE AdmitDirect(r)
    BY <1>25 DEF AdmitDirect, queue, calls
  <1>26. CASE Approve(r)
    BY <1>26 DEF Approve, queue, calls
  <1>27. CASE Deny(r)
    BY <1>27 DEF Deny, queue, calls
  <1>28. CASE Cancel(r)
    BY <1>28 DEF Cancel, queue, calls
  <1>29. CASE RefreshInsert(r)
    BY <1>29 DEF RefreshInsert, queue, calls
  <1> QED
    BY <1>3, <1>4, <1>5, <1>6, <1>7, <1>8, <1>9, <1>10, <1>11, <1>12, <1>13, <1>14,
       <1>15, <1>16, <1>17, <1>18, <1>19, <1>20, <1>21, <1>22, <1>23, <1>24, <1>25, <1>26,
       <1>27, <1>28, <1>29
       DEF Step, TaskStep, CallStep, PreemptStep, PeerStep, UserStep

\* A stamp moves by being placed anew.
LEMMA StampMoves ==
    ASSUME TypeOK, NEW s \in Runs, Step(s)
    PROVE  earlier' = earlier \/ \E E \in Places(s) : earlier' = Placed(s, E)
  <1>1. Runs \ {s} \in Places(s)
    BY PlacedTypes DEF TypeOK
  <1> USE <1>1 DEF queue, calls, Stamped
  <1>2. CASE \/ TaskStart(s) \/ LoopTop(s) \/ LoopHead(s) \/ LoopTake(s) \/ LoopWake(s) \/ TaskSettle(s)
    BY <1>2 DEF TaskStart, LoopTop, LoopHead, LoopTake, LoopWake, TaskSettle
  <1>3. CASE \/ TaskAdmitted(s) \/ TaskAbandon(s) \/ EngineReturns(s) \/ TaskFinish(s) \/ ResumeStuck(s)
    BY <1>3 DEF TaskAdmitted, TaskAbandon, EngineReturns, TaskFinish, ResumeStuck
  <1>4. CASE \/ Register(s) \/ SpawnCall(s) \/ PreemptForPriority(s) \/ DenyCommit(s) \/ CancelEnds(s)
    BY <1>4 DEF Register, SpawnCall, PreemptForPriority, DenyCommit, CancelEnds
  <1>5. CASE \/ PreemptBegin(s) \/ PreemptAppend(s)
    BY <1>5 DEF PreemptBegin, PreemptAppend
  <1>6. CASE \/ PreemptInstall(s)
    BY <1>6 DEF PreemptInstall
  <1>7. CASE \/ PeerSettles(s) \/ RefreshMerge(s) \/ Deny(s) \/ Cancel(s)
    BY <1>7 DEF PeerSettles, RefreshMerge, Deny, Cancel
  <1>8. CASE \/ Stage(s)
    BY <1>8 DEF Stage
  <1>9. CASE \/ AdmitDirect(s) \/ Approve(s)
    BY <1>9 DEF AdmitDirect, Approve
  <1>10. CASE \/ RefreshInsert(s)
    BY <1>10 DEF RefreshInsert
  <1> QED
    BY <1>2, <1>3, <1>4, <1>5, <1>6, <1>7, <1>8, <1>9, <1>10 DEF Step, TaskStep, CallStep, PreemptStep,
       PeerStep, UserStep

LEMMA AheadKept ==
    ASSUME TypeOK, AheadInv, Next
    PROVE  AheadInv'
  <1> PICK s \in Runs : Step(s)
    BY DEF Next
  <1>1. \A r \in Runs : r \notin earlier'[r]
    BY StampMoves DEF AheadInv, Placed, Places, TypeOK
  <1>2. \A r \in Runs : \A q \in ahead'[r] : q \in earlier'[r] /\ record'[q] = "queued"
    BY DEF Next, Remember
  <1> QED
    BY <1>1, <1>2 DEF AheadInv

LEMMA HeadKept ==
    ASSUME TypeOK, Untracked, EpisodeInv, AheadInv, HeadInv, Next
    PROVE  HeadInv'
  <1> PICK s \in Runs : Step(s)
    BY DEF Next
  <1> SUFFICES ASSUME NEW r \in Runs, Passed(r)', NEW q \in ahead'[r]
               PROVE  Priority[q] # Priority[r]
    BY DEF HeadInv
  <1>0. Episode(r)
    BY DEF EpisodeInv
  <1>1. /\ record'[r] = "queued" => record[r] = "queued"
        /\ Passed(r) \/ (task[r] = "head" /\ IsHead(r))
    <2>1. CASE s = r
      BY <1>0, <2>1, PassedStays
    <2>2. CASE s # r
      BY <2>2, OthersKept DEF Passed
    <2> QED
      BY <2>1, <2>2
  <1>2. q \in ahead[r]
    BY <1>1 DEF Next, Remember
  <1>3. q \in Runs /\ q # r /\ q \in earlier[r] /\ record[q] = "queued"
    BY <1>2 DEF AheadInv, TypeOK
  <1>4. CASE Passed(r)
    BY <1>2, <1>4 DEF HeadInv
  <1>5. CASE IsHead(r)
    BY <1>3, <1>5 DEF IsHead, Ahead
  <1> QED
    BY <1>1, <1>4, <1>5

\* First come first served among equals, for every set of runs, every
\* number of slots and both preemption modes: the head check of the queue
\* loop and the start are steps apart, and admissions, adoptions, peers and
\* preemptions insert runs with any older stamp, yet a run that entered the
\* queue behind an equal does not start before that one (queue_head).
THEOREM FifoCorrect == Spec => FifoAmongEquals
  <1> DEFINE Fifo == EpisodeInv /\ AheadInv /\ HeadInv
  <1>1. Init => Fifo
    BY DEF Init, EpisodeInv, Episode, InCall, AheadInv, HeadInv, Passed
  <1>2. TypeOK /\ Untracked /\ Fifo /\ [Next]_vars => Fifo'
    <2> SUFFICES ASSUME TypeOK, Untracked, Fifo, [Next]_vars PROVE Fifo'
      OBVIOUS
    <2>1. CASE UNCHANGED vars
      <3> USE <2>1 DEF vars, service, queue, calls
      <3>1. EpisodeInv'
        BY DEF EpisodeInv, Episode, InCall
      <3>2. AheadInv'
        BY DEF AheadInv
      <3>3. HeadInv'
        BY DEF HeadInv, Passed
      <3> QED
        BY <3>1, <3>2, <3>3
    <2>2. CASE Next
      BY <2>2, EpisodeKept, AheadKept, HeadKept
    <2> QED
      BY <2>1, <2>2
  <1>3. HeadInv /\ [Next]_vars
        => [\A r \in Runs : task[r] = "admitted" /\ task'[r] = "engine"
               => \A q \in ahead[r] : Priority[q] # Priority[r]]_vars
    BY DEF HeadInv, Passed
  <1>4. Spec => [](SlotInv /\ Untracked)
    BY SlotInvariant
  <1>5. Spec => []HeadInv
    BY <1>1, <1>2, <1>4, QueueTypesCorrect, PTL DEF Spec
  <1> QED
    BY <1>3, <1>5, PTL DEF Spec, FifoAmongEquals

=============================================================================
