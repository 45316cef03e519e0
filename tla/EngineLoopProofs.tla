---------------------------- MODULE EngineLoopProofs ----------------------------
(***************************************************************************)
(* EngineLoop for every set of flows, every budget, parallelism, number of *)
(* repairs and number of deaths and yields.                                *)
(*                                                                         *)
(* LoopInv ties the invocation's memory to the journal.  What the memory   *)
(* says is settled the journal says too (StatesMatch); what a pass has     *)
(* picked is open and may run by the journal alone (ReadyInv), so a resume *)
(* that reads only the journal comes to the same decision (DurableInv);    *)
(* every live task belongs to the step the scheduler is at (TaskInv); an   *)
(* effect that took place is known to the operation guard as long as its   *)
(* node is open (EffectInv); only a resting invocation has a verdict       *)
(* (VerdictInv); what reaches the success hooks is complete (SettleInv);   *)
(* and the budget in memory covers the journal's charges (BudgetInv).      *)
(*                                                                         *)
(* Every step keeps LoopInv and is Allowed: it leaves the contract's view  *)
(* of the run alone, settles one open node, decides a fitting verdict or   *)
(* lets guarded effects of open nodes take place.  That is the refinement  *)
(* of FlowContract, for flows that keep their repair nodes apart and whose *)
(* conditions do not change their mind over a resume.                      *)
(*                                                                         *)
(* StallInv, on top of LoopInv, follows a pass along the flow's order.     *)
(* UnknownInv, on top of LoopInv, follows what a wave has lost: it is lost *)
(* for a cause, which its settlement reports, and that ends the invocation.*)
(***************************************************************************)
EXTENDS EngineLoop, TLAPS

(* What the records of the loop range over. *)
Outcomes == {"none", "success", "skipped", "failed"}
NodeStatus == {"pending", "running", "success", "skipped", "failed"}
Settled == {"success", "skipped", "failed"}
Operations == {"none", "started", "clean", "unknown", "success", "check"}
Verdicts == {"none", "success", "failed", "canceled"}
Points == {"idle", "hook", "loop", "scan", "starting", "wave", "settleWave",
           "node", "settle", "finish", "returned"}
Returns == {"none", "canceled", "error", "suspended", "yielded", "stalled", "failed", "done"}
Questions(f) == Paths(f) \X {"own", "on_fail"}

Disks(f) ==
    [outcome : [Paths(f) -> Outcomes], executions : [Paths(f) -> Nat],
     ops : [Paths(f) -> Operations], stuck : SUBSET Paths(f), unresolved : SUBSET Paths(f),
     prompts : SUBSET ((Paths(f) \cup {<<>>}) \X Questions(f)), answers : SUBSET Questions(f),
     charged : Nat, hasCharges : BOOLEAN, started : Nat, hooksSettled : SUBSET Paths(f),
     executionStarted : BOOLEAN, terminal : Verdicts]

Cycles(f) == [kind : {"none", "regenerate", "repair"}, owner : Nodes(f) \cup {"none"},
              attempt : Nat, part : {"none", "repair", "recheck"}]

Invocations(f) ==
    [at : Points, states : [Nodes(f) -> NodeStatus] \cup [{} -> NodeStatus], budget : Nat,
     cursor : Nat, ready : Seq(Nodes(f)), progressed : BOOLEAN, aborting : BOOLEAN,
     parentCanceled : BOOLEAN, startError : {"none", "canceled", "elapsed"},
     errors : SUBSET (Nodes(f) \X Results), cycle : Cycles(f),
     event : Events \cup {"none"}, failed : BOOLEAN, ret : Returns,
     asked : Questions(f) \cup {<<>>}]

Tasks == [stage : {"idle", "charge", "attempt", "effect", "done", "dropped", "joined"},
          try : Nat, result : Results \cup {"none"}, cached : BOOLEAN]

Resting == {"idle", "returned"}

\* The shape of the variables that the argument is about.
LoopTypes ==
    /\ flow \in Flows
    /\ disk \in Disks(flow) /\ run \in Invocations(flow)
    /\ task \in [Paths(flow) -> Tasks] /\ applied \in [Paths(flow) -> Nat]
    /\ run.at \notin Resting => run.states \in [Nodes(flow) -> NodeStatus]
    /\ run.at = "hook" => run.event \in Events

\* The durable outcome of a node of the contract, and of all.
Outcome(n) == disk.outcome[Root(n)]
Durable == [n \in Nodes(flow) |-> Outcome(n)]

(* A repair cycle's nodes are run on behalf of its owner and stay open on  *)
(* disk, so a node that needs one would see it pending again after a       *)
(* restart (engine_dependent.cfg): no node of the contract does.           *)
RepairsApart ==
    \A f \in Flows : \A n \in Nodes(f) \ RepairNodes(f) :
        f.nodes[n].needs \cap RepairNodes(f) = {}

(* A pass evaluates a node's condition before it asks whether the node has *)
(* settled, so a condition that was true and comes out false in a resume   *)
(* skips a node that had succeeded: no condition of the contract does.     *)
(* One that reads the inputs and the node's needs alone does not.          *)
ConditionsStable ==
    \A f \in Flows : \A n \in Nodes(f) \ RepairNodes(f) :
        ~({"true", "false"} \subseteq f.nodes[n].when)

Steady == RepairsApart /\ ConditionsStable

\* What may run: the graph's rule, over what is on disk, and the condition.
MayRun(n) == Steady => "false" \notin flow.nodes[n].when /\ needs_satisfied(n, Durable)

\* The journal knows what the memory calls settled.  A success of an earlier
\* invocation is pending in memory until the pass replays it.
StatesMatch ==
    run.at \notin Resting =>
        \A n \in OwnNodes :
            /\ run.states[n] \in Settled => Outcome(n) = run.states[n]
            /\ run.states[n] = "running" => Outcome(n) = "none"
            /\ run.states[n] = "pending" => Outcome(n) \in {"none", "success"}

\* Where the pass's picks are in use.
Picked == {"scan", "starting", "wave", "settleWave", "node"}
\* Nodes of the pass that are still to settle.
Open == {i \in DOMAIN run.ready : run.at = "settleWave" => i >= run.cursor}
\* A pass picks a node once, behind its cursor, and only what is open and may run.
ReadyInv ==
    run.at \in Picked =>
        /\ \A i, j \in DOMAIN run.ready : run.ready[i] = run.ready[j] => i = j
        /\ \A i \in Open : run.ready[i] \in OwnNodes => Outcome(run.ready[i]) = "none" /\ MayRun(run.ready[i])
        /\ run.at = "scan" =>
              \A i \in DOMAIN run.ready : /\ run.states[run.ready[i]] = "pending"
                                          /\ \E j \in DOMAIN flow.order : j < run.cursor /\ flow.order[j] = run.ready[i]
        /\ run.at \in {"scan", "starting", "settleWave"} => run.cursor \in Nat \ {0}
        /\ run.at = "starting" => run.cursor <= Len(run.ready)
        /\ run.at = "node" => Len(run.ready) > 0

\* A node that succeeded may run by what the journal says, so that a later
\* invocation replays its success and does not skip it.
DurableInv == \A n \in OwnNodes : Outcome(n) = "success" => MayRun(n)

\* A cycle belongs to the node that runs alone.
CycleInv ==
    /\ run.at = "node" /\ run.cycle.kind # "none" => run.cycle.owner = Current
    /\ run.at = "node" /\ run.cycle.kind = "repair" =>
          flow.nodes[Current].onFail = "repair" /\ run.cycle.attempt \in Nat \ {0}
    /\ run.at \in {"hook", "loop", "scan", "starting", "wave", "settleWave", "settle"}
          => run.cycle.kind = "none"

\* Where a task may be live, by what the scheduler is doing.
Busy(x) == task[x].stage # "idle"
TaskInv ==
    /\ run.at \in {"idle", "loop", "scan", "settle", "finish", "returned"} => \A x \in Paths(flow) : ~Busy(x)
    /\ run.at = "hook" => \A x \in Paths(flow) : Busy(x) => run.event \in DOMAIN flow.hooks /\ x = Hook(run.event)
    /\ run.at = "starting" =>
          \A x \in Paths(flow) : Busy(x) => \E i \in 1..(run.cursor - 1) : x = Root(run.ready[i])
    /\ run.at \in {"wave", "settleWave"} => \A x \in Paths(flow) : Busy(x) => x \in WavePaths
    /\ run.at = "settleWave" => \A x \in WavePaths : task[x].stage = "joined"
    /\ run.at = "node" /\ run.cycle.kind # "repair" => \A x \in Paths(flow) : Busy(x) => x = Root(Current)
    /\ run.at = "node" /\ run.cycle.kind = "repair" =>
          /\ \A n \in Nodes(flow) : ~Busy(Root(n))
          /\ \A x \in Paths(flow) : Busy(x) => x = RepairPath(RepairTarget)

\* A fail-closed effect is journaled as started before it takes place, and while
\* its node is open the guard still knows of it.
EffectInv ==
    \A n \in OwnNodes :
        flow.nodes[n].effect = "fail" =>
            /\ applied[Root(n)] \in {0, 1}
            /\ task[Root(n)].stage = "effect" => applied[Root(n)] = 0 /\ disk.ops[Root(n)] = "started"
            /\ applied[Root(n)] = 1 /\ Outcome(n) = "none"
                  => disk.ops[Root(n)] \in {"started", "unknown", "success", "check"}

\* The terminal event ends the last invocation.
VerdictInv ==
    /\ disk.terminal # "none" => run.at \in Resting
    /\ run.at = "returned" /\ run.ret \in {"canceled", "error", "stalled"} => disk.terminal = "none"

\* What the way to the verdict has established.
AllGood == \A n \in OwnNodes : Outcome(n) \in {"success", "skipped"}
SettleInv ==
    /\ run.at = "settle" => AllSettled(run.states) \/ Failures(run.states) # {} \/ stop \/ expired
    /\ run.at = "hook" /\ run.event = "run_succeeded" => AllGood
    /\ run.at = "hook" /\ run.event \in {"step_failed", "run_failed"} => run.failed
    /\ run.at = "finish" => run.failed \/ AllGood
    /\ run.at \in {"wave", "settleWave"} /\ run.startError = "elapsed" => expired
    /\ run.at = "settleWave" =>
          \A e \in run.errors : /\ run.states[e[1]] = "failed"
                                /\ \E i \in DOMAIN run.ready : i < run.cursor /\ run.ready[i] = e[1]
    /\ run.at \in {"starting", "wave"} => run.errors = {}

\* The counter in memory is seeded from the journal's charges.
BudgetInv ==
    /\ disk.charged <= MaxSteps /\ (~disk.hasCharges => disk.charged = 0)
    /\ disk.charged <= run.budget \/ run.at \in Resting

(* The inductive invariant. *)
LoopInv == LoopTypes /\ StatesMatch /\ ReadyInv /\ DurableInv /\ CycleInv /\ TaskInv
           /\ EffectInv /\ VerdictInv /\ SettleInv /\ BudgetInv

-----------------------------------------------------------------------------
(* What is known of a flow, of its paths, and of the records that the loop *)
(* keeps.                                                                  *)

\* What the contract's validation guarantees of the run's flow.
LEMMA FlowFacts ==
    ASSUME flow \in Flows
    PROVE  /\ flow.nodes \in [Nodes(flow) -> StepRecord(Nodes(flow))]
           /\ flow.order \in Seq(Nodes(flow))
           /\ \A i, j \in 1..Len(flow.order) : flow.order[i] = flow.order[j] => i = j
           /\ DOMAIN flow.hooks \subseteq Events
           /\ \A e \in DOMAIN flow.hooks : flow.hooks[e] \in StepRecord(Nodes(flow))
  BY EngineAssumption DEF Nodes

\* A step's path says whose it is, and its definition is that node's or hook's.
LEMMA PathFacts ==
    ASSUME flow \in Flows
    PROVE  /\ \A n \in Nodes(flow) : Root(n) \in Paths(flow) /\ Def(Root(n)) = flow.nodes[n]
           /\ \A m, n \in Nodes(flow) : Root(m) = Root(n) => m = n
           /\ \A e \in DOMAIN flow.hooks :
                 Hook(e) \in Paths(flow) /\ \A n \in Nodes(flow) : Hook(e) # Root(n)
           /\ \A o \in Nodes(flow), k \in 1..MaxRepairs, n \in Nodes(flow) :
                 /\ \A m \in Nodes(flow) : Child(o, k, n) # Root(m)
                 /\ flow.nodes[o].onFail = "repair" /\ n \in {flow.nodes[o].repair, flow.nodes[o].recheck}
                       => Child(o, k, n) \in Paths(flow)
           /\ \A x \in Paths(flow) : Def(x) \in StepRecord(Nodes(flow))
           /\ <<>> \notin Paths(flow)
  <1>1. \A n \in Nodes(flow) : Root(n) \in Paths(flow) /\ Def(Root(n)) = flow.nodes[n]
    BY DEF Paths, Root, Def
  <1>2. \A m, n \in Nodes(flow) : Root(m) = Root(n) => m = n
    BY DEF Root
  <1>3. \A e, n : Len(Hook(e)) = 2 /\ Len(Root(n)) = 1
    BY DEF Hook, Root
  <1>4. \A e \in DOMAIN flow.hooks :
          Hook(e) \in Paths(flow) /\ \A n \in Nodes(flow) : Hook(e) # Root(n)
    <2>1. \A e \in DOMAIN flow.hooks : Hook(e) \in Paths(flow)
      BY DEF Paths
    <2>2. ASSUME NEW e, NEW n, Hook(e) = Root(n) PROVE FALSE
      BY <2>2, <1>3
    <2> QED
      BY <2>1, <2>2
  <1>5. \A o, k, n : Len(Child(o, k, n)) = 3
    BY DEF Child
  <1>6. \A o \in Nodes(flow), k \in 1..MaxRepairs, n \in Nodes(flow) :
          /\ \A m \in Nodes(flow) : Child(o, k, n) # Root(m)
          /\ flow.nodes[o].onFail = "repair" /\ n \in {flow.nodes[o].repair, flow.nodes[o].recheck}
                => Child(o, k, n) \in Paths(flow)
    <2>1. ASSUME NEW o, NEW k, NEW n, NEW m, Child(o, k, n) = Root(m) PROVE FALSE
      BY <2>1, <1>3, <1>5
    <2>2. ASSUME NEW o \in Nodes(flow), NEW k \in 1..MaxRepairs, NEW n \in Nodes(flow),
                 flow.nodes[o].onFail = "repair", n \in {flow.nodes[o].repair, flow.nodes[o].recheck}
          PROVE  Child(o, k, n) \in Paths(flow)
      BY <2>2 DEF Paths
    <2> QED
      BY <2>1, <2>2
  <1>7. ASSUME NEW x \in Paths(flow) PROVE Def(x) \in StepRecord(Nodes(flow)) /\ x # <<>>
    <2>1. CASE x \in {Root(n) : n \in Nodes(flow)}
      <3>1. PICK n \in Nodes(flow) : x = Root(n)
        BY <2>1
      <3>2. Def(x) = flow.nodes[n] /\ x # <<>>
        BY <3>1, <1>1 DEF Root
      <3> QED
        BY <3>2, FlowFacts
    <2>2. CASE x \in {Hook(e) : e \in DOMAIN flow.hooks}
      <3>1. PICK e \in DOMAIN flow.hooks : x = Hook(e)
        BY <2>2
      <3>2. Def(x) = flow.hooks[e] /\ x # <<>>
        BY <3>1 DEF Def, Hook
      <3> QED
        BY <3>2, FlowFacts
    <2>3. ASSUME NEW o \in Nodes(flow), NEW k \in 1..MaxRepairs,
                 NEW n \in {flow.nodes[o].repair, flow.nodes[o].recheck}, x = Child(o, k, n)
          PROVE  Def(x) \in StepRecord(Nodes(flow)) /\ x # <<>>
      <3>1. n \in Nodes(flow)
        BY FlowFacts DEF StepRecord
      <3>2. Def(x) = flow.nodes[n] /\ x # <<>>
        BY <2>3 DEF Def, Child
      <3> QED
        BY <3>1, <3>2, FlowFacts
    <2> QED
      BY <2>1, <2>2, <2>3 DEF Paths
  <1> QED
    BY <1>1, <1>2, <1>4, <1>6, <1>7

\* A finished execution settles its own path and frees its operation.
LEMMA FinishedFacts ==
    ASSUME flow \in Flows, NEW d \in Disks(flow), NEW x \in Paths(flow), NEW s
    PROVE  /\ StepFinished(d, x, s) \in Disks(flow)
           /\ \A y \in Paths(flow) :
                 /\ StepFinished(d, x, s).outcome[y] =
                      IF y # x THEN d.outcome[y]
                      ELSE IF s \in Succeeded THEN "success" ELSE "failed"
                 /\ StepFinished(d, x, s).ops[y] = IF y = x THEN "none" ELSE d.ops[y]
           /\ StepFinished(d, x, s).terminal = d.terminal
           /\ StepFinished(d, x, s).charged = d.charged
           /\ StepFinished(d, x, s).hasCharges = d.hasCharges
  <1> DEFINE ps == {p \in d.prompts : p[1] # x}
             st == d.stuck \cup {y \in {x} : d.ops[x] = "started" /\ Def(x).effect = "fail"}
             o  == IF s \in Succeeded THEN "success" ELSE "failed"
  <1>1. /\ ps \in SUBSET ((Paths(flow) \cup {<<>>}) \X Questions(flow))
        /\ st \in SUBSET Paths(flow) /\ d.unresolved \ {x} \in SUBSET Paths(flow)
        /\ o \in Outcomes /\ "none" \in Operations /\ d.executions[x] + 1 \in Nat
    BY DEF Disks, Outcomes, Operations
  <1>2. StepFinished(d, x, s) =
          [d EXCEPT !.outcome[x] = o, !.unresolved = d.unresolved \ {x}, !.prompts = ps,
                    !.executions[x] = @ + 1, !.stuck = st, !.ops[x] = "none"]
    BY DEF StepFinished
  <1> HIDE DEF ps, st, o
  <1>3. /\ StepFinished(d, x, s).outcome = [d.outcome EXCEPT ![x] = o]
        /\ StepFinished(d, x, s).ops = [d.ops EXCEPT ![x] = "none"]
        /\ StepFinished(d, x, s).terminal = d.terminal
        /\ StepFinished(d, x, s).charged = d.charged
        /\ StepFinished(d, x, s).hasCharges = d.hasCharges
    BY <1>2 DEF Disks
  <1>4. /\ [d.outcome EXCEPT ![x] = o] \in [Paths(flow) -> Outcomes]
        /\ [d.executions EXCEPT ![x] = @ + 1] \in [Paths(flow) -> Nat]
        /\ [d.ops EXCEPT ![x] = "none"] \in [Paths(flow) -> Operations]
    BY <1>1 DEF Disks
  <1>5. StepFinished(d, x, s) =
          [d EXCEPT !.outcome = [d.outcome EXCEPT ![x] = o], !.unresolved = d.unresolved \ {x},
                    !.prompts = ps, !.executions = [d.executions EXCEPT ![x] = @ + 1],
                    !.stuck = st, !.ops = [d.ops EXCEPT ![x] = "none"]]
    BY <1>2 DEF Disks
  <1>6. StepFinished(d, x, s) \in Disks(flow)
    BY <1>1, <1>4, <1>5 DEF Disks
  <1>7. \A y \in Paths(flow) :
          /\ StepFinished(d, x, s).outcome[y] = IF y # x THEN d.outcome[y] ELSE o
          /\ StepFinished(d, x, s).ops[y] = IF y = x THEN "none" ELSE d.ops[y]
    BY <1>3 DEF Disks
  <1> QED
    BY <1>3, <1>6, <1>7 DEF o

\* A question replaces its owner's and settles nothing.
LEMMA SuspendedFacts ==
    ASSUME flow \in Flows, NEW d \in Disks(flow), NEW x \in Paths(flow), NEW q \in Questions(flow)
    PROVE  /\ StepSuspended(d, x, q) \in Disks(flow)
           /\ StepSuspended(d, x, q).outcome = d.outcome
           /\ StepSuspended(d, x, q).ops = d.ops
           /\ StepSuspended(d, x, q).terminal = d.terminal
           /\ StepSuspended(d, x, q).charged = d.charged
           /\ StepSuspended(d, x, q).hasCharges = d.hasCharges
  <1> DEFINE ps == {p \in d.prompts : p[1] # x} \cup {<<x, q>>}
  <1>1. /\ ps \in SUBSET ((Paths(flow) \cup {<<>>}) \X Questions(flow))
        /\ d.unresolved \ {x} \in SUBSET Paths(flow)
    BY DEF Disks
  <1>2. StepSuspended(d, x, q) = [d EXCEPT !.prompts = ps, !.unresolved = d.unresolved \ {x}]
    BY DEF StepSuspended
  <1> HIDE DEF ps
  <1> QED
    BY <1>1, <1>2 DEF Disks

\* A skip settles the node.
LEMMA SkippedFacts ==
    ASSUME flow \in Flows, NEW d \in Disks(flow), NEW n \in Nodes(flow)
    PROVE  /\ StepSkipped(d, n) \in Disks(flow)
           /\ \A y \in Paths(flow) :
                 StepSkipped(d, n).outcome[y] = IF y = Root(n) THEN "skipped" ELSE d.outcome[y]
           /\ StepSkipped(d, n).ops = d.ops
           /\ StepSkipped(d, n).terminal = d.terminal
           /\ StepSkipped(d, n).charged = d.charged
           /\ StepSkipped(d, n).hasCharges = d.hasCharges
  <1>1. Root(n) \in Paths(flow)
    BY PathFacts
  <1> QED
    BY <1>1 DEF StepSkipped, Disks, Outcomes

\* Returning from the invocation leaves the rest of its memory behind.
LEMMA ReturnFacts ==
    ASSUME NEW r \in Invocations(flow), NEW ret \in Returns
    PROVE  /\ Return(r, ret) \in Invocations(flow)
           /\ Return(r, ret).at = "returned" /\ Return(r, ret).ret = ret
           /\ Return(r, ret).budget = r.budget
  BY DEF Return, Invocations, Points

\* A node's state in memory changes and nothing else.
LEMMA NodeStateFacts ==
    ASSUME NEW r \in Invocations(flow), r.states \in [Nodes(flow) -> NodeStatus],
           NEW n \in Nodes(flow), NEW s \in NodeStatus
    PROVE  /\ NodeState(r, n, s) \in Invocations(flow)
           /\ \A m \in Nodes(flow) : NodeState(r, n, s).states[m] = IF m = n THEN s ELSE r.states[m]
           /\ NodeState(r, n, s).states \in [Nodes(flow) -> NodeStatus]
           /\ NodeState(r, n, s).at = r.at /\ NodeState(r, n, s).budget = r.budget
           /\ NodeState(r, n, s).cursor = r.cursor /\ NodeState(r, n, s).ready = r.ready
           /\ NodeState(r, n, s).startError = r.startError
           /\ NodeState(r, n, s).errors = r.errors /\ NodeState(r, n, s).cycle = r.cycle
           /\ NodeState(r, n, s).event = r.event /\ NodeState(r, n, s).failed = r.failed
           /\ NodeState(r, n, s).ret = r.ret
  <1>1. [r.states EXCEPT ![n] = s] \in [Nodes(flow) -> NodeStatus]
    OBVIOUS
  <1>2. NodeState(r, n, s) = [r EXCEPT !.states = [r.states EXCEPT ![n] = s]]
    BY DEF NodeState, Invocations
  <1> QED
    BY <1>1, <1>2 DEF Invocations

\* The end of a pass goes on, settles when all is settled, or has stalled.
LEMMA EndPassFacts ==
    ASSUME NEW r \in Invocations(flow)
    PROVE  /\ EndPass(r) \in Invocations(flow)
           /\ EndPass(r).at \in {"settle", "loop", "returned"}
           /\ EndPass(r).states = r.states /\ EndPass(r).cycle = r.cycle
           /\ EndPass(r).budget = r.budget
           /\ EndPass(r).at = "settle" => AllSettled(r.states)
           /\ EndPass(r).at = "returned" => EndPass(r).ret = "stalled"
  <1>1. CASE AllSettled(r.states)
    <2>1. EndPass(r) = [r EXCEPT !.at = "settle"]
      BY <1>1 DEF EndPass
    <2> QED
      BY <1>1, <2>1 DEF Invocations, Points
  <1>2. CASE ~AllSettled(r.states) /\ r.progressed
    <2>1. EndPass(r) = [r EXCEPT !.at = "loop"]
      BY <1>2 DEF EndPass
    <2> QED
      BY <1>2, <2>1 DEF Invocations, Points
  <1>3. CASE ~AllSettled(r.states) /\ ~r.progressed
    <2>1. EndPass(r) = [r EXCEPT !.at = "returned", !.ret = "stalled"]
      BY <1>3 DEF EndPass, Return
    <2> QED
      BY <1>3, <2>1 DEF Invocations, Points, Returns
  <1> QED
    BY <1>1, <1>2, <1>3

\* After the hooks of an event comes the loop, the other failure hooks or the
\* terminal event.
LEMMA AfterHooksFacts ==
    ASSUME NEW r \in Invocations(flow), r.at = "hook", r.event \in Events
    PROVE  /\ AfterHooks(r) \in Invocations(flow)
           /\ AfterHooks(r).states = r.states /\ AfterHooks(r).cycle = r.cycle
           /\ AfterHooks(r).budget = r.budget /\ AfterHooks(r).failed = r.failed
           /\ \/ r.event = "run_started" /\ AfterHooks(r).at = "loop"
              \/ /\ r.event = "step_failed" /\ AfterHooks(r).at = "hook"
                 /\ AfterHooks(r).event = "run_failed"
              \/ r.event \in {"run_failed", "run_succeeded"} /\ AfterHooks(r).at = "finish"
  <1>1. CASE r.event = "run_started"
    <2>1. AfterHooks(r) = [r EXCEPT !.at = "loop", !.event = "none"]
      BY <1>1 DEF AfterHooks
    <2> QED
      BY <1>1, <2>1 DEF Invocations, Points
  <1>2. CASE r.event = "step_failed"
    <2>1. AfterHooks(r) = [r EXCEPT !.event = "run_failed"]
      BY <1>2 DEF AfterHooks
    <2> QED
      BY <1>2, <2>1 DEF Invocations, Points, Events
  <1>3. CASE r.event \in {"run_failed", "run_succeeded"}
    <2>1. AfterHooks(r) = [r EXCEPT !.at = "finish", !.event = "none"]
      BY <1>3 DEF AfterHooks
    <2> QED
      BY <1>3, <2>1 DEF Invocations, Points
  <1> QED
    BY <1>1, <1>2, <1>3 DEF Events

-----------------------------------------------------------------------------
(* Types. *)

\* A task starts, ends or is idle: it is a task.
LEMMA TaskFacts ==
    /\ IdleTask \in Tasks /\ NewTask \in Tasks
    /\ IdleTask.stage = "idle" /\ NewTask.stage = "charge"
    /\ \A t \in Tasks, r \in Results, c \in BOOLEAN :
          [t EXCEPT !.stage = "done", !.result = r, !.cached = c] \in Tasks
  BY DEF IdleTask, NewTask, Tasks, Results

\* A task that reports, or retries, keeps its path busy.
LEMMA DoneFacts ==
    ASSUME task \in [Paths(flow) -> Tasks], NEW x \in Paths(flow), NEW r \in Results,
           NEW c \in BOOLEAN, Done(x, r, c)
    PROVE  /\ task' \in [Paths(flow) -> Tasks] /\ task'[x].stage = "done"
           /\ \A y \in Paths(flow) \ {x} : task'[y] = task[y]
  <1>1. task' = [task EXCEPT ![x] = [task[x] EXCEPT !.stage = "done", !.result = r, !.cached = c]]
    BY DEF Done, Tasks
  <1>2. [task[x] EXCEPT !.stage = "done", !.result = r, !.cached = c] \in Tasks
    BY TaskFacts
  <1>3. [task[x] EXCEPT !.stage = "done", !.result = r, !.cached = c].stage = "done"
    BY DEF Tasks
  <1> QED
    BY <1>1, <1>2, <1>3

\* A task moves to another stage and stays a task; the others stay.
LEMMA StageFacts ==
    ASSUME task \in [Paths(flow) -> Tasks], NEW x \in Paths(flow),
           NEW s \in {"charge", "attempt", "effect", "done", "dropped", "joined"}, NEW k \in Nat,
           \/ task' = [task EXCEPT ![x].stage = s]
           \/ task' = [task EXCEPT ![x].stage = s, ![x].try = k]
    PROVE  /\ task' \in [Paths(flow) -> Tasks] /\ task'[x].stage = s
           /\ \A y \in Paths(flow) \ {x} : task'[y] = task[y]
  <1>1. PICK t \in {[task[x] EXCEPT !.stage = s], [task[x] EXCEPT !.stage = s, !.try = k]} :
          task' = [task EXCEPT ![x] = t]
    BY DEF Tasks
  <1>2. t \in Tasks /\ t.stage = s
    BY DEF Tasks
  <1> QED
    BY <1>1, <1>2

\* A failed attempt retries or reports.
LEMMA FailAttemptFacts ==
    ASSUME task \in [Paths(flow) -> Tasks], NEW x \in Paths(flow), FailAttempt(x)
    PROVE  /\ task' \in [Paths(flow) -> Tasks] /\ task'[x].stage \in {"charge", "done"}
           /\ \A y \in Paths(flow) \ {x} : task'[y] = task[y]
  <1>1. CASE \E r \in Results : Done(x, r, FALSE)
    BY <1>1, DoneFacts
  <1>2. CASE task' = [task EXCEPT ![x].stage = "charge", ![x].try = @ + 1]
    <2>1. task[x].try + 1 \in Nat
      BY DEF Tasks
    <2>2. task' = [task EXCEPT ![x].stage = "charge", ![x].try = task[x].try + 1]
      BY <1>2 DEF Tasks
    <2> QED
      BY <2>1, <2>2, StageFacts
  <1> QED
    BY <1>1, <1>2 DEF FailAttempt, Results

\* What a step of a task may do: it moves its own task, charges the budget,
\* and journals its operation.
TaskMoves(x) ==
    /\ task' \in [Paths(flow) -> Tasks] /\ task'[x].stage \notin {"idle", "joined"}
    /\ task[x].stage \in {"charge", "attempt", "effect"}
    /\ \A y \in Paths(flow) \ {x} : task'[y] = task[y]
    /\ disk' \in Disks(flow) /\ disk'.outcome = disk.outcome /\ disk'.terminal = disk.terminal
    /\ UNCHANGED <<flow, stop, yield, expired, kept, interruptions>>

\* An attempt is charged in memory and in the journal alike, or refused.
LEMMA ChargeMoves ==
    ASSUME LoopTypes, NEW x \in Paths(flow), Charge(x)
    PROVE  /\ TaskMoves(x) /\ UNCHANGED applied
           /\ \/ /\ run.budget < MaxSteps /\ run' = [run EXCEPT !.budget = @ + 1]
                 /\ disk'.charged = disk.charged + 1 /\ disk'.hasCharges
              \/ UNCHANGED <<run, disk>>
           /\ disk'.ops = disk.ops /\ task'[x].stage # "effect"
  <1>1. CASE run.budget < MaxSteps
    <2>1. /\ run' = [run EXCEPT !.budget = @ + 1]
          /\ disk' = [disk EXCEPT !.charged = disk.charged + 1, !.hasCharges = TRUE]
          /\ task' = [task EXCEPT ![x].stage = "attempt"]
      BY <1>1 DEF Charge
    <2>2. task' \in [Paths(flow) -> Tasks] /\ task'[x].stage = "attempt"
          /\ \A y \in Paths(flow) \ {x} : task'[y] = task[y]
      BY <2>1, StageFacts DEF LoopTypes
    <2>3. disk' \in Disks(flow) /\ disk'.outcome = disk.outcome /\ disk'.terminal = disk.terminal
          /\ disk'.charged = disk.charged + 1 /\ disk'.hasCharges /\ disk'.ops = disk.ops
      <3>1. disk.charged + 1 \in Nat /\ TRUE \in BOOLEAN /\ disk \in Disks(flow)
        BY DEF LoopTypes, Disks
      <3> QED
        BY <2>1, <3>1 DEF Disks
    <2> QED
      BY <1>1, <2>1, <2>2, <2>3 DEF Charge, TaskMoves
  <1>2. CASE ~(run.budget < MaxSteps)
    <2>1. Done(x, "budget", FALSE) /\ UNCHANGED <<run, disk>>
      BY <1>2 DEF Charge
    <2> QED
      BY <2>1, DoneFacts DEF Charge, TaskMoves, LoopTypes, Results
  <1> QED
    BY <1>1, <1>2

\* An attempt journals its operation as started before it enters the effect.
LEMMA AttemptMoves ==
    ASSUME LoopTypes, NEW x \in Paths(flow), Attempt(x)
    PROVE  /\ TaskMoves(x) /\ UNCHANGED <<run, applied>>
           /\ disk'.charged = disk.charged /\ disk'.hasCharges = disk.hasCharges
           /\ \/ /\ GuardVerdict(x) = "start" /\ disk'.ops = [disk.ops EXCEPT ![x] = "started"]
                 /\ task'[x].stage = "effect"
              \/ disk'.ops = disk.ops /\ task'[x].stage # "effect"
  <1>1. CASE /\ GuardVerdict(x) = "start" /\ disk' = [disk EXCEPT !.ops[x] = "started"]
             /\ task' = [task EXCEPT ![x].stage = "effect"]
    <2>1. task' \in [Paths(flow) -> Tasks] /\ task'[x].stage = "effect"
          /\ \A y \in Paths(flow) \ {x} : task'[y] = task[y]
      BY <1>1, StageFacts DEF LoopTypes
    <2>2. disk' = [disk EXCEPT !.ops = [disk.ops EXCEPT ![x] = "started"]]
          /\ [disk.ops EXCEPT ![x] = "started"] \in [Paths(flow) -> Operations]
      BY <1>1 DEF LoopTypes, Disks, Operations
    <2>3. disk' \in Disks(flow) /\ disk'.outcome = disk.outcome /\ disk'.terminal = disk.terminal
          /\ disk'.charged = disk.charged /\ disk'.hasCharges = disk.hasCharges
          /\ disk'.ops = [disk.ops EXCEPT ![x] = "started"]
      BY <2>2 DEF LoopTypes, Disks
    <2> QED
      BY <1>1, <2>1, <2>3 DEF Attempt, TaskMoves
  <1>2. CASE UNCHANGED disk /\ \E r \in Results, c \in BOOLEAN : Done(x, r, c)
    BY <1>2, DoneFacts DEF Attempt, TaskMoves, LoopTypes
  <1>3. CASE UNCHANGED disk /\ FailAttempt(x)
    BY <1>3, FailAttemptFacts DEF Attempt, TaskMoves, LoopTypes
  <1>4. \A r \in Def(x).may \ {"failed"} : r \in Results
    BY PathFacts DEF LoopTypes, StepRecord, Results
  <1>5. GuardVerdict(x) = "resend" => disk.ops[x] \in Results
    BY DEF GuardVerdict, LoopTypes, Disks, Operations, Results
  <1> QED
    BY <1>1, <1>2, <1>3, <1>4, <1>5 DEF Attempt, Results

\* An operation is recorded as clean only when nothing took place.
LEMMA EffectMoves ==
    ASSUME LoopTypes, NEW x \in Paths(flow), Effect(x)
    PROVE  /\ TaskMoves(x) /\ UNCHANGED run
           /\ disk'.charged = disk.charged /\ disk'.hasCharges = disk.hasCharges
           /\ task[x].stage = "effect" /\ task'[x].stage # "effect"
           /\ \E h \in {0, 1} :
                 /\ applied' = [applied EXCEPT ![x] = @ + h]
                 /\ \/ disk'.ops = disk.ops
                    \/ h = 0 /\ disk'.ops = [disk.ops EXCEPT ![x] = "clean"]
                    \/ \E o \in {"success", "check", "unknown"} :
                          disk'.ops = [disk.ops EXCEPT ![x] = o]
  <1> DEFINE Recorded(o) == disk' = [disk EXCEPT !.ops[x] = o]
  <1>1. PICK happened \in BOOLEAN :
         /\ applied' = [applied EXCEPT ![x] = @ + (IF happened THEN 1 ELSE 0)]
         /\ \/ /\ happened
               /\ \E r \in Def(x).may \ {"failed"} :
                     Recorded(r) /\ Done(x, IF expired THEN "elapsed" ELSE r, FALSE)
            \/ ~happened /\ Recorded("clean") /\ FailAttempt(x)
            \/ Recorded("unknown") /\ FailAttempt(x)
            \/ Done(x, "canceled", FALSE) /\ UNCHANGED disk
            \/ Done(x, "elapsed", FALSE) /\ UNCHANGED disk
            \/ FailAttempt(x) /\ UNCHANGED disk
    BY DEF Effect
  <1>2. \A r \in Def(x).may \ {"failed"} : r \in {"success", "check"}
    BY PathFacts DEF LoopTypes, StepRecord
  <1>3. \/ UNCHANGED disk
        \/ ~happened /\ Recorded("clean")
        \/ \E o \in {"success", "check", "unknown"} : Recorded(o)
    BY <1>1, <1>2
  <1>4. ASSUME NEW o \in Operations, Recorded(o)
        PROVE  /\ disk' \in Disks(flow) /\ disk'.outcome = disk.outcome /\ disk'.terminal = disk.terminal
               /\ disk'.charged = disk.charged /\ disk'.hasCharges = disk.hasCharges
               /\ disk'.ops = [disk.ops EXCEPT ![x] = o]
    <2>1. disk' = [disk EXCEPT !.ops = [disk.ops EXCEPT ![x] = o]]
          /\ [disk.ops EXCEPT ![x] = o] \in [Paths(flow) -> Operations]
      BY <1>4 DEF LoopTypes, Disks
    <2> QED
      BY <2>1 DEF LoopTypes, Disks
  <1>5. FailAttempt(x) \/ \E r \in Results : Done(x, r, FALSE)
    BY <1>1, <1>2 DEF Results
  <1>6. /\ task' \in [Paths(flow) -> Tasks] /\ task'[x].stage \in {"charge", "done"}
        /\ \A y \in Paths(flow) \ {x} : task'[y] = task[y]
    BY <1>5, FailAttemptFacts, DoneFacts DEF LoopTypes
  <1>7. /\ disk' \in Disks(flow) /\ disk'.outcome = disk.outcome /\ disk'.terminal = disk.terminal
        /\ disk'.charged = disk.charged /\ disk'.hasCharges = disk.hasCharges
    BY <1>3, <1>4 DEF LoopTypes, Operations
  <1>8. TaskMoves(x) /\ UNCHANGED run /\ task[x].stage = "effect"
    BY <1>6, <1>7 DEF TaskMoves, Effect
  <1>9. \/ disk'.ops = disk.ops
        \/ ~happened /\ disk'.ops = [disk.ops EXCEPT ![x] = "clean"]
        \/ \E o \in {"success", "check", "unknown"} : disk'.ops = [disk.ops EXCEPT ![x] = o]
    BY <1>3, <1>4 DEF Operations
  <1>10. CASE happened
    BY <1>1, <1>6, <1>7, <1>8, <1>9, <1>10
  <1>11. CASE ~happened
    BY <1>1, <1>6, <1>7, <1>8, <1>9, <1>11
  <1> QED
    BY <1>10, <1>11

\* An aborted task leaves its operation as it was.
LEMMA DropMoves ==
    ASSUME LoopTypes, NEW x \in Paths(flow), DropTask(x)
    PROVE  /\ TaskMoves(x) /\ UNCHANGED <<run, disk>> /\ task'[x].stage # "effect"
           /\ \E h \in {0, 1} :
                 /\ applied' = [applied EXCEPT ![x] = @ + h]
                 /\ task[x].stage # "effect" => h = 0
  <1>1. PICK happened \in (IF task[x].stage = "effect" THEN BOOLEAN ELSE {FALSE}) :
          applied' = [applied EXCEPT ![x] = @ + (IF happened THEN 1 ELSE 0)]
    BY DEF DropTask
  <1>2. /\ task' \in [Paths(flow) -> Tasks] /\ task'[x].stage = "dropped"
        /\ \A y \in Paths(flow) \ {x} : task'[y] = task[y]
    BY StageFacts DEF DropTask, LoopTypes
  <1>3. TaskMoves(x) /\ UNCHANGED <<run, disk>>
    BY <1>2 DEF TaskMoves, DropTask, LoopTypes
  <1> QED
    BY <1>1, <1>2, <1>3

-----------------------------------------------------------------------------
(* What a step may do to the contract's view of the run. *)

\* Nothing that the contract sees.
Stutters ==
    /\ UNCHANGED <<flow, applied>> /\ disk'.terminal = disk.terminal
    /\ \A n \in OwnNodes : Outcome(n)' = Outcome(n)
\* One open node is settled.
Settles ==
    /\ UNCHANGED <<flow, applied>> /\ disk.terminal = "none" /\ disk'.terminal = "none"
    /\ \E n \in OwnNodes :
          /\ Outcome(n) = "none" /\ Outcome(n)' \in Settled
          /\ \A m \in OwnNodes \ {n} : Outcome(m)' = Outcome(m)
\* The verdict is written.
Decides ==
    /\ UNCHANGED <<flow, applied>> /\ disk.terminal = "none"
    /\ disk'.terminal \in Verdicts \ {"none"}
    /\ disk'.terminal = "success" => AllGood
    /\ \A n \in OwnNodes : Outcome(n)' = Outcome(n)
\* Fail-closed effects of open nodes take place, each for the first time.
TakesEffect ==
    /\ UNCHANGED flow /\ disk'.terminal = disk.terminal
    /\ \A n \in OwnNodes :
          /\ Outcome(n)' = Outcome(n)
          /\ flow.nodes[n].effect = "fail" =>
                \/ applied'[Root(n)] = applied[Root(n)]
                \/ applied[Root(n)] = 0 /\ applied'[Root(n)] = 1 /\ Outcome(n) = "none"
Allowed == Steady => Stutters \/ Settles \/ Decides \/ TakesEffect

\* Where a step leaves the disk's outcomes and the flow alone, so is all that is
\* derived of them.
LEMMA SameOutcomes ==
    ASSUME flow' = flow, disk'.outcome = disk.outcome
    PROVE  /\ OwnNodes' = OwnNodes /\ Durable' = Durable
           /\ \A n : Outcome(n)' = Outcome(n) /\ (MayRun(n)' <=> MayRun(n))
           /\ AllGood' <=> AllGood
           /\ DurableInv' <=> DurableInv
  <1>1. OwnNodes' = OwnNodes
    BY DEF OwnNodes, Nodes, RepairNodes
  <1>2. \A n : Outcome(n)' = Outcome(n)
    BY DEF Outcome
  <1>3. Durable' = Durable
    BY <1>2 DEF Durable, Nodes
  <1>4. \A n : MayRun(n)' <=> MayRun(n)
    BY <1>3 DEF MayRun, needs_satisfied
  <1> QED
    BY <1>1, <1>2, <1>3, <1>4 DEF AllGood, DurableInv

\* A step that leaves the scheduler's memory alone keeps what it says.
LEMMA SchedulerFrame ==
    ASSUME flow' = flow, disk'.outcome = disk.outcome,
           run'.at = run.at, run'.states = run.states, run'.ready = run.ready,
           run'.cursor = run.cursor, run'.cycle = run.cycle,
           StatesMatch, ReadyInv, DurableInv, CycleInv
    PROVE  StatesMatch' /\ ReadyInv' /\ DurableInv' /\ CycleInv'
  <1>1. StatesMatch'
    BY SameOutcomes DEF StatesMatch
  <1>2. ReadyInv'
    BY SameOutcomes DEF ReadyInv, Open
  <1>3. CycleInv'
    BY DEF CycleInv, Current
  <1> QED
    BY <1>1, <1>2, <1>3, SameOutcomes

\* A task of a contract's node that has not been joined belongs to an open node.
LEMMA BusyIsOpen ==
    ASSUME LoopTypes, ReadyInv, TaskInv, NEW n \in OwnNodes,
           task[Root(n)].stage \notin {"idle", "joined"}
    PROVE  /\ Outcome(n) = "none" /\ MayRun(n)
           /\ run.at \notin Resting \cup {"settleWave"}
  <1>0. /\ n \in Nodes(flow) /\ Root(n) \in Paths(flow) /\ Busy(Root(n))
        /\ \A m \in Nodes(flow) : Root(m) = Root(n) => m = n
        /\ \A e \in DOMAIN flow.hooks : Hook(e) # Root(n)
    BY PathFacts DEF OwnNodes, Busy, LoopTypes
  <1>1. run.at \in {"starting", "wave", "node"}
    <2>1. run.at # "settleWave"
      BY <1>0 DEF TaskInv
    <2> QED
      BY <1>0, <2>1 DEF TaskInv, LoopTypes, Invocations, Points
  <1>2. /\ run.ready \in Seq(Nodes(flow))
        /\ Open = 1..Len(run.ready)
    BY <1>1 DEF LoopTypes, Invocations, Open
  <1>3. \E i \in 1..Len(run.ready) : run.ready[i] = n
    <2>1. CASE run.at = "starting"
      <3>1. run.cursor \in Nat /\ run.cursor <= Len(run.ready) /\ Len(run.ready) \in Nat
        BY <1>2, <2>1 DEF ReadyInv, Picked, LoopTypes, Invocations
      <3>2. PICK i \in 1..(run.cursor - 1) : Root(n) = Root(run.ready[i])
        BY <1>0, <2>1 DEF TaskInv
      <3>3. i \in 1..Len(run.ready)
        BY <3>1
      <3> QED
        BY <1>0, <1>2, <3>2, <3>3
    <2>3. CASE run.at = "wave"
      BY <1>0, <1>2, <2>3 DEF TaskInv, WavePaths
    <2>2. CASE run.at = "node"
      <3>1. Root(n) = Root(Current) /\ Len(run.ready) > 0
        BY <1>0, <2>2 DEF TaskInv, ReadyInv, Picked
      <3>2. 1 \in 1..Len(run.ready) /\ run.ready[1] \in Nodes(flow)
        BY <1>2, <3>1
      <3> QED
        BY <1>0, <3>1, <3>2 DEF Current
    <2> QED
      BY <1>1, <2>1, <2>2, <2>3
  <1> QED
    BY <1>1, <1>2, <1>3 DEF ReadyInv, Picked, Resting

\* The steps of a task: only its own path and operation move.
LEMMA TaskStepInv ==
    ASSUME LoopInv, NEW x \in Paths(flow), TaskStep(x)
    PROVE  LoopInv' /\ Allowed
  <1>t. LoopTypes
    BY DEF LoopInv
  <1>1. TaskMoves(x)
    BY <1>t, ChargeMoves, AttemptMoves, EffectMoves, DropMoves DEF TaskStep
  <1>2. /\ run' \in Invocations(flow)
        /\ run'.at = run.at /\ run'.states = run.states /\ run'.ready = run.ready
        /\ run'.cursor = run.cursor /\ run'.cycle = run.cycle /\ run'.event = run.event
        /\ run'.failed = run.failed /\ run'.ret = run.ret /\ run'.errors = run.errors
        /\ run'.startError = run.startError
    <2>1. UNCHANGED run \/ run' = [run EXCEPT !.budget = @ + 1]
      BY <1>t, ChargeMoves, AttemptMoves, EffectMoves, DropMoves DEF TaskStep
    <2>2. run \in Invocations(flow) /\ run.budget + 1 \in Nat
      BY <1>t DEF LoopTypes, Invocations
    <2> QED
      BY <2>1, <2>2 DEF Invocations
  <1>3. /\ flow' = flow /\ disk' \in Disks(flow) /\ disk'.outcome = disk.outcome
        /\ disk'.terminal = disk.terminal /\ stop' = stop /\ expired' = expired
        /\ task' \in [Paths(flow) -> Tasks]
    BY <1>1 DEF TaskMoves
  <1>4. \E h \in {0, 1} : /\ applied' = [applied EXCEPT ![x] = @ + h]
                          /\ task[x].stage # "effect" => h = 0
    <2>1. UNCHANGED applied => applied' = [applied EXCEPT ![x] = @ + 0]
      BY <1>t DEF LoopTypes
    <2> QED
      BY <1>t, <2>1, ChargeMoves, AttemptMoves, EffectMoves, DropMoves DEF TaskStep
  <1>5. LoopTypes'
    BY <1>t, <1>2, <1>3, <1>4 DEF LoopTypes
  <1>6. StatesMatch' /\ ReadyInv' /\ DurableInv' /\ CycleInv'
    BY <1>2, <1>3, SchedulerFrame DEF LoopInv
  <1>7. \A y \in Paths(flow) : Busy(y)' <=> Busy(y)
    BY <1>1 DEF TaskMoves, Busy
  <1>8. run.at \notin Resting /\ (run.at = "settleWave" => FALSE)
    BY <1>1 DEF LoopInv, TaskInv, TaskMoves, Busy, Resting
  <1>9. TaskInv'
    <2>1. WavePaths' = WavePaths /\ Current' = Current /\ RepairPath(RepairTarget)' = RepairPath(RepairTarget)
      BY <1>2, <1>3 DEF WavePaths, Current, RepairPath, RepairTarget
    <2> QED
      BY <1>2, <1>3, <1>7, <1>8, <2>1, PathFacts DEF LoopInv, LoopTypes, TaskInv
  <1>10. VerdictInv' /\ SettleInv'
    BY <1>2, <1>3, SameOutcomes DEF LoopInv, VerdictInv, SettleInv
  <1>11. BudgetInv'
    <2>1. /\ disk.charged \in Nat /\ run.budget \in Nat /\ run'.budget \in Nat
          /\ disk.hasCharges \in BOOLEAN /\ MaxSteps \in Nat
      BY <1>t, <1>2, EngineAssumption DEF LoopTypes, Disks, Invocations
    <2>2. CASE Charge(x)
      <3>1. CASE UNCHANGED <<run, disk>>
        BY <3>1 DEF LoopInv, BudgetInv
      <3>2. CASE /\ run.budget < MaxSteps /\ run' = [run EXCEPT !.budget = @ + 1]
                 /\ disk'.charged = disk.charged + 1 /\ disk'.hasCharges
        <4>1. run'.budget = run.budget + 1
          BY <1>t, <3>2 DEF LoopTypes, Invocations
        <4>2. disk.charged <= run.budget
          BY <1>8 DEF LoopInv, BudgetInv
        <4> QED
          BY <2>1, <3>2, <4>1, <4>2 DEF BudgetInv
      <3> QED
        BY <1>t, <2>2, <3>1, <3>2, ChargeMoves
    <2>3. CASE Attempt(x) \/ Effect(x) \/ DropTask(x)
      <3>1. /\ UNCHANGED run /\ disk'.charged = disk.charged
            /\ disk'.hasCharges = disk.hasCharges
        BY <1>t, <2>3, AttemptMoves, EffectMoves, DropMoves
      <3> QED
        BY <3>1 DEF LoopInv, BudgetInv
    <2> QED
      BY <2>2, <2>3 DEF TaskStep
  <1>12. ASSUME NEW n \in OwnNodes, flow.nodes[n].effect = "fail", x = Root(n)
         PROVE  /\ Outcome(n) = "none" /\ Outcome(n)' = "none" /\ Def(x).effect = "fail"
                /\ applied[x] \in {0, 1}
                /\ task[x].stage = "effect" => applied[x] = 0 /\ disk.ops[x] = "started"
                /\ applied[x] = 1 => disk.ops[x] \in {"started", "unknown", "success", "check"}
                /\ disk.ops \in [Paths(flow) -> Operations]
    <2>1. Outcome(n) = "none"
      BY <1>t, <1>1, <1>12, BusyIsOpen DEF LoopInv, TaskMoves
    <2>2. Def(x) = flow.nodes[n]
      BY <1>t, <1>12, PathFacts DEF OwnNodes, LoopTypes
    <2> QED
      BY <1>t, <1>3, <1>12, <2>1, <2>2, SameOutcomes DEF LoopInv, EffectInv, LoopTypes, Disks
  <1>13. ASSUME NEW n \in OwnNodes, flow.nodes[n].effect = "fail", x = Root(n)
         PROVE  /\ applied'[x] \in {0, 1}
                /\ task'[x].stage = "effect" => applied'[x] = 0 /\ disk'.ops[x] = "started"
                /\ applied'[x] = 1 => disk'.ops[x] \in {"started", "unknown", "success", "check"}
                /\ applied'[x] = applied[x] \/ (applied[x] = 0 /\ applied'[x] = 1)
    <2>0. applied \in [Paths(flow) -> Nat]
      BY <1>t DEF LoopTypes
    <2>a. /\ Def(x).effect = "fail" /\ applied[x] \in {0, 1}
          /\ task[x].stage = "effect" => applied[x] = 0 /\ disk.ops[x] = "started"
          /\ applied[x] = 1 => disk.ops[x] \in {"started", "unknown", "success", "check"}
          /\ disk.ops \in [Paths(flow) -> Operations]
      BY <1>12, <1>13
    <2>1. CASE Charge(x)
      BY <1>t, <2>a, <2>1, ChargeMoves
    <2>2. CASE Attempt(x)
      <3>1. CASE GuardVerdict(x) = "start" /\ disk'.ops = [disk.ops EXCEPT ![x] = "started"]
        <4>1. disk.ops[x] \in {"none", "clean"}
          BY <2>a, <3>1 DEF GuardVerdict, Operations
        <4>2. applied[x] = 0
          BY <2>a, <4>1
        <4> QED
          BY <1>t, <2>a, <2>2, <3>1, <4>2, AttemptMoves
      <3>2. CASE disk'.ops = disk.ops /\ task'[x].stage # "effect"
        BY <1>t, <2>a, <2>2, <3>2, AttemptMoves
      <3> QED
        BY <1>t, <2>2, <3>1, <3>2, AttemptMoves
    <2>3. CASE Effect(x)
      <3>1. PICK h \in {0, 1} :
                 /\ applied' = [applied EXCEPT ![x] = @ + h]
                 /\ \/ disk'.ops = disk.ops
                    \/ h = 0 /\ disk'.ops = [disk.ops EXCEPT ![x] = "clean"]
                    \/ \E o \in {"success", "check", "unknown"} :
                          disk'.ops = [disk.ops EXCEPT ![x] = o]
        BY <1>t, <2>3, EffectMoves
      <3>2. task[x].stage = "effect" /\ task'[x].stage # "effect"
        BY <1>t, <2>3, EffectMoves
      <3>3. applied'[x] = h /\ applied[x] = 0
        BY <2>a, <2>0, <3>1, <3>2
      <3> QED
        BY <2>a, <3>1, <3>2, <3>3
    <2>4. CASE DropTask(x)
      BY <1>t, <2>a, <2>0, <2>4, DropMoves
    <2> QED
      BY <2>1, <2>2, <2>3, <2>4 DEF TaskStep
  <1>14. ASSUME NEW n \in OwnNodes, x # Root(n)
         PROVE  /\ applied'[Root(n)] = applied[Root(n)] /\ task'[Root(n)] = task[Root(n)]
                /\ disk'.ops[Root(n)] = disk.ops[Root(n)]
    <2>1. Root(n) \in Paths(flow)
      BY <1>t, PathFacts DEF OwnNodes, LoopTypes
    <2>2. disk'.ops = disk.ops \/ \E o : disk'.ops = [disk.ops EXCEPT ![x] = o]
      BY <1>t, ChargeMoves, AttemptMoves, EffectMoves, DropMoves DEF TaskStep
    <2> QED
      BY <1>t, <1>1, <1>4, <1>14, <2>1, <2>2 DEF LoopTypes, Disks, TaskMoves
  <1>15. EffectInv'
    <2>1. OwnNodes' = OwnNodes /\ \A n : Outcome(n)' = Outcome(n)
      BY <1>3, SameOutcomes
    <2> QED
      BY <1>3, <1>12, <1>13, <1>14, <2>1 DEF LoopInv, EffectInv
  <1>16. TakesEffect
    BY <1>3, <1>12, <1>13, <1>14, SameOutcomes DEF TakesEffect
  <1> QED
    BY <1>5, <1>6, <1>9, <1>10, <1>11, <1>15, <1>16 DEF LoopInv, Allowed

-----------------------------------------------------------------------------
(* The environment. *)

\* An answer, a cancellation, a yield and the deadline reach no node.
LEMMA OutsideStepInv ==
    ASSUME LoopInv, Answer \/ Cancel \/ RequestYield \/ Expire
    PROVE  LoopInv' /\ Allowed
  <1>t. LoopTypes
    BY DEF LoopInv
  <1>1. /\ UNCHANGED <<flow, run, task, applied>>
        /\ stop' = stop \/ stop' = TRUE
        /\ expired' = expired \/ expired' = TRUE
    BY DEF Answer, Cancel, RequestYield, Expire
  <1>2. /\ disk' \in Disks(flow) /\ disk'.outcome = disk.outcome /\ disk'.ops = disk.ops
        /\ disk'.terminal = disk.terminal /\ disk'.charged = disk.charged
        /\ disk'.hasCharges = disk.hasCharges
    <2>1. CASE Answer
      <3>1. PICK p \in disk.prompts :
              disk' = [disk EXCEPT !.answers = @ \cup {p[2]}, !.prompts = @ \ {p}]
        BY <2>1 DEF Answer
      <3>2. /\ disk.answers \cup {p[2]} \in SUBSET Questions(flow)
            /\ disk.prompts \ {p} \in SUBSET ((Paths(flow) \cup {<<>>}) \X Questions(flow))
        BY <1>t DEF LoopTypes, Disks
      <3>3. disk' = [disk EXCEPT !.answers = disk.answers \cup {p[2]}, !.prompts = disk.prompts \ {p}]
        BY <1>t, <3>1 DEF LoopTypes, Disks
      <3> QED
        BY <1>t, <3>2, <3>3 DEF LoopTypes, Disks
    <2>2. CASE UNCHANGED disk
      BY <1>t, <2>2 DEF LoopTypes
    <2> QED
      BY <2>1, <2>2 DEF Cancel, RequestYield, Expire
  <1>3. LoopTypes'
    BY <1>t, <1>1, <1>2 DEF LoopTypes
  <1>4. StatesMatch' /\ ReadyInv' /\ DurableInv' /\ CycleInv'
    BY <1>1, <1>2, SchedulerFrame DEF LoopInv
  <1>5. TaskInv'
    BY <1>1 DEF LoopInv, TaskInv, WavePaths, Current, Busy, RepairPath, RepairTarget
  <1>6. EffectInv' /\ VerdictInv' /\ SettleInv' /\ BudgetInv'
    BY <1>1, <1>2, SameOutcomes DEF LoopInv, EffectInv, VerdictInv, SettleInv, BudgetInv
  <1>7. Stutters
    BY <1>1, <1>2, SameOutcomes DEF Stutters
  <1> QED
    BY <1>3, <1>4, <1>5, <1>6, <1>7 DEF LoopInv, Allowed

\* The memory of no invocation.
LEMMA IdleFacts ==
    /\ Idle \in Invocations(flow) /\ Idle.at = "idle" /\ Idle.budget = 0
    /\ Idle.cycle.kind = "none"
  <1>1. [n \in {} |-> "pending"] \in [{} -> NodeStatus]
    OBVIOUS
  <1>2. NoCycle \in Cycles(flow) /\ NoCycle.kind = "none"
    BY DEF NoCycle, Cycles
  <1> QED
    BY <1>1, <1>2 DEF Idle, Invocations, Points, Returns

\* Between two invocations only the journal counts.
LEMMA RestingInv ==
    ASSUME LoopTypes', flow' = flow, disk'.outcome = disk.outcome, DurableInv,
           run'.at = "idle", \A x \in Paths(flow) : task'[x] = IdleTask
    PROVE  StatesMatch' /\ ReadyInv' /\ DurableInv' /\ CycleInv' /\ TaskInv' /\ SettleInv'
  <1>1. StatesMatch' /\ ReadyInv' /\ CycleInv' /\ SettleInv'
    BY DEF StatesMatch, ReadyInv, CycleInv, SettleInv, Resting, Picked
  <1>2. TaskInv'
    BY TaskFacts DEF TaskInv, Busy
  <1> QED
    BY <1>1, <1>2, SameOutcomes

\* The end of an invocation, with the verdict its caller journals.
LEMMA EndInvocationInv ==
    ASSUME LoopInv, EndInvocation
    PROVE  LoopInv' /\ Allowed
  <1>t. LoopTypes
    BY DEF LoopInv
  <1> DEFINE term == CASE run.ret = "canceled" -> "canceled"
                       [] run.ret \in {"error", "stalled"} -> "failed"
                       [] OTHER -> disk.terminal
             ps == IF run.ret # "suspended" \/ run.asked = <<>>
                        \/ \E p \in disk.prompts : p[2] = run.asked
                   THEN disk.prompts ELSE disk.prompts \cup {<<<<>>, run.asked>>}
  <1>1. /\ UNCHANGED <<flow, applied, expired>> /\ run' = Idle /\ run.at = "returned"
        /\ task' = [x \in Paths(flow) |-> IdleTask]
        /\ disk' = [disk EXCEPT !.terminal = term, !.prompts = ps]
    BY DEF EndInvocation
  <1>2. /\ term \in Verdicts
        /\ term = disk.terminal \/ (disk.terminal = "none" /\ term \in {"canceled", "failed"})
    <2>1. CASE run.ret = "canceled"
      BY <1>1, <2>1 DEF LoopInv, VerdictInv, Verdicts
    <2>2. CASE run.ret \in {"error", "stalled"}
      BY <1>1, <2>2 DEF LoopInv, VerdictInv, Verdicts
    <2>3. CASE run.ret \notin {"canceled", "error", "stalled"}
      BY <1>t, <1>1, <2>3 DEF LoopTypes, Disks
    <2> QED
      BY <2>1, <2>2, <2>3
  <1>3. ps \in SUBSET ((Paths(flow) \cup {<<>>}) \X Questions(flow))
    <2>1. CASE ps = disk.prompts
      BY <1>t, <2>1 DEF LoopTypes, Disks
    <2>2. CASE run.asked # <<>> /\ ps = disk.prompts \cup {<<<<>>, run.asked>>}
      BY <1>t, <2>2 DEF LoopTypes, Disks, Invocations
    <2> QED
      BY <2>1, <2>2
  <1> HIDE DEF term, ps
  <1>4. /\ disk' \in Disks(flow) /\ disk'.outcome = disk.outcome /\ disk'.ops = disk.ops
        /\ disk'.terminal = term /\ disk'.charged = disk.charged
        /\ disk'.hasCharges = disk.hasCharges
    BY <1>t, <1>1, <1>2, <1>3 DEF LoopTypes, Disks
  <1>5. LoopTypes'
    BY <1>t, <1>1, <1>4, IdleFacts, TaskFacts DEF LoopTypes, Resting
  <1>6. StatesMatch' /\ ReadyInv' /\ DurableInv' /\ CycleInv' /\ TaskInv' /\ SettleInv'
    BY <1>1, <1>4, <1>5, IdleFacts, RestingInv DEF LoopInv
  <1>7. \A n \in OwnNodes : task'[Root(n)].stage # "effect"
    BY <1>t, <1>1, TaskFacts, PathFacts DEF OwnNodes, LoopTypes
  <1>8. EffectInv'
    BY <1>1, <1>4, <1>7, SameOutcomes DEF LoopInv, EffectInv
  <1>9. VerdictInv' /\ BudgetInv'
    BY <1>1, <1>4, IdleFacts DEF LoopInv, VerdictInv, BudgetInv, Resting
  <1>10. Stutters \/ Decides
    BY <1>1, <1>2, <1>4, SameOutcomes DEF Stutters, Decides, Verdicts
  <1> QED
    BY <1>5, <1>6, <1>8, <1>9, <1>10 DEF LoopInv, Allowed

\* The process dies: an effect under way may still take place, once.
LEMMA ProcessDiesInv ==
    ASSUME LoopInv, ProcessDies
    PROVE  LoopInv' /\ Allowed
  <1>t. LoopTypes
    BY DEF LoopInv
  <1>1. PICK late \in SUBSET {x \in Paths(flow) : task[x].stage = "effect"} :
          applied' = [x \in Paths(flow) |-> applied[x] + (IF x \in late THEN 1 ELSE 0)]
    BY DEF ProcessDies
  <1>2. /\ UNCHANGED <<flow, disk>> /\ run' = Idle
        /\ task' = [x \in Paths(flow) |-> IdleTask]
    BY DEF ProcessDies
  <1>3. LoopTypes'
    <2>1. applied' \in [Paths(flow) -> Nat]
      BY <1>t, <1>1 DEF LoopTypes
    <2> QED
      BY <1>t, <1>2, <2>1, IdleFacts, TaskFacts DEF LoopTypes, Resting
  <1>4. StatesMatch' /\ ReadyInv' /\ DurableInv' /\ CycleInv' /\ TaskInv' /\ SettleInv'
    BY <1>2, <1>3, IdleFacts, RestingInv DEF LoopInv
  <1>5. ASSUME NEW n \in OwnNodes, flow.nodes[n].effect = "fail"
        PROVE  /\ Root(n) \in Paths(flow) /\ task'[Root(n)].stage = "idle"
               /\ \/ applied'[Root(n)] = applied[Root(n)]
                  \/ /\ applied[Root(n)] = 0 /\ applied'[Root(n)] = 1 /\ Outcome(n) = "none"
                     /\ disk.ops[Root(n)] = "started"
    <2>1. Root(n) \in Paths(flow) /\ applied[Root(n)] \in Nat
      BY <1>t, PathFacts DEF OwnNodes, LoopTypes
    <2>2. CASE Root(n) \in late
      <3>1. Outcome(n) = "none"
        BY <1>t, <2>2, BusyIsOpen DEF LoopInv
      <3>2. applied[Root(n)] = 0 /\ disk.ops[Root(n)] = "started"
        BY <1>5, <2>2 DEF LoopInv, EffectInv
      <3>3. applied'[Root(n)] = applied[Root(n)] + 1
        BY <1>1, <2>1, <2>2
      <3>4. applied'[Root(n)] = 1
        BY <3>2, <3>3
      <3>5. task'[Root(n)].stage = "idle"
        BY <1>2, <2>1, TaskFacts
      <3> QED
        BY <2>1, <3>1, <3>2, <3>4, <3>5
    <2>3. CASE Root(n) \notin late
      <3>1. applied'[Root(n)] = applied[Root(n)]
        BY <1>1, <2>1, <2>3
      <3> QED
        BY <1>2, <2>1, <3>1, TaskFacts
    <2> QED
      BY <2>2, <2>3
  <1>6. EffectInv'
    <2>1. OwnNodes' = OwnNodes /\ \A n : Outcome(n)' = Outcome(n)
      BY <1>2, SameOutcomes
    <2> QED
      BY <1>2, <1>5, <2>1 DEF LoopInv, EffectInv
  <1>7. VerdictInv' /\ BudgetInv'
    BY <1>2, IdleFacts DEF LoopInv, VerdictInv, BudgetInv, Resting
  <1>8. TakesEffect
    BY <1>2, <1>5, SameOutcomes DEF TakesEffect
  <1> QED
    BY <1>3, <1>4, <1>6, <1>7, <1>8 DEF LoopInv, Allowed

-----------------------------------------------------------------------------
(* The scheduler: what its steps have in common. *)

\* Node n settles with v and no other node of the contract moves.
NodeSettles(n, v) ==
    \A m \in OwnNodes : Outcome(m)' = IF m = n THEN v ELSE Outcome(m)

\* What a node may run on cannot be taken back: outcomes are only added.
LEMMA DurableGrows ==
    ASSUME LoopTypes, DurableInv, flow' = flow,
           \A m \in OwnNodes :
              \/ Outcome(m)' = Outcome(m)
              \/ /\ Outcome(m) = "none"
                 /\ Outcome(m)' = "success" => MayRun(m)
    PROVE  DurableInv' /\ \A m \in OwnNodes : MayRun(m) => MayRun(m)'
  <1>1. OwnNodes' = OwnNodes /\ Nodes(flow)' = Nodes(flow)
    BY DEF OwnNodes, Nodes, RepairNodes
  <1>2. ASSUME NEW n \in OwnNodes, MayRun(n) PROVE MayRun(n)'
    <2>a. SUFFICES ASSUME Steady PROVE MayRun(n)'
      BY DEF MayRun
    <2>0. n \in Nodes(flow) /\ flow.nodes[n] \in StepRecord(Nodes(flow))
      BY FlowFacts DEF OwnNodes, LoopTypes
    <2>1. flow.nodes[n].needs \subseteq OwnNodes
      BY <2>a, <2>0 DEF Steady, RepairsApart, OwnNodes, LoopTypes, StepRecord
    <2>2. \A m \in flow.nodes[n].needs :
            /\ Durable[m] = Outcome(m) /\ Durable'[m] = Outcome(m)'
            /\ Durable[m] # "none" => Durable'[m] = Durable[m]
      BY <1>1, <2>1 DEF Durable, OwnNodes
    <2>3. "false" \notin flow.nodes[n].when /\ needs_satisfied(n, Durable)
      BY <1>2, <2>a DEF MayRun
    <2>4. flow.nodes[n].deps \in {"all", "any", "none_failed"}
      BY <2>0 DEF StepRecord
    <2>5. needs_satisfied(n, Durable)'
      <3>1. CASE flow.nodes[n].needs = {}
        <4>1. flow'.nodes[n].needs = {}
          BY <3>1
        <4> QED
          BY <4>1 DEF needs_satisfied
      <3>2. CASE flow.nodes[n].needs # {} /\ flow.nodes[n].deps = "all"
        BY <2>2, <2>3, <3>2 DEF needs_satisfied
      <3>3. CASE flow.nodes[n].needs # {} /\ flow.nodes[n].deps = "any"
        BY <2>2, <2>3, <3>3 DEF needs_satisfied
      <3>4. CASE flow.nodes[n].needs # {} /\ flow.nodes[n].deps = "none_failed"
        BY <2>2, <2>3, <3>4 DEF needs_satisfied
      <3> QED
        BY <2>4, <3>1, <3>2, <3>3, <3>4
    <2> QED
      BY <2>3, <2>5 DEF MayRun
  <1>3. DurableInv'
    BY <1>1, <1>2 DEF DurableInv
  <1> QED
    BY <1>2, <1>3

\* An open node that may run settles.
LEMMA OneSettles ==
    ASSUME LoopInv, run.at \notin Resting, UNCHANGED <<flow, applied>>,
           disk'.terminal = disk.terminal, NEW n, NEW v \in Settled, NodeSettles(n, v),
           n \in OwnNodes => Outcome(n) = "none" /\ (v = "success" => MayRun(n))
    PROVE  /\ DurableInv' /\ \A m \in OwnNodes : MayRun(m) => MayRun(m)'
           /\ Settles \/ Stutters
           /\ OwnNodes' = OwnNodes
  <1>1. DurableInv' /\ \A m \in OwnNodes : MayRun(m) => MayRun(m)'
    BY DurableGrows DEF LoopInv, NodeSettles
  <1>2. disk.terminal = "none"
    BY DEF LoopInv, VerdictInv
  <1>3. n \in OwnNodes => Settles
    BY <1>2 DEF Settles, NodeSettles
  <1>4. n \notin OwnNodes => Stutters
    BY DEF Stutters, NodeSettles
  <1>5. OwnNodes' = OwnNodes
    BY DEF OwnNodes, Nodes, RepairNodes
  <1> QED
    BY <1>1, <1>3, <1>4, <1>5

\* No node of the contract settles.
LEMMA NoneSettles ==
    ASSUME LoopInv, UNCHANGED <<flow, applied>>, disk'.terminal = disk.terminal,
           \A m \in OwnNodes : Outcome(m)' = Outcome(m)
    PROVE  /\ DurableInv' /\ \A m \in OwnNodes : MayRun(m) => MayRun(m)'
           /\ Stutters /\ OwnNodes' = OwnNodes
  <1>1. DurableInv' /\ \A m \in OwnNodes : MayRun(m) => MayRun(m)'
    BY DurableGrows DEF LoopInv
  <1>2. OwnNodes' = OwnNodes
    BY DEF OwnNodes, Nodes, RepairNodes
  <1> QED
    BY <1>1, <1>2 DEF Stutters

\* What every step of a running scheduler leaves as it was.
Schedules ==
    /\ run.at \notin Resting /\ UNCHANGED <<flow, applied>>
    /\ disk' \in Disks(flow) /\ disk'.terminal = disk.terminal
    /\ disk'.charged = disk.charged /\ disk'.hasCharges = disk.hasCharges
    /\ run' \in Invocations(flow) /\ run'.budget = run.budget
    /\ run'.at \notin Resting => run'.states \in [Nodes(flow) -> NodeStatus]
    /\ run'.at = "hook" => run'.event \in Events
    /\ task' \in [Paths(flow) -> Tasks]
    /\ \A n \in OwnNodes :
          /\ task'[Root(n)].stage = "effect" => task[Root(n)].stage = "effect"
          /\ \/ disk'.ops[Root(n)] = disk.ops[Root(n)]
             \/ Outcome(n)' # "none" /\ task'[Root(n)].stage # "effect"
          /\ Outcome(n)' = Outcome(n) \/ Outcome(n)' \in Settled

\* Such a step keeps what is not about the scheduler.
LEMMA ScheduleFrame ==
    ASSUME LoopInv, Schedules
    PROVE  LoopTypes' /\ EffectInv' /\ VerdictInv' /\ BudgetInv'
  <1>1. LoopTypes'
    BY DEF Schedules, LoopInv, LoopTypes
  <1>2. disk.terminal = "none" /\ disk'.terminal = "none"
    BY DEF Schedules, LoopInv, VerdictInv
  <1>3. VerdictInv'
    BY <1>2 DEF VerdictInv
  <1>4. BudgetInv'
    BY DEF Schedules, LoopInv, BudgetInv
  <1>5. OwnNodes' = OwnNodes
    BY DEF Schedules, OwnNodes, Nodes, RepairNodes
  <1>6. \A n \in OwnNodes : Outcome(n)' = "none" => Outcome(n) = "none"
    BY DEF Schedules, Settled
  <1>7. EffectInv'
    BY <1>5, <1>6 DEF Schedules, LoopInv, EffectInv
  <1> QED
    BY <1>1, <1>3, <1>4, <1>7

\* The scheduler has nothing running: it goes on, settles or returns.
LEMMA PassInv ==
    ASSUME LoopInv, Schedules, run'.at \in {"loop", "settle", "returned"},
           \A x \in Paths(flow) : task'[x].stage = "idle",
           run'.at # "returned" =>
              /\ run'.cycle.kind = "none"
              /\ \A n \in OwnNodes :
                    /\ run'.states[n] \in Settled => Outcome(n)' = run'.states[n]
                    /\ run'.states[n] = "running" => Outcome(n)' = "none"
                    /\ run'.states[n] = "pending" => Outcome(n)' \in {"none", "success"},
           run'.at = "settle" =>
              AllSettled(run'.states) \/ Failures(run'.states) # {} \/ stop' \/ expired',
           DurableInv'
    PROVE  LoopInv'
  <1>1. LoopTypes' /\ EffectInv' /\ VerdictInv' /\ BudgetInv'
    BY ScheduleFrame
  <1>2. OwnNodes' = OwnNodes /\ flow' = flow
    BY DEF Schedules, OwnNodes, Nodes, RepairNodes
  <1>3. StatesMatch'
    BY <1>2 DEF StatesMatch, Resting
  <1>4. ReadyInv' /\ CycleInv'
    BY DEF ReadyInv, CycleInv, Picked
  <1>5. TaskInv'
    BY <1>2 DEF TaskInv, Busy
  <1>6. SettleInv'
    BY DEF SettleInv
  <1> QED
    BY <1>1, <1>3, <1>4, <1>5, <1>6 DEF LoopInv

-----------------------------------------------------------------------------
(* The setup of an invocation, and its hooks. *)

\* A new invocation reads the journal: what was settled stays settled, what was
\* charged stays charged.
LEMMA InvokeInv ==
    ASSUME LoopInv, Invoke
    PROVE  LoopInv' /\ Allowed
  <1>t. LoopTypes
    BY DEF LoopInv
  <1>1. /\ UNCHANGED <<flow, task, applied, stop, expired>> /\ run.at = "idle" /\ disk.terminal = "none"
        /\ UNCHANGED disk \/ disk' = [disk EXCEPT !.executionStarted = TRUE]
    BY DEF Invoke
  <1>2. /\ disk' \in Disks(flow) /\ disk'.outcome = disk.outcome /\ disk'.ops = disk.ops
        /\ disk'.terminal = disk.terminal /\ disk'.charged = disk.charged
        /\ disk'.hasCharges = disk.hasCharges
    BY <1>t, <1>1 DEF LoopTypes, Disks
  <1>3. \A x \in Paths(flow) : task'[x].stage = "idle"
    BY <1>1 DEF LoopInv, TaskInv, Busy
  <1>4. EffectInv'
    BY <1>1, <1>2, SameOutcomes DEF LoopInv, EffectInv
  <1>5. Stutters
    BY <1>1, <1>2, SameOutcomes DEF Stutters
  <1>6. DurableInv' /\ OwnNodes' = OwnNodes /\ \A n : Outcome(n)' = Outcome(n)
    BY <1>1, <1>2, SameOutcomes DEF LoopInv
  <1>7. CASE \E ret \in {"error", "suspended"} : run' = Return(Idle, ret)
    <2>1. run' \in Invocations(flow) /\ run'.at = "returned"
      BY <1>7, IdleFacts, ReturnFacts DEF Returns
    <2>2. LoopTypes'
      BY <1>t, <1>1, <1>2, <2>1 DEF LoopTypes, Resting
    <2>3. StatesMatch' /\ ReadyInv' /\ CycleInv' /\ SettleInv'
      BY <2>1 DEF StatesMatch, ReadyInv, CycleInv, SettleInv, Resting, Picked
    <2>4. TaskInv'
      BY <1>1, <1>3, <2>1 DEF TaskInv, Busy
    <2>5. VerdictInv' /\ BudgetInv'
      BY <1>1, <1>2, <2>1 DEF LoopInv, VerdictInv, BudgetInv, Resting
    <2> QED
      BY <1>4, <1>5, <1>6, <2>2, <2>3, <2>4, <2>5 DEF LoopInv, Allowed
  <1>8. CASE run' = [Idle EXCEPT !.at = "hook", !.event = "run_started",
                                 !.states = NodeStates(disk), !.budget = BudgetSeed(disk)]
    <2>1. NodeStates(disk) \in [Nodes(flow) -> NodeStatus]
      BY DEF NodeStates, NodeStatus
    <2>2. /\ BudgetSeed(disk) \in Nat
          /\ disk.charged <= BudgetSeed(disk)
      BY <1>t DEF BudgetSeed, LoopTypes, Disks, LoopInv, BudgetInv
    <2>3. /\ run' \in Invocations(flow) /\ run'.at = "hook" /\ run'.event = "run_started"
          /\ run'.states = NodeStates(disk) /\ run'.budget = BudgetSeed(disk)
          /\ run'.cycle.kind = "none"
      BY <1>8, <2>1, <2>2, IdleFacts DEF Invocations, Points, Events
    <2>4. LoopTypes'
      BY <1>t, <1>1, <1>2, <2>1, <2>3 DEF LoopTypes, Resting, Events
    <2>5. StatesMatch'
      <3>1. ASSUME NEW n \in OwnNodes
            PROVE  /\ NodeStates(disk)[n] = IF Outcome(n) \in {"skipped", "failed"}
                                            THEN Outcome(n) ELSE "pending"
                   /\ Outcome(n) \in Outcomes
        BY <1>t, PathFacts DEF NodeStates, Outcome, OwnNodes, LoopTypes, Disks
      <3> QED
        BY <1>6, <2>3, <3>1 DEF StatesMatch, Outcomes, Settled
    <2>6. ReadyInv' /\ CycleInv' /\ SettleInv'
      BY <2>3 DEF ReadyInv, CycleInv, SettleInv, Picked
    <2>7. TaskInv'
      BY <1>1, <1>3, <2>3 DEF TaskInv, Busy
    <2>8. VerdictInv' /\ BudgetInv'
      BY <1>1, <1>2, <2>2, <2>3 DEF LoopInv, VerdictInv, BudgetInv
    <2> QED
      BY <1>4, <1>5, <1>6, <2>4, <2>5, <2>6, <2>7, <2>8 DEF LoopInv, Allowed
  <1> QED
    BY <1>7, <1>8 DEF Invoke

\* Between the hooks of a run only hooks have tasks; what follows the hooks of
\* an event keeps what the settlement found.
LEMMA HookInv ==
    ASSUME LoopInv, Schedules, run.at = "hook",
           \A n \in OwnNodes : Outcome(n)' = Outcome(n),
           \/ /\ run' = AfterHooks(run) \/ \E ret \in Returns : run' = Return(run, ret)
              /\ \A x \in Paths(flow) : task'[x].stage = "idle"
           \/ /\ UNCHANGED run
              /\ \A x \in Paths(flow) :
                    task'[x].stage = "idle" \/ (run.event \in DOMAIN flow.hooks /\ x = Hook(run.event))
    PROVE  LoopInv' /\ Allowed
  <1>t. LoopTypes /\ run \in Invocations(flow) /\ run.event \in Events
    BY DEF LoopInv, LoopTypes
  <1>1. LoopTypes' /\ EffectInv' /\ VerdictInv' /\ BudgetInv'
    BY ScheduleFrame
  <1>2. DurableInv' /\ Stutters /\ OwnNodes' = OwnNodes
    BY NoneSettles DEF Schedules
  <1>3. AllGood' <=> AllGood
    BY <1>2 DEF AllGood
  <1>4. run.cycle.kind = "none"
    BY DEF LoopInv, CycleInv
  <1>5. CASE UNCHANGED run /\ \A x \in Paths(flow) :
                task'[x].stage = "idle" \/ (run.event \in DOMAIN flow.hooks /\ x = Hook(run.event))
    <2>1. StatesMatch'
      BY <1>2, <1>5 DEF LoopInv, StatesMatch
    <2>2. ReadyInv' /\ CycleInv' /\ SettleInv'
      BY <1>3, <1>5 DEF LoopInv, ReadyInv, CycleInv, SettleInv, Picked
    <2>3. TaskInv'
      BY <1>5 DEF TaskInv, Busy, Schedules
    <2> QED
      BY <1>1, <1>2, <2>1, <2>2, <2>3 DEF LoopInv, Allowed
  <1>6. CASE run' = AfterHooks(run) /\ \A x \in Paths(flow) : task'[x].stage = "idle"
    <2>1. /\ run'.states = run.states /\ run'.cycle.kind = "none" /\ run'.failed = run.failed
          /\ \/ run.event = "run_started" /\ run'.at = "loop"
             \/ run.event = "step_failed" /\ run'.at = "hook" /\ run'.event = "run_failed"
             \/ run.event \in {"run_failed", "run_succeeded"} /\ run'.at = "finish"
      BY <1>t, <1>4, <1>6, AfterHooksFacts
    <2>2. StatesMatch'
      BY <1>2, <2>1 DEF LoopInv, StatesMatch, Resting
    <2>3. ReadyInv' /\ CycleInv'
      BY <2>1 DEF ReadyInv, CycleInv, Picked
    <2>4. SettleInv'
      BY <1>3, <2>1 DEF LoopInv, SettleInv
    <2>5. TaskInv'
      BY <1>6, <2>1 DEF TaskInv, Busy, Schedules
    <2> QED
      BY <1>1, <1>2, <2>2, <2>3, <2>4, <2>5 DEF LoopInv, Allowed
  <1>7. CASE /\ \E ret \in Returns : run' = Return(run, ret)
             /\ \A x \in Paths(flow) : task'[x].stage = "idle"
    <2>1. run'.at = "returned"
      BY <1>t, <1>7, ReturnFacts
    <2> QED
      BY <1>2, <1>7, <2>1, PassInv DEF Allowed
  <1> QED
    BY <1>5, <1>6, <1>7

\* What no node's fate depends on: the counters of started steps, the settled
\* hooks and the unresolved executions.
SameFate(d, e) ==
    /\ e \in Disks(flow) /\ e.outcome = d.outcome /\ e.ops = d.ops /\ e.terminal = d.terminal
    /\ e.charged = d.charged /\ e.hasCharges = d.hasCharges

\* Those changes of the journal are of that kind.
LEMMA SameFateFacts ==
    ASSUME NEW d \in Disks(flow), NEW S \in SUBSET Paths(flow)
    PROVE  /\ SameFate(d, d)
           /\ SameFate(d, [d EXCEPT !.started = @ + 1])
           /\ SameFate(d, [d EXCEPT !.hooksSettled = S])
           /\ SameFate(d, [d EXCEPT !.unresolved = S])
  <1>1. d.started + 1 \in Nat
    BY DEF Disks
  <1> QED
    BY <1>1 DEF SameFate, Disks

\* A hook starts or is passed.
LEMMA RunHookInv ==
    ASSUME LoopInv, RunHook
    PROVE  LoopInv' /\ Allowed
  <1>t. LoopTypes /\ run \in Invocations(flow) /\ run.event \in Events /\ run.at = "hook"
    BY DEF LoopInv, LoopTypes, RunHook
  <1>1. UNCHANGED <<flow, applied>> /\ \A x \in Paths(flow) : task[x].stage = "idle"
    BY DEF RunHook, Live
  <1> DEFINE h == Hook(run.event)
  <1>2. ASSUME ~HookSettled(disk, run.event) PROVE run.event \in DOMAIN flow.hooks /\ h \in Paths(flow)
    BY <1>t, <1>2, PathFacts DEF HookSettled, LoopTypes
  <1>3. SameFate(disk, disk')
    <2>1. disk \in Disks(flow)
      BY <1>t DEF LoopTypes
    <2>2. CASE UNCHANGED disk
      BY <2>1, <2>2, SameFateFacts
    <2>3. CASE disk' = [disk EXCEPT !.started = @ + 1]
      BY <2>1, <2>3, SameFateFacts
    <2>4. CASE /\ ~HookSettled(disk, run.event)
               /\ disk' = [disk EXCEPT !.hooksSettled = @ \cup {h}]
      <3>1. disk.hooksSettled \cup {h} \in SUBSET Paths(flow)
        BY <1>2, <2>1, <2>4 DEF Disks
      <3>2. disk' = [disk EXCEPT !.hooksSettled = disk.hooksSettled \cup {h}]
        BY <2>1, <2>4 DEF Disks
      <3> QED
        BY <2>1, <3>1, <3>2, SameFateFacts
    <2> QED
      BY <2>2, <2>3, <2>4 DEF RunHook
  <1>4. \/ UNCHANGED task /\ run' = AfterHooks(run)
        \/ /\ ~HookSettled(disk, run.event) /\ UNCHANGED run
           /\ task' = [task EXCEPT ![h] = NewTask]
    BY DEF RunHook
  <1>5. /\ task' \in [Paths(flow) -> Tasks]
        /\ \A x \in Paths(flow) : task'[x].stage = "idle"
              \/ (UNCHANGED run /\ run.event \in DOMAIN flow.hooks /\ x = Hook(run.event))
    BY <1>t, <1>1, <1>2, <1>4, TaskFacts DEF LoopTypes
  <1>6. \A n \in OwnNodes : Outcome(n)' = Outcome(n) /\ task'[Root(n)].stage = "idle"
    BY <1>t, <1>1, <1>3, <1>5, PathFacts DEF SameFate, Outcome, LoopTypes, OwnNodes
  <1>7. /\ run' \in Invocations(flow) /\ run'.budget = run.budget
        /\ run'.states = run.states
        /\ run'.at = "hook" => run'.event \in Events
    BY <1>t, <1>4, AfterHooksFacts DEF Events
  <1>8. Schedules
    BY <1>t, <1>1, <1>3, <1>5, <1>6, <1>7 DEF Schedules, SameFate, LoopTypes, Resting
  <1> QED
    BY <1>t, <1>1, <1>4, <1>5, <1>6, <1>8, HookInv

\* A hook's report settles its own path.
LEMMA HookDoneInv ==
    ASSUME LoopInv, HookDone
    PROVE  LoopInv' /\ Allowed
  <1>t. LoopTypes /\ run \in Invocations(flow) /\ run.event \in Events /\ run.at = "hook"
        /\ disk \in Disks(flow)
    BY DEF LoopInv, LoopTypes, HookDone
  <1> DEFINE settled(h) == disk.hooksSettled \cup {h}
             failed(e) == IF flow.hooks[e].policy = "warn"
                          THEN [disk EXCEPT !.hooksSettled = @ \cup {Hook(e)}] ELSE disk
             after(e) == IF flow.hooks[e].policy = "warn" \/ Settling(run)
                         THEN AfterHooks(run) ELSE Return(run, "error")
  <1>1. PICK e \in DOMAIN flow.hooks :
          /\ task[Hook(e)].stage = "done"
          /\ task' = [task EXCEPT ![Hook(e)] = IdleTask]
          /\ \/ disk' = StepFinished(disk, Hook(e), "success") /\ run' = AfterHooks(run)
             \/ /\ disk' = [StepFinished(disk, Hook(e), "check_failed")
                              EXCEPT !.hooksSettled = failed(e).hooksSettled]
                /\ run' = after(e)
             \/ UNCHANGED disk /\ run' \in {AfterHooks(run), Return(run, "canceled"), Return(run, "error")}
             \/ /\ disk' = [disk EXCEPT !.hooksSettled = @ \cup {Hook(e)}]
                /\ run' = AfterHooks(run)
             \/ disk' = failed(e) /\ run' = after(e)
    BY DEF HookDone
  <1> DEFINE h == Hook(e)
  <1>2. h \in Paths(flow) /\ \A n \in Nodes(flow) : h # Root(n)
    BY <1>t, PathFacts DEF LoopTypes
  <1>3. run.event \in DOMAIN flow.hooks /\ h = Hook(run.event)
    BY <1>t, <1>1, <1>2 DEF LoopInv, TaskInv, Busy
  <1>4. task' \in [Paths(flow) -> Tasks] /\ \A x \in Paths(flow) : task'[x].stage = "idle"
    BY <1>t, <1>1, <1>2, <1>3, TaskFacts DEF LoopInv, TaskInv, Busy, LoopTypes
  <1>5. run' = AfterHooks(run) \/ \E ret \in Returns : run' = Return(run, ret)
    BY <1>1 DEF Returns
  <1>6. settled(h) \in SUBSET Paths(flow) /\ failed(e).hooksSettled \in SUBSET Paths(flow)
    BY <1>t, <1>2 DEF Disks
  <1> HIDE DEF after
  <1>7. SameFate(disk, failed(e)) /\ SameFate(disk, [disk EXCEPT !.hooksSettled = @ \cup {h}])
    <2>1. [disk EXCEPT !.hooksSettled = @ \cup {h}] = [disk EXCEPT !.hooksSettled = settled(h)]
      BY <1>t DEF Disks
    <2> QED
      BY <1>t, <1>6, <2>1, SameFateFacts
  <1>8. \/ SameFate(disk, disk')
        \/ \E s : SameFate(StepFinished(disk, h, s), disk')
    <2>1. \A s : StepFinished(disk, h, s) \in Disks(flow)
      BY <1>t, <1>2, FinishedFacts DEF LoopTypes
    <2>2. CASE disk' = [StepFinished(disk, h, "check_failed")
                              EXCEPT !.hooksSettled = failed(e).hooksSettled]
      BY <1>6, <2>1, <2>2, SameFateFacts
    <2> QED
      BY <1>t, <1>1, <1>7, <2>1, <2>2, SameFateFacts
  <1> DEFINE onlyHook ==
               /\ disk' \in Disks(flow) /\ disk'.terminal = disk.terminal
               /\ disk'.charged = disk.charged /\ disk'.hasCharges = disk.hasCharges
               /\ \A n \in OwnNodes :
                     Outcome(n)' = Outcome(n) /\ disk'.ops[Root(n)] = disk.ops[Root(n)]
  <1>9. onlyHook
    <2>1. CASE SameFate(disk, disk')
      BY <2>1 DEF SameFate, Outcome
    <2>2. ASSUME NEW s, SameFate(StepFinished(disk, h, s), disk')
          PROVE  onlyHook
      <3>1. /\ \A y \in Paths(flow) \ {h} :
                  disk'.outcome[y] = disk.outcome[y] /\ disk'.ops[y] = disk.ops[y]
            /\ disk'.terminal = disk.terminal
            /\ disk'.charged = disk.charged /\ disk'.hasCharges = disk.hasCharges
        BY <1>t, <1>2, <2>2, FinishedFacts DEF SameFate, LoopTypes
      <3>2. \A n \in OwnNodes : Root(n) # h /\ Root(n) \in Paths(flow)
        BY <1>t, <1>2, PathFacts DEF OwnNodes, LoopTypes
      <3> QED
        BY <1>t, <2>2, <3>1, <3>2 DEF SameFate, Outcome, Disks
    <2> QED
      BY <1>8, <2>1, <2>2
  <1>10. /\ run' \in Invocations(flow) /\ run'.budget = run.budget
         /\ run'.at \notin Resting => run'.states = run.states
         /\ run'.at = "hook" => run'.event \in Events
    BY <1>t, <1>5, AfterHooksFacts, ReturnFacts DEF Events, Resting
  <1>11. Schedules
    <2>1. \A n \in OwnNodes : task'[Root(n)].stage = "idle"
      BY <1>t, <1>4, PathFacts DEF OwnNodes, LoopTypes
    <2> QED
      BY <1>t, <1>4, <1>9, <1>10, <2>1 DEF Schedules, LoopTypes, Resting, HookDone
  <1> QED
    BY <1>t, <1>4, <1>5, <1>9, <1>11, HookInv

-----------------------------------------------------------------------------
(* The scheduling loop. *)

\* The top of the loop: a cancellation, a yield, or a pass over the graph.
LEMMA LoopTopInv ==
    ASSUME LoopInv, LoopTop
    PROVE  LoopInv' /\ Allowed
  <1>t. LoopTypes /\ run \in Invocations(flow) /\ run.at = "loop"
    BY DEF LoopInv, LoopTypes, LoopTop
  <1>1. UNCHANGED <<flow, disk, task, applied>> /\ \A x \in Paths(flow) : task'[x].stage = "idle"
    BY <1>t DEF LoopTop, LoopInv, TaskInv, Busy
  <1>2. /\ OwnNodes' = OwnNodes /\ \A n : Outcome(n)' = Outcome(n)
        /\ DurableInv' /\ Stutters
    BY <1>1, SameOutcomes DEF LoopInv, Stutters
  <1>3. \A n \in OwnNodes : task'[Root(n)].stage = "idle"
    BY <1>t, <1>1, PathFacts DEF OwnNodes, LoopTypes
  <1>4. CASE \E ret \in {"canceled", "error", "yielded"} : run' = Return(run, ret)
    <2>1. run' \in Invocations(flow) /\ run'.at = "returned" /\ run'.budget = run.budget
      BY <1>t, <1>4, ReturnFacts DEF Returns
    <2>2. Schedules
      BY <1>t, <1>1, <1>2, <1>3, <2>1 DEF Schedules, LoopTypes, Resting
    <2> QED
      BY <1>1, <1>2, <2>1, <2>2, PassInv DEF Allowed
  <1>5. CASE run' = [run EXCEPT !.at = "scan", !.cursor = 1, !.ready = <<>>, !.progressed = FALSE]
    <2>1. /\ run' \in Invocations(flow) /\ run'.at = "scan" /\ run'.budget = run.budget
          /\ run'.ready = <<>> /\ run'.cursor = 1 /\ run'.states = run.states
          /\ run'.cycle = run.cycle
      <3>1. <<>> \in Seq(Nodes(flow)) /\ 1 \in Nat /\ FALSE \in BOOLEAN
        OBVIOUS
      <3> QED
        BY <1>t, <1>5, <3>1 DEF Invocations, Points
    <2>2. Schedules
      BY <1>t, <1>1, <1>2, <1>3, <2>1 DEF Schedules, LoopTypes, Resting
    <2>3. LoopTypes' /\ EffectInv' /\ VerdictInv' /\ BudgetInv'
      BY <2>2, ScheduleFrame
    <2>4. StatesMatch'
      BY <1>t, <1>2, <2>1 DEF LoopInv, StatesMatch, Resting
    <2>5. ReadyInv'
      BY <2>1 DEF ReadyInv, Open
    <2>6. CycleInv' /\ SettleInv'
      BY <1>t, <2>1 DEF LoopInv, CycleInv, SettleInv
    <2>7. TaskInv'
      BY <1>1, <2>1 DEF TaskInv, Busy
    <2> QED
      BY <1>2, <2>3, <2>4, <2>5, <2>6, <2>7 DEF LoopInv, Allowed
  <1> QED
    BY <1>4, <1>5 DEF LoopTop

\* What the scheduler's memory says of a node's needs, the journal says too; a
\* node that may run by the journal is not skipped.
LEMMA ScanFacts ==
    ASSUME RepairsApart, LoopTypes, StatesMatch, run.at \notin Resting, NEW n \in OwnNodes
    PROVE  /\ needs_satisfied(n, run.states) => needs_satisfied(n, Durable)
           /\ should_skip_by_dependencies(n, run.states) => ~needs_satisfied(n, Durable)
  <1>0. n \in Nodes(flow) /\ flow.nodes[n] \in StepRecord(Nodes(flow))
    BY FlowFacts DEF OwnNodes, LoopTypes
  <1>1. flow.nodes[n].needs \subseteq OwnNodes
    BY <1>0 DEF RepairsApart, OwnNodes, LoopTypes, StepRecord
  <1>2. \A m \in flow.nodes[n].needs :
            Durable[m] = Outcome(m) /\ (run.states[m] \in Settled => Durable[m] = run.states[m])
    BY <1>1 DEF Durable, OwnNodes, StatesMatch
  <1>3. flow.nodes[n].deps \in {"all", "any", "none_failed"}
    BY <1>0 DEF StepRecord
  <1>4. CASE flow.nodes[n].needs = {}
    BY <1>4 DEF needs_satisfied, should_skip_by_dependencies
  <1>5. CASE flow.nodes[n].needs # {} /\ flow.nodes[n].deps = "all"
    BY <1>2, <1>5 DEF needs_satisfied, should_skip_by_dependencies, Settled
  <1>6. CASE flow.nodes[n].needs # {} /\ flow.nodes[n].deps = "any"
    BY <1>2, <1>6 DEF needs_satisfied, should_skip_by_dependencies, Settled
  <1>7. CASE flow.nodes[n].needs # {} /\ flow.nodes[n].deps = "none_failed"
    BY <1>2, <1>7 DEF needs_satisfied, should_skip_by_dependencies, Settled
  <1> QED
    BY <1>3, <1>4, <1>5, <1>6, <1>7

\* One node of a pass: the node the pass has come to is none of those it has
\* picked; it settles, stays as it is or is picked.
LEMMA ScanInv ==
    ASSUME LoopInv, Scan
    PROVE  LoopInv' /\ Allowed
  <1> DEFINE n == flow.order[run.cursor]
             next == [run EXCEPT !.cursor = @ + 1]
             settle(s) == [NodeState(next, n, s) EXCEPT !.progressed = TRUE]
  <1>t. /\ LoopTypes /\ flow \in Flows /\ run \in Invocations(flow) /\ run.at = "scan" /\ disk \in Disks(flow)
        /\ run.states \in [Nodes(flow) -> NodeStatus] /\ run.ready \in Seq(Nodes(flow))
        /\ run.cursor \in Nat \ {0} /\ run.cursor <= Len(flow.order)
    BY DEF LoopInv, LoopTypes, Scan, Resting, ReadyInv, Picked, Invocations
  <1>o. /\ flow.order \in Seq(Nodes(flow)) /\ DOMAIN flow.order = 1..Len(flow.order)
        /\ run.cursor \in DOMAIN flow.order /\ n \in Nodes(flow)
        /\ \A i, j \in 1..Len(flow.order) : flow.order[i] = flow.order[j] => i = j
    BY <1>t, FlowFacts
  <1>1. UNCHANGED <<flow, task, applied>> /\ \A x \in Paths(flow) : task[x].stage = "idle"
    BY <1>t DEF Scan, LoopInv, TaskInv, Busy
  <1>2. \A i \in DOMAIN run.ready :
          /\ run.ready[i] \in Nodes(flow) /\ run.ready[i] # n /\ run.states[run.ready[i]] = "pending"
          /\ \E j \in DOMAIN flow.order : j < run.cursor + 1 /\ flow.order[j] = run.ready[i]
          /\ run.ready[i] \in OwnNodes => Outcome(run.ready[i]) = "none" /\ MayRun(run.ready[i])
    <2>1. ASSUME NEW i \in DOMAIN run.ready
          PROVE  /\ run.states[run.ready[i]] = "pending"
                 /\ \E j \in DOMAIN flow.order : j < run.cursor /\ flow.order[j] = run.ready[i]
                 /\ run.ready[i] \in OwnNodes => Outcome(run.ready[i]) = "none" /\ MayRun(run.ready[i])
      BY <1>t DEF LoopInv, ReadyInv, Picked, Open
    <2>2. ASSUME NEW i \in DOMAIN run.ready, NEW j \in DOMAIN flow.order, j < run.cursor,
                 flow.order[j] = run.ready[i]
          PROVE  run.ready[i] # n /\ j < run.cursor + 1
      BY <1>t, <1>o, <2>2
    <2> QED
      BY <1>t, <2>1, <2>2
  <1>3. /\ next \in Invocations(flow) /\ next.at = "scan" /\ next.cursor = run.cursor + 1
        /\ next.states = run.states /\ next.ready = run.ready /\ next.cycle = run.cycle
        /\ next.budget = run.budget
    <2>1. run.cursor + 1 \in Nat
      BY <1>t
    <2> QED
      BY <1>t, <2>1 DEF Invocations
  <1>4. ASSUME NEW s \in {"skipped", "success"}
        PROVE  /\ settle(s) \in Invocations(flow) /\ settle(s).at = "scan"
               /\ settle(s).cursor = run.cursor + 1
               /\ settle(s).states \in [Nodes(flow) -> NodeStatus]
               /\ \A m \in Nodes(flow) : settle(s).states[m] = IF m = n THEN s ELSE run.states[m]
               /\ settle(s).ready = run.ready
               /\ settle(s).cycle = run.cycle /\ settle(s).budget = run.budget
    <2> DEFINE r == NodeState(next, n, s)
    <2>1. /\ r \in Invocations(flow) /\ r.at = "scan" /\ r.cursor = run.cursor + 1
          /\ r.states \in [Nodes(flow) -> NodeStatus]
          /\ \A m \in Nodes(flow) : r.states[m] = IF m = n THEN s ELSE run.states[m]
          /\ r.ready = run.ready
          /\ r.cycle = run.cycle /\ r.budget = run.budget
      <3> HIDE DEF next, n
      <3> QED
        BY <1>t, <1>o, <1>3, NodeStateFacts DEF NodeStatus
    <2>2. settle(s) = [r EXCEPT !.progressed = TRUE]
      OBVIOUS
    <2> HIDE DEF r, settle
    <2> QED
      BY <2>1, <2>2 DEF Invocations
  <1> HIDE DEF settle, next
  <1> DEFINE matches ==
               \A m \in OwnNodes :
                  /\ run.states[m] \in Settled => Outcome(m) = run.states[m]
                  /\ run.states[m] = "running" => Outcome(m) = "none"
                  /\ run.states[m] = "pending" => Outcome(m) \in {"none", "success"}
             picked ==
               \A i \in DOMAIN run.ready :
                  /\ run.states[run.ready[i]] = "pending"
                  /\ \E j \in DOMAIN flow.order : j < run.cursor /\ flow.order[j] = run.ready[i]
                  /\ run.ready[i] \in OwnNodes => Outcome(run.ready[i]) = "none" /\ MayRun(run.ready[i])
  <1>5. ASSUME SameFate(disk, disk') \/ disk' = StepSkipped(disk, n),
               DurableInv', Steady => Settles \/ Stutters, matches', picked',
               \A m \in OwnNodes : Outcome(m)' = Outcome(m) \/ Outcome(m)' \in Settled,
               \A i, j \in DOMAIN run'.ready : run'.ready[i] = run'.ready[j] => i = j,
               run' \in Invocations(flow), run'.at = "scan", run'.cursor = run.cursor + 1,
               run'.cycle = run.cycle, run'.budget = run.budget,
               run'.states \in [Nodes(flow) -> NodeStatus]
        PROVE  LoopInv' /\ Allowed
    <2>1. /\ disk' \in Disks(flow) /\ disk'.ops = disk.ops /\ disk'.terminal = disk.terminal
          /\ disk'.charged = disk.charged /\ disk'.hasCharges = disk.hasCharges
      BY <1>t, <1>o, <1>5, SkippedFacts DEF SameFate
    <2>2. \A m \in OwnNodes : task'[Root(m)].stage = "idle"
      BY <1>t, <1>1, PathFacts DEF OwnNodes
    <2>3. Schedules
      BY <1>t, <1>1, <1>5, <2>1, <2>2 DEF Schedules, LoopTypes, Resting
    <2>4. LoopTypes' /\ EffectInv' /\ VerdictInv' /\ BudgetInv'
      BY <2>3, ScheduleFrame DEF LoopInv
    <2>5. OwnNodes' = OwnNodes
      BY <1>1 DEF OwnNodes, Nodes, RepairNodes
    <2>6. StatesMatch'
      BY <1>5, <2>5 DEF StatesMatch
    <2>7. ReadyInv'
      BY <1>t, <1>1, <1>5, <2>5 DEF ReadyInv, Open
    <2>8. CycleInv' /\ SettleInv'
      BY <1>t, <1>5 DEF LoopInv, CycleInv, SettleInv
    <2>9. TaskInv'
      BY <1>1, <1>5 DEF TaskInv, Busy
    <2> QED
      BY <1>5, <2>4, <2>6, <2>7, <2>8, <2>9 DEF LoopInv, Allowed
  <1>6. \A m \in OwnNodes : Root(m) \in Paths(flow) /\ (m # n => Root(m) # Root(n))
    BY <1>t, <1>o, PathFacts DEF OwnNodes
  <1>7. CASE run' = next /\ UNCHANGED disk
    <2>1. SameFate(disk, disk')
      BY <1>t, <1>7, SameFateFacts
    <2>2. /\ OwnNodes' = OwnNodes /\ \A m : Outcome(m)' = Outcome(m) /\ (MayRun(m)' <=> MayRun(m))
          /\ DurableInv' /\ Stutters
      BY <1>1, <1>7, SameOutcomes DEF LoopInv, Stutters
    <2>3. matches'
      BY <1>t, <1>3, <1>7, <2>2 DEF LoopInv, StatesMatch, Resting
    <2>4. picked'
      BY <1>1, <1>2, <1>3, <1>7, <2>2
    <2>5. \A i, j \in DOMAIN run'.ready : run'.ready[i] = run'.ready[j] => i = j
      BY <1>t, <1>3, <1>7 DEF LoopInv, ReadyInv, Picked
    <2> QED
      BY <1>t, <1>3, <1>5, <1>7, <2>1, <2>2, <2>3, <2>4, <2>5
  <1>8. CASE /\ run.states[n] = "pending" /\ run' = settle("skipped")
             /\ disk' = StepSkipped(disk, n)
             /\ Steady => (n \in OwnNodes => Outcome(n) = "none")
    <2>1. \A y \in Paths(flow) : disk'.outcome[y] = IF y = Root(n) THEN "skipped" ELSE disk.outcome[y]
      BY <1>t, <1>o, <1>8, SkippedFacts
    <2>2. NodeSettles(n, "skipped")
      BY <1>6, <2>1 DEF NodeSettles, Outcome
    <2>3. disk'.terminal = disk.terminal
      BY <1>t, <1>o, <1>8, SkippedFacts
    <2>4. /\ DurableInv' /\ \A m \in OwnNodes : MayRun(m) => MayRun(m)'
          /\ Steady => Settles \/ Stutters
          /\ OwnNodes' = OwnNodes
      <3>1. OwnNodes' = OwnNodes
        BY <1>1 DEF OwnNodes, Nodes, RepairNodes
      <3>2. CASE ~Steady
        BY <3>1, <3>2 DEF DurableInv, MayRun
      <3>3. CASE Steady
        BY <1>t, <1>1, <1>8, <2>2, <2>3, <3>3, OneSettles DEF Settled, Resting
      <3> QED
        BY <3>1, <3>2, <3>3
    <2>5. /\ run' \in Invocations(flow) /\ run'.at = "scan" /\ run'.cursor = run.cursor + 1
          /\ run'.states \in [Nodes(flow) -> NodeStatus] /\ run'.ready = run.ready
          /\ \A m \in Nodes(flow) : run'.states[m] = IF m = n THEN "skipped" ELSE run.states[m]
          /\ run'.cycle = run.cycle /\ run'.budget = run.budget
      BY <1>4, <1>8
    <2>6. \A m \in OwnNodes : m \in Nodes(flow) /\ Outcome(m)' = IF m = n THEN "skipped" ELSE Outcome(m)
      BY <2>2 DEF NodeSettles, OwnNodes
    <2> HIDE DEF n
    <2>7. matches'
      BY <1>t, <2>4, <2>5, <2>6 DEF LoopInv, StatesMatch, Resting, Settled
    <2>8. picked'
      BY <1>1, <1>2, <2>4, <2>5, <2>6
    <2>9. \A i, j \in DOMAIN run'.ready : run'.ready[i] = run'.ready[j] => i = j
      BY <1>t, <2>5 DEF LoopInv, ReadyInv, Picked
    <2> QED
      BY <1>5, <1>8, <2>4, <2>5, <2>6, <2>7, <2>8, <2>9 DEF Settled
  <1>9. CASE /\ run.states[n] = "pending" /\ run' = settle("success") /\ UNCHANGED disk
             /\ disk.outcome[Root(n)] = "success"
    <2>1. SameFate(disk, disk')
      BY <1>t, <1>9, SameFateFacts
    <2>2. /\ OwnNodes' = OwnNodes /\ \A m : Outcome(m)' = Outcome(m) /\ (MayRun(m)' <=> MayRun(m))
          /\ DurableInv' /\ Stutters
      BY <1>1, <1>9, SameOutcomes DEF LoopInv, Stutters
    <2>3. /\ run' \in Invocations(flow) /\ run'.at = "scan" /\ run'.cursor = run.cursor + 1
          /\ run'.states \in [Nodes(flow) -> NodeStatus] /\ run'.ready = run.ready
          /\ \A m \in Nodes(flow) : run'.states[m] = IF m = n THEN "success" ELSE run.states[m]
          /\ run'.cycle = run.cycle /\ run'.budget = run.budget
      BY <1>4, <1>9
    <2>4. Outcome(n) = "success" /\ \A m \in OwnNodes : m \in Nodes(flow)
      BY <1>9 DEF Outcome, OwnNodes
    <2> HIDE DEF n
    <2>5. matches'
      BY <1>t, <2>2, <2>3, <2>4 DEF LoopInv, StatesMatch, Resting
    <2>6. picked'
      BY <1>1, <1>2, <2>2, <2>3
    <2>7. \A i, j \in DOMAIN run'.ready : run'.ready[i] = run'.ready[j] => i = j
      BY <1>t, <2>3 DEF LoopInv, ReadyInv, Picked
    <2> QED
      BY <1>5, <2>1, <2>2, <2>3, <2>5, <2>6, <2>7
  <1>10. CASE /\ run.states[n] = "pending" /\ run' = [next EXCEPT !.ready = Append(@, n)]
              /\ UNCHANGED disk
              /\ n \in OwnNodes => Outcome(n) = "none" /\ MayRun(n)
    <2>1. SameFate(disk, disk')
      BY <1>t, <1>10, SameFateFacts
    <2>2. /\ OwnNodes' = OwnNodes /\ \A m : Outcome(m)' = Outcome(m) /\ (MayRun(m)' <=> MayRun(m))
          /\ DurableInv' /\ Stutters
      BY <1>1, <1>10, SameOutcomes DEF LoopInv, Stutters
    <2>3. Append(run.ready, n) \in Seq(Nodes(flow))
      BY <1>t, <1>o
    <2>4. /\ run' \in Invocations(flow) /\ run'.at = "scan" /\ run'.cursor = run.cursor + 1
          /\ run'.states = run.states /\ run'.ready = Append(run.ready, n)
          /\ run'.cycle = run.cycle /\ run'.budget = run.budget
      BY <1>3, <1>10, <2>3 DEF Invocations
    <2>5. \A i \in DOMAIN run'.ready :
            \/ i \in DOMAIN run.ready /\ run'.ready[i] = run.ready[i]
            \/ i = Len(run.ready) + 1 /\ i \notin DOMAIN run.ready /\ run'.ready[i] = n
      BY <1>t, <1>o, <2>4
    <2>6. \E j \in DOMAIN flow.order : j < run.cursor + 1 /\ flow.order[j] = n
      BY <1>t, <1>o
    <2> HIDE DEF n
    <2>7. matches'
      BY <1>t, <2>2, <2>4 DEF LoopInv, StatesMatch, Resting
    <2>8. picked'
      BY <1>1, <1>2, <1>10, <2>2, <2>4, <2>5, <2>6
    <2>9. \A i, j \in DOMAIN run'.ready : run'.ready[i] = run'.ready[j] => i = j
      BY <1>t, <1>2, <2>5 DEF LoopInv, ReadyInv, Picked
    <2> QED
      BY <1>t, <1>5, <2>1, <2>2, <2>4, <2>7, <2>8, <2>9
  <1>11. ASSUME run.states[n] = "pending", n \in OwnNodes
         PROVE  Outcome(n) \in {"none", "success"} /\ (Outcome(n) = "success" => MayRun(n))
    BY <1>t, <1>11 DEF LoopInv, StatesMatch, DurableInv, Resting
  <1>12. ASSUME n \in OwnNodes, Steady
         PROVE  /\ needs_satisfied(n, run.states) => needs_satisfied(n, Durable)
                /\ should_skip_by_dependencies(n, run.states) => ~needs_satisfied(n, Durable)
    BY <1>t, <1>12, ScanFacts DEF LoopInv, Resting, Steady
  <1>13. \/ run' = next /\ UNCHANGED disk
         \/ /\ run.states[n] = "pending" /\ run' = settle("skipped")
            /\ disk' = StepSkipped(disk, n)
            /\ should_skip_by_dependencies(n, run.states) \/ "false" \in flow.nodes[n].when
         \/ /\ run.states[n] = "pending" /\ run' = settle("success") /\ UNCHANGED disk
            /\ disk.outcome[Root(n)] = "success"
         \/ /\ run.states[n] = "pending" /\ run' = [next EXCEPT !.ready = Append(@, n)]
            /\ UNCHANGED disk /\ needs_satisfied(n, run.states)
            /\ "true" \in flow.nodes[n].when /\ disk.outcome[Root(n)] # "success"
         \/ run' = Return(run, "error") /\ UNCHANGED disk
    BY DEF Scan, settle, next
  <1>14. ASSUME n \in OwnNodes, Steady, "true" \in flow.nodes[n].when
         PROVE  "false" \notin flow.nodes[n].when
    BY <1>t, <1>14 DEF Steady, ConditionsStable, OwnNodes
  <1>15. CASE run' = Return(run, "error") /\ UNCHANGED disk
    <2>1. /\ run' \in Invocations(flow) /\ run'.at = "returned" /\ run'.budget = run.budget
      BY <1>t, <1>15, ReturnFacts DEF Returns
    <2>2. SameFate(disk, disk')
      BY <1>t, <1>15, SameFateFacts
    <2>3. /\ OwnNodes' = OwnNodes /\ \A m : Outcome(m)' = Outcome(m)
          /\ DurableInv' /\ Stutters
      BY <1>1, <1>15, SameOutcomes DEF LoopInv, Stutters
    <2>4. Schedules
      BY <1>t, <1>1, <1>15, <2>1, <2>3 DEF Schedules, LoopTypes, Resting
    <2>5. LoopInv'
      BY <1>1, <2>1, <2>3, <2>4, PassInv
    <2> QED
      BY <2>3, <2>5 DEF Allowed
  <1> QED
    BY <1>7, <1>8, <1>9, <1>10, <1>11, <1>12, <1>13, <1>14, <1>15 DEF MayRun, Outcome

\* A step that changes no fate changes no outcome.
LEMMA FateFrame ==
    ASSUME LoopInv, flow' = flow, SameFate(disk, disk')
    PROVE  /\ OwnNodes' = OwnNodes /\ DurableInv' /\ (UNCHANGED applied => Stutters)
           /\ \A m : Outcome(m)' = Outcome(m) /\ (MayRun(m)' <=> MayRun(m))
  BY SameOutcomes DEF SameFate, LoopInv, Stutters

\* After the pass: another one, the settlement, a wave or one node.
LEMMA DispatchInv ==
    ASSUME LoopInv, Dispatch
    PROVE  LoopInv' /\ Allowed
  <1>t. /\ LoopTypes /\ flow \in Flows /\ run \in Invocations(flow) /\ run.at = "scan"
        /\ disk \in Disks(flow) /\ run.ready \in Seq(Nodes(flow))
        /\ run.states \in [Nodes(flow) -> NodeStatus] /\ task \in [Paths(flow) -> Tasks]
    BY DEF LoopInv, LoopTypes, Dispatch, Resting, Invocations
  <1>1. UNCHANGED <<flow, applied>> /\ \A x \in Paths(flow) : task[x].stage = "idle"
    BY <1>t DEF Dispatch, LoopInv, TaskInv, Busy
  <1>2. SameFate(disk, disk')
    BY <1>t, SameFateFacts DEF Dispatch
  <1>3. /\ OwnNodes' = OwnNodes /\ DurableInv' /\ Stutters
        /\ \A m : Outcome(m)' = Outcome(m) /\ (MayRun(m)' <=> MayRun(m))
    BY <1>1, <1>2, FateFrame
  <1>4. \A m \in OwnNodes : m \in Nodes(flow) /\ Root(m) \in Paths(flow)
    BY <1>t, PathFacts DEF OwnNodes
  <1>5. ASSUME run' \in Invocations(flow), run'.budget = run.budget, run'.at # "hook",
               run'.at \notin Resting => run'.states \in [Nodes(flow) -> NodeStatus],
               task' \in [Paths(flow) -> Tasks],
               \A x \in Paths(flow) : task'[x].stage # "effect"
        PROVE  Schedules
    BY <1>t, <1>1, <1>2, <1>3, <1>4, <1>5 DEF Schedules, SameFate, Resting
  <1>6. CASE UNCHANGED task /\ (run' = EndPass(run) \/ \E ret \in {"canceled", "error"} : run' = Return(run, ret))
    <2>1. /\ run' \in Invocations(flow) /\ run'.budget = run.budget
          /\ run'.at \in {"settle", "loop", "returned"}
          /\ run'.at # "returned" => run'.states = run.states /\ run'.cycle = run.cycle
          /\ run'.at = "settle" => AllSettled(run'.states)
      BY <1>t, <1>6, EndPassFacts, ReturnFacts DEF Returns
    <2>2. Schedules
      BY <1>t, <1>1, <1>5, <1>6, <2>1 DEF Resting
    <2>3. \A n \in OwnNodes :
             /\ run.states[n] \in Settled => Outcome(n)' = run.states[n]
             /\ run.states[n] = "running" => Outcome(n)' = "none"
             /\ run.states[n] = "pending" => Outcome(n)' \in {"none", "success"}
      BY <1>t, <1>3 DEF LoopInv, StatesMatch, Resting
    <2>4. run.cycle.kind = "none"
      BY <1>t DEF LoopInv, CycleInv
    <2>5. LoopInv'
      BY <1>1, <1>3, <1>6, <2>1, <2>2, <2>3, <2>4, PassInv
    <2> QED
      BY <1>3, <2>5 DEF Allowed
  <1>7. CASE /\ Wave /\ UNCHANGED task
             /\ run' = [run EXCEPT !.at = "starting", !.cursor = 1, !.aborting = FALSE,
                                !.parentCanceled = FALSE, !.startError = "none", !.errors = {}]
    <2>1. /\ run' \in Invocations(flow) /\ run'.budget = run.budget /\ run'.at = "starting"
          /\ run'.cursor = 1 /\ run'.ready = run.ready /\ run'.states = run.states
          /\ run'.cycle = run.cycle /\ run'.errors = {}
      <3>1. /\ {} \in SUBSET (Nodes(flow) \X Results)
            /\ 1 \in Nat /\ FALSE \in BOOLEAN /\ "starting" \in Points
        BY DEF Points
      <3> QED
        BY <1>t, <1>7, <3>1 DEF Invocations
    <2>2. Schedules
      BY <1>t, <1>1, <1>5, <1>7, <2>1
    <2>3. LoopTypes' /\ EffectInv' /\ VerdictInv' /\ BudgetInv'
      BY <2>2, ScheduleFrame
    <2>4. StatesMatch'
      BY <1>t, <1>3, <2>1 DEF LoopInv, StatesMatch, Resting
    <2>5. ReadyInv'
      <3>1. run'.cursor <= Len(run'.ready)
        BY <1>t, <1>7, <2>1 DEF Wave
      <3> QED
        BY <1>t, <1>3, <2>1, <3>1 DEF LoopInv, ReadyInv, Picked, Open
    <2>6. CycleInv' /\ SettleInv'
      BY <1>t, <2>1 DEF LoopInv, CycleInv, SettleInv
    <2>7. TaskInv'
      BY <1>1, <1>7, <2>1 DEF TaskInv, Busy
    <2> QED
      BY <1>3, <2>3, <2>4, <2>5, <2>6, <2>7 DEF LoopInv, Allowed
  <1> DEFINE n == run.ready[1]
  <1>8. CASE /\ run.ready # <<>>
             /\ run' = [NodeState(run, n, "running") EXCEPT !.at = "node"]
             /\ task' = [task EXCEPT ![Root(n)] = NewTask]
    <2>1. /\ 1 \in DOMAIN run.ready /\ Len(run.ready) > 0 /\ n \in Nodes(flow)
          /\ Root(n) \in Paths(flow)
      BY <1>t, <1>8, PathFacts
    <2>2. /\ run' \in Invocations(flow) /\ run'.budget = run.budget /\ run'.at = "node"
          /\ run'.ready = run.ready /\ run'.cycle = run.cycle
          /\ run'.states \in [Nodes(flow) -> NodeStatus]
          /\ \A m \in Nodes(flow) : run'.states[m] = IF m = n THEN "running" ELSE run.states[m]
      <3> DEFINE r == NodeState(run, n, "running")
      <3>1. /\ r \in Invocations(flow) /\ r.budget = run.budget
            /\ r.ready = run.ready /\ r.cycle = run.cycle
            /\ r.states \in [Nodes(flow) -> NodeStatus]
            /\ \A m \in Nodes(flow) : r.states[m] = IF m = n THEN "running" ELSE run.states[m]
        BY <1>t, <2>1, NodeStateFacts DEF NodeStatus
      <3>2. run' = [r EXCEPT !.at = "node"]
        BY <1>8
      <3> HIDE DEF r
      <3> QED
        BY <3>1, <3>2 DEF Invocations, Points
    <2>3. /\ task' \in [Paths(flow) -> Tasks]
          /\ \A x \in Paths(flow) : task'[x].stage \in {"idle", "charge"} /\ (x # Root(n) => task'[x].stage = "idle")
      BY <1>t, <1>1, <1>8, <2>1, TaskFacts
    <2>4. Schedules
      BY <1>t, <1>5, <2>2, <2>3
    <2>5. LoopTypes' /\ EffectInv' /\ VerdictInv' /\ BudgetInv'
      BY <2>4, ScheduleFrame
    <2>6. n \in OwnNodes => Outcome(n) = "none"
      BY <1>t, <2>1 DEF LoopInv, ReadyInv, Picked, Open
    <2>7. StatesMatch'
      BY <1>t, <1>3, <1>4, <2>2, <2>6 DEF LoopInv, StatesMatch, Resting, Settled
    <2>8. ReadyInv'
      BY <1>t, <1>3, <2>1, <2>2 DEF LoopInv, ReadyInv, Picked, Open
    <2>9. CycleInv' /\ SettleInv'
      BY <1>t, <2>2 DEF LoopInv, CycleInv, SettleInv
    <2>10. TaskInv'
      <3>1. Current' = n /\ run'.cycle.kind = "none"
        BY <1>t, <2>2 DEF Current, LoopInv, CycleInv
      <3> QED
        BY <1>1, <2>2, <2>3, <3>1 DEF TaskInv, Busy
    <2> QED
      BY <1>3, <2>5, <2>7, <2>8, <2>9, <2>10 DEF LoopInv, Allowed
  <1> QED
    BY <1>6, <1>7, <1>8 DEF Dispatch

-----------------------------------------------------------------------------
(* A wave of parallel tasks. *)

\* The wave's next node starts, or a checkpoint ends the starting.
LEMMA StartWaveNodeInv ==
    ASSUME LoopInv, StartWaveNode
    PROVE  LoopInv' /\ Allowed
  <1> DEFINE n == run.ready[run.cursor]
  <1>t. /\ LoopTypes /\ flow \in Flows /\ run \in Invocations(flow) /\ run.at = "starting"
        /\ disk \in Disks(flow) /\ run.ready \in Seq(Nodes(flow)) /\ run.startError = "none"
        /\ run.states \in [Nodes(flow) -> NodeStatus] /\ task \in [Paths(flow) -> Tasks]
        /\ run.errors = {}
    BY DEF LoopInv, LoopTypes, StartWaveNode, Resting, Invocations, SettleInv
  <1>c. /\ run.cursor \in Nat \ {0} /\ Len(run.ready) \in Nat /\ run.cursor <= Len(run.ready)
        /\ DOMAIN run.ready = 1..Len(run.ready) /\ run.cursor \in DOMAIN run.ready
        /\ n \in Nodes(flow) /\ Root(n) \in Paths(flow)
    <2>1. /\ run.cursor \in Nat \ {0} /\ Len(run.ready) \in Nat /\ run.cursor <= Len(run.ready)
          /\ DOMAIN run.ready = 1..Len(run.ready)
      BY <1>t DEF LoopInv, ReadyInv, Picked
    <2>2. n \in Nodes(flow)
      BY <1>t, <2>1
    <2> QED
      BY <1>t, <2>1, <2>2, PathFacts
  <1>1. UNCHANGED <<flow, applied, stop, expired>>
    BY DEF StartWaveNode
  <1>2. SameFate(disk, disk')
    BY <1>t, SameFateFacts DEF StartWaveNode
  <1>3. /\ OwnNodes' = OwnNodes /\ DurableInv' /\ Stutters
        /\ \A m : Outcome(m)' = Outcome(m) /\ (MayRun(m)' <=> MayRun(m))
    BY <1>1, <1>2, FateFrame
  <1>4. \A m \in OwnNodes : m \in Nodes(flow) /\ Root(m) \in Paths(flow)
    BY <1>t, PathFacts DEF OwnNodes
  <1>5. /\ \A i, j \in DOMAIN run.ready : run.ready[i] = run.ready[j] => i = j
        /\ \A i \in DOMAIN run.ready :
              run.ready[i] \in OwnNodes => Outcome(run.ready[i]) = "none" /\ MayRun(run.ready[i])
    BY <1>t DEF LoopInv, ReadyInv, Picked, Open
  <1>6. \A x \in Paths(flow) : Busy(x) => \E i \in 1..(run.cursor - 1) : x = Root(run.ready[i])
    BY <1>t DEF LoopInv, TaskInv
  <1>7. run.cycle.kind = "none"
    BY <1>t DEF LoopInv, CycleInv
  <1>8. CASE /\ stop \/ expired
             /\ UNCHANGED task
             /\ run' = [run EXCEPT !.at = "wave", !.aborting = TRUE,
                                   !.startError = IF stop THEN "canceled" ELSE "elapsed",
                                   !.ready = SubSeq(@, 1, run.cursor - 1)]
    <2> DEFINE short == SubSeq(run.ready, 1, run.cursor - 1)
               err == IF stop THEN "canceled" ELSE "elapsed"
    <2>1. /\ short \in Seq(Nodes(flow)) /\ Len(short) = run.cursor - 1
          /\ DOMAIN short = 1..(run.cursor - 1)
          /\ \A i \in 1..(run.cursor - 1) : i \in DOMAIN run.ready /\ short[i] = run.ready[i]
      <3>1. CASE run.cursor = 1
        BY <1>t, <1>c, <3>1
      <3>2. CASE run.cursor > 1
        BY <1>t, <1>c, <3>2
      <3> QED
        BY <1>c, <3>1, <3>2
    <2>2. err \in {"canceled", "elapsed"} /\ (err = "elapsed" => expired)
      BY <1>8
    <2>3. run' = [run EXCEPT !.at = "wave", !.aborting = TRUE, !.startError = err, !.ready = short]
      BY <1>t, <1>8 DEF Invocations
    <2> HIDE DEF short, err
    <2>4. /\ run' \in Invocations(flow) /\ run'.budget = run.budget /\ run'.at = "wave"
          /\ run'.ready = short /\ run'.states = run.states /\ run'.cycle = run.cycle
          /\ run'.errors = run.errors /\ run'.startError = err
      BY <1>t, <2>1, <2>2, <2>3 DEF Invocations, Points
    <2>5. Schedules
      BY <1>t, <1>1, <1>2, <1>3, <1>8, <2>4 DEF Schedules, SameFate, Resting
    <2>6. LoopTypes' /\ EffectInv' /\ VerdictInv' /\ BudgetInv'
      BY <2>5, ScheduleFrame
    <2>7. StatesMatch'
      BY <1>t, <1>3, <2>4 DEF LoopInv, StatesMatch, Resting
    <2>8. ReadyInv'
      BY <1>3, <1>5, <2>1, <2>4 DEF ReadyInv, Open
    <2>9. CycleInv' /\ SettleInv'
      BY <1>t, <1>1, <1>7, <2>2, <2>4 DEF CycleInv, SettleInv
    <2>10. TaskInv'
      <3>1. \A x \in Paths(flow) : Busy(x) => x \in WavePaths'
        <4>1. ASSUME NEW x \in Paths(flow), Busy(x) PROVE x \in WavePaths'
          <5>1. PICK i \in 1..(run.cursor - 1) : x = Root(run.ready[i])
            BY <1>6, <4>1
          <5>2. i \in 1..Len(run'.ready) /\ run'.ready[i] = run.ready[i]
            BY <2>1, <2>4
          <5> QED
            BY <5>1, <5>2 DEF WavePaths, Root
        <4> QED
          BY <4>1
      <3> QED
        BY <1>1, <1>8, <2>4, <3>1 DEF TaskInv, Busy
    <2> QED
      BY <1>3, <2>6, <2>7, <2>8, <2>9, <2>10 DEF LoopInv, Allowed
  <1> DEFINE last == run.cursor = Len(run.ready)
  <1>9. CASE /\ run' = [NodeState(run, n, "running")
                            EXCEPT !.cursor = IF last THEN @ ELSE @ + 1,
                                   !.at = IF last THEN "wave" ELSE @]
             /\ task' = [task EXCEPT ![Root(n)] = NewTask]
    <2> DEFINE r == NodeState(run, n, "running")
               cursor == IF last THEN run.cursor ELSE run.cursor + 1
               at == IF last THEN "wave" ELSE "starting"
    <2>1. /\ r \in Invocations(flow) /\ r.budget = run.budget /\ r.at = run.at
          /\ r.ready = run.ready /\ r.cycle = run.cycle /\ r.cursor = run.cursor
          /\ r.errors = run.errors /\ r.startError = run.startError
          /\ r.states \in [Nodes(flow) -> NodeStatus]
          /\ \A m \in Nodes(flow) : r.states[m] = IF m = n THEN "running" ELSE run.states[m]
      BY <1>t, <1>c, NodeStateFacts DEF NodeStatus
    <2>2. run' = [r EXCEPT !.cursor = IF last THEN @ ELSE @ + 1, !.at = IF last THEN "wave" ELSE @]
      BY <1>9
    <2>3. cursor \in Nat \ {0} /\ at \in {"wave", "starting"}
          /\ (at = "starting" => cursor = run.cursor + 1 /\ cursor <= Len(run.ready))
      BY <1>c
    <2> HIDE DEF r
    <2>4. run' = [r EXCEPT !.cursor = cursor, !.at = at]
      BY <1>t, <2>1, <2>2 DEF Invocations
    <2> HIDE DEF cursor, at, n
    <2>5. /\ run' \in Invocations(flow) /\ run'.budget = run.budget /\ run'.at = at
          /\ run'.cursor = cursor
          /\ run'.ready = run.ready /\ run'.cycle = run.cycle
          /\ run'.errors = run.errors /\ run'.startError = "none"
          /\ run'.states \in [Nodes(flow) -> NodeStatus]
          /\ \A m \in Nodes(flow) : run'.states[m] = IF m = n THEN "running" ELSE run.states[m]
      BY <1>t, <2>1, <2>3, <2>4 DEF Invocations, Points
    <2>6. /\ task' \in [Paths(flow) -> Tasks] /\ task'[Root(n)].stage = "charge"
          /\ \A x \in Paths(flow) : x # Root(n) => task'[x] = task[x]
      BY <1>t, <1>c, <1>9, TaskFacts
    <2>7. Schedules
      BY <1>t, <1>1, <1>2, <1>3, <1>4, <2>3, <2>5, <2>6 DEF Schedules, SameFate, Resting
    <2>8. LoopTypes' /\ EffectInv' /\ VerdictInv' /\ BudgetInv'
      BY <2>7, ScheduleFrame
    <2>9. n \in OwnNodes => Outcome(n) = "none"
      BY <1>c, <1>5 DEF n
    <2>10. StatesMatch'
      BY <1>t, <1>3, <1>4, <2>5, <2>9 DEF LoopInv, StatesMatch, Resting, Settled
    <2>11. ReadyInv'
      BY <1>3, <1>5, <2>3, <2>5 DEF ReadyInv, Open
    <2>12. CycleInv' /\ SettleInv'
      BY <1>t, <1>7, <2>3, <2>5 DEF CycleInv, SettleInv
    <2>13. ASSUME NEW x \in Paths(flow), Busy(x)'
           PROVE  \E i \in 1..run.cursor : x = Root(run.ready[i])
      <3>1. CASE x = Root(n)
        BY <1>c, <3>1 DEF n
      <3>2. CASE x # Root(n)
        <4>1. PICK i \in 1..(run.cursor - 1) : x = Root(run.ready[i])
          BY <1>6, <2>6, <2>13, <3>2 DEF Busy
        <4> QED
          BY <1>c, <4>1
      <3> QED
        BY <3>1, <3>2
    <2>14. at = "starting" => 1..run.cursor = 1..(run'.cursor - 1)
      BY <1>c, <2>3, <2>5
    <2>15. \A i \in 1..run.cursor : i \in 1..Len(run.ready)
      BY <1>c
    <2>16. WavePaths' = WavePaths
      BY <2>5 DEF WavePaths
    <2>17. TaskInv'
      BY <1>1, <2>3, <2>5, <2>13, <2>14, <2>15, <2>16 DEF TaskInv, WavePaths
    <2> QED
      BY <1>3, <2>8, <2>10, <2>11, <2>12, <2>17 DEF LoopInv, Allowed
  <1> QED
    BY <1>8, <1>9 DEF StartWaveNode

\* A cancellation reaches the wave, and a task is joined.
LEMMA JoinInv ==
    ASSUME LoopInv, CancelWave \/ \E x \in Paths(flow) : JoinTask(x)
    PROVE  LoopInv' /\ Allowed
  <1>t. /\ LoopTypes /\ flow \in Flows /\ run \in Invocations(flow) /\ run.at = "wave"
        /\ disk \in Disks(flow) /\ task \in [Paths(flow) -> Tasks]
        /\ run.states \in [Nodes(flow) -> NodeStatus]
    BY DEF LoopInv, LoopTypes, CancelWave, JoinTask, Resting
  <1>1. UNCHANGED <<flow, applied, stop, expired>>
    BY DEF CancelWave, JoinTask
  <1>2. /\ run' \in Invocations(flow) /\ run'.budget = run.budget /\ run'.at = "wave"
        /\ run'.ready = run.ready /\ run'.cycle = run.cycle /\ run'.errors = run.errors
        /\ run'.startError = run.startError /\ run'.states = run.states /\ run'.cursor = run.cursor
    <2>1. CASE CancelWave
      BY <1>t, <2>1 DEF CancelWave, Invocations
    <2>2. CASE \E x \in Paths(flow) : JoinTask(x)
      <3>1. PICK b \in BOOLEAN : run' = [run EXCEPT !.aborting = b]
        BY <1>t, <2>2 DEF JoinTask, Invocations
      <3> QED
        BY <1>t, <3>1 DEF Invocations
    <2> QED
      BY <2>1, <2>2
  <1> DEFINE joins ==
               /\ SameFate(disk, disk') /\ task' \in [Paths(flow) -> Tasks]
               /\ \A y \in Paths(flow) :
                     /\ Busy(y)' => Busy(y)
                     /\ task'[y].stage = "effect" => task[y].stage = "effect"
  <1>3. joins
    <2>1. CASE CancelWave
      BY <1>t, <2>1, SameFateFacts DEF CancelWave, Busy
    <2>2. ASSUME NEW x \in Paths(flow), JoinTask(x)
          PROVE  joins
      <3>1. disk.unresolved \cup {y \in {x} : Unreported(task[x])} \in SUBSET Paths(flow)
        BY <1>t DEF Disks
      <3>2. disk' = [disk EXCEPT !.unresolved = disk.unresolved \cup {y \in {x} : Unreported(task[x])}]
        BY <1>t, <2>2 DEF JoinTask, Disks
      <3>3. SameFate(disk, disk')
        BY <1>t, <3>1, <3>2, SameFateFacts
      <3> DEFINE t == [task[x] EXCEPT !.stage = "joined",
                                      !.result = IF task[x].stage = "dropped" THEN "none" ELSE @]
      <3>4. task' = [task EXCEPT ![x] = t]
        BY <1>t, <2>2 DEF JoinTask, Tasks
      <3>5. t \in Tasks /\ t.stage = "joined"
        BY <1>t DEF Tasks
      <3>6. task[x].stage \in {"done", "dropped"}
        BY <2>2 DEF JoinTask
      <3> HIDE DEF t
      <3> QED
        BY <1>t, <3>3, <3>4, <3>5, <3>6 DEF Busy
    <2> QED
      BY <2>1, <2>2
  <1>4. /\ OwnNodes' = OwnNodes /\ DurableInv' /\ Stutters
        /\ \A m : Outcome(m)' = Outcome(m) /\ (MayRun(m)' <=> MayRun(m))
    BY <1>1, <1>3, FateFrame
  <1>5. Schedules
    <2>1. \A m \in OwnNodes : Root(m) \in Paths(flow)
      BY <1>t, PathFacts DEF OwnNodes
    <2> QED
      BY <1>t, <1>1, <1>2, <1>3, <1>4, <2>1 DEF Schedules, Resting, SameFate
  <1>6. LoopTypes' /\ EffectInv' /\ VerdictInv' /\ BudgetInv'
    BY <1>5, ScheduleFrame
  <1>7. StatesMatch' /\ ReadyInv' /\ CycleInv'
    BY <1>t, <1>1, <1>2, <1>3, SchedulerFrame DEF LoopInv, SameFate
  <1>8. SettleInv'
    BY <1>t, <1>1, <1>2 DEF LoopInv, SettleInv
  <1>9. TaskInv'
    <2>1. WavePaths' = WavePaths
      BY <1>2 DEF WavePaths
    <2> QED
      BY <1>t, <1>1, <1>2, <1>3, <2>1 DEF LoopInv, TaskInv
  <1> QED
    BY <1>4, <1>6, <1>7, <1>8, <1>9 DEF LoopInv, Allowed

\* Every task of the wave is joined.
LEMMA WaveDrainedInv ==
    ASSUME LoopInv, WaveDrained
    PROVE  LoopInv' /\ Allowed
  <1>t. /\ LoopTypes /\ flow \in Flows /\ run \in Invocations(flow) /\ run.at = "wave"
        /\ disk \in Disks(flow) /\ task \in [Paths(flow) -> Tasks]
        /\ run.states \in [Nodes(flow) -> NodeStatus] /\ run.ready \in Seq(Nodes(flow))
        /\ run.errors = {}
    BY DEF LoopInv, LoopTypes, WaveDrained, Resting, Invocations, SettleInv
  <1>1. UNCHANGED <<flow, disk, task, applied, stop, expired>>
    BY DEF WaveDrained
  <1>2. /\ run' \in Invocations(flow) /\ run'.budget = run.budget /\ run'.at = "settleWave"
        /\ run'.ready = run.ready /\ run'.cycle = run.cycle /\ run'.errors = {}
        /\ run'.startError = run.startError /\ run'.states = run.states /\ run'.cursor = 1
    BY <1>t DEF WaveDrained, Invocations, Points
  <1>3. SameFate(disk, disk')
    BY <1>t, <1>1, SameFateFacts
  <1>4. /\ OwnNodes' = OwnNodes /\ DurableInv' /\ Stutters
        /\ \A m : Outcome(m)' = Outcome(m) /\ (MayRun(m)' <=> MayRun(m))
    BY <1>1, <1>3, FateFrame
  <1>5. Schedules
    BY <1>t, <1>1, <1>2, <1>4 DEF Schedules, Resting
  <1>6. LoopTypes' /\ EffectInv' /\ VerdictInv' /\ BudgetInv'
    BY <1>5, ScheduleFrame
  <1>7. StatesMatch'
    BY <1>t, <1>2, <1>4 DEF LoopInv, StatesMatch, Resting
  <1>8. ReadyInv'
    BY <1>t, <1>2, <1>4 DEF LoopInv, ReadyInv, Picked, Open
  <1>9. CycleInv' /\ SettleInv'
    BY <1>t, <1>1, <1>2 DEF LoopInv, CycleInv, SettleInv
  <1>10. TaskInv'
    <2>1. WavePaths' = WavePaths
      BY <1>2 DEF WavePaths
    <2> QED
      BY <1>t, <1>1, <1>2, <2>1 DEF LoopInv, TaskInv, Busy, WaveDrained
  <1> QED
    BY <1>4, <1>6, <1>7, <1>8, <1>9, <1>10 DEF LoopInv, Allowed

\* A finished step of node n settles the node and nothing else; the same after
\* a change of the journal that is about no node of the contract.
SameNodes(d) ==
    /\ d \in Disks(flow) /\ d.terminal = disk.terminal
    /\ d.charged = disk.charged /\ d.hasCharges = disk.hasCharges
    /\ \A m \in OwnNodes : /\ d.outcome[Root(m)] = disk.outcome[Root(m)]
                           /\ d.ops[Root(m)] = disk.ops[Root(m)]

\* A finished step after such a change of the journal.
LEMMA FinishSettlesFrom ==
    ASSUME LoopTypes, NEW d, SameNodes(d), NEW n \in Nodes(flow), NEW s,
           disk' = StepFinished(d, Root(n), s), flow' = flow
    PROVE  /\ disk' \in Disks(flow) /\ disk'.terminal = disk.terminal
           /\ disk'.charged = disk.charged /\ disk'.hasCharges = disk.hasCharges
           /\ NodeSettles(n, IF s \in Succeeded THEN "success" ELSE "failed")
           /\ \A m \in OwnNodes \ {n} : disk'.ops[Root(m)] = disk.ops[Root(m)]
  <1>1. /\ flow \in Flows /\ d \in Disks(flow) /\ Root(n) \in Paths(flow)
        /\ \A m \in OwnNodes : Root(m) \in Paths(flow) /\ (m # n => Root(m) # Root(n))
    BY PathFacts DEF LoopTypes, OwnNodes, SameNodes
  <1>2. \A y \in Paths(flow) :
          /\ disk'.outcome[y] = IF y # Root(n) THEN d.outcome[y]
                                ELSE IF s \in Succeeded THEN "success" ELSE "failed"
          /\ disk'.ops[y] = IF y = Root(n) THEN "none" ELSE d.ops[y]
    BY <1>1, FinishedFacts
  <1>3. /\ disk' \in Disks(flow) /\ disk'.terminal = disk.terminal
        /\ disk'.charged = disk.charged /\ disk'.hasCharges = disk.hasCharges
    BY <1>1, FinishedFacts DEF SameNodes
  <1>4. NodeSettles(n, IF s \in Succeeded THEN "success" ELSE "failed")
    <2>1. \A m \in OwnNodes : disk'.outcome[Root(m)] =
             IF m = n THEN (IF s \in Succeeded THEN "success" ELSE "failed") ELSE disk.outcome[Root(m)]
      BY <1>1, <1>2 DEF SameNodes
    <2> QED
      BY <2>1 DEF NodeSettles, Outcome
  <1> QED
    BY <1>1, <1>2, <1>3, <1>4 DEF SameNodes

\* A finished step settles its node.
LEMMA FinishSettles ==
    ASSUME LoopTypes, NEW n \in Nodes(flow), NEW s, disk' = StepFinished(disk, Root(n), s), flow' = flow
    PROVE  /\ disk' \in Disks(flow) /\ disk'.terminal = disk.terminal
           /\ disk'.charged = disk.charged /\ disk'.hasCharges = disk.hasCharges
           /\ NodeSettles(n, IF s \in Succeeded THEN "success" ELSE "failed")
           /\ \A m \in OwnNodes \ {n} : disk'.ops[Root(m)] = disk.ops[Root(m)]
  <1>1. SameNodes(disk)
    BY DEF SameNodes, LoopTypes
  <1> QED
    BY <1>1, FinishSettlesFrom

\* The next node of the wave's order settles by its report.
LEMMA SettleWaveNodeInv ==
    ASSUME LoopInv, SettleWaveNode
    PROVE  LoopInv' /\ Allowed
  <1>t. /\ LoopTypes /\ flow \in Flows /\ run \in Invocations(flow) /\ run.at = "settleWave"
        /\ disk \in Disks(flow) /\ task \in [Paths(flow) -> Tasks]
        /\ run.states \in [Nodes(flow) -> NodeStatus] /\ run.ready \in Seq(Nodes(flow))
        /\ run.cursor \in Nat \ {0} /\ run.cursor <= Len(run.ready) /\ Len(run.ready) \in Nat
        /\ run.errors \in SUBSET (Nodes(flow) \X Results)
    BY DEF LoopInv, LoopTypes, SettleWaveNode, Resting, Invocations, ReadyInv, Picked
  <1>d. run.cursor \in DOMAIN run.ready /\ DOMAIN run.ready = 1..Len(run.ready)
    BY <1>t
  <1>n. PICK n \in Nodes(flow) : n = run.ready[run.cursor]
    BY <1>t, <1>d
  <1>c. /\ run.cursor \in DOMAIN run.ready /\ DOMAIN run.ready = 1..Len(run.ready)
        /\ n \in Nodes(flow) /\ n = run.ready[run.cursor]
    BY <1>d, <1>n
  <1> DEFINE x == Root(n)
             r == task[x].result
             next == [run EXCEPT !.cursor = @ + 1]
  <1>1. UNCHANGED <<flow, task, applied, stop, expired>>
    BY DEF SettleWaveNode
  <1>2. /\ x \in Paths(flow) /\ r \in Results \cup {"none"} /\ task[x].stage = "joined"
        /\ OwnQuestion(x) \in Questions(flow)
    <2>1. x \in Paths(flow)
      BY <1>t, <1>c, PathFacts
    <2>2. x \in WavePaths
      BY <1>c DEF WavePaths
    <2> QED
      BY <1>t, <2>1, <2>2 DEF LoopInv, TaskInv, OwnQuestion, Questions, Tasks
  <1>3. n \in OwnNodes => Outcome(n) = "none" /\ MayRun(n)
    BY <1>t, <1>c DEF LoopInv, ReadyInv, Picked, Open
  <1>4. /\ next \in Invocations(flow) /\ next.at = "settleWave" /\ next.cursor = run.cursor + 1
        /\ next.states = run.states /\ next.ready = run.ready /\ next.cycle = run.cycle
        /\ next.budget = run.budget /\ next.errors = run.errors /\ next.startError = run.startError
    <2>1. run.cursor + 1 \in Nat
      BY <1>t
    <2> QED
      BY <1>t, <2>1 DEF Invocations
  <1> HIDE DEF next
  <1> DEFINE
       moves ==
         /\ run' \in Invocations(flow) /\ run'.at = "settleWave" /\ run'.cursor = run.cursor + 1
         /\ run'.ready = run.ready /\ run'.cycle = run.cycle
         /\ run'.budget = run.budget /\ run'.startError = run.startError
         /\ run'.states \in [Nodes(flow) -> NodeStatus]
         /\ \A m \in Nodes(flow) \ {n} : run'.states[m] = run.states[m]
         /\ \A e \in run'.errors : e \in run.errors \/ (e[1] = n /\ run'.states[n] = "failed")
       records ==
         /\ disk' \in Disks(flow) /\ disk'.terminal = disk.terminal
         /\ disk'.charged = disk.charged /\ disk'.hasCharges = disk.hasCharges
         /\ \A m \in OwnNodes : \/ disk'.ops[Root(m)] = disk.ops[Root(m)]
                                \/ m = n /\ Outcome(n)' \in Settled
  <1>5. ASSUME moves, records, DurableInv', Settles \/ Stutters,
               \A m \in OwnNodes : MayRun(m) => MayRun(m)',
               \A m \in OwnNodes : m # n => Outcome(m)' = Outcome(m),
               n \in OwnNodes =>
                  /\ run'.states[n] \in Settled => Outcome(n)' = run'.states[n]
                  /\ run'.states[n] \notin Settled => Outcome(n)' = "none"
        PROVE  LoopInv' /\ Allowed
    <2>1. \A m \in OwnNodes : m \in Nodes(flow) /\ Root(m) \in Paths(flow)
      BY <1>t, PathFacts DEF OwnNodes
    <2>2. n \in OwnNodes => Outcome(n)' = Outcome(n) \/ Outcome(n)' \in Settled
      BY <1>3, <1>5
    <2>3. Schedules
      BY <1>t, <1>1, <1>2, <1>5, <2>1, <2>2 DEF Schedules, Resting, Settled
    <2>4. LoopTypes' /\ EffectInv' /\ VerdictInv' /\ BudgetInv'
      BY <2>3, ScheduleFrame
    <2>5. OwnNodes' = OwnNodes
      BY <1>1 DEF OwnNodes, Nodes, RepairNodes
    <2>6. StatesMatch'
      <3>1. ASSUME NEW m \in OwnNodes
            PROVE /\ run'.states[m] \in Settled => Outcome(m)' = run'.states[m]
                  /\ run'.states[m] = "running" => Outcome(m)' = "none"
                  /\ run'.states[m] = "pending" => Outcome(m)' \in {"none", "success"}
        <4>1. CASE m = n
          BY <1>5, <4>1 DEF Settled
        <4>2. CASE m # n
          BY <1>t, <1>5, <2>1, <4>2 DEF LoopInv, StatesMatch, Resting
        <4> QED
          BY <4>1, <4>2
      <3> QED
        BY <2>5, <3>1 DEF StatesMatch
    <2>7. \A i \in DOMAIN run.ready : i # run.cursor => run.ready[i] # n
      BY <1>t, <1>c DEF LoopInv, ReadyInv, Picked
    <2>8. ReadyInv'
      <3>1. \A i \in DOMAIN run.ready : i >= run.cursor + 1 =>
                run.ready[i] # n /\ (run.ready[i] \in OwnNodes => Outcome(run.ready[i]) = "none" /\ MayRun(run.ready[i]))
        BY <1>t, <1>c, <2>7 DEF LoopInv, ReadyInv, Picked, Open
      <3>2. \A i \in DOMAIN run.ready : i >= run.cursor + 1 =>
                (run.ready[i] \in OwnNodes => Outcome(run.ready[i])' = "none" /\ MayRun(run.ready[i])')
        BY <1>5, <3>1
      <3> QED
        BY <1>t, <1>5, <2>5, <3>2 DEF LoopInv, ReadyInv, Picked, Open
    <2>9. CycleInv'
      BY <1>t, <1>5 DEF LoopInv, CycleInv
    <2>10. SettleInv'
      <3>1. ASSUME NEW e \in run'.errors
            PROVE  /\ run'.states[e[1]] = "failed"
                   /\ \E i \in DOMAIN run.ready : i < run.cursor + 1 /\ run.ready[i] = e[1]
        <4>1. CASE e \in run.errors
          <5>1. e[1] \in Nodes(flow)
            BY <1>t, <4>1
          <5>2. PICK i \in DOMAIN run.ready : i < run.cursor /\ run.ready[i] = e[1]
            BY <1>t, <4>1 DEF LoopInv, SettleInv
          <5>3. run.states[e[1]] = "failed"
            BY <1>t, <4>1 DEF LoopInv, SettleInv
          <5>4. e[1] # n /\ i < run.cursor + 1
            BY <1>t, <1>c, <2>7, <5>2
          <5> QED
            BY <1>5, <5>1, <5>2, <5>3, <5>4
        <4>2. CASE e[1] = n /\ run'.states[n] = "failed"
          BY <1>t, <1>c, <4>2
        <4> QED
          BY <1>5, <4>1, <4>2
      <3> QED
        BY <1>t, <1>1, <1>5, <3>1 DEF LoopInv, SettleInv
    <2>11. TaskInv'
      <3>1. WavePaths' = WavePaths
        BY <1>5 DEF WavePaths
      <3> QED
        BY <1>t, <1>1, <1>5, <3>1 DEF LoopInv, TaskInv, Busy
    <2> QED
      BY <1>5, <2>4, <2>6, <2>8, <2>9, <2>10, <2>11 DEF LoopInv, Allowed
  <1>6. CASE run' = NodeState(next, n, "pending") /\ UNCHANGED disk
    <2>1. moves /\ run'.states[n] = "pending"
      BY <1>t, <1>c, <1>4, <1>6, NodeStateFacts DEF NodeStatus
    <2>2. records
      BY <1>t, <1>6
    <2>3. /\ DurableInv' /\ Stutters
          /\ \A m : Outcome(m)' = Outcome(m) /\ (MayRun(m)' <=> MayRun(m))
      BY <1>1, <1>6, SameOutcomes DEF LoopInv, Stutters
    <2> QED
      BY <1>3, <1>5, <2>1, <2>2, <2>3 DEF Settled
  <1>7. CASE run' = next /\ disk' = StepSuspended(disk, x, OwnQuestion(x))
    <2>1. moves /\ run'.states = run.states
      BY <1>t, <1>c, <1>4, <1>7
    <2>2. records /\ disk'.outcome = disk.outcome
      BY <1>t, <1>2, <1>7, SuspendedFacts
    <2>3. /\ DurableInv' /\ Stutters
          /\ \A m : Outcome(m)' = Outcome(m) /\ (MayRun(m)' <=> MayRun(m))
      BY <1>1, <2>2, SameOutcomes DEF LoopInv, Stutters
    <2>4. n \in OwnNodes => run.states[n] \notin Settled
      BY <1>t, <1>3 DEF LoopInv, StatesMatch, Resting, Settled
    <2> QED
      BY <1>3, <1>5, <2>1, <2>2, <2>3, <2>4
  <1>8. ASSUME NEW s, NEW v \in {"success", "failed"},
               v = (IF s \in Succeeded THEN "success" ELSE "failed"),
               disk' = StepFinished(disk, x, s), moves, run'.states[n] = v
        PROVE  LoopInv' /\ Allowed
    <2>1. /\ disk' \in Disks(flow) /\ disk'.terminal = disk.terminal
          /\ disk'.charged = disk.charged /\ disk'.hasCharges = disk.hasCharges
          /\ NodeSettles(n, v)
          /\ \A m \in OwnNodes \ {n} : disk'.ops[Root(m)] = disk.ops[Root(m)]
      BY <1>t, <1>c, <1>1, <1>8, FinishSettles
    <2>2. /\ DurableInv' /\ \A m \in OwnNodes : MayRun(m) => MayRun(m)'
          /\ Settles \/ Stutters
      BY <1>t, <1>1, <1>3, <1>8, <2>1, OneSettles DEF Settled, Resting
    <2>3. \A m \in OwnNodes : Outcome(m)' = IF m = n THEN v ELSE Outcome(m)
      BY <2>1 DEF NodeSettles
    <2>4. records
      BY <2>1, <2>3 DEF Settled
    <2> QED
      BY <1>5, <1>8, <2>2, <2>3, <2>4 DEF Settled
  <1>9. CASE run' = NodeState(next, n, "success") /\ disk' = StepFinished(disk, x, "success")
    <2>1. moves /\ run'.states[n] = "success"
      BY <1>t, <1>c, <1>4, <1>9, NodeStateFacts DEF NodeStatus
    <2> QED
      BY <1>8, <1>9, <2>1 DEF Succeeded
  <1>10. CASE run' = NodeState(next, n, "failed") /\ disk' = StepFinished(disk, x, "check_failed")
    <2>1. moves /\ run'.states[n] = "failed"
      BY <1>t, <1>c, <1>4, <1>10, NodeStateFacts DEF NodeStatus
    <2> QED
      BY <1>8, <1>10, <2>1 DEF Succeeded
  <1>11. CASE /\ r # "none" /\ run' = [NodeState(next, n, "failed") EXCEPT !.errors = @ \cup {<<n, r>>}]
              /\ disk' = StepFinished(disk, x, "failed")
    <2> DEFINE q == NodeState(next, n, "failed")
    <2>1. /\ q \in Invocations(flow) /\ q.at = "settleWave" /\ q.cursor = run.cursor + 1
          /\ q.ready = run.ready /\ q.cycle = run.cycle
          /\ q.budget = run.budget /\ q.startError = run.startError /\ q.errors = run.errors
          /\ q.states \in [Nodes(flow) -> NodeStatus]
          /\ \A m \in Nodes(flow) : q.states[m] = IF m = n THEN "failed" ELSE run.states[m]
      BY <1>t, <1>c, <1>4, NodeStateFacts DEF NodeStatus
    <2>2. run' = [q EXCEPT !.errors = @ \cup {<<n, r>>}]
      BY <1>11
    <2>3. run.errors \cup {<<n, r>>} \in SUBSET (Nodes(flow) \X Results)
      BY <1>t, <1>c, <1>2, <1>11
    <2> HIDE DEF q, r
    <2>4. run' = [q EXCEPT !.errors = run.errors \cup {<<n, r>>}]
      BY <2>1, <2>2 DEF Invocations
    <2>5. /\ run' \in Invocations(flow) /\ run'.at = "settleWave" /\ run'.cursor = run.cursor + 1
          /\ run'.ready = run.ready /\ run'.cycle = run.cycle
          /\ run'.budget = run.budget /\ run'.startError = run.startError
          /\ run'.errors = run.errors \cup {<<n, r>>} /\ run'.states = q.states
      BY <2>1, <2>3, <2>4 DEF Invocations
    <2>6. moves /\ run'.states[n] = "failed"
      BY <1>c, <2>1, <2>5
    <2> QED
      BY <1>8, <1>11, <2>6 DEF Succeeded
  <1> QED
    BY <1>c, <1>6, <1>7, <1>9, <1>10, <1>11 DEF SettleWaveNode, next

\* The end of the wave: another pass, the settlement or a return.
LEMMA EndWaveInv ==
    ASSUME LoopInv, EndWave
    PROVE  LoopInv' /\ Allowed
  <1> DEFINE r == [run EXCEPT !.aborting = FALSE, !.progressed = TRUE]
  <1>t. /\ LoopTypes /\ flow \in Flows /\ run \in Invocations(flow) /\ run.at = "settleWave"
        /\ disk \in Disks(flow) /\ run.states \in [Nodes(flow) -> NodeStatus]
        /\ run.errors \in SUBSET (Nodes(flow) \X Results) /\ run.cycle.kind = "none"
    BY DEF LoopInv, LoopTypes, EndWave, Resting, Invocations, CycleInv
  <1>1. /\ UNCHANGED <<flow, disk, applied, stop, expired>>
        /\ task' = [x \in Paths(flow) |-> IdleTask]
    BY DEF EndWave
  <1>2. task' \in [Paths(flow) -> Tasks] /\ \A x \in Paths(flow) : task'[x].stage = "idle"
    BY <1>1, TaskFacts
  <1>3. /\ r \in Invocations(flow) /\ r.states = run.states /\ r.cycle = run.cycle
        /\ r.budget = run.budget /\ r.at = run.at
    BY <1>t DEF Invocations
  <1>4. /\ OwnNodes' = OwnNodes /\ DurableInv' /\ Stutters
        /\ \A m : Outcome(m)' = Outcome(m)
    BY <1>1, SameOutcomes DEF LoopInv, Stutters
  <1>5. WaveError \in {"budget", "elapsed"} => Failures(run.states) # {} \/ expired
    <2>1. ASSUME NEW e \in run.errors PROVE Failures(run.states) # {}
      <3>1. e[1] \in Nodes(flow) /\ run.states[e[1]] = "failed"
        BY <1>t DEF LoopInv, SettleInv
      <3> QED
        BY <1>t, <3>1 DEF Failures
    <2>2. run.startError = "elapsed" => expired
      BY <1>t DEF LoopInv, SettleInv
    <2>3. CASE run.errors # {}
      BY <2>1, <2>3
    <2>4. CASE run.errors = {}
      <3>1. WaveError \in {"canceled", "suspended", "none", run.startError}
        BY <2>4 DEF WaveError
      <3>2. run.startError \in {"none", "canceled", "elapsed"}
        BY <1>t DEF Invocations
      <3> QED
        BY <2>2, <3>1, <3>2
    <2> QED
      BY <2>3, <2>4
  <1>6. \/ run' = EndPass(r)
        \/ \E ret \in {"canceled", "suspended", "error"} : run' = Return(r, ret)
        \/ run' = [r EXCEPT !.at = "settle"] /\ WaveError \in {"budget", "elapsed"}
    BY DEF EndWave
  <1> HIDE DEF r
  <1>7. /\ run' \in Invocations(flow) /\ run'.at \in {"loop", "settle", "returned"}
        /\ run'.budget = run.budget
        /\ run'.at # "returned" => run'.states = run.states /\ run'.cycle = run.cycle
        /\ run'.at = "settle" => AllSettled(run'.states) \/ WaveError \in {"budget", "elapsed"}
    <2>1. CASE run' = EndPass(r)
      BY <1>3, <2>1, EndPassFacts
    <2>2. CASE \E ret \in {"canceled", "suspended", "error"} : run' = Return(r, ret)
      BY <1>3, <2>2, ReturnFacts DEF Returns
    <2>3. CASE run' = [r EXCEPT !.at = "settle"] /\ WaveError \in {"budget", "elapsed"}
      BY <1>3, <2>3 DEF Invocations, Points
    <2> QED
      BY <1>6, <2>1, <2>2, <2>3
  <1>8. Schedules
    <2>1. \A m \in OwnNodes : Root(m) \in Paths(flow)
      BY <1>t, PathFacts DEF OwnNodes
    <2> QED
      BY <1>t, <1>1, <1>2, <1>4, <1>7, <2>1 DEF Schedules, Resting
  <1>9. \A n \in OwnNodes :
             /\ run.states[n] \in Settled => Outcome(n)' = run.states[n]
             /\ run.states[n] = "running" => Outcome(n)' = "none"
             /\ run.states[n] = "pending" => Outcome(n)' \in {"none", "success"}
    BY <1>t, <1>4 DEF LoopInv, StatesMatch, Resting
  <1>10. LoopInv'
    BY <1>t, <1>1, <1>2, <1>4, <1>5, <1>7, <1>8, <1>9, PassInv
  <1> QED
    BY <1>4, <1>10 DEF Allowed

-----------------------------------------------------------------------------
(* A node on its own, with its on_fail policy. *)

\* The node a pass runs alone is open, and its needs are met.
LEMMA CurrentFacts ==
    ASSUME LoopInv, run.at = "node"
    PROVE  /\ Current \in Nodes(flow) /\ Root(Current) \in Paths(flow)
           /\ Current \in OwnNodes =>
                 Outcome(Current) = "none" /\ MayRun(Current) /\ run.states[Current] \notin Settled
           /\ run.states \in [Nodes(flow) -> NodeStatus]
  <1>1. /\ run.ready \in Seq(Nodes(flow)) /\ Len(run.ready) > 0 /\ flow \in Flows
        /\ run.states \in [Nodes(flow) -> NodeStatus]
    BY DEF LoopInv, LoopTypes, Invocations, ReadyInv, Picked, Resting
  <1>2. 1 \in DOMAIN run.ready /\ Current \in Nodes(flow)
    BY <1>1 DEF Current
  <1>3. Root(Current) \in Paths(flow)
    BY <1>1, <1>2, PathFacts
  <1>4. Current \in OwnNodes => Outcome(Current) = "none" /\ MayRun(Current)
    BY <1>2 DEF LoopInv, ReadyInv, Picked, Open, Current
  <1>5. Current \in OwnNodes => run.states[Current] \notin Settled
    BY <1>4 DEF LoopInv, StatesMatch, Resting, Settled
  <1> QED
    BY <1>1, <1>2, <1>3, <1>4, <1>5

\* The memory after a node settled.
AfterSettling(r, n, s) ==
    EndPass([NodeState(r, n, s) EXCEPT !.progressed = TRUE, !.cycle = NoCycle])

\* It has the node's new state, no cycle, and is at the end of its pass.
LEMMA SettledMemory ==
    ASSUME NEW r \in Invocations(flow), r.states \in [Nodes(flow) -> NodeStatus],
           NEW n \in Nodes(flow), NEW s \in NodeStatus
    PROVE  LET e == AfterSettling(r, n, s)
           IN /\ e \in Invocations(flow) /\ e.at \in {"settle", "loop", "returned"}
              /\ e.budget = r.budget /\ e.cycle.kind = "none"
              /\ e.states \in [Nodes(flow) -> NodeStatus]
              /\ \A m \in Nodes(flow) : e.states[m] = IF m = n THEN s ELSE r.states[m]
              /\ e.at = "settle" => AllSettled(e.states)
  <1> DEFINE q == NodeState(r, n, s)
             p == [q EXCEPT !.progressed = TRUE, !.cycle = NoCycle]
  <1>1. /\ q \in Invocations(flow) /\ q.budget = r.budget
        /\ q.states \in [Nodes(flow) -> NodeStatus]
        /\ \A m \in Nodes(flow) : q.states[m] = IF m = n THEN s ELSE r.states[m]
    BY NodeStateFacts
  <1>2. NoCycle \in Cycles(flow) /\ NoCycle.kind = "none"
    BY DEF NoCycle, Cycles
  <1> HIDE DEF q
  <1>3. /\ p \in Invocations(flow) /\ p.budget = q.budget /\ p.states = q.states
        /\ p.cycle = NoCycle
    BY <1>1, <1>2 DEF Invocations
  <1>4. AfterSettling(r, n, s) = EndPass(p)
    BY DEF AfterSettling, q
  <1> HIDE DEF p
  <1> QED
    BY <1>1, <1>2, <1>3, <1>4, EndPassFacts

\* The current node settles: the pass ends or the run settles.
LEMMA NodeSettlesInv ==
    ASSUME LoopInv, run.at = "node", UNCHANGED <<flow, applied, stop, expired>>,
           NEW n \in Nodes(flow), n = Current, NEW v \in {"success", "failed"}, NodeSettles(n, v),
           disk' \in Disks(flow), disk'.terminal = disk.terminal,
           disk'.charged = disk.charged, disk'.hasCharges = disk.hasCharges,
           \A m \in OwnNodes \ {n} : disk'.ops[Root(m)] = disk.ops[Root(m)],
           task' \in [Paths(flow) -> Tasks], \A x \in Paths(flow) : task'[x].stage = "idle",
           run' \in Invocations(flow), run'.at \in {"loop", "settle", "returned"},
           run'.budget = run.budget,
           run'.at # "returned" =>
              /\ run'.cycle.kind = "none" /\ run'.states \in [Nodes(flow) -> NodeStatus]
              /\ \A m \in OwnNodes \ {n} : run'.states[m] = run.states[m]
              /\ n \in OwnNodes => run'.states[n] = v,
           run'.at = "settle" => AllSettled(run'.states) \/ Failures(run'.states) # {}
    PROVE  LoopInv' /\ Allowed
  <1>1. n \in OwnNodes => Outcome(n) = "none" /\ MayRun(n)
    BY CurrentFacts
  <1>2. /\ DurableInv' /\ OwnNodes' = OwnNodes
        /\ Settles \/ Stutters
    BY <1>1, OneSettles DEF Settled, Resting
  <1>3. \A m \in OwnNodes :
          /\ m \in Nodes(flow) /\ Root(m) \in Paths(flow)
          /\ Outcome(m)' = IF m = n THEN v ELSE Outcome(m)
    BY PathFacts DEF NodeSettles, OwnNodes, LoopInv, LoopTypes
  <1>4. Schedules
    BY <1>3 DEF Schedules, Settled, Resting
  <1>5. ASSUME NEW m \in OwnNodes, run'.at # "returned"
        PROVE  /\ run'.states[m] \in Settled => Outcome(m)' = run'.states[m]
               /\ run'.states[m] = "running" => Outcome(m)' = "none"
               /\ run'.states[m] = "pending" => Outcome(m)' \in {"none", "success"}
    <2>1. CASE m = n
      BY <1>3, <1>5, <2>1
    <2>2. CASE m # n
      BY <1>3, <1>5, <2>2 DEF LoopInv, StatesMatch, Resting
    <2> QED
      BY <2>1, <2>2
  <1>6. LoopInv'
    BY <1>2, <1>4, <1>5, PassInv
  <1> QED
    BY <1>2, <1>6 DEF Allowed

\* The invocation returns from a node and no node of the contract settles.
LEMMA NodeReturnsInv ==
    ASSUME LoopInv, run.at = "node", UNCHANGED <<flow, applied>>,
           disk' \in Disks(flow), disk'.terminal = disk.terminal,
           disk'.charged = disk.charged, disk'.hasCharges = disk.hasCharges,
           \A m \in OwnNodes : Outcome(m)' = Outcome(m) /\ disk'.ops[Root(m)] = disk.ops[Root(m)],
           task' \in [Paths(flow) -> Tasks], \A x \in Paths(flow) : task'[x].stage = "idle",
           run' \in Invocations(flow), run'.at = "returned", run'.budget = run.budget
    PROVE  LoopInv' /\ Allowed
  <1>1. DurableInv' /\ Stutters
    BY NoneSettles
  <1>2. \A m \in OwnNodes : Root(m) \in Paths(flow)
    BY PathFacts DEF OwnNodes, LoopInv, LoopTypes
  <1>3. Schedules
    BY <1>2 DEF Schedules, Resting
  <1> QED
    BY <1>1, <1>3, PassInv DEF Allowed

\* The node stays current: its cycle goes on.
LEMMA NodeGoesOnInv ==
    ASSUME LoopInv, run.at = "node", UNCHANGED <<flow, applied, stop, expired>>,
           disk' \in Disks(flow), disk'.terminal = disk.terminal,
           disk'.charged = disk.charged, disk'.hasCharges = disk.hasCharges,
           \A m \in OwnNodes : Outcome(m)' = Outcome(m) /\ disk'.ops[Root(m)] = disk.ops[Root(m)],
           task' \in [Paths(flow) -> Tasks],
           run' \in Invocations(flow), run'.at = "node", run'.budget = run.budget,
           run'.ready = run.ready, run'.states \in [Nodes(flow) -> NodeStatus],
           \A m \in OwnNodes : run'.states[m] = run.states[m],
           run'.cycle.kind # "none" => run'.cycle.owner = Current,
           run'.cycle.kind = "repair" =>
              flow.nodes[Current].onFail = "repair" /\ run'.cycle.attempt \in Nat \ {0},
           \A x \in Paths(flow) :
              task'[x].stage \in {"idle", "charge"} /\
              (task'[x].stage # "idle" =>
                 IF run'.cycle.kind = "repair"
                 THEN x = RepairPath(RepairTarget)' /\ \A m \in Nodes(flow) : x # Root(m)
                 ELSE x = Root(Current))
    PROVE  LoopInv' /\ Allowed
  <1>1. /\ DurableInv' /\ Stutters /\ OwnNodes' = OwnNodes
        /\ \A m \in OwnNodes : MayRun(m) => MayRun(m)'
    BY NoneSettles
  <1>2. \A m \in Nodes(flow) : Root(m) \in Paths(flow)
    BY PathFacts DEF LoopInv, LoopTypes
  <1>3. \A m \in OwnNodes : m \in Nodes(flow)
    BY DEF OwnNodes
  <1>4. Schedules
    BY <1>2, <1>3 DEF Schedules, Resting
  <1>5. LoopTypes' /\ EffectInv' /\ VerdictInv' /\ BudgetInv'
    BY <1>4, ScheduleFrame
  <1>6. StatesMatch'
    BY <1>1 DEF LoopInv, StatesMatch, Resting
  <1>7. ReadyInv'
    BY <1>1 DEF LoopInv, ReadyInv, Picked, Open
  <1>8. Current' = Current
    BY DEF Current
  <1>9. CycleInv' /\ SettleInv'
    BY <1>8 DEF CycleInv, SettleInv
  <1>10. TaskInv'
    BY <1>2, <1>8 DEF TaskInv, Busy
  <1> QED
    BY <1>1, <1>5, <1>6, <1>7, <1>9, <1>10 DEF LoopInv, Allowed

\* Both questions of a step are questions.
LEMMA QuestionFacts ==
    ASSUME NEW x \in Paths(flow)
    PROVE  OwnQuestion(x) \in Questions(flow) /\ OnFailQuestion(x) \in Questions(flow)
  BY DEF OwnQuestion, OnFailQuestion, Questions

\* Outside a repair cycle the current node's task is the only one.
LEMMA TakeFacts ==
    ASSUME LoopInv, run.at = "node", run.cycle.kind # "repair", Take(Root(Current))
    PROVE  task' \in [Paths(flow) -> Tasks] /\ \A x \in Paths(flow) : task'[x].stage = "idle"
  <1>1. /\ task \in [Paths(flow) -> Tasks] /\ Root(Current) \in Paths(flow)
        /\ \A x \in Paths(flow) : task[x].stage # "idle" => x = Root(Current)
    BY CurrentFacts DEF LoopInv, LoopTypes, TaskInv, Busy
  <1>2. task' = [task EXCEPT ![Root(Current)] = IdleTask]
    BY DEF Take
  <1> QED
    BY <1>1, <1>2, TaskFacts

\* The current node settles by its own report.
LEMMA SettleNodeInv ==
    ASSUME LoopInv, run.at = "node", UNCHANGED <<flow, applied, stop, expired>>,
           NEW n \in Nodes(flow), n = Current, NEW s \in {"success", "failed"}, NEW status,
           s = (IF status \in Succeeded THEN "success" ELSE "failed"), Settle(n, s, status),
           task' \in [Paths(flow) -> Tasks], \A x \in Paths(flow) : task'[x].stage = "idle"
    PROVE  LoopInv' /\ Allowed
  <1>t. LoopTypes /\ run \in Invocations(flow) /\ run.states \in [Nodes(flow) -> NodeStatus]
    BY CurrentFacts DEF LoopInv, LoopTypes
  <1>1. /\ disk' \in Disks(flow) /\ disk'.terminal = disk.terminal
        /\ disk'.charged = disk.charged /\ disk'.hasCharges = disk.hasCharges
        /\ NodeSettles(n, s)
        /\ \A m \in OwnNodes \ {n} : disk'.ops[Root(m)] = disk.ops[Root(m)]
    BY <1>t, FinishSettles DEF Settle
  <1>2. /\ run' \in Invocations(flow) /\ run'.at \in {"settle", "loop", "returned"}
        /\ run'.budget = run.budget /\ run'.cycle.kind = "none"
        /\ run'.states \in [Nodes(flow) -> NodeStatus]
        /\ \A m \in Nodes(flow) : run'.states[m] = IF m = n THEN s ELSE run.states[m]
        /\ run'.at = "settle" => AllSettled(run'.states)
    <2>1. run' = AfterSettling(run, n, s)
      BY DEF Settle, AfterSettling
    <2>2. s \in NodeStatus
      BY DEF NodeStatus
    <2> QED
      BY <1>t, <2>1, <2>2, SettledMemory
  <1>3. \A m \in OwnNodes : m \in Nodes(flow)
    BY DEF OwnNodes
  <1> QED
    BY <1>1, <1>2, <1>3, NodeSettlesInv

\* The current node asks.
LEMMA AskInv ==
    ASSUME LoopInv, run.at = "node", UNCHANGED <<flow, applied>>,
           NEW n \in Nodes(flow), NEW q \in Questions(flow), Ask(n, q),
           task' \in [Paths(flow) -> Tasks], \A x \in Paths(flow) : task'[x].stage = "idle"
    PROVE  LoopInv' /\ Allowed
  <1>t. LoopTypes /\ flow \in Flows /\ disk \in Disks(flow) /\ run \in Invocations(flow) /\ Root(n) \in Paths(flow)
    BY PathFacts DEF LoopInv, LoopTypes
  <1>1. /\ disk' \in Disks(flow) /\ disk'.terminal = disk.terminal
        /\ disk'.charged = disk.charged /\ disk'.hasCharges = disk.hasCharges
        /\ disk'.outcome = disk.outcome /\ disk'.ops = disk.ops
    BY <1>t, SuspendedFacts DEF Ask
  <1>2. run' \in Invocations(flow) /\ run'.at = "returned" /\ run'.budget = run.budget
    BY <1>t DEF Ask, Suspend, Invocations, Points, Returns
  <1>3. \A m \in OwnNodes : Outcome(m)' = Outcome(m)
    BY <1>1 DEF Outcome
  <1> QED
    BY <1>1, <1>2, <1>3, NodeReturnsInv

\* The invocation returns and the journal stays.
LEMMA QuietReturnInv ==
    ASSUME LoopInv, run.at = "node", UNCHANGED <<flow, applied, disk>>,
           NEW ret \in Returns, run' = Return(run, ret),
           task' \in [Paths(flow) -> Tasks], \A x \in Paths(flow) : task'[x].stage = "idle"
    PROVE  LoopInv' /\ Allowed
  <1>1. run' \in Invocations(flow) /\ run'.at = "returned" /\ run'.budget = run.budget
    BY ReturnFacts DEF LoopInv, LoopTypes
  <1>2. \A m \in OwnNodes : Outcome(m)' = Outcome(m)
    BY DEF Outcome
  <1> QED
    BY <1>1, <1>2, NodeReturnsInv DEF LoopInv, LoopTypes

\* The report of a node that runs outside its cycles.
LEMMA NodeDoneInv ==
    ASSUME LoopInv, NodeDone
    PROVE  LoopInv' /\ Allowed
  <1>0. run.at = "node" /\ run.cycle = NoCycle /\ run.cycle.kind = "none"
    BY DEF NodeDone, NoCycle
  <1>n. PICK n \in Nodes(flow) : n = Current
    BY <1>0, CurrentFacts
  <1> DEFINE x == Root(n)
             r == task[x].result
             p == flow.nodes[n].onFail
  <1>1. /\ UNCHANGED <<flow, applied, stop, expired>> /\ task[x].stage = "done" /\ Take(x)
        /\ \/ Settle(n, "success", "success")
           \/ Ask(n, OwnQuestion(x))
           \/ Settle(n, "failed", "check_failed")
           \/ Settle(n, "success", "routed")
           \/ Settle(n, "success", "answered_on_fail")
           \/ Ask(n, OnFailQuestion(x))
           \/ /\ p \in {"regenerate", "repair"} /\ UNCHANGED disk
              /\ run' = [run EXCEPT !.cycle = [kind |-> p, owner |-> n, attempt |-> 1,
                                               part |-> "repair"]]
           \/ NodeError(n, r)
    BY <1>n DEF NodeDone
  <1>2. task' \in [Paths(flow) -> Tasks] /\ \A y \in Paths(flow) : task'[y].stage = "idle"
    BY <1>0, <1>n, <1>1, TakeFacts
  <1>3. OwnQuestion(x) \in Questions(flow) /\ OnFailQuestion(x) \in Questions(flow)
    BY <1>0, <1>n, CurrentFacts, QuestionFacts
  <1>t. /\ LoopTypes /\ run \in Invocations(flow) /\ disk \in Disks(flow)
        /\ run.states \in [Nodes(flow) -> NodeStatus]
    BY <1>0, CurrentFacts DEF LoopInv, LoopTypes
  <1>4. CASE \E s \in {"success", "failed"}, status \in Succeeded \cup {"check_failed"} :
               Settle(n, s, status) /\ s = IF status \in Succeeded THEN "success" ELSE "failed"
    BY <1>0, <1>n, <1>1, <1>2, <1>4, SettleNodeInv
  <1>5. CASE \E q \in {OwnQuestion(x), OnFailQuestion(x)} : Ask(n, q)
    BY <1>0, <1>1, <1>2, <1>3, <1>5, AskInv
  <1>6. CASE /\ p \in {"regenerate", "repair"} /\ UNCHANGED disk
             /\ run' = [run EXCEPT !.cycle = [kind |-> p, owner |-> n, attempt |-> 1,
                                               part |-> "repair"]]
    <2> DEFINE c == [kind |-> p, owner |-> n, attempt |-> 1, part |-> "repair"]
    <2>1. /\ c \in Cycles(flow) /\ c.owner = n /\ c.kind = p /\ c.attempt = 1
      BY <1>6 DEF Cycles
    <2> HIDE DEF c
    <2>2. /\ run' \in Invocations(flow) /\ run'.cycle = c /\ run'.at = "node" /\ run'.budget = run.budget
          /\ run'.ready = run.ready /\ run'.states = run.states
      BY <1>0, <1>t, <1>6, <2>1 DEF Invocations, c
    <2>3. \A m \in OwnNodes : Outcome(m)' = Outcome(m)
      BY <1>6 DEF Outcome
    <2> QED
      BY <1>0, <1>n, <1>t, <1>1, <1>2, <1>6, <2>1, <2>2, <2>3, NodeGoesOnInv
  <1>7. CASE NodeError(n, r)
    <2>1. CASE r = "canceled"
      BY <1>0, <1>1, <1>2, <1>7, <2>1, QuietReturnInv DEF NodeError, Returns
    <2>2. CASE r # "canceled"
      <3> DEFINE q == NodeState(run, n, "failed")
                 at == IF r \in {"budget", "elapsed"} THEN "settle" ELSE "loop"
      <3>1. disk' = StepFinished(disk, x, "failed") /\ run' = [q EXCEPT !.at = at]
        BY <1>7, <2>2 DEF NodeError
      <3>2. /\ disk' \in Disks(flow) /\ disk'.terminal = disk.terminal
            /\ disk'.charged = disk.charged /\ disk'.hasCharges = disk.hasCharges
            /\ NodeSettles(n, "failed")
            /\ \A m \in OwnNodes \ {n} : disk'.ops[Root(m)] = disk.ops[Root(m)]
        BY <1>t, <1>1, <3>1, FinishSettles DEF Succeeded
      <3>3. /\ q \in Invocations(flow) /\ q.budget = run.budget /\ q.cycle = run.cycle
            /\ q.states \in [Nodes(flow) -> NodeStatus]
            /\ \A m \in Nodes(flow) : q.states[m] = IF m = n THEN "failed" ELSE run.states[m]
        BY <1>t, NodeStateFacts DEF NodeStatus
      <3>4. at \in {"settle", "loop"}
        OBVIOUS
      <3> HIDE DEF q, at
      <3>5. /\ run' \in Invocations(flow) /\ run'.at \in {"settle", "loop"}
            /\ run'.budget = run.budget /\ run'.cycle.kind = "none" /\ run'.states = q.states
        BY <1>0, <3>1, <3>3, <3>4 DEF Invocations, Points
      <3>6. Failures(run'.states) # {}
        BY <3>3, <3>5 DEF Failures
      <3>7. \A m \in OwnNodes : m \in Nodes(flow)
        BY DEF OwnNodes
      <3> QED
        BY <1>0, <1>n, <1>1, <1>2, <3>2, <3>3, <3>5, <3>6, <3>7, NodeSettlesInv
    <2> QED
      BY <2>1, <2>2
  <1> QED
    BY <1>1, <1>4, <1>5, <1>6, <1>7 DEF Succeeded

\* A repair cycle's nodes are not of the contract.
LEMMA RepairTargets ==
    ASSUME flow \in Flows, NEW n \in Nodes(flow)
    PROVE  /\ flow.nodes[n].repair \in Nodes(flow) /\ flow.nodes[n].recheck \in Nodes(flow)
           /\ flow.nodes[n].exhausted \in {"fail", "route", "ask"}
           /\ flow.nodes[n].onFail = "repair" =>
                 flow.nodes[n].repair \notin OwnNodes /\ flow.nodes[n].recheck \notin OwnNodes
  <1>1. flow.nodes[n] \in StepRecord(Nodes(flow))
    BY FlowFacts
  <1>2. /\ flow.nodes[n].repair \in Nodes(flow) /\ flow.nodes[n].recheck \in Nodes(flow)
        /\ flow.nodes[n].exhausted \in {"fail", "route", "ask"}
    BY <1>1 DEF StepRecord
  <1>3. flow.nodes[n].onFail = "repair" =>
          flow.nodes[n].repair \in RepairNodes(flow) /\ flow.nodes[n].recheck \in RepairNodes(flow)
    BY DEF RepairNodes
  <1> QED
    BY <1>2, <1>3 DEF OwnNodes

\* A cycle that has used up its attempts settles its owner or asks.
LEMMA ExhaustedInv ==
    ASSUME LoopInv, run.at = "node", UNCHANGED <<flow, applied, stop, expired>>,
           NEW n \in Nodes(flow), n = Current, Exhausted(n),
           run.cycle.kind = "repair" => flow.nodes[n].onFail = "repair",
           task' \in [Paths(flow) -> Tasks], \A x \in Paths(flow) : task'[x].stage = "idle"
    PROVE  LoopInv' /\ Allowed
  <1>t. /\ LoopTypes /\ flow \in Flows /\ run \in Invocations(flow) /\ disk \in Disks(flow)
        /\ run.states \in [Nodes(flow) -> NodeStatus] /\ OnFailQuestion(Root(n)) \in Questions(flow)
    BY CurrentFacts, QuestionFacts DEF LoopInv, LoopTypes
  <1> DEFINE p == flow.nodes[n].exhausted
             a == flow.nodes[n].repair
             b == flow.nodes[n].recheck
             r == IF run.cycle.kind = "repair"
                  THEN NodeState(NodeState(run, a, "skipped"), b, "skipped") ELSE run
  <1>1. a \in Nodes(flow) /\ b \in Nodes(flow)
        /\ (run.cycle.kind = "repair" => a \notin OwnNodes /\ b \notin OwnNodes)
    BY <1>t, RepairTargets
  <1>2. \A m \in OwnNodes : m \in Nodes(flow)
    BY DEF OwnNodes
  <1> HIDE DEF a, b
  <1>3. /\ r \in Invocations(flow) /\ r.budget = run.budget
        /\ r.states \in [Nodes(flow) -> NodeStatus]
        /\ \A m \in OwnNodes : r.states[m] = run.states[m]
    <2>1. CASE run.cycle.kind = "repair"
      <3> DEFINE q == NodeState(run, a, "skipped")
      <3>1. /\ q \in Invocations(flow) /\ q.budget = run.budget
            /\ q.states \in [Nodes(flow) -> NodeStatus]
            /\ \A m \in Nodes(flow) : q.states[m] = IF m = a THEN "skipped" ELSE run.states[m]
        BY <1>t, <1>1, NodeStateFacts DEF NodeStatus
      <3>2. r = NodeState(q, b, "skipped")
        BY <2>1
      <3> HIDE DEF q, r
      <3>3. /\ r \in Invocations(flow) /\ r.budget = q.budget
            /\ r.states \in [Nodes(flow) -> NodeStatus]
            /\ \A m \in Nodes(flow) : r.states[m] = IF m = b THEN "skipped" ELSE q.states[m]
        BY <1>1, <3>1, <3>2, NodeStateFacts DEF NodeStatus
      <3> QED
        BY <1>1, <1>2, <2>1, <3>1, <3>3
    <2>2. CASE run.cycle.kind # "repair"
      BY <1>t, <2>2
    <2> QED
      BY <2>1, <2>2
  <1>4. \/ \E s \in {"success", "failed"}, status \in {"exhausted", "routed", "answered_on_fail"} :
              /\ disk' = StepFinished(disk, Root(n), status)
              /\ s = IF status \in Succeeded THEN "success" ELSE "failed"
              /\ run' = AfterSettling(r, n, s)
        \/ run' = Suspend(OnFailQuestion(Root(n))) /\ UNCHANGED disk
        \/ Ask(n, OnFailQuestion(Root(n)))
    <2>1. p \in {"fail", "route", "ask"}
      BY <1>t, RepairTargets
    <2>2. /\ "exhausted" \notin Succeeded /\ "routed" \in Succeeded
          /\ "answered_on_fail" \in Succeeded
      BY DEF Succeeded
    <2>3. CASE p = "fail"
      BY <2>2, <2>3 DEF Exhausted, AfterSettling, a, b
    <2>4. CASE p = "route"
      BY <2>2, <2>4 DEF Exhausted, AfterSettling, a, b
    <2>5. CASE p = "ask"
      BY <2>2, <2>5 DEF Exhausted, AfterSettling, a, b
    <2> QED
      BY <2>1, <2>3, <2>4, <2>5
  <1> HIDE DEF r
  <1>5. ASSUME NEW s \in {"success", "failed"}, NEW status,
               disk' = StepFinished(disk, Root(n), status),
               s = (IF status \in Succeeded THEN "success" ELSE "failed"),
               run' = AfterSettling(r, n, s)
        PROVE  LoopInv' /\ Allowed
    <2>1. /\ disk' \in Disks(flow) /\ disk'.terminal = disk.terminal
          /\ disk'.charged = disk.charged /\ disk'.hasCharges = disk.hasCharges
          /\ NodeSettles(n, s)
          /\ \A m \in OwnNodes \ {n} : disk'.ops[Root(m)] = disk.ops[Root(m)]
      BY <1>t, <1>5, FinishSettles
    <2>2. /\ run' \in Invocations(flow) /\ run'.at \in {"settle", "loop", "returned"}
          /\ run'.budget = r.budget /\ run'.cycle.kind = "none"
          /\ run'.states \in [Nodes(flow) -> NodeStatus]
          /\ \A m \in Nodes(flow) : run'.states[m] = IF m = n THEN s ELSE r.states[m]
          /\ run'.at = "settle" => AllSettled(run'.states)
      BY <1>3, <1>5, SettledMemory DEF NodeStatus
    <2> QED
      BY <1>2, <1>3, <2>1, <2>2, NodeSettlesInv
  <1>6. CASE run' = Suspend(OnFailQuestion(Root(n))) /\ UNCHANGED disk
    <2>1. run' \in Invocations(flow) /\ run'.at = "returned" /\ run'.budget = run.budget
      BY <1>t, <1>6 DEF Suspend, Invocations, Points, Returns
    <2>2. \A m \in OwnNodes : Outcome(m)' = Outcome(m)
      BY <1>6 DEF Outcome
    <2> QED
      BY <1>t, <1>6, <2>1, <2>2, NodeReturnsInv
  <1>7. CASE Ask(n, OnFailQuestion(Root(n)))
    BY <1>t, <1>7, AskInv
  <1> QED
    BY <1>4, <1>5, <1>6, <1>7

\* A regenerate attempt starts.
LEMMA StartRegenerateInv ==
    ASSUME LoopInv, StartRegenerate
    PROVE  LoopInv' /\ Allowed
  <1>0. /\ run.at = "node" /\ run.cycle.kind = "regenerate" /\ UNCHANGED <<flow, applied, stop, expired>>
        /\ \A x \in Paths(flow) : task[x].stage = "idle"
    BY DEF StartRegenerate, Live
  <1>n. PICK n \in Nodes(flow) : n = Current
    BY <1>0, CurrentFacts
  <1>t. /\ LoopTypes /\ flow \in Flows /\ run \in Invocations(flow) /\ disk \in Disks(flow)
        /\ run.states \in [Nodes(flow) -> NodeStatus] /\ task \in [Paths(flow) -> Tasks]
        /\ Root(n) \in Paths(flow) /\ run.cycle.owner = Current
    BY <1>0, <1>n, CurrentFacts DEF LoopInv, LoopTypes, CycleInv
  <1>1. \/ Exhausted(n) /\ UNCHANGED task
        \/ /\ UNCHANGED <<task, disk>>
           /\ \E ret \in {"canceled", "error"} : run' = Return(run, ret)
        \/ task' = [task EXCEPT ![Root(n)] = NewTask] /\ UNCHANGED <<run, disk>>
    BY <1>n DEF StartRegenerate
  <1>2. CASE Exhausted(n) /\ UNCHANGED task
    BY <1>0, <1>n, <1>t, <1>2, ExhaustedInv
  <1>3. CASE UNCHANGED <<task, disk>> /\ \E ret \in {"canceled", "error"} : run' = Return(run, ret)
    BY <1>0, <1>t, <1>3, QuietReturnInv DEF Returns
  <1>4. CASE task' = [task EXCEPT ![Root(n)] = NewTask] /\ UNCHANGED <<run, disk>>
    <2>1. /\ task' \in [Paths(flow) -> Tasks]
          /\ \A x \in Paths(flow) : /\ task'[x].stage \in {"idle", "charge"}
                                    /\ task'[x].stage # "idle" => x = Root(n)
      BY <1>0, <1>t, <1>4, TaskFacts
    <2>2. \A m \in OwnNodes : Outcome(m)' = Outcome(m)
      BY <1>4 DEF Outcome
    <2> QED
      BY <1>0, <1>n, <1>t, <1>4, <2>1, <2>2, NodeGoesOnInv
  <1> QED
    BY <1>1, <1>2, <1>3, <1>4

\* The next attempt of a cycle.
LEMMA NextAttemptFacts ==
    ASSUME run \in Invocations(flow)
    PROVE  /\ NextAttempt \in Invocations(flow) /\ NextAttempt.at = run.at
           /\ NextAttempt.budget = run.budget /\ NextAttempt.states = run.states
           /\ NextAttempt.ready = run.ready
           /\ NextAttempt.cycle.kind = run.cycle.kind /\ NextAttempt.cycle.owner = run.cycle.owner
           /\ NextAttempt.cycle.attempt = run.cycle.attempt + 1
  <1> DEFINE c == [run.cycle EXCEPT !.attempt = run.cycle.attempt + 1, !.part = "repair"]
  <1>1. run.cycle \in Cycles(flow) /\ run.cycle.attempt + 1 \in Nat
    BY DEF Invocations, Cycles
  <1>2. /\ c \in Cycles(flow) /\ c.kind = run.cycle.kind /\ c.owner = run.cycle.owner
        /\ c.attempt = run.cycle.attempt + 1
    BY <1>1 DEF Cycles
  <1>3. NextAttempt = [run EXCEPT !.cycle = c]
    BY <1>1 DEF NextAttempt, Invocations, Cycles
  <1> HIDE DEF c
  <1> QED
    BY <1>2, <1>3 DEF Invocations

\* The report of a regenerate attempt.
LEMMA RegenerateDoneInv ==
    ASSUME LoopInv, RegenerateDone
    PROVE  LoopInv' /\ Allowed
  <1>0. run.at = "node" /\ run.cycle.kind = "regenerate" /\ UNCHANGED <<flow, applied, stop, expired>>
    BY DEF RegenerateDone
  <1>n. PICK n \in Nodes(flow) : n = Current
    BY <1>0, CurrentFacts
  <1>t. /\ LoopTypes /\ flow \in Flows /\ run \in Invocations(flow) /\ disk \in Disks(flow)
        /\ run.states \in [Nodes(flow) -> NodeStatus] /\ run.cycle.owner = Current
        /\ OwnQuestion(Root(n)) \in Questions(flow)
    BY <1>0, <1>n, CurrentFacts, QuestionFacts DEF LoopInv, LoopTypes, CycleInv
  <1>1. /\ Take(Root(n))
        /\ \/ Settle(n, "success", "regenerated")
           \/ Ask(n, OwnQuestion(Root(n)))
           \/ run' = NextAttempt /\ UNCHANGED disk
           \/ UNCHANGED disk /\ \E ret \in {"canceled", "error"} : run' = Return(run, ret)
    BY <1>n DEF RegenerateDone
  <1>2. task' \in [Paths(flow) -> Tasks] /\ \A y \in Paths(flow) : task'[y].stage = "idle"
    BY <1>0, <1>n, <1>1, TakeFacts
  <1>3. CASE Settle(n, "success", "regenerated")
    <2>1. "success" = IF "regenerated" \in Succeeded THEN "success" ELSE "failed"
      BY DEF Succeeded
    <2> QED
      BY <1>0, <1>n, <1>2, <1>3, <2>1, SettleNodeInv
  <1>4. CASE Ask(n, OwnQuestion(Root(n)))
    BY <1>0, <1>t, <1>2, <1>4, AskInv
  <1>5. CASE run' = NextAttempt /\ UNCHANGED disk
    <2>1. /\ run' \in Invocations(flow) /\ run'.at = "node" /\ run'.budget = run.budget
          /\ run'.states = run.states /\ run'.ready = run.ready
          /\ run'.cycle.kind = "regenerate" /\ run'.cycle.owner = Current
      BY <1>0, <1>t, <1>5, NextAttemptFacts
    <2>2. \A m \in OwnNodes : Outcome(m)' = Outcome(m)
      BY <1>5 DEF Outcome
    <2> QED
      BY <1>0, <1>t, <1>2, <1>5, <2>1, <2>2, NodeGoesOnInv
  <1>6. CASE UNCHANGED disk /\ \E ret \in {"canceled", "error"} : run' = Return(run, ret)
    BY <1>0, <1>2, <1>6, QuietReturnInv DEF Returns
  <1> QED
    BY <1>1, <1>3, <1>4, <1>5, <1>6

\* The repair cycle: its owner is the current node, its target is not of the
\* contract, and its path is no node's own.
LEMMA CycleFacts ==
    ASSUME LoopInv, run.at = "node", run.cycle.kind = "repair"
    PROVE  /\ run.cycle.owner = Current /\ flow.nodes[Current].onFail = "repair"
           /\ run.cycle.attempt \in Nat \ {0}
           /\ RepairTarget \in Nodes(flow) /\ RepairTarget \notin OwnNodes
           /\ run.cycle.attempt <= MaxRepairs =>
                 /\ RepairPath(RepairTarget) \in Paths(flow)
                 /\ \A m \in Nodes(flow) : RepairPath(RepairTarget) # Root(m)
  <1>1. /\ run.cycle.owner = Current /\ flow.nodes[Current].onFail = "repair"
        /\ run.cycle.attempt \in Nat \ {0} /\ Current \in Nodes(flow) /\ flow \in Flows
    BY CurrentFacts DEF LoopInv, CycleInv, LoopTypes
  <1>2. RepairTarget \in {flow.nodes[Current].repair, flow.nodes[Current].recheck}
    BY <1>1 DEF RepairTarget
  <1>3. RepairTarget \in Nodes(flow) /\ RepairTarget \notin OwnNodes
    BY <1>1, <1>2, RepairTargets
  <1>4. ASSUME run.cycle.attempt <= MaxRepairs
        PROVE  /\ RepairPath(RepairTarget) \in Paths(flow)
               /\ \A m \in Nodes(flow) : RepairPath(RepairTarget) # Root(m)
    <2>1. run.cycle.attempt \in 1..MaxRepairs
      BY <1>1, <1>4, EngineAssumption
    <2> QED
      BY <1>1, <1>2, <1>3, <2>1, PathFacts DEF RepairPath
  <1> QED
    BY <1>1, <1>3, <1>4

\* A repair or recheck node passed: the cycle goes on, or its owner is repaired.
LEMMA NamedSuccessInv ==
    ASSUME LoopInv, run.at = "node", run.cycle.kind = "repair",
           UNCHANGED <<flow, applied, stop, expired>>,
           NEW n \in Nodes(flow), n \notin OwnNodes, NEW d, SameNodes(d), NamedSuccess(n, d),
           task' \in [Paths(flow) -> Tasks], \A x \in Paths(flow) : task'[x].stage = "idle"
    PROVE  LoopInv' /\ Allowed
  <1>t. /\ LoopTypes /\ flow \in Flows /\ run \in Invocations(flow)
        /\ run.states \in [Nodes(flow) -> NodeStatus]
    BY CurrentFacts DEF LoopInv, LoopTypes
  <1>o. PICK o \in Nodes(flow) : o = Current /\ o = run.cycle.owner
    BY CurrentFacts, CycleFacts
  <1> DEFINE q == NodeState(run, n, "success")
  <1>1. /\ q \in Invocations(flow) /\ q.budget = run.budget /\ q.at = run.at
        /\ q.ready = run.ready /\ q.cycle = run.cycle
        /\ q.states \in [Nodes(flow) -> NodeStatus]
        /\ \A m \in Nodes(flow) : q.states[m] = IF m = n THEN "success" ELSE run.states[m]
    BY <1>t, NodeStateFacts DEF NodeStatus
  <1>2. \A m \in OwnNodes : m \in Nodes(flow) /\ m # n
    BY DEF OwnNodes
  <1>3. \/ disk' = StepFinished(d, Root(o), "repaired") /\ run' = AfterSettling(q, o, "success")
        \/ run' = [q EXCEPT !.cycle.part = "recheck"] /\ disk' = d
    BY <1>o DEF NamedSuccess, RepairSettled, AfterSettling
  <1> HIDE DEF q
  <1>4. CASE disk' = StepFinished(d, Root(o), "repaired") /\ run' = AfterSettling(q, o, "success")
    <2>1. /\ disk' \in Disks(flow) /\ disk'.terminal = disk.terminal
          /\ disk'.charged = disk.charged /\ disk'.hasCharges = disk.hasCharges
          /\ NodeSettles(o, "success")
          /\ \A m \in OwnNodes \ {o} : disk'.ops[Root(m)] = disk.ops[Root(m)]
      BY <1>t, <1>4, FinishSettlesFrom DEF Succeeded
    <2>2. /\ run' \in Invocations(flow) /\ run'.at \in {"settle", "loop", "returned"}
          /\ run'.budget = q.budget /\ run'.cycle.kind = "none"
          /\ run'.states \in [Nodes(flow) -> NodeStatus]
          /\ \A m \in Nodes(flow) : run'.states[m] = IF m = o THEN "success" ELSE q.states[m]
          /\ run'.at = "settle" => AllSettled(run'.states)
      BY <1>1, <1>4, SettledMemory DEF NodeStatus
    <2> QED
      BY <1>o, <1>1, <1>2, <2>1, <2>2, NodeSettlesInv
  <1>5. CASE run' = [q EXCEPT !.cycle.part = "recheck"] /\ disk' = d
    <2> DEFINE c == [run.cycle EXCEPT !.part = "recheck"]
    <2>1. run.cycle \in Cycles(flow)
      BY <1>t DEF Invocations
    <2>2. /\ c \in Cycles(flow) /\ c.kind = "repair" /\ c.owner = run.cycle.owner
          /\ c.attempt = run.cycle.attempt
      BY <2>1 DEF Cycles
    <2>3. run' = [q EXCEPT !.cycle = c]
      BY <1>1, <1>5, <2>1 DEF Invocations, Cycles
    <2> HIDE DEF c
    <2>4. /\ run' \in Invocations(flow) /\ run'.at = run.at /\ run'.budget = run.budget
          /\ run'.ready = run.ready /\ run'.states = q.states /\ run'.cycle = c
      BY <1>1, <2>2, <2>3 DEF Invocations
    <2>5. /\ disk' \in Disks(flow) /\ disk'.terminal = disk.terminal
          /\ disk'.charged = disk.charged /\ disk'.hasCharges = disk.hasCharges
          /\ \A m \in OwnNodes : Outcome(m)' = Outcome(m) /\ disk'.ops[Root(m)] = disk.ops[Root(m)]
      BY <1>5 DEF SameNodes, Outcome
    <2>6. run.cycle.owner = Current /\ flow.nodes[Current].onFail = "repair" /\ run.cycle.attempt \in Nat \ {0}
      BY CycleFacts
    <2> QED
      BY <1>1, <1>2, <2>2, <2>4, <2>5, <2>6, NodeGoesOnInv
  <1> QED
    BY <1>3, <1>4, <1>5

\* A repair attempt's next node starts, or the cycle ends.
LEMMA StartRepairInv ==
    ASSUME LoopInv, StartRepair
    PROVE  LoopInv' /\ Allowed
  <1>0. /\ run.at = "node" /\ run.cycle.kind = "repair" /\ UNCHANGED <<flow, applied, stop, expired>>
        /\ \A x \in Paths(flow) : task[x].stage = "idle"
    BY DEF StartRepair, Live
  <1>t. /\ LoopTypes /\ flow \in Flows /\ run \in Invocations(flow) /\ disk \in Disks(flow)
        /\ run.states \in [Nodes(flow) -> NodeStatus] /\ task \in [Paths(flow) -> Tasks]
    BY <1>0, CurrentFacts DEF LoopInv, LoopTypes
  <1>c. /\ run.cycle.owner = Current /\ flow.nodes[Current].onFail = "repair"
        /\ run.cycle.attempt \in Nat \ {0}
    BY <1>0, CycleFacts
  <1>o. PICK o \in Nodes(flow) : o = Current /\ o = run.cycle.owner
    BY <1>0, CurrentFacts, CycleFacts
  <1>n. PICK n \in Nodes(flow) : n = RepairTarget /\ n \notin OwnNodes
    BY <1>0, CycleFacts
  <1> DEFINE x == RepairPath(n)
  <1>1. \/ Exhausted(o) /\ UNCHANGED task
        \/ /\ UNCHANGED <<task, disk>>
           /\ \E ret \in {"canceled", "error"} : run' = Return(run, ret)
        \/ NamedSuccess(n, disk) /\ UNCHANGED task
        \/ /\ run.cycle.attempt <= MaxRepairs /\ run' = NodeState(run, n, "running")
           /\ disk' = [disk EXCEPT !.started = @ + 1] /\ task' = [task EXCEPT ![x] = NewTask]
    BY <1>o, <1>n DEF StartRepair
  <1>2. CASE Exhausted(o) /\ UNCHANGED task
    BY <1>0, <1>o, <1>t, <1>c, <1>2, ExhaustedInv
  <1>3. CASE UNCHANGED <<task, disk>> /\ \E ret \in {"canceled", "error"} : run' = Return(run, ret)
    BY <1>0, <1>t, <1>3, QuietReturnInv DEF Returns
  <1>4. CASE NamedSuccess(n, disk) /\ UNCHANGED task
    <2>1. SameNodes(disk)
      BY <1>t DEF SameNodes
    <2> QED
      BY <1>0, <1>n, <1>t, <1>4, <2>1, NamedSuccessInv
  <1>5. CASE /\ run.cycle.attempt <= MaxRepairs /\ run' = NodeState(run, n, "running")
             /\ disk' = [disk EXCEPT !.started = @ + 1] /\ task' = [task EXCEPT ![x] = NewTask]
    <2>1. x \in Paths(flow) /\ \A m \in Nodes(flow) : x # Root(m)
      BY <1>0, <1>n, <1>5, CycleFacts
    <2>2. /\ run' \in Invocations(flow) /\ run'.budget = run.budget /\ run'.at = "node"
          /\ run'.ready = run.ready /\ run'.cycle = run.cycle
          /\ run'.states \in [Nodes(flow) -> NodeStatus]
          /\ \A m \in Nodes(flow) : run'.states[m] = IF m = n THEN "running" ELSE run.states[m]
      BY <1>0, <1>t, <1>5, NodeStateFacts DEF NodeStatus
    <2>3. SameFate(disk, disk')
      BY <1>t, <1>5, SameFateFacts
    <2>4. \A m \in OwnNodes : m \in Nodes(flow) /\ m # n /\ Outcome(m)' = Outcome(m)
      BY <1>n, <2>3 DEF SameFate, Outcome, OwnNodes
    <2>5. RepairPath(RepairTarget)' = x
      BY <1>0, <1>n, <2>2 DEF RepairPath, RepairTarget
    <2> HIDE DEF x
    <2>6. /\ task' \in [Paths(flow) -> Tasks]
          /\ \A y \in Paths(flow) : /\ task'[y].stage \in {"idle", "charge"}
                                    /\ task'[y].stage # "idle" => y = x
      BY <1>0, <1>t, <1>5, <2>1, TaskFacts
    <2> QED
      BY <1>0, <1>c, <2>1, <2>2, <2>3, <2>4, <2>5, <2>6, NodeGoesOnInv DEF SameFate
  <1> QED
    BY <1>1, <1>2, <1>3, <1>4, <1>5

\* The report of a repair or recheck node.
LEMMA RepairDoneInv ==
    ASSUME LoopInv, RepairDone
    PROVE  LoopInv' /\ Allowed
  <1>0. /\ run.at = "node" /\ run.cycle.kind = "repair" /\ UNCHANGED <<flow, applied, stop, expired>>
        /\ run.cycle.attempt <= MaxRepairs
    BY DEF RepairDone
  <1>t. /\ LoopTypes /\ flow \in Flows /\ run \in Invocations(flow) /\ disk \in Disks(flow)
        /\ run.states \in [Nodes(flow) -> NodeStatus] /\ task \in [Paths(flow) -> Tasks]
    BY <1>0, CurrentFacts DEF LoopInv, LoopTypes
  <1>c. /\ run.cycle.owner = Current /\ flow.nodes[Current].onFail = "repair"
        /\ run.cycle.attempt \in Nat \ {0}
    BY <1>0, CycleFacts
  <1>n. PICK n \in Nodes(flow) : n = RepairTarget /\ n \notin OwnNodes
    BY <1>0, CycleFacts
  <1>x. PICK x \in Paths(flow) : x = RepairPath(n) /\ \A m \in Nodes(flow) : x # Root(m)
    BY <1>0, <1>n, CycleFacts
  <1>1. /\ Take(x)
        /\ \/ NamedSuccess(n, StepFinished(disk, x, "success"))
           \/ disk' = StepSuspended(disk, x, OwnQuestion(x)) /\ run' = Suspend(OwnQuestion(x))
           \/ /\ disk' = StepFinished(disk, x, "check_failed")
              /\ run' = NodeState(NextAttempt, n, "failed")
           \/ run' = Return(run, "canceled") /\ UNCHANGED disk
           \/ disk' = StepFinished(disk, x, "failed") /\ run' = Return(run, "error")
    BY <1>n, <1>x DEF RepairDone
  <1>2. task' \in [Paths(flow) -> Tasks] /\ \A y \in Paths(flow) : task'[y].stage = "idle"
    <2>1. \A y \in Paths(flow) : task[y].stage # "idle" => y = x
      BY <1>0, <1>n, <1>x DEF LoopInv, TaskInv, Busy
    <2> QED
      BY <1>t, <1>1, <2>1, TaskFacts DEF Take
  <1>3. ASSUME NEW s PROVE SameNodes(StepFinished(disk, x, s))
    <2>1. \A m \in OwnNodes : Root(m) \in Paths(flow) /\ Root(m) # x
      BY <1>t, <1>x, PathFacts DEF OwnNodes
    <2> QED
      BY <1>t, <2>1, FinishedFacts DEF SameNodes
  <1>4. ASSUME SameNodes(disk')
        PROVE  /\ disk' \in Disks(flow) /\ disk'.terminal = disk.terminal
               /\ disk'.charged = disk.charged /\ disk'.hasCharges = disk.hasCharges
               /\ \A m \in OwnNodes : Outcome(m)' = Outcome(m) /\ disk'.ops[Root(m)] = disk.ops[Root(m)]
    BY <1>4 DEF SameNodes, Outcome
  <1>5. CASE NamedSuccess(n, StepFinished(disk, x, "success"))
    BY <1>0, <1>n, <1>2, <1>3, <1>5, NamedSuccessInv
  <1>6. CASE disk' = StepSuspended(disk, x, OwnQuestion(x)) /\ run' = Suspend(OwnQuestion(x))
    <2>1. OwnQuestion(x) \in Questions(flow)
      BY QuestionFacts
    <2>2. SameNodes(disk')
      BY <1>t, <1>6, <2>1, SuspendedFacts DEF SameNodes
    <2>3. run' \in Invocations(flow) /\ run'.at = "returned" /\ run'.budget = run.budget
      BY <1>t, <1>6, <2>1 DEF Suspend, Invocations, Points, Returns
    <2> QED
      BY <1>0, <1>2, <1>4, <2>2, <2>3, NodeReturnsInv
  <1>7. CASE /\ disk' = StepFinished(disk, x, "check_failed")
             /\ run' = NodeState(NextAttempt, n, "failed")
    <2>1. SameNodes(disk')
      BY <1>3, <1>7
    <2>2. /\ run' \in Invocations(flow) /\ run'.at = "node" /\ run'.budget = run.budget
          /\ run'.ready = run.ready /\ run'.cycle = NextAttempt.cycle
          /\ run'.states \in [Nodes(flow) -> NodeStatus]
          /\ \A m \in Nodes(flow) : run'.states[m] = IF m = n THEN "failed" ELSE run.states[m]
      BY <1>0, <1>t, <1>7, NextAttemptFacts, NodeStateFacts DEF NodeStatus
    <2>3. /\ run'.cycle.kind = "repair" /\ run'.cycle.owner = Current
          /\ run'.cycle.attempt \in Nat \ {0}
      BY <1>0, <1>t, <1>c, <2>2, NextAttemptFacts
    <2>4. \A m \in OwnNodes : m \in Nodes(flow) /\ m # n
      BY <1>n DEF OwnNodes
    <2> QED
      BY <1>0, <1>c, <1>2, <1>4, <2>1, <2>2, <2>3, <2>4, NodeGoesOnInv
  <1>8. CASE run' = Return(run, "canceled") /\ UNCHANGED disk
    BY <1>0, <1>2, <1>8, QuietReturnInv DEF Returns
  <1>9. CASE disk' = StepFinished(disk, x, "failed") /\ run' = Return(run, "error")
    <2>1. SameNodes(disk')
      BY <1>3, <1>9
    <2>2. run' \in Invocations(flow) /\ run'.at = "returned" /\ run'.budget = run.budget
      BY <1>t, <1>9, ReturnFacts DEF Returns
    <2> QED
      BY <1>0, <1>2, <1>4, <2>1, <2>2, NodeReturnsInv
  <1> QED
    BY <1>1, <1>5, <1>6, <1>7, <1>8, <1>9

-----------------------------------------------------------------------------
(* Settlement. *)

\* The run settles: what failed goes to the failure hooks, and only a run whose
\* nodes are all settled well goes to the success hooks.
LEMMA SettleRunInv ==
    ASSUME LoopInv, SettleRun
    PROVE  LoopInv' /\ Allowed
  <1>t. /\ LoopTypes /\ flow \in Flows /\ run \in Invocations(flow) /\ run.at = "settle"
        /\ disk \in Disks(flow) /\ run.states \in [Nodes(flow) -> NodeStatus]
        /\ task \in [Paths(flow) -> Tasks]
    BY DEF LoopInv, LoopTypes, SettleRun, Resting
  <1>1. UNCHANGED <<flow, disk, task, applied, stop, expired>>
    BY DEF SettleRun
  <1>2. \A x \in Paths(flow) : task'[x].stage = "idle"
    BY <1>t, <1>1 DEF LoopInv, TaskInv, Busy
  <1>3. /\ OwnNodes' = OwnNodes /\ DurableInv' /\ Stutters
        /\ \A m : Outcome(m)' = Outcome(m)
        /\ AllGood' <=> AllGood
    BY <1>1, SameOutcomes DEF LoopInv, Stutters
  <1>4. \A m \in OwnNodes : m \in Nodes(flow) /\ Root(m) \in Paths(flow)
    BY <1>t, PathFacts DEF OwnNodes
  <1>5. CASE \E ret \in {"canceled", "error"} : run' = Return(run, ret)
    <2>1. run' \in Invocations(flow) /\ run'.at = "returned" /\ run'.budget = run.budget
      BY <1>t, <1>5, ReturnFacts DEF Returns
    <2>2. Schedules
      BY <1>t, <1>1, <1>2, <1>3, <1>4, <2>1 DEF Schedules, Resting
    <2> QED
      BY <1>1, <1>2, <1>3, <2>1, <2>2, PassInv DEF Allowed
  <1>6. ASSUME NEW e \in {"step_failed", "run_succeeded"}, NEW b \in BOOLEAN,
               run' = [run EXCEPT !.at = "hook", !.event = e, !.failed = b],
               e = "step_failed" => b, e = "run_succeeded" => AllGood
        PROVE  LoopInv' /\ Allowed
    <2>1. /\ run' \in Invocations(flow) /\ run'.at = "hook" /\ run'.budget = run.budget
          /\ run'.event = e /\ run'.failed = b /\ run'.states = run.states
          /\ run'.cycle = run.cycle
      BY <1>t, <1>6 DEF Invocations, Points, Events
    <2>2. Schedules
      BY <1>t, <1>1, <1>2, <1>3, <1>4, <2>1 DEF Schedules, Resting, Events
    <2>3. LoopTypes' /\ EffectInv' /\ VerdictInv' /\ BudgetInv'
      BY <2>2, ScheduleFrame
    <2>4. StatesMatch'
      BY <1>t, <1>3, <2>1 DEF LoopInv, StatesMatch, Resting
    <2>5. ReadyInv' /\ CycleInv'
      BY <1>t, <2>1 DEF LoopInv, ReadyInv, CycleInv, Picked
    <2>6. SettleInv'
      BY <1>3, <1>6, <2>1 DEF SettleInv
    <2>7. TaskInv'
      BY <1>1, <1>2, <2>1 DEF TaskInv, Busy
    <2> QED
      BY <1>3, <2>3, <2>4, <2>5, <2>6, <2>7 DEF LoopInv, Allowed
  <1>7. CASE Failures(run.states) # {}
    <2>1. run' = [run EXCEPT !.at = "hook", !.event = "step_failed", !.failed = TRUE]
      BY <1>7 DEF SettleRun
    <2> QED
      BY <1>6, <2>1
  <1>8. CASE Failures(run.states) = {} /\ ~stop /\ ~expired
    <2>1. run' = [run EXCEPT !.at = "hook", !.event = "run_succeeded"]
      BY <1>8 DEF SettleRun
    <2>2. run' = [run EXCEPT !.at = "hook", !.event = "run_succeeded", !.failed = run.failed]
          /\ run.failed \in BOOLEAN
      BY <1>t, <2>1 DEF Invocations
    <2>3. AllSettled(run.states)
      BY <1>t, <1>8 DEF LoopInv, SettleInv
    <2>4. ASSUME NEW m \in OwnNodes PROVE Outcome(m) \in {"success", "skipped"}
      <3>1. run.states[m] \in NodeStatus /\ run.states[m] \notin {"pending", "running", "failed"}
        BY <1>t, <1>4, <1>8, <2>3 DEF AllSettled, Failures
      <3> QED
        BY <1>t, <3>1 DEF LoopInv, StatesMatch, Resting, Settled, NodeStatus
    <2> QED
      BY <1>6, <2>2, <2>4 DEF AllGood
  <1> QED
    BY <1>5, <1>7, <1>8 DEF SettleRun

\* The terminal event: success only where the success hooks came from.
LEMMA FinishRunInv ==
    ASSUME LoopInv, FinishRun
    PROVE  LoopInv' /\ Allowed
  <1>t. /\ LoopTypes /\ flow \in Flows /\ run \in Invocations(flow) /\ run.at = "finish"
        /\ disk \in Disks(flow) /\ task \in [Paths(flow) -> Tasks]
    BY DEF LoopInv, LoopTypes, FinishRun
  <1> DEFINE v == IF run.failed THEN "failed" ELSE "success"
             ret == IF run.failed THEN "failed" ELSE "done"
  <1>1. /\ UNCHANGED <<flow, task, applied, stop, expired>>
        /\ disk' = [disk EXCEPT !.terminal = v] /\ run' = Return(run, ret)
    BY DEF FinishRun
  <1>2. /\ v \in {"failed", "success"} /\ ret \in {"failed", "done"}
        /\ v = "success" => ~run.failed
    OBVIOUS
  <1> HIDE DEF v, ret
  <1>3. /\ disk' \in Disks(flow) /\ disk'.outcome = disk.outcome /\ disk'.ops = disk.ops
        /\ disk'.terminal = v /\ disk'.charged = disk.charged /\ disk'.hasCharges = disk.hasCharges
    BY <1>t, <1>1, <1>2 DEF Disks, Verdicts
  <1>4. run' \in Invocations(flow) /\ run'.at = "returned" /\ run'.ret = ret
    BY <1>t, <1>1, <1>2, ReturnFacts DEF Returns
  <1>5. /\ OwnNodes' = OwnNodes /\ DurableInv' /\ \A m : Outcome(m)' = Outcome(m)
    BY <1>1, <1>3, SameOutcomes DEF LoopInv
  <1>6. disk.terminal = "none" /\ (v = "success" => AllGood)
    BY <1>t, <1>2 DEF LoopInv, VerdictInv, SettleInv, Resting
  <1>7. LoopTypes'
    BY <1>t, <1>1, <1>3, <1>4 DEF LoopTypes, Resting
  <1>8. StatesMatch' /\ ReadyInv' /\ CycleInv' /\ SettleInv'
    BY <1>4 DEF StatesMatch, ReadyInv, CycleInv, SettleInv, Resting, Picked
  <1>9. TaskInv'
    BY <1>t, <1>1, <1>4 DEF LoopInv, TaskInv, Busy
  <1>10. EffectInv'
    BY <1>1, <1>3, <1>5 DEF LoopInv, EffectInv
  <1>11. VerdictInv' /\ BudgetInv'
    BY <1>2, <1>3, <1>4 DEF LoopInv, VerdictInv, BudgetInv, Resting
  <1>12. Decides
    BY <1>1, <1>2, <1>3, <1>5, <1>6 DEF Decides, Verdicts
  <1> QED
    BY <1>5, <1>7, <1>8, <1>9, <1>10, <1>11, <1>12 DEF LoopInv, Allowed

-----------------------------------------------------------------------------
(* The specification. *)

\* A run starts with an empty journal and no invocation.
LEMMA LoopInvInit == LoopInit => LoopInv
  <1> SUFFICES ASSUME LoopInit PROVE LoopInv
    OBVIOUS
  <1>1. /\ flow \in Flows /\ run = Idle /\ disk = EmptyDisk(flow)
        /\ task = [x \in Paths(flow) |-> IdleTask] /\ applied = [x \in Paths(flow) |-> 0]
    BY DEF LoopInit
  <1>2. /\ disk \in Disks(flow) /\ disk.terminal = "none" /\ disk.charged = 0
        /\ \A x \in Paths(flow) : disk.outcome[x] = "none" /\ disk.ops[x] = "none"
    <2>1. /\ [x \in Paths(flow) |-> "none"] \in [Paths(flow) -> Outcomes]
          /\ [x \in Paths(flow) |-> "none"] \in [Paths(flow) -> Operations]
          /\ [x \in Paths(flow) |-> 0] \in [Paths(flow) -> Nat]
      BY DEF Outcomes, Operations
    <2>2. /\ {} \in SUBSET Paths(flow) /\ {} \in SUBSET Questions(flow)
          /\ {} \in SUBSET ((Paths(flow) \cup {<<>>}) \X Questions(flow))
      OBVIOUS
    <2> QED
      BY <1>1, <2>1, <2>2 DEF EmptyDisk, Disks, Verdicts
  <1>3. \A x \in Paths(flow) : task[x].stage = "idle" /\ applied[x] = 0
    BY <1>1, TaskFacts
  <1>4. LoopTypes
    BY <1>1, <1>2, IdleFacts, TaskFacts DEF LoopTypes, Resting
  <1>5. \A n \in OwnNodes : Outcome(n) = "none" /\ Root(n) \in Paths(flow)
    BY <1>1, <1>2, PathFacts DEF Outcome, OwnNodes
  <1>6. StatesMatch /\ ReadyInv /\ CycleInv /\ SettleInv
    BY <1>1, IdleFacts DEF StatesMatch, ReadyInv, CycleInv, SettleInv, Resting, Picked
  <1>7. DurableInv
    BY <1>5 DEF DurableInv
  <1>8. TaskInv
    BY <1>1, <1>3, IdleFacts DEF TaskInv, Busy
  <1>9. EffectInv
    BY <1>3, <1>5 DEF EffectInv
  <1>10. VerdictInv /\ BudgetInv
    BY <1>1, <1>2, IdleFacts, EngineAssumption DEF VerdictInv, BudgetInv, Resting
  <1> QED
    BY <1>4, <1>6, <1>7, <1>8, <1>9, <1>10 DEF LoopInv

\* Every step keeps the invariant and, where repairs are kept apart, is a step
\* the contract allows.
LEMMA LoopInvStep ==
    ASSUME LoopInv, [LoopNext]_loopVars
    PROVE  LoopInv' /\ Allowed
  <1>1. CASE Scheduler
    BY <1>1, InvokeInv, RunHookInv, HookDoneInv, LoopTopInv, ScanInv, DispatchInv,
       StartWaveNodeInv, JoinInv, WaveDrainedInv, SettleWaveNodeInv, EndWaveInv,
       NodeDoneInv, StartRegenerateInv, RegenerateDoneInv, StartRepairInv, RepairDoneInv,
       SettleRunInv, FinishRunInv, EndInvocationInv DEF Scheduler
  <1>2. CASE \E x \in Paths(flow) : TaskStep(x)
    BY <1>2, TaskStepInv
  <1>3. CASE Answer \/ Cancel \/ RequestYield \/ Expire
    BY <1>3, OutsideStepInv
  <1>4. CASE ProcessDies
    BY <1>4, ProcessDiesInv
  <1>5. CASE UNCHANGED loopVars
    <2>1. UNCHANGED <<flow, disk, run, task, applied, stop, expired>>
      BY <1>5 DEF loopVars
    <2>2. LoopTypes'
      BY <2>1 DEF LoopInv, LoopTypes
    <2>3. StatesMatch' /\ ReadyInv' /\ DurableInv' /\ CycleInv'
      BY <2>1, SchedulerFrame DEF LoopInv
    <2>4. TaskInv'
      BY <2>1 DEF LoopInv, TaskInv, WavePaths, Current, Busy, RepairPath, RepairTarget
    <2>5. EffectInv' /\ VerdictInv' /\ SettleInv' /\ BudgetInv'
      BY <2>1, SameOutcomes DEF LoopInv, EffectInv, VerdictInv, SettleInv, BudgetInv
    <2>6. Stutters
      BY <2>1, SameOutcomes DEF Stutters
    <2> QED
      BY <2>2, <2>3, <2>4, <2>5, <2>6 DEF LoopInv, Allowed
  <1> QED
    BY <1>1, <1>2, <1>3, <1>4, <1>5 DEF LoopNext

\* The contract's view of the run, now and after a step.
LEMMA ViewFacts ==
    ASSUME LoopInv, LoopInv', UNCHANGED flow
    PROVE  /\ OwnNodes' = OwnNodes
           /\ \A n \in OwnNodes : /\ Root(n) \in Paths(flow)
                                  /\ Outcome(n) \in Outcomes /\ Outcome(n)' \in Outcomes
                                  /\ flow.nodes[n].effect = "fail" =>
                                        applied[Root(n)] \in {0, 1} /\ applied'[Root(n)] \in {0, 1}
  <1>1. OwnNodes' = OwnNodes
    BY DEF OwnNodes, RepairNodes, Nodes
  <1>2. \A n \in OwnNodes : Root(n) \in Paths(flow)
    BY PathFacts DEF OwnNodes, LoopInv, LoopTypes
  <1>3. /\ disk.outcome \in [Paths(flow) -> Outcomes]
        /\ disk'.outcome \in [Paths(flow) -> Outcomes]
    <2>1. disk \in Disks(flow) /\ disk' \in Disks(flow)
      <3>1. Disks(flow)' = Disks(flow)
        OBVIOUS
      <3> QED
        BY <3>1 DEF LoopInv, LoopTypes
    <2> QED
      BY <2>1 DEF Disks
  <1>4. \A n \in OwnNodes : Outcome(n) \in Outcomes /\ Outcome(n)' \in Outcomes
    BY <1>2, <1>3 DEF Outcome, Root
  <1>5. \A n \in OwnNodes : flow.nodes[n].effect = "fail" =>
            applied[Root(n)] \in {0, 1} /\ applied'[Root(n)] \in {0, 1}
    BY <1>1 DEF LoopInv, EffectInv, Root
  <1> QED
    BY <1>1, <1>2, <1>4, <1>5

\* What a step does to that view is a step of the contract.
LEMMA AllowedIsContractStep ==
    ASSUME LoopInv, LoopInv', Allowed, Steady
    PROVE  [Contract!ContractNext]_(Contract!contractVars)
  <1>1. UNCHANGED flow /\ (Stutters \/ Settles \/ Decides \/ TakesEffect)
    BY DEF Allowed, Stutters, Settles, Decides, TakesEffect
  <1> DEFINE out == [n \in OwnNodes |-> disk.outcome[Root(n)]]
             eff == [n \in OwnNodes |-> IF flow.nodes[n].effect = "fail" THEN applied[Root(n)] ELSE 0]
  <1>2. OwnNodes' = OwnNodes
    BY <1>1, ViewFacts
  <1>3. out' = [n \in OwnNodes |-> Outcome(n)'] /\ out = [n \in OwnNodes |-> Outcome(n)]
    BY <1>2 DEF Outcome, Root
  <1>4. /\ eff' = [n \in OwnNodes |-> IF flow.nodes[n].effect = "fail" THEN applied'[Root(n)] ELSE 0]
        /\ eff' \in [OwnNodes -> 0..1]
    BY <1>1, <1>2, ViewFacts DEF Root
  <1> HIDE DEF out, eff
  <1>5. CASE Stutters
    <2>1. out' = out
      BY <1>3, <1>5 DEF Stutters
    <2>2. eff' = eff
      BY <1>4, <1>5 DEF Stutters, eff
    <2> QED
      BY <1>2, <1>5, <2>1, <2>2 DEF Stutters, Contract!contractVars, out, eff
  <1>6. CASE Settles
    <2>1. eff' = eff
      BY <1>4, <1>6 DEF Settles, eff
    <2>2. PICK m \in OwnNodes : /\ Outcome(m) = "none" /\ Outcome(m)' \in Settled
                                /\ \A k \in OwnNodes \ {m} : Outcome(k)' = Outcome(k)
      BY <1>6 DEF Settles
    <2>3. out' = [out EXCEPT ![m] = Outcome(m)'] /\ out[m] = "none"
      BY <1>3, <2>2
    <2>4. \E n \in OwnNodes, s \in {"success", "skipped", "failed"} :
             out[n] = "none" /\ out' = [out EXCEPT ![n] = s]
      BY <2>2, <2>3 DEF Settled
    <2>5. Contract!SettleStep
      BY <1>2, <1>6, <2>1, <2>4 DEF Settles, Contract!SettleStep, out, eff
    <2> QED
      BY <2>5 DEF Contract!ContractNext
  <1>7. CASE Decides
    <2>1. out' = out
      BY <1>3, <1>7 DEF Decides
    <2>2. eff' = eff
      BY <1>4, <1>7 DEF Decides, eff
    <2>3. disk'.terminal = "success" => \A n \in OwnNodes : out[n] \in {"success", "skipped"}
      BY <1>3, <1>7 DEF Decides, AllGood
    <2>4. disk.terminal = "none" /\ disk'.terminal \in {"success", "failed", "canceled"}
      BY <1>7 DEF Decides, Verdicts
    <2>5. Contract!Decide
      BY <1>2, <2>1, <2>2, <2>3, <2>4 DEF Contract!Decide, out, eff
    <2> QED
      BY <2>5 DEF Contract!ContractNext
  <1>8. CASE TakesEffect
    <2>1. out' = out
      BY <1>3, <1>8 DEF TakesEffect
    <2>2. \A n \in OwnNodes : eff'[n] # eff[n] => eff[n] = 0 /\ out[n] = "none"
      BY <1>3, <1>4, <1>8 DEF TakesEffect, eff
    <2>3. Contract!TakeEffect
      BY <1>2, <1>4, <1>8, <2>1, <2>2 DEF TakesEffect, Contract!TakeEffect, out, eff
    <2> QED
      BY <2>3 DEF Contract!ContractNext
  <1> QED
    BY <1>1, <1>5, <1>6, <1>7, <1>8

\* The inductive invariant holds in every state of the run.
THEOREM LoopInvariant == LoopSpec => []LoopInv
  <1>1. LoopInit => LoopInv
    BY LoopInvInit
  <1>2. LoopInv /\ [LoopNext]_loopVars => LoopInv'
    BY LoopInvStep
  <1> QED
    BY <1>1, <1>2, PTL DEF LoopSpec

\* However often the run is restarted, its charged attempts stay within
\* budget.max_steps: each invocation seeds its counter from the journal
\* (BudgetSeed) and each charge moves both.
THEOREM BudgetCorrect == LoopSpec => []BudgetSurvivesRestarts
  <1>1. LoopInv => BudgetSurvivesRestarts
    BY DEF LoopInv, BudgetInv, BudgetSurvivesRestarts
  <1> QED
    BY <1>1, LoopInvariant, PTL

\* The engine implements FlowContract when no node of the contract needs a node
\* that a repair cycle runs and none has a condition that was true in one pass
\* and is false in another: over all invocations, deaths, yields and resumes a
\* node settles once and for good, its fail-closed effect takes place at most
\* once and only while it is open, and the one verdict fits the nodes.
THEOREM ContractCorrect ==
    ASSUME RepairsApart, ConditionsStable
    PROVE  LoopSpec => KeepsContract
  <1>1. LoopInit => Contract!ContractInit
    <2> SUFFICES ASSUME LoopInit PROVE Contract!ContractInit
      OBVIOUS
    <2>1. /\ flow \in Flows /\ disk = EmptyDisk(flow) /\ applied = [x \in Paths(flow) |-> 0]
      BY DEF LoopInit
    <2>2. \A n \in OwnNodes : Root(n) \in Paths(flow)
      BY <2>1, PathFacts DEF OwnNodes
    <2>3. /\ disk.terminal = "none"
          /\ \A n \in OwnNodes : disk.outcome[Root(n)] = "none" /\ applied[Root(n)] = 0
      BY <2>1, <2>2 DEF EmptyDisk
    <2> QED
      BY <2>3 DEF Contract!ContractInit
  <1>2. LoopInv /\ LoopInv' /\ [LoopNext]_loopVars => [Contract!ContractNext]_(Contract!contractVars)
    BY LoopInvStep, AllowedIsContractStep DEF Steady
  <1> QED
    BY <1>1, <1>2, LoopInvariant, PTL DEF LoopSpec, KeepsContract, Contract!ContractSpec

-----------------------------------------------------------------------------
(* The scheduler never stalls. *)

\* The nodes the memory calls running.
RunningNodes == {n \in Nodes(flow) : run.states[n] = "running"}

(* Between passes no node is left running: only a wave's question leaves   *)
(* one, and it ends the scheduling.                                        *)
RestInv ==
    (run.at \in {"loop", "scan"} \/ (run.at = "hook" /\ run.event = "run_started"))
        => RunningNodes = {}
\* A wave's running nodes are those it has started and not settled.
WaveInv ==
    /\ run.at = "starting" =>
          \A n \in RunningNodes : \E i \in DOMAIN run.ready : i < run.cursor /\ n = run.ready[i]
    /\ run.at = "wave" => \A n \in RunningNodes : \E i \in DOMAIN run.ready : n = run.ready[i]
    /\ run.at = "settleWave" =>
          \A n \in RunningNodes :
              \/ task[Root(n)].result = "question" /\ Root(n) \in WavePaths
              \/ \E i \in DOMAIN run.ready : i >= run.cursor /\ n = run.ready[i]
\* A node that runs alone runs with its cycle's target at most.
AloneInv ==
    run.at = "node" =>
        \A n \in RunningNodes :
            n = Current \/ (run.cycle.kind = "repair" /\ n = RepairTarget)
\* What the pass has passed over without settling or picking was settled.
PassInvariant ==
    run.at = "scan" /\ run.ready = <<>> /\ ~run.progressed =>
        \A j \in DOMAIN flow.order :
            j < run.cursor => run.states[flow.order[j]] \in Settled

(* Inductive together with LoopInv. *)
StallInv == RestInv /\ WaveInv /\ AloneInv /\ PassInvariant /\ NeverStalls

\* Away from the passes and waves the scheduler owes no more than this.
LEMMA StallAtRest ==
    ASSUME UNCHANGED flow, run'.ret # "stalled",
           run'.at \in {"idle", "returned", "settle", "finish", "loop", "hook"},
           run'.at = "loop" \/ (run'.at = "hook" /\ run'.event = "run_started") =>
              \A n \in Nodes(flow) : run'.states[n] # "running"
    PROVE  StallInv'
  <1>1. RestInv'
    BY DEF RestInv, RunningNodes
  <1>2. WaveInv' /\ AloneInv' /\ PassInvariant' /\ NeverStalls'
    BY DEF WaveInv, AloneInv, PassInvariant, NeverStalls
  <1> QED
    BY <1>1, <1>2 DEF StallInv

\* A step that leaves the scheduler's memory alone, and the reports of a wave
\* that is settling.
LEMMA StallFrame ==
    ASSUME StallInv, UNCHANGED flow,
           run'.at = run.at, run'.states = run.states, run'.cursor = run.cursor,
           run'.ready = run.ready, run'.progressed = run.progressed, run'.ret = run.ret,
           run'.event = run.event, run'.cycle = run.cycle,
           run.at = "settleWave" => UNCHANGED task
    PROVE  StallInv'
  <1>1. RunningNodes' = RunningNodes
    BY DEF RunningNodes
  <1>2. Current' = Current /\ RepairTarget' = RepairTarget /\ WavePaths' = WavePaths
    BY DEF Current, RepairTarget, WavePaths
  <1>3. RestInv' /\ AloneInv' /\ PassInvariant' /\ NeverStalls'
    BY <1>1, <1>2 DEF StallInv, RestInv, AloneInv, PassInvariant, NeverStalls
  <1>4. WaveInv'
    BY <1>1, <1>2 DEF StallInv, WaveInv
  <1> QED
    BY <1>3, <1>4 DEF StallInv

\* A pass that made progress ends without a stall.
LEMMA StallEndPass ==
    ASSUME UNCHANGED flow, NEW r \in Invocations(flow), run' = EndPass(r), r.ret # "stalled",
           r.progressed \/ AllSettled(r.states),
           \A n \in Nodes(flow) : r.states[n] # "running"
    PROVE  StallInv'
  <1>1. CASE AllSettled(r.states)
    <2>1. run' = [r EXCEPT !.at = "settle"]
      BY <1>1 DEF EndPass
    <2>2. run'.at = "settle" /\ run'.ret = r.ret
      BY <2>1 DEF Invocations
    <2> QED
      BY <2>2, StallAtRest
  <1>2. CASE ~AllSettled(r.states)
    <2>1. run' = [r EXCEPT !.at = "loop"]
      BY <1>2 DEF EndPass
    <2>2. run'.at = "loop" /\ run'.ret = r.ret /\ run'.states = r.states
      BY <2>1 DEF Invocations
    <2> QED
      BY <2>2, StallAtRest
  <1> QED
    BY <1>1, <1>2

\* A node that was running settles, and it was the last one.
LEMMA StallSettling ==
    ASSUME UNCHANGED flow, NEW r \in Invocations(flow), r.states \in [Nodes(flow) -> NodeStatus],
           NEW n \in Nodes(flow), NEW s \in Settled, run' = AfterSettling(r, n, s),
           r.ret # "stalled", \A m \in Nodes(flow) \ {n} : r.states[m] # "running"
    PROVE  StallInv'
  <1> DEFINE q == NodeState(r, n, s)
             p == [q EXCEPT !.progressed = TRUE, !.cycle = NoCycle]
  <1>1. /\ q \in Invocations(flow) /\ q.ret = r.ret
        /\ \A m \in Nodes(flow) : q.states[m] = IF m = n THEN s ELSE r.states[m]
    BY NodeStateFacts DEF Settled, NodeStatus
  <1>2. NoCycle \in Cycles(flow)
    BY DEF NoCycle, Cycles
  <1> HIDE DEF q
  <1>3. p \in Invocations(flow) /\ p.ret = q.ret /\ p.states = q.states /\ p.progressed = TRUE
    BY <1>1, <1>2 DEF Invocations
  <1>4. run' = EndPass(p)
    BY DEF AfterSettling, q
  <1> HIDE DEF p
  <1>5. \A m \in Nodes(flow) : p.states[m] # "running"
    BY <1>1, <1>3 DEF Settled
  <1> QED
    BY <1>1, <1>3, <1>4, <1>5, StallEndPass

\* The invocation returns with anything but a stall.
LEMMA StallReturn ==
    ASSUME UNCHANGED flow, run \in Invocations(flow), NEW ret \in Returns \ {"stalled"}, run' = Return(run, ret)
    PROVE  StallInv'
  BY StallAtRest DEF Return, Invocations

\* The hooks of an event are over.
LEMMA StallAfterHooks ==
    ASSUME LoopInv, StallInv, run.at = "hook", UNCHANGED flow, run' = AfterHooks(run)
    PROVE  StallInv'
  <1>1. run \in Invocations(flow) /\ run.event \in Events
    BY DEF LoopInv, LoopTypes
  <1>2. /\ run'.states = run.states
        /\ \/ run.event = "run_started" /\ run'.at = "loop"
           \/ run'.at = "hook" /\ run'.event = "run_failed"
           \/ run'.at = "finish"
    BY <1>1, AfterHooksFacts
  <1>3. run'.ret = run.ret
    BY <1>1 DEF AfterHooks, Invocations, Events
  <1>4. run.event = "run_started" => \A n \in Nodes(flow) : run.states[n] # "running"
    BY DEF StallInv, RestInv, RunningNodes
  <1> QED
    BY <1>2, <1>3, <1>4, StallAtRest DEF StallInv, NeverStalls

\* The setup and the hooks.
LEMMA StallSetup ==
    ASSUME LoopInv, StallInv, Invoke \/ RunHook \/ HookDone \/ SettleRun \/ FinishRun
                              \/ EndInvocation \/ ProcessDies
    PROVE  StallInv'
  <1>t. run \in Invocations(flow) /\ run.ret # "stalled" /\ UNCHANGED flow
    BY DEF LoopInv, LoopTypes, StallInv, NeverStalls, Invoke, RunHook, HookDone, SettleRun,
           FinishRun, EndInvocation, ProcessDies
  <1>i. Idle \in Invocations(flow) /\ Idle.ret = "none" /\ Idle.at = "idle"
    BY IdleFacts DEF Idle
  <1>1. CASE Invoke
    <2>1. CASE \E ret \in {"error", "suspended"} : run' = Return(Idle, ret)
      BY <1>t, <1>i, <2>1, StallAtRest DEF Return, Invocations
    <2>2. CASE run' = [Idle EXCEPT !.at = "hook", !.event = "run_started",
                                   !.states = NodeStates(disk), !.budget = BudgetSeed(disk)]
      <3>1. run'.at = "hook" /\ run'.ret = "none" /\ run'.states = NodeStates(disk)
        BY <1>i, <2>2 DEF Invocations
      <3>2. \A n \in Nodes(flow) : NodeStates(disk)[n] # "running"
        BY DEF NodeStates
      <3> QED
        BY <1>t, <3>1, <3>2, StallAtRest
    <2> QED
      BY <1>1, <2>1, <2>2 DEF Invoke
  <1>2. CASE RunHook
    <2>1. CASE run' = AfterHooks(run)
      BY <1>t, <1>2, <2>1, StallAfterHooks DEF RunHook
    <2>2. CASE UNCHANGED run
      BY <1>t, <1>2, <2>2, StallFrame DEF RunHook
    <2> QED
      BY <1>2, <2>1, <2>2 DEF RunHook
  <1>3. CASE HookDone
    <2>1. CASE run' = AfterHooks(run)
      BY <1>t, <1>3, <2>1, StallAfterHooks DEF HookDone
    <2>2. CASE \E ret \in {"error", "canceled"} : run' = Return(run, ret)
      BY <1>t, <2>2, StallReturn DEF Returns
    <2>3. run' = AfterHooks(run) \/ \E ret \in {"error", "canceled"} : run' = Return(run, ret)
      BY <1>3 DEF HookDone
    <2> QED
      BY <2>1, <2>2, <2>3
  <1>4. CASE SettleRun
    <2>1. CASE \E ret \in {"error", "canceled"} : run' = Return(run, ret)
      BY <1>t, <2>1, StallReturn DEF Returns
    <2>2. CASE \/ run' = [run EXCEPT !.at = "hook", !.event = "step_failed", !.failed = TRUE]
               \/ run' = [run EXCEPT !.at = "hook", !.event = "run_succeeded"]
      <3>1. run'.at = "hook" /\ run'.event # "run_started" /\ run'.ret = run.ret
        BY <1>t, <2>2 DEF Invocations
      <3> QED
        BY <1>t, <3>1, StallAtRest
    <2> QED
      BY <1>4, <2>1, <2>2 DEF SettleRun
  <1>5. CASE FinishRun
    BY <1>t, <1>5, StallReturn DEF FinishRun, Returns
  <1>6. CASE EndInvocation \/ ProcessDies
    BY <1>t, <1>i, <1>6, StallAtRest DEF EndInvocation, ProcessDies
  <1> QED
    BY <1>1, <1>2, <1>3, <1>4, <1>5, <1>6

\* Once all its needs are settled a node is skipped or may start: the three
\* dependency policies leave no third case.
LEMMA NeedsDecide ==
    ASSUME flow \in Flows, NEW n \in Nodes(flow), NEW st \in [Nodes(flow) -> NodeStatus],
           \A m \in flow.nodes[n].needs : st[m] \in Settled
    PROVE  should_skip_by_dependencies(n, st) \/ needs_satisfied(n, st)
  <1>1. flow.nodes[n].deps \in {"all", "any", "none_failed"}
    BY FlowFacts DEF StepRecord
  <1>2. CASE flow.nodes[n].needs = {}
    BY <1>2 DEF needs_satisfied
  <1>3. CASE flow.nodes[n].needs # {} /\ flow.nodes[n].deps = "all"
    BY <1>3 DEF needs_satisfied, should_skip_by_dependencies, Settled
  <1>4. CASE flow.nodes[n].needs # {} /\ flow.nodes[n].deps = "any"
    BY <1>4 DEF needs_satisfied, should_skip_by_dependencies, Settled
  <1>5. CASE flow.nodes[n].needs # {} /\ flow.nodes[n].deps = "none_failed"
    BY <1>5 DEF needs_satisfied, should_skip_by_dependencies, Settled
  <1> QED
    BY <1>1, <1>2, <1>3, <1>4, <1>5

\* Every need stands before its node in the order of the pass.
LEMMA NeedsComeFirst ==
    ASSUME flow \in Flows, NEW j \in DOMAIN flow.order, NEW m \in flow.nodes[flow.order[j]].needs
    PROVE  \E i \in DOMAIN flow.order : flow.order[i] = m /\ i < j
  <1>1. /\ flow.order \in Seq(Nodes(flow)) /\ flow.nodes \in [Nodes(flow) -> StepRecord(Nodes(flow))]
        /\ DOMAIN flow.order = 1..Len(flow.order)
    BY FlowFacts
  <1>2. flow.order[j] \in Nodes(flow)
    BY <1>1
  <1>3. m \in Nodes(flow)
    BY <1>1, <1>2 DEF StepRecord
  <1>4. PICK i \in 1..Len(flow.order) : flow.order[i] = m
    BY <1>3, EngineAssumption DEF Nodes
  <1>5. i < j
    BY <1>1, <1>4, EngineAssumption
  <1> QED
    BY <1>1, <1>4, <1>5

\* A new pass starts with nothing running.
LEMMA StallLoopTop ==
    ASSUME LoopInv, StallInv, LoopTop
    PROVE  StallInv'
  <1>t. /\ run \in Invocations(flow) /\ run.ret # "stalled" /\ UNCHANGED flow /\ run.at = "loop"
        /\ \A n \in Nodes(flow) : run.states[n] # "running"
    BY DEF LoopInv, LoopTypes, StallInv, NeverStalls, LoopTop, RestInv, RunningNodes
  <1>1. CASE \E ret \in {"canceled", "error", "yielded"} : run' = Return(run, ret)
    BY <1>t, <1>1, StallReturn DEF Returns
  <1>2. CASE run' = [run EXCEPT !.at = "scan", !.cursor = 1, !.ready = <<>>, !.progressed = FALSE]
    <2>1. run'.at = "scan" /\ run'.cursor = 1 /\ run'.ret = run.ret /\ run'.states = run.states
      BY <1>t, <1>2 DEF Invocations
    <2>2. RestInv' /\ WaveInv' /\ AloneInv' /\ NeverStalls'
      BY <1>t, <2>1 DEF RestInv, WaveInv, AloneInv, NeverStalls, RunningNodes
    <2>3. flow.order \in Seq(Nodes(flow))
      BY FlowFacts DEF LoopInv, LoopTypes
    <2>4. \A j \in DOMAIN flow.order : ~(j < 1)
      BY <2>3
    <2>5. PassInvariant'
      BY <1>t, <2>1, <2>4 DEF PassInvariant
    <2> QED
      BY <2>2, <2>5 DEF StallInv
  <1> QED
    BY <1>1, <1>2 DEF LoopTop

\* The pass comes to a node: while it has settled and picked nothing, all the
\* nodes before are settled, and so this one was settled, is settled or is
\* picked.
LEMMA StallScan ==
    ASSUME LoopInv, LoopInv', StallInv, Scan
    PROVE  StallInv'
  <1>t. /\ flow \in Flows /\ run \in Invocations(flow) /\ run.at = "scan" /\ UNCHANGED flow
        /\ run.states \in [Nodes(flow) -> NodeStatus] /\ run.ready \in Seq(Nodes(flow))
        /\ run.cursor \in Nat \ {0} /\ run.cursor <= Len(flow.order)
        /\ run.ret # "stalled" /\ \A m \in Nodes(flow) : run.states[m] # "running"
    BY DEF LoopInv, LoopTypes, Scan, Resting, ReadyInv, Picked, Invocations, StallInv, RestInv,
           RunningNodes, NeverStalls
  <1>o. /\ flow.order \in Seq(Nodes(flow)) /\ DOMAIN flow.order = 1..Len(flow.order)
        /\ run.cursor \in DOMAIN flow.order
    BY <1>t, FlowFacts
  <1>n. PICK n \in Nodes(flow) : n = flow.order[run.cursor]
    BY <1>o
  <1> DEFINE next == [run EXCEPT !.cursor = @ + 1]
             settle(s) == [NodeState(next, n, s) EXCEPT !.progressed = TRUE]
  <1>1. /\ next \in Invocations(flow) /\ next.at = "scan" /\ next.cursor = run.cursor + 1
        /\ next.states = run.states /\ next.ready = run.ready /\ next.ret = run.ret
        /\ next.progressed = run.progressed
    <2>1. run.cursor + 1 \in Nat
      BY <1>t
    <2> QED
      BY <1>t, <2>1 DEF Invocations
  <1>2. \/ run' = next /\ run.states[n] # "pending"
        \/ \E s \in {"skipped", "success"} : run' = settle(s)
        \/ /\ run' = next /\ ~should_skip_by_dependencies(n, run.states)
           /\ ~needs_satisfied(n, run.states)
        \/ run' = [next EXCEPT !.ready = Append(@, n)]
        \/ run' = Return(run, "error")
    BY <1>n DEF Scan
  <1> HIDE DEF next
  <1>3. ASSUME run'.at = "scan", run'.ret = run.ret, \A m \in Nodes(flow) : run'.states[m] # "running",
               PassInvariant'
        PROVE  StallInv'
    BY <1>t, <1>3 DEF StallInv, RestInv, WaveInv, AloneInv, NeverStalls, RunningNodes
  <1>4. run.ready = <<>> /\ ~run.progressed =>
            \A j \in DOMAIN flow.order : j < run.cursor => run.states[flow.order[j]] \in Settled
    BY <1>t DEF StallInv, PassInvariant
  <1>5. CASE run' = next /\ run.states[n] # "pending"
    <2>1. run.states[n] \in Settled
      BY <1>t, <1>5 DEF Settled, NodeStatus
    <2>2. \A j \in DOMAIN flow.order : j < run.cursor + 1 => j < run.cursor \/ flow.order[j] = n
      BY <1>n, <1>t, <1>o
    <2>3. PassInvariant'
      BY <1>t, <1>1, <1>4, <1>5, <2>1, <2>2 DEF PassInvariant
    <2> QED
      BY <1>t, <1>1, <1>3, <1>5, <2>3
  <1>6. ASSUME NEW s \in {"skipped", "success"}, run' = settle(s) PROVE StallInv'
    <2> DEFINE r == NodeState(next, n, s)
    <2>1. /\ r \in Invocations(flow) /\ r.at = "scan" /\ r.ret = run.ret
          /\ \A m \in Nodes(flow) : r.states[m] = IF m = n THEN s ELSE run.states[m]
      BY <1>t, <1>1, NodeStateFacts DEF NodeStatus
    <2>2. run' = [r EXCEPT !.progressed = TRUE]
      BY <1>6
    <2> HIDE DEF r
    <2>3. run'.at = "scan" /\ run'.ret = run.ret /\ run'.states = r.states /\ run'.progressed = TRUE
      BY <2>1, <2>2 DEF Invocations
    <2>4. PassInvariant'
      BY <2>3 DEF PassInvariant
    <2> QED
      BY <1>t, <1>3, <2>1, <2>3, <2>4
  <1>7. CASE run' = next /\ ~should_skip_by_dependencies(n, run.states) /\ ~needs_satisfied(n, run.states)
    <2>1. ~(run.ready = <<>> /\ ~run.progressed)
      <3> SUFFICES ASSUME run.ready = <<>>, ~run.progressed PROVE FALSE
        OBVIOUS
      <3>1. \A m \in flow.nodes[n].needs : run.states[m] \in Settled
        BY <1>4, <1>n, <1>o, <1>t, NeedsComeFirst
      <3> QED
        BY <1>7, <1>t, <3>1, NeedsDecide
    <2>2. PassInvariant'
      BY <1>1, <1>7, <2>1 DEF PassInvariant
    <2> QED
      BY <1>t, <1>1, <1>3, <1>7, <2>2
  <1>8. CASE run' = [next EXCEPT !.ready = Append(@, n)]
    <2>1. /\ run'.at = "scan" /\ run'.ret = run.ret /\ run'.states = run.states
          /\ run'.ready = Append(run.ready, n)
      BY <1>1, <1>8 DEF Invocations
    <2>2. Append(run.ready, n) # <<>>
      BY <1>t
    <2>3. PassInvariant'
      BY <2>1, <2>2 DEF PassInvariant
    <2> QED
      BY <1>t, <1>3, <2>1, <2>3
  <1>9. CASE run' = Return(run, "error")
    BY <1>t, <1>9, StallReturn DEF Returns
  <1> QED
    BY <1>2, <1>5, <1>6, <1>7, <1>8, <1>9

\* After the pass: if it found nothing, everything is settled.
LEMMA StallDispatch ==
    ASSUME LoopInv, LoopInv', StallInv, Dispatch
    PROVE  StallInv'
  <1>t. /\ flow \in Flows /\ run \in Invocations(flow) /\ run.at = "scan" /\ UNCHANGED flow
        /\ run.states \in [Nodes(flow) -> NodeStatus] /\ run.ready \in Seq(Nodes(flow))
        /\ run.cursor \in Nat \ {0} /\ run.cursor > Len(flow.order)
        /\ run.ret # "stalled" /\ \A m \in Nodes(flow) : run.states[m] # "running"
    BY DEF LoopInv, LoopTypes, Dispatch, Resting, ReadyInv, Picked, Invocations, StallInv, RestInv,
           RunningNodes, NeverStalls
  <1>1. CASE run.ready = <<>> /\ run' = EndPass(run)
    <2>1. ASSUME ~run.progressed PROVE AllSettled(run.states)
      <3>1. \A m \in Nodes(flow) : \E j \in DOMAIN flow.order : j < run.cursor /\ flow.order[j] = m
        <4>1. flow.order \in Seq(Nodes(flow))
          BY <1>t, FlowFacts
        <4>2. \A m \in Nodes(flow) : \E j \in 1..Len(flow.order) : flow.order[j] = m
          BY <1>t, EngineAssumption DEF Nodes
        <4>3. DOMAIN flow.order = 1..Len(flow.order) /\ Len(flow.order) \in Nat
          BY <4>1
        <4>4. \A j \in 1..Len(flow.order) : j < run.cursor
          BY <1>t, <4>3
        <4> QED
          BY <4>2, <4>3, <4>4
      <3>2. \A m \in Nodes(flow) : run.states[m] \in Settled
        BY <1>t, <1>1, <2>1, <3>1 DEF StallInv, PassInvariant
      <3> QED
        BY <1>t, <3>2 DEF AllSettled, Settled
    <2> QED
      BY <1>t, <1>1, <2>1, StallEndPass
  <1>2. CASE run' = [run EXCEPT !.at = "starting", !.cursor = 1, !.aborting = FALSE,
                                !.parentCanceled = FALSE, !.startError = "none", !.errors = {}]
    <2>1. run'.at = "starting" /\ run'.ret = run.ret /\ run'.states = run.states
      BY <1>t, <1>2 DEF Invocations
    <2> QED
      BY <1>t, <2>1 DEF StallInv, RestInv, WaveInv, AloneInv, PassInvariant, NeverStalls, RunningNodes
  <1>3. CASE \E ret \in {"canceled", "error"} : run' = Return(run, ret)
    BY <1>t, <1>3, StallReturn DEF Returns
  <1>4. CASE run.ready # <<>> /\ run' = [NodeState(run, run.ready[1], "running") EXCEPT !.at = "node"]
    <2>1. run.ready[1] \in Nodes(flow)
      BY <1>t, <1>4
    <2> DEFINE r == NodeState(run, run.ready[1], "running")
    <2>2. /\ r \in Invocations(flow) /\ r.ret = run.ret /\ r.ready = run.ready
          /\ \A m \in Nodes(flow) : r.states[m] = IF m = run.ready[1] THEN "running" ELSE run.states[m]
      BY <1>t, <2>1, NodeStateFacts DEF NodeStatus
    <2>3. run' = [r EXCEPT !.at = "node"]
      BY <1>4
    <2> HIDE DEF r
    <2>4. run'.at = "node" /\ run'.ret = run.ret /\ run'.states = r.states /\ run'.ready = run.ready
      BY <2>2, <2>3 DEF Invocations
    <2>5. AloneInv'
      BY <1>t, <2>2, <2>4 DEF AloneInv, RunningNodes, Current
    <2> QED
      BY <1>t, <2>4, <2>5 DEF StallInv, RestInv, WaveInv, PassInvariant, NeverStalls
  <1> QED
    BY <1>1, <1>2, <1>3, <1>4 DEF Dispatch

\* A wave's nodes start: those that run are the ones started.
LEMMA StallStartWave ==
    ASSUME LoopInv, LoopInv', StallInv, StartWaveNode
    PROVE  StallInv'
  <1>t. /\ flow \in Flows /\ run \in Invocations(flow) /\ run.at = "starting" /\ UNCHANGED flow
        /\ run.states \in [Nodes(flow) -> NodeStatus] /\ run.ready \in Seq(Nodes(flow))
        /\ run.cursor \in Nat \ {0} /\ run.cursor <= Len(run.ready) /\ run.ret # "stalled"
        /\ \A m \in Nodes(flow) : run.states[m] = "running" =>
              \E i \in DOMAIN run.ready : i < run.cursor /\ m = run.ready[i]
    BY DEF LoopInv, LoopTypes, StartWaveNode, Resting, ReadyInv, Picked, Invocations, StallInv,
           WaveInv, RunningNodes, NeverStalls
  <1>o. DOMAIN run.ready = 1..Len(run.ready) /\ run.cursor \in DOMAIN run.ready
    BY <1>t
  <1>1. CASE run' = [run EXCEPT !.at = "wave", !.aborting = TRUE,
                                !.startError = IF stop THEN "canceled" ELSE "elapsed",
                                !.ready = SubSeq(@, 1, run.cursor - 1)]
    <2>1. /\ run'.at = "wave" /\ run'.ret = run.ret /\ run'.states = run.states
          /\ run'.ready = SubSeq(run.ready, 1, run.cursor - 1)
      BY <1>t, <1>1 DEF Invocations
    <2>2. \A i \in DOMAIN run.ready : i < run.cursor => i \in DOMAIN run'.ready /\ run'.ready[i] = run.ready[i]
      BY <1>t, <1>o, <2>1
    <2>3. WaveInv'
      BY <1>t, <2>1, <2>2 DEF WaveInv, RunningNodes
    <2> QED
      BY <1>t, <2>1, <2>3 DEF StallInv, RestInv, AloneInv, PassInvariant, NeverStalls
  <1>2. CASE run' = [NodeState(run, run.ready[run.cursor], "running")
                       EXCEPT !.cursor = IF run.cursor = Len(run.ready) THEN @ ELSE @ + 1,
                              !.at = IF run.cursor = Len(run.ready) THEN "wave" ELSE @]
    <2>n. PICK n \in Nodes(flow) : n = run.ready[run.cursor]
      BY <1>t, <1>o
    <2> DEFINE r == NodeState(run, n, "running")
               last == run.cursor = Len(run.ready)
    <2>1. /\ r \in Invocations(flow) /\ r.ret = run.ret /\ r.ready = run.ready
          /\ r.cursor = run.cursor /\ r.at = run.at
          /\ \A m \in Nodes(flow) : r.states[m] = IF m = n THEN "running" ELSE run.states[m]
      BY <1>t, NodeStateFacts DEF NodeStatus
    <2>2. run' = [r EXCEPT !.cursor = IF last THEN @ ELSE @ + 1, !.at = IF last THEN "wave" ELSE @]
      BY <1>2, <2>n
    <2> HIDE DEF r
    <2>3. /\ run'.ret = run.ret /\ run'.states = r.states /\ run'.ready = run.ready
          /\ IF last THEN run'.at = "wave" ELSE run'.at = "starting" /\ run'.cursor = run.cursor + 1
      BY <1>t, <2>1, <2>2 DEF Invocations
    <2>4. \A m \in Nodes(flow) : run'.states[m] = "running" =>
              \E i \in DOMAIN run.ready : i < run.cursor + 1 /\ m = run.ready[i]
      <3> SUFFICES ASSUME NEW m \in Nodes(flow), run'.states[m] = "running"
                   PROVE  \E i \in DOMAIN run.ready : i < run.cursor + 1 /\ m = run.ready[i]
        OBVIOUS
      <3>1. CASE m = n
        BY <1>t, <1>o, <2>n, <3>1
      <3>2. CASE m # n
        BY <1>t, <1>o, <2>1, <2>3, <3>2
      <3> QED
        BY <3>1, <3>2
    <2>5. WaveInv'
      BY <1>t, <2>3, <2>4 DEF WaveInv, RunningNodes
    <2> QED
      BY <1>t, <2>3, <2>5 DEF StallInv, RestInv, AloneInv, PassInvariant, NeverStalls
  <1> QED
    BY <1>1, <1>2 DEF StartWaveNode

\* A wave is canceled, joined or drained.
LEMMA StallWave ==
    ASSUME LoopInv, StallInv,
           CancelWave \/ WaveDrained \/ \E x \in Paths(flow) : JoinTask(x)
    PROVE  StallInv'
  <1>t. run \in Invocations(flow) /\ run.at = "wave" /\ UNCHANGED flow
    BY DEF LoopInv, LoopTypes, CancelWave, WaveDrained, JoinTask
  <1>1. CASE CancelWave
    <2>1. run' = [run EXCEPT !.aborting = TRUE, !.parentCanceled = TRUE]
      BY <1>1 DEF CancelWave
    <2> QED
      BY <1>t, <2>1, StallFrame DEF Invocations
  <1>2. CASE \E x \in Paths(flow) : JoinTask(x)
    <2>1. PICK b : run' = [run EXCEPT !.aborting = b]
      BY <1>2 DEF JoinTask
    <2> QED
      BY <1>t, <2>1, StallFrame DEF Invocations
  <1>3. CASE WaveDrained
    <2>1. run' = [run EXCEPT !.at = "settleWave", !.cursor = 1]
      BY <1>3 DEF WaveDrained
    <2>2. /\ run'.at = "settleWave" /\ run'.cursor = 1 /\ run'.states = run.states
          /\ run'.ready = run.ready /\ run'.ret = run.ret
      BY <1>t, <2>1 DEF Invocations
    <2>3. \A i \in DOMAIN run.ready : i >= 1
      BY <1>t DEF Invocations
    <2>4. WaveInv'
      BY <1>t, <2>2, <2>3 DEF StallInv, WaveInv, RunningNodes
    <2> QED
      BY <2>2, <2>4 DEF StallInv, RestInv, AloneInv, PassInvariant, NeverStalls
  <1> QED
    BY <1>1, <1>2, <1>3

\* A wave's reports settle: a node is left running by its question only.
LEMMA StallSettleWave ==
    ASSUME LoopInv, LoopInv', StallInv, SettleWaveNode
    PROVE  StallInv'
  <1>t. /\ flow \in Flows /\ run \in Invocations(flow) /\ run.at = "settleWave" /\ UNCHANGED <<flow, task>>
        /\ run.states \in [Nodes(flow) -> NodeStatus] /\ run.ready \in Seq(Nodes(flow))
        /\ run.cursor \in Nat \ {0} /\ run.cursor <= Len(run.ready) /\ run.ret # "stalled"
        /\ \A m \in Nodes(flow) : run.states[m] = "running" =>
              \/ task[Root(m)].result = "question" /\ Root(m) \in WavePaths
              \/ \E i \in DOMAIN run.ready : i >= run.cursor /\ m = run.ready[i]
    BY DEF LoopInv, LoopTypes, SettleWaveNode, Resting, ReadyInv, Picked, Invocations, StallInv,
           WaveInv, RunningNodes, NeverStalls
  <1>o. DOMAIN run.ready = 1..Len(run.ready) /\ run.cursor \in DOMAIN run.ready
    BY <1>t
  <1>n. PICK n \in Nodes(flow) : n = run.ready[run.cursor]
    BY <1>t, <1>o
  <1> DEFINE next == [run EXCEPT !.cursor = @ + 1]
             res == task[Root(n)].result
  <1>1. /\ next \in Invocations(flow) /\ next.at = "settleWave" /\ next.cursor = run.cursor + 1
        /\ next.states = run.states /\ next.ready = run.ready /\ next.ret = run.ret
    <2>1. run.cursor + 1 \in Nat
      BY <1>t
    <2> QED
      BY <1>t, <2>1 DEF Invocations
  <1>2. \/ \E s \in {"pending", "success", "failed"} : run' = NodeState(next, n, s)
        \/ run' = next /\ res = "question"
        \/ \E e : run' = [NodeState(next, n, "failed") EXCEPT !.errors = e]
    BY <1>n DEF SettleWaveNode
  <1> HIDE DEF next
  <1>3. /\ run'.at = "settleWave" /\ run'.cursor = run.cursor + 1 /\ run'.ready = run.ready
        /\ run'.ret = run.ret
        /\ \A m \in Nodes(flow) : run'.states[m] = "running" =>
              run.states[m] = "running" /\ (m = n => res = "question")
    <2>1. CASE \E s \in {"pending", "success", "failed"} : run' = NodeState(next, n, s)
      <3>1. PICK s \in {"pending", "success", "failed"} : run' = NodeState(next, n, s)
        BY <2>1
      <3>2. s \in NodeStatus /\ s # "running"
        BY DEF NodeStatus
      <3> QED
        BY <1>t, <1>1, <3>1, <3>2, NodeStateFacts
    <2>2. CASE run' = next /\ res = "question"
      BY <1>1, <2>2
    <2>3. CASE \E e : run' = [NodeState(next, n, "failed") EXCEPT !.errors = e]
      <3>1. PICK e : run' = [NodeState(next, n, "failed") EXCEPT !.errors = e]
        BY <2>3
      <3> DEFINE r == NodeState(next, n, "failed")
      <3>2. /\ r \in Invocations(flow) /\ r.at = "settleWave" /\ r.cursor = run.cursor + 1
            /\ r.ready = run.ready /\ r.ret = run.ret
            /\ \A m \in Nodes(flow) : r.states[m] = IF m = n THEN "failed" ELSE run.states[m]
        BY <1>t, <1>1, NodeStateFacts DEF NodeStatus
      <3>3. run' = [r EXCEPT !.errors = e]
        BY <3>1
      <3> HIDE DEF r
      <3> QED
        BY <3>2, <3>3 DEF Invocations
    <2> QED
      BY <1>2, <2>1, <2>2, <2>3
  <1>4. WavePaths' = WavePaths /\ Root(n) \in WavePaths
    BY <1>n, <1>o, <1>3 DEF WavePaths
  <1>5. ASSUME NEW m \in Nodes(flow), run'.states[m] = "running"
        PROVE  \/ task'[Root(m)].result = "question" /\ Root(m) \in WavePaths'
               \/ \E i \in DOMAIN run'.ready : i >= run'.cursor /\ m = run'.ready[i]
    <2>1. run.states[m] = "running" /\ (m = n => res = "question")
      BY <1>3, <1>5
    <2>2. CASE m = n
      BY <1>t, <1>4, <2>1, <2>2
    <2>3. CASE m # n /\ task[Root(m)].result = "question" /\ Root(m) \in WavePaths
      BY <1>t, <1>4, <2>3
    <2>4. ASSUME NEW i \in DOMAIN run.ready, i >= run.cursor, m = run.ready[i], m # n
          PROVE  i >= run.cursor + 1
      BY <1>t, <1>o, <1>n, <2>4
    <2> QED
      BY <1>t, <1>3, <2>1, <2>2, <2>3, <2>4
  <1>6. WaveInv'
    BY <1>t, <1>3, <1>5 DEF WaveInv, RunningNodes
  <1> QED
    BY <1>t, <1>3, <1>6 DEF StallInv, RestInv, AloneInv, PassInvariant, NeverStalls

\* The end of a wave: with a question open the invocation returns or settles.
LEMMA StallEndWave ==
    ASSUME LoopInv, StallInv, EndWave
    PROVE  StallInv'
  <1>t. /\ flow \in Flows /\ run \in Invocations(flow) /\ run.at = "settleWave" /\ UNCHANGED flow
        /\ run.states \in [Nodes(flow) -> NodeStatus] /\ run.ready \in Seq(Nodes(flow))
        /\ run.cursor \in Nat \ {0} /\ run.cursor > Len(run.ready) /\ run.ret # "stalled"
        /\ run.startError \in {"none", "canceled", "elapsed"}
        /\ \A m \in Nodes(flow) : run.states[m] = "running" =>
              \/ task[Root(m)].result = "question" /\ Root(m) \in WavePaths
              \/ \E i \in DOMAIN run.ready : i >= run.cursor /\ m = run.ready[i]
    BY DEF LoopInv, LoopTypes, EndWave, Resting, ReadyInv, Picked, Invocations, StallInv,
           WaveInv, RunningNodes, NeverStalls
  <1> DEFINE r == [run EXCEPT !.aborting = FALSE, !.progressed = TRUE]
  <1>1. r \in Invocations(flow) /\ r.ret = run.ret /\ r.states = run.states /\ r.progressed = TRUE
    BY <1>t DEF Invocations
  <1>2. \/ run' = EndPass(r) /\ WaveError \notin {"canceled", "suspended", "budget", "elapsed"}
        \/ \E ret \in {"canceled", "suspended", "error"} : run' = Return(r, ret)
        \/ run' = [r EXCEPT !.at = "settle"]
    BY DEF EndWave
  <1> HIDE DEF r
  <1>3. CASE run' = EndPass(r) /\ WaveError \notin {"canceled", "suspended", "budget", "elapsed"}
    <2>1. ~HitlPending
      BY <1>t, <1>3 DEF WaveError
    <2>2. \A i \in DOMAIN run.ready : ~(i >= run.cursor)
      BY <1>t
    <2>3. \A m \in Nodes(flow) : run.states[m] # "running"
      BY <1>t, <2>1, <2>2 DEF HitlPending
    <2> QED
      BY <1>t, <1>1, <1>3, <2>3, StallEndPass
  <1>4. CASE \E ret \in {"canceled", "suspended", "error"} : run' = Return(r, ret)
    BY <1>t, <1>1, <1>4, StallAtRest DEF Return, Invocations
  <1>5. CASE run' = [r EXCEPT !.at = "settle"]
    BY <1>t, <1>1, <1>5, StallAtRest DEF Invocations
  <1> QED
    BY <1>2, <1>3, <1>4, <1>5

\* The node that runs alone stays current, and nothing else runs but the repair
\* cycle's target.
LEMMA StallGoesOn ==
    ASSUME StallInv, UNCHANGED flow, run'.at = "node", run'.ret = run.ret, run'.ready = run.ready,
           \A m \in Nodes(flow) : run'.states[m] = "running" =>
              m = Current \/ (run'.cycle.kind = "repair" /\ m = RepairTarget')
    PROVE  StallInv'
  <1>1. Current' = Current
    BY DEF Current
  <1>2. AloneInv'
    BY <1>1 DEF AloneInv, RunningNodes
  <1> QED
    BY <1>2 DEF StallInv, RestInv, WaveInv, PassInvariant, NeverStalls

\* A step of a node leaves the invocation with a question.
LEMMA StallSuspend ==
    ASSUME UNCHANGED flow, run \in Invocations(flow), NEW q, run' = Suspend(q)
    PROVE  StallInv'
  BY StallAtRest DEF Suspend, Invocations

\* A cycle that has used up its attempts leaves none of its nodes running.
LEMMA StallExhausted ==
    ASSUME LoopInv, StallInv, run.at = "node", UNCHANGED flow,
           NEW n \in Nodes(flow), n = Current, Exhausted(n)
    PROVE  StallInv'
  <1>t. /\ flow \in Flows /\ run \in Invocations(flow) /\ run.ret # "stalled"
        /\ run.states \in [Nodes(flow) -> NodeStatus]
    BY CurrentFacts DEF LoopInv, LoopTypes, StallInv, NeverStalls
  <1> DEFINE p == flow.nodes[n].exhausted
             a == flow.nodes[n].repair
             b == flow.nodes[n].recheck
             r == IF run.cycle.kind = "repair"
                  THEN NodeState(NodeState(run, a, "skipped"), b, "skipped") ELSE run
  <1>1. a \in Nodes(flow) /\ b \in Nodes(flow) /\ p \in {"fail", "route", "ask"}
    BY <1>t, RepairTargets
  <1>2. \A m \in Nodes(flow) : run.states[m] = "running" =>
            m = n \/ (run.cycle.kind = "repair" /\ m \in {a, b})
    <2>1. run.cycle.kind = "repair" => run.cycle.owner = n
      BY CycleFacts
    <2> QED
      BY <2>1 DEF StallInv, AloneInv, RunningNodes, RepairTarget
  <1>3. \/ \E s \in {"success", "failed"} : run' = AfterSettling(r, n, s)
        \/ run' = Suspend(OnFailQuestion(Root(n)))
    <2>1. CASE p = "fail"
      BY <2>1 DEF Exhausted, AfterSettling
    <2>2. CASE p = "route"
      BY <2>2 DEF Exhausted, AfterSettling
    <2>3. CASE p = "ask"
      BY <2>3 DEF Exhausted, AfterSettling, Ask
    <2> QED
      BY <1>1, <2>1, <2>2, <2>3
  <1> HIDE DEF a, b
  <1>4. /\ r \in Invocations(flow) /\ r.ret = run.ret /\ r.states \in [Nodes(flow) -> NodeStatus]
        /\ \A m \in Nodes(flow) \ {n} : r.states[m] # "running"
    <2>1. CASE run.cycle.kind = "repair"
      <3> DEFINE q == NodeState(run, a, "skipped")
      <3>1. /\ q \in Invocations(flow) /\ q.ret = run.ret /\ q.states \in [Nodes(flow) -> NodeStatus]
            /\ \A m \in Nodes(flow) : q.states[m] = IF m = a THEN "skipped" ELSE run.states[m]
        BY <1>t, <1>1, NodeStateFacts DEF NodeStatus
      <3>2. r = NodeState(q, b, "skipped")
        BY <2>1
      <3> HIDE DEF q, r
      <3>3. /\ r \in Invocations(flow) /\ r.ret = q.ret /\ r.states \in [Nodes(flow) -> NodeStatus]
            /\ \A m \in Nodes(flow) : r.states[m] = IF m = b THEN "skipped" ELSE q.states[m]
        BY <1>1, <3>1, <3>2, NodeStateFacts DEF NodeStatus
      <3> QED
        BY <1>2, <3>1, <3>3
    <2>2. CASE run.cycle.kind # "repair"
      BY <1>t, <1>2, <2>2
    <2> QED
      BY <2>1, <2>2
  <1> HIDE DEF r
  <1>5. CASE \E s \in {"success", "failed"} : run' = AfterSettling(r, n, s)
    BY <1>t, <1>4, <1>5, StallSettling DEF Settled
  <1>6. CASE run' = Suspend(OnFailQuestion(Root(n)))
    BY <1>t, <1>6, StallSuspend
  <1> QED
    BY <1>3, <1>5, <1>6

\* A node outside the repair cycles.
LEMMA StallNode ==
    ASSUME LoopInv, StallInv, NodeDone \/ StartRegenerate \/ RegenerateDone
    PROVE  StallInv'
  <1>0. run.at = "node" /\ run.cycle.kind # "repair" /\ UNCHANGED flow
    BY DEF NodeDone, StartRegenerate, RegenerateDone, NoCycle
  <1>n. PICK n \in Nodes(flow) : n = Current
    BY <1>0, CurrentFacts
  <1>t. /\ run \in Invocations(flow) /\ run.ret # "stalled" /\ flow \in Flows
        /\ run.states \in [Nodes(flow) -> NodeStatus]
        /\ \A m \in Nodes(flow) \ {n} : run.states[m] # "running"
    BY <1>0, <1>n, CurrentFacts DEF LoopInv, LoopTypes, StallInv, NeverStalls, AloneInv, RunningNodes
  <1>1. ASSUME NEW s \in {"success", "failed"}, NEW status, Settle(n, s, status) PROVE StallInv'
    <2>1. run' = AfterSettling(run, n, s)
      BY <1>1 DEF Settle, AfterSettling
    <2> QED
      BY <1>0, <1>t, <2>1, StallSettling DEF Settled
  <1>2. ASSUME NEW q, Ask(n, q) PROVE StallInv'
    BY <1>0, <1>t, <1>2, StallSuspend DEF Ask
  <1>3. ASSUME run'.at = "node", run'.ret = run.ret, run'.ready = run.ready, run'.states = run.states
        PROVE  StallInv'
    BY <1>0, <1>n, <1>t, <1>3, StallGoesOn
  <1>4. CASE NodeDone
    <2> DEFINE r == task[Root(n)].result
               p == flow.nodes[n].onFail
    <2>1. \/ \E s \in {"success", "failed"} : \E status : Settle(n, s, status)
          \/ \E q : Ask(n, q)
          \/ \E c : run' = [run EXCEPT !.cycle = c]
          \/ NodeError(n, r)
      BY <1>4, <1>n DEF NodeDone
    <2>2. CASE \E c : run' = [run EXCEPT !.cycle = c]
      <3>1. run'.at = "node" /\ run'.ret = run.ret /\ run'.ready = run.ready /\ run'.states = run.states
        BY <1>0, <1>t, <2>2 DEF Invocations
      <3> QED
        BY <1>3, <3>1
    <2>3. CASE NodeError(n, r)
      <3>1. CASE run' = Return(run, "canceled")
        BY <1>0, <1>t, <3>1, StallReturn DEF Returns
      <3>2. CASE \E at \in {"settle", "loop"} : run' = [NodeState(run, n, "failed") EXCEPT !.at = at]
        <4>1. PICK at \in {"settle", "loop"} : run' = [NodeState(run, n, "failed") EXCEPT !.at = at]
          BY <3>2
        <4> DEFINE q == NodeState(run, n, "failed")
        <4>2. /\ q \in Invocations(flow) /\ q.ret = run.ret
              /\ \A m \in Nodes(flow) : q.states[m] = IF m = n THEN "failed" ELSE run.states[m]
          BY <1>t, NodeStateFacts DEF NodeStatus
        <4>3. run' = [q EXCEPT !.at = at]
          BY <4>1
        <4> HIDE DEF q
        <4>4. run'.at = at /\ run'.ret = run.ret /\ run'.states = q.states
          BY <4>2, <4>3 DEF Invocations
        <4> QED
          BY <1>0, <1>t, <4>2, <4>4, StallAtRest
      <3> QED
        BY <2>3, <3>1, <3>2 DEF NodeError
    <2> QED
      BY <1>1, <1>2, <2>1, <2>2, <2>3
  <1>5. CASE StartRegenerate
    <2>1. CASE Exhausted(n)
      BY <1>0, <1>n, <2>1, StallExhausted
    <2>2. CASE \E ret \in {"canceled", "error"} : run' = Return(run, ret)
      BY <1>0, <1>t, <2>2, StallReturn DEF Returns
    <2>3. CASE UNCHANGED run
      BY <1>0, <1>3, <2>3
    <2> QED
      BY <1>5, <1>n, <2>1, <2>2, <2>3 DEF StartRegenerate
  <1>6. CASE RegenerateDone
    <2>1. \/ Settle(n, "success", "regenerated")
          \/ \E q : Ask(n, q)
          \/ run' = NextAttempt
          \/ \E ret \in {"canceled", "error"} : run' = Return(run, ret)
      BY <1>6, <1>n DEF RegenerateDone
    <2>2. CASE run' = NextAttempt
      <3>1. NextAttempt.ret = run.ret
        BY <1>t DEF NextAttempt, Invocations
      <3> QED
        BY <1>0, <1>3, <1>t, <2>2, <3>1, NextAttemptFacts
    <2>3. CASE \E ret \in {"canceled", "error"} : run' = Return(run, ret)
      BY <1>0, <1>t, <2>3, StallReturn DEF Returns
    <2> QED
      BY <1>1, <1>2, <2>1, <2>2, <2>3
  <1> QED
    BY <1>4, <1>5, <1>6

\* A repair cycle: its target runs, or it has settled.
LEMMA StallRepair ==
    ASSUME LoopInv, StallInv, StartRepair \/ RepairDone
    PROVE  StallInv'
  <1>0. run.at = "node" /\ run.cycle.kind = "repair" /\ UNCHANGED flow
    BY DEF StartRepair, RepairDone
  <1>o. PICK o \in Nodes(flow) : o = Current /\ o = run.cycle.owner
    BY <1>0, CurrentFacts, CycleFacts
  <1>n. PICK n \in Nodes(flow) : n = RepairTarget
    BY <1>0, CycleFacts
  <1>t. /\ run \in Invocations(flow) /\ run.ret # "stalled" /\ flow \in Flows
        /\ run.states \in [Nodes(flow) -> NodeStatus]
        /\ \A m \in Nodes(flow) \ {o, n} : run.states[m] # "running"
    BY <1>0, <1>o, <1>n, CurrentFacts
       DEF LoopInv, LoopTypes, StallInv, NeverStalls, AloneInv, RunningNodes
  <1>1. ASSUME NEW d, NamedSuccess(n, d) PROVE StallInv'
    <2> DEFINE q == NodeState(run, n, "success")
    <2>1. /\ q \in Invocations(flow) /\ q.at = run.at /\ q.ret = run.ret /\ q.ready = run.ready
          /\ q.states \in [Nodes(flow) -> NodeStatus]
          /\ \A m \in Nodes(flow) : q.states[m] = IF m = n THEN "success" ELSE run.states[m]
      BY <1>t, NodeStateFacts DEF NodeStatus
    <2>2. run' = AfterSettling(q, o, "success") \/ run' = [q EXCEPT !.cycle.part = "recheck"]
      BY <1>o, <1>1 DEF NamedSuccess, RepairSettled, AfterSettling
    <2> HIDE DEF q
    <2>3. \A m \in Nodes(flow) \ {o} : q.states[m] # "running"
      BY <1>t, <2>1
    <2>4. CASE run' = AfterSettling(q, o, "success")
      BY <1>0, <1>t, <2>1, <2>3, <2>4, StallSettling DEF Settled
    <2>5. CASE run' = [q EXCEPT !.cycle.part = "recheck"]
      <3>1. run'.at = "node" /\ run'.ret = run.ret /\ run'.ready = run.ready /\ run'.states = q.states
        BY <1>0, <2>1, <2>5 DEF Invocations
      <3> QED
        BY <1>0, <1>o, <2>3, <3>1, StallGoesOn
    <2> QED
      BY <2>2, <2>4, <2>5
  <1>2. CASE StartRepair
    <2>1. \/ Exhausted(o)
          \/ \E ret \in {"canceled", "error"} : run' = Return(run, ret)
          \/ NamedSuccess(n, disk)
          \/ run' = NodeState(run, n, "running")
      BY <1>o, <1>n, <1>2 DEF StartRepair
    <2>2. CASE Exhausted(o)
      BY <1>0, <1>o, <2>2, StallExhausted
    <2>3. CASE \E ret \in {"canceled", "error"} : run' = Return(run, ret)
      BY <1>0, <1>t, <2>3, StallReturn DEF Returns
    <2>4. CASE run' = NodeState(run, n, "running")
      <3>1. /\ run'.at = "node" /\ run'.ret = run.ret /\ run'.ready = run.ready
            /\ run'.cycle = run.cycle
            /\ \A m \in Nodes(flow) : run'.states[m] = IF m = n THEN "running" ELSE run.states[m]
        BY <1>0, <1>t, <2>4, NodeStateFacts DEF NodeStatus
      <3>2. RepairTarget' = n
        BY <1>0, <1>n, <3>1 DEF RepairTarget
      <3> QED
        BY <1>0, <1>o, <1>t, <3>1, <3>2, StallGoesOn
    <2> QED
      BY <1>1, <2>1, <2>2, <2>3, <2>4
  <1>3. CASE RepairDone
    <2>1. \/ \E d : NamedSuccess(n, d)
          \/ \E q : run' = Suspend(q)
          \/ run' = NodeState(NextAttempt, n, "failed")
          \/ \E ret \in {"canceled", "error"} : run' = Return(run, ret)
      BY <1>n, <1>3 DEF RepairDone
    <2>2. CASE run' = NodeState(NextAttempt, n, "failed")
      <3>1. NextAttempt.ret = run.ret
        BY <1>t DEF NextAttempt, Invocations
      <3>2. /\ run'.at = "node" /\ run'.ret = run.ret /\ run'.ready = run.ready
            /\ \A m \in Nodes(flow) : run'.states[m] = IF m = n THEN "failed" ELSE run.states[m]
        BY <1>0, <1>t, <2>2, <3>1, NextAttemptFacts, NodeStateFacts DEF NodeStatus
      <3> QED
        BY <1>0, <1>o, <1>t, <3>2, StallGoesOn
    <2>3. CASE \E ret \in {"canceled", "error"} : run' = Return(run, ret)
      BY <1>0, <1>t, <2>3, StallReturn DEF Returns
    <2>4. CASE \E q : run' = Suspend(q)
      BY <1>0, <1>t, <2>4, StallSuspend
    <2> QED
      BY <1>1, <2>1, <2>2, <2>3, <2>4
  <1> QED
    BY <1>2, <1>3

\* The tasks and the world outside leave the scheduler's memory alone.
LEMMA StallOutside ==
    ASSUME LoopInv, StallInv,
           \/ \E x \in Paths(flow) : TaskStep(x)
           \/ Answer \/ Cancel \/ RequestYield \/ Expire
           \/ UNCHANGED loopVars
    PROVE  StallInv'
  <1>t. run \in Invocations(flow)
    BY DEF LoopInv, LoopTypes
  <1>1. CASE \E x \in Paths(flow) : TaskStep(x)
    <2>1. PICK x \in Paths(flow) : TaskStep(x)
      BY <1>1
    <2>2. UNCHANGED flow /\ (UNCHANGED run \/ run' = [run EXCEPT !.budget = @ + 1])
      BY <2>1 DEF TaskStep, Charge, Attempt, Effect, DropTask
    <2>3. task[x].stage \in {"charge", "attempt", "effect"}
      BY <2>1 DEF TaskStep, Charge, Attempt, Effect, DropTask
    <2>4. run.at # "settleWave"
      BY <2>3 DEF LoopInv, TaskInv, Busy
    <2> QED
      BY <1>t, <2>2, <2>4, StallFrame DEF Invocations
  <1>2. CASE Answer \/ Cancel \/ RequestYield \/ Expire \/ UNCHANGED loopVars
    <2>1. UNCHANGED <<flow, run, task>>
      BY <1>2 DEF Answer, Cancel, RequestYield, Expire, loopVars
    <2> QED
      BY <2>1, StallFrame
  <1> QED
    BY <1>1, <1>2

\* The scheduler of a flow in topological order never reports that no runnable
\* node remains.
THEOREM NeverStallsCorrect == LoopSpec => []NeverStalls
  <1>1. LoopInit => StallInv
    <2> SUFFICES ASSUME LoopInit PROVE StallInv
      OBVIOUS
    <2>1. run = Idle
      BY DEF LoopInit
    <2>2. run.at = "idle" /\ run.ret = "none"
      BY <2>1 DEF Idle
    <2> QED
      BY <2>2 DEF StallInv, RestInv, WaveInv, AloneInv, PassInvariant, NeverStalls
  <1>2. LoopInv /\ LoopInv' /\ StallInv /\ [LoopNext]_loopVars => StallInv'
    BY StallSetup, StallLoopTop, StallScan, StallDispatch, StallStartWave, StallWave,
       StallSettleWave, StallEndWave, StallNode, StallRepair, StallOutside
       DEF LoopNext, Scheduler
  <1>3. StallInv => NeverStalls
    BY DEF StallInv
  <1> QED
    BY <1>1, <1>2, <1>3, LoopInvariant, PTL DEF LoopSpec

-----------------------------------------------------------------------------
(* Types. *)

\* The variables the invariant does not speak of.
SignalTypes ==
    /\ stop \in BOOLEAN /\ yield \in BOOLEAN /\ expired \in BOOLEAN
    /\ kept \subseteq Nodes(flow) /\ interruptions \in 0..MaxInterruptions

\* The variables keep the shape the loop gives them, in every invocation.
THEOREM EngineTypesCorrect == LoopSpec => []EngineTypeOK
  <1>1. LoopInit => SignalTypes
    <2>1. 0 \in 0..MaxInterruptions
      BY EngineAssumption
    <2> QED
      BY <2>1 DEF LoopInit, SignalTypes
  <1>2. SignalTypes /\ [LoopNext]_loopVars => SignalTypes'
    <2> SUFFICES ASSUME SignalTypes, [LoopNext]_loopVars PROVE SignalTypes'
      OBVIOUS
    <2>1. CASE UNCHANGED <<flow, stop, yield, expired, kept, interruptions>>
      BY <2>1 DEF SignalTypes
    <2>2. CASE LoopTop
      BY <2>2 DEF LoopTop, SignalTypes
    <2>3. CASE EndInvocation
      BY <2>3 DEF EndInvocation, SignalTypes
    <2>4. CASE ProcessDies
      <3>1. UNCHANGED <<flow, expired, kept>> /\ stop' = FALSE /\ yield' = FALSE
        BY <2>4 DEF ProcessDies
      <3>2. interruptions' \in 0..MaxInterruptions
        BY <2>4, EngineAssumption DEF ProcessDies, SignalTypes
      <3> QED
        BY <3>1, <3>2 DEF SignalTypes
    <2>5. CASE Cancel \/ Expire
      BY <2>5 DEF Cancel, Expire, SignalTypes
    <2>6. CASE RequestYield
      <3>1. UNCHANGED <<flow, stop, expired, kept>> /\ yield' = TRUE
        BY <2>6 DEF RequestYield
      <3>2. interruptions' \in 0..MaxInterruptions
        BY <2>6, EngineAssumption DEF RequestYield, SignalTypes
      <3> QED
        BY <3>1, <3>2 DEF SignalTypes
    <2>7. CASE UNCHANGED loopVars
      BY <2>1, <2>7 DEF loopVars
    <2>8. CASE \E x \in Paths(flow) : TaskStep(x) \/ JoinTask(x)
      BY <2>1, <2>8 DEF TaskStep, Charge, Attempt, Effect, DropTask, JoinTask
    <2>9. CASE \/ Invoke \/ RunHook \/ HookDone \/ Scan \/ Dispatch \/ Answer
               \/ StartWaveNode \/ CancelWave \/ WaveDrained \/ SettleWaveNode \/ EndWave
      BY <2>1, <2>9 DEF Invoke, RunHook, HookDone, Scan, Dispatch, Answer, StartWaveNode,
         CancelWave, WaveDrained, SettleWaveNode, EndWave
    <2>10. CASE \/ NodeDone \/ StartRegenerate \/ RegenerateDone \/ StartRepair \/ RepairDone
                \/ SettleRun \/ FinishRun
      BY <2>1, <2>10 DEF NodeDone, StartRegenerate, RegenerateDone, StartRepair, RepairDone,
         SettleRun, FinishRun
    <2> QED
      BY <2>2, <2>3, <2>4, <2>5, <2>6, <2>7, <2>8, <2>9, <2>10 DEF LoopNext, Scheduler
  <1>3. LoopInv /\ SignalTypes => EngineTypeOK
    <2> SUFFICES ASSUME LoopInv, SignalTypes PROVE EngineTypeOK
      OBVIOUS
    <2>1. LoopTypes
      BY DEF LoopInv
    <2>2. /\ flow \in Flows /\ task \in [Paths(flow) -> Tasks] /\ applied \in [Paths(flow) -> Nat]
          /\ run.at \notin Resting => run.states \in [Nodes(flow) -> NodeStatus]
      BY <2>1 DEF LoopTypes
    <2>3. /\ disk.outcome \in [Paths(flow) -> Outcomes] /\ disk.ops \in [Paths(flow) -> Operations]
          /\ disk.unresolved \subseteq Paths(flow) /\ disk.stuck \subseteq Paths(flow)
          /\ disk.hooksSettled \subseteq Paths(flow) /\ disk.terminal \in Verdicts
          /\ disk.charged \in Nat /\ disk.started \in Nat /\ disk.hasCharges \in BOOLEAN
      BY <2>1 DEF LoopTypes, Disks
    <2>4. run.at \in Points
      BY <2>1 DEF LoopTypes, Invocations
    <2> QED
      BY <2>2, <2>3, <2>4 DEF EngineTypeOK, SignalTypes, Outcomes, Operations, Verdicts, Points,
         Resting, NodeStatus, Tasks
  <1> QED
    BY <1>1, <1>2, <1>3, LoopInvariant, PTL DEF LoopSpec


-----------------------------------------------------------------------------
(* Unknown effects.                                                        *)

(* A failed check aborts the rest of its wave without an error             *)
(* (engine_unreported.cfg): it shares a wave only with what may be         *)
(* executed again.                                                         *)
ChecksApart ==
    \A f \in Flows : \A m, n \in Nodes(f) :
        /\ m # n /\ "check" \in f.nodes[m].may
        /\ \A k \in {m, n} : f.nodes[k].safe /\ f.nodes[k].onFail = "none"
        => f.nodes[n].replaySafe

Waves == {"starting", "wave", "settleWave"}
\* What stops a wave: a signal, or a joined report other than a success.
Cause ==
    \/ run.parentCanceled \/ run.startError # "none"
    \/ \E y \in WavePaths : task[y].stage = "joined" /\ task[y].result \notin {"none", "success"}
Lost(t) == t.stage = "dropped" \/ (t.stage = "joined" /\ t.result = "none")

\* A task that ends has a result, and a failed check only where one can be.
ReportInv ==
    \A x \in Paths(flow) :
        /\ task[x].stage = "done" => task[x].result # "none"
        /\ task[x].result = "check" \/ disk.ops[x] = "check" => "check" \in Def(x).may
\* A wave has what can run in parallel, loses a task only for a cause, and has
\* an error once it has settled one.
AbortInv ==
    /\ run.at \in Waves =>
          /\ \A i \in DOMAIN run.ready : is_parallel_safe_node(run.ready[i])
          /\ run.aborting \/ (\E x \in Paths(flow) : Lost(task[x])) => Cause
    /\ run.at = "settleWave" /\ ~HitlPending /\ run.errors = {} =>
          \A i \in DOMAIN run.ready :
              i < run.cursor => task[Root(run.ready[i])].result \in {"none", "success", "check"}
\* What is unresolved outside a wave may be executed again; in a wave it may
\* also be a task that the wave has joined.
UnresolvedInv ==
    \A x \in disk.unresolved :
        \/ run.at \in Resting \/ Def(x).replaySafe
        \/ /\ run.at \in {"wave", "settleWave"} /\ x \in WavePaths
           /\ task[x].stage = "joined" /\ task[x].result \in {"none", "canceled"}

(* Inductive together with LoopInv. *)
UnknownInv == ReportInv /\ AbortInv /\ UnresolvedInv

\* What a journal may become without a new unknown effect or a new result.
Calmer(d, e) ==
    /\ e \in Disks(flow) /\ e.unresolved \subseteq d.unresolved
    /\ \A x \in Paths(flow) : e.ops[x] \in {d.ops[x], "none"}

\* The events of a step's end are calm.
LEMMA CalmEvents ==
    ASSUME flow \in Flows, NEW d \in Disks(flow), NEW x \in Paths(flow), NEW s
    PROVE  /\ Calmer(d, StepFinished(d, x, s)) /\ Calmer(d, d)
           /\ \A q \in Questions(flow) : Calmer(d, StepSuspended(d, x, q))
           /\ \A n \in Nodes(flow) : Calmer(d, StepSkipped(d, n))
  <1>1. Calmer(d, StepFinished(d, x, s))
    <2>1. StepFinished(d, x, s).unresolved = d.unresolved \ {x}
      BY DEF StepFinished, Disks
    <2> QED
      BY <2>1, FinishedFacts DEF Calmer
  <1>2. ASSUME NEW q \in Questions(flow) PROVE Calmer(d, StepSuspended(d, x, q))
    <2>1. StepSuspended(d, x, q).unresolved = d.unresolved \ {x}
      BY DEF StepSuspended, Disks
    <2> QED
      BY <2>1, SuspendedFacts DEF Calmer
  <1>3. ASSUME NEW n \in Nodes(flow) PROVE Calmer(d, StepSkipped(d, n))
    <2>1. StepSkipped(d, n).unresolved = d.unresolved
      BY DEF StepSkipped, Disks
    <2> QED
      BY <2>1, SkippedFacts DEF Calmer
  <1>4. Calmer(d, d)
    BY DEF Calmer
  <1> QED
    BY <1>1, <1>2, <1>3, <1>4

\* So is every event about other things.
LEMMA CalmFields ==
    ASSUME disk \in Disks(flow), disk' \in Disks(flow),
           disk'.unresolved = disk.unresolved, disk'.ops = disk.ops
    PROVE  Calmer(disk, disk')
  BY DEF Calmer

\* A scheduler's step starts, takes or joins tasks: no result is made up.
LEMMA ReportKept ==
    ASSUME UnknownInv, UNCHANGED flow, Calmer(disk, disk'),
           \A x \in Paths(flow) :
              \/ task'[x] = task[x] \/ task'[x] \in {IdleTask, NewTask}
              \/ task'[x].stage = "joined" /\ task'[x].result \in {task[x].result, "none"}
    PROVE  ReportInv'
  <1>1. Paths(flow)' = Paths(flow) /\ \A x : Def(x)' = Def(x)
    BY DEF Paths, Nodes, Root, Hook, Child, Def
  <1>2. /\ IdleTask.stage # "done" /\ IdleTask.result = "none"
        /\ NewTask.stage # "done" /\ NewTask.result = "none"
    BY DEF IdleTask, NewTask
  <1>3. ASSUME NEW x \in Paths(flow)
        PROVE  /\ task'[x].stage = "done" => task'[x].result # "none"
               /\ task'[x].result = "check" \/ disk'.ops[x] = "check" => "check" \in Def(x).may
    <2>1. /\ task[x].stage = "done" => task[x].result # "none"
          /\ task[x].result = "check" \/ disk.ops[x] = "check" => "check" \in Def(x).may
      BY DEF UnknownInv, ReportInv
    <2>2. disk'.ops[x] \in {disk.ops[x], "none"}
      BY DEF Calmer
    <2> QED
      BY <1>2, <2>1, <2>2
  <1> QED
    BY <1>1, <1>3 DEF ReportInv

\* Away from the waves.
LEMMA CalmStep ==
    ASSUME UnknownInv, UNCHANGED flow, ReportInv', Calmer(disk, disk'),
           run'.at \notin Waves, run'.at \in Resting \/ run.at \notin Resting \cup Waves
    PROVE  UnknownInv'
  <1>1. \A x : Def(x)' = Def(x)
    BY DEF Def
  <1>2. AbortInv'
    BY DEF AbortInv, Waves
  <1>3. disk'.unresolved \subseteq disk.unresolved
    BY DEF Calmer
  <1>4. UnresolvedInv'
    <2>1. CASE run'.at \in Resting
      BY <2>1 DEF UnresolvedInv
    <2>2. CASE run.at \notin Resting \cup Waves
      <3>1. \A x \in disk.unresolved : Def(x).replaySafe
        BY <2>2 DEF UnknownInv, UnresolvedInv, Waves
      <3> QED
        BY <1>1, <1>3, <3>1 DEF UnresolvedInv
    <2> QED
      BY <2>1, <2>2
  <1> QED
    BY <1>2, <1>4 DEF UnknownInv

\* One task is started, taken or reset.
LEMMA OneTask ==
    ASSUME task \in [Paths(flow) -> Tasks], NEW x \in Paths(flow), NEW t \in {IdleTask, NewTask},
           task' = [task EXCEPT ![x] = t]
    PROVE  \A y \in Paths(flow) : task'[y] = task[y] \/ task'[y] \in {IdleTask, NewTask}
  OBVIOUS

\* The setup, the hooks and the ends of an invocation.
LEMMA UnknownSetup ==
    ASSUME LoopInv, LoopInv', UnknownInv, Invoke \/ RunHook \/ HookDone \/ SettleRun \/ FinishRun
                              \/ EndInvocation \/ ProcessDies
    PROVE  UnknownInv'
  <1>t. /\ flow \in Flows /\ disk \in Disks(flow) /\ run \in Invocations(flow)
        /\ task \in [Paths(flow) -> Tasks] /\ UNCHANGED flow /\ disk' \in Disks(flow)
    BY DEF LoopInv, LoopTypes, Invoke, RunHook, HookDone, SettleRun, FinishRun, EndInvocation, ProcessDies
  <1>1. CASE Invoke
    <2>1. disk' \in {disk, [disk EXCEPT !.executionStarted = TRUE]} /\ UNCHANGED task
      BY <1>1 DEF Invoke
    <2>2. disk'.unresolved = disk.unresolved /\ disk'.ops = disk.ops
      BY <1>t, <2>1 DEF Disks
    <2>3. Calmer(disk, disk') /\ ReportInv'
      BY <1>t, <2>1, <2>2, CalmFields, ReportKept
    <2>4. CASE \E ret : run' = Return(Idle, ret)
      <3>1. run'.at = "returned"
        BY <2>4 DEF Return, Idle
      <3> QED
        BY <1>t, <2>3, <3>1, CalmStep DEF Waves, Resting
    <2>5. CASE MayResume(disk) /\ run' = [Idle EXCEPT !.at = "hook", !.event = "run_started",
                                   !.states = NodeStates(disk), !.budget = BudgetSeed(disk)]
      <3>1. run'.at = "hook"
        BY <2>5 DEF Idle
      <3>2. \A x \in disk.unresolved : Def(x).replaySafe
        BY <2>5 DEF MayResume, Def
      <3>3. UnresolvedInv'
        BY <1>t, <2>2, <3>2 DEF UnresolvedInv, Def
      <3>4. AbortInv'
        BY <3>1 DEF AbortInv, Waves
      <3> QED
        BY <2>3, <3>3, <3>4 DEF UnknownInv
    <2> QED
      BY <1>1, <2>4, <2>5 DEF Invoke
  <1>2. ASSUME run.at = "hook",
               run' = AfterHooks(run) \/ UNCHANGED run \/ \E ret : run' = Return(run, ret)
        PROVE  /\ run'.at \notin Waves
               /\ run'.at \in Resting \/ run.at \notin Resting \cup Waves
    <2>1. run.event \in Events
      BY <1>2 DEF LoopInv, LoopTypes
    <2>2. run' = AfterHooks(run) => run'.at \in {"loop", "hook", "finish"}
      BY <1>t, <1>2, <2>1, AfterHooksFacts
    <2>3. (\E ret : run' = Return(run, ret)) => run'.at = "returned"
      BY <1>t DEF Return, Invocations
    <2> QED
      BY <1>2, <2>2, <2>3 DEF Waves, Resting
  <1>3. CASE RunHook
    <2>1. /\ run.at = "hook" /\ (run' = AfterHooks(run) \/ UNCHANGED run)
          /\ disk' \in {disk, [disk EXCEPT !.hooksSettled = @ \cup {Hook(run.event)}],
                        [disk EXCEPT !.started = @ + 1]}
          /\ \/ UNCHANGED task
             \/ ~HookSettled(disk, run.event) /\ task' = [task EXCEPT ![Hook(run.event)] = NewTask]
      BY <1>3 DEF RunHook
    <2>2. Calmer(disk, disk')
      BY <1>t, <2>1, CalmFields DEF Disks
    <2>3. ~HookSettled(disk, run.event) => Hook(run.event) \in Paths(flow)
      BY <1>t, PathFacts DEF HookSettled
    <2>4. \A y \in Paths(flow) : task'[y] = task[y] \/ task'[y] \in {IdleTask, NewTask}
      BY <1>t, <2>1, <2>3, OneTask
    <2> QED
      BY <1>t, <1>2, <2>1, <2>2, <2>4, ReportKept, CalmStep
  <1>4. CASE HookDone
    <2>1. PICK e \in DOMAIN flow.hooks :
            /\ task' = [task EXCEPT ![Hook(e)] = IdleTask]
            /\ \/ \E s : disk' = StepFinished(disk, Hook(e), s)
               \/ \E s, hs : disk' = [StepFinished(disk, Hook(e), s) EXCEPT !.hooksSettled = hs]
               \/ \E hs : disk' = [disk EXCEPT !.hooksSettled = hs]
               \/ UNCHANGED disk
            /\ run' = AfterHooks(run) \/ \E ret : run' = Return(run, ret)
      BY <1>4 DEF HookDone
    <2>2. Hook(e) \in Paths(flow)
      BY <1>t, PathFacts
    <2>3. Calmer(disk, disk')
      <3>1. CASE \E s : disk' = StepFinished(disk, Hook(e), s)
        BY <1>t, <2>2, <3>1, CalmEvents
      <3>2. CASE \E s, hs : disk' = [StepFinished(disk, Hook(e), s) EXCEPT !.hooksSettled = hs]
        <4>1. PICK s, hs : disk' = [StepFinished(disk, Hook(e), s) EXCEPT !.hooksSettled = hs]
          BY <3>2
        <4> DEFINE d == StepFinished(disk, Hook(e), s)
        <4>2. d \in Disks(flow) /\ Calmer(disk, d)
          BY <1>t, <2>2, CalmEvents DEF Calmer
        <4>3. disk' = [d EXCEPT !.hooksSettled = hs]
          BY <4>1
        <4> HIDE DEF d
        <4>4. disk'.unresolved = d.unresolved /\ disk'.ops = d.ops
          BY <4>2, <4>3 DEF Disks
        <4> QED
          BY <1>t, <4>2, <4>4 DEF Calmer
      <3>3. CASE \E hs : disk' = [disk EXCEPT !.hooksSettled = hs]
        BY <1>t, <3>3, CalmFields DEF Disks
      <3>4. CASE UNCHANGED disk
        BY <1>t, <3>4, CalmFields
      <3> QED
        BY <2>1, <3>1, <3>2, <3>3, <3>4
    <2>4. \A y \in Paths(flow) : task'[y] = task[y] \/ task'[y] \in {IdleTask, NewTask}
      BY <1>t, <2>1, <2>2, OneTask
    <2>5. run.at = "hook"
      BY <1>4 DEF HookDone
    <2> QED
      BY <1>t, <1>2, <2>1, <2>3, <2>4, <2>5, ReportKept, CalmStep
  <1>5. CASE SettleRun \/ FinishRun
    <2>1. /\ run.at \in {"settle", "finish"} /\ UNCHANGED task
          /\ disk' = disk \/ \E v : disk' = [disk EXCEPT !.terminal = v]
          /\ \/ \E ret : run' = Return(run, ret)
             \/ run' = [run EXCEPT !.at = "hook", !.event = "step_failed", !.failed = TRUE]
             \/ run' = [run EXCEPT !.at = "hook", !.event = "run_succeeded"]
      BY <1>5 DEF SettleRun, FinishRun
    <2>2. Calmer(disk, disk')
      BY <1>t, <2>1, CalmFields DEF Disks
    <2>3. run'.at \in {"returned", "hook"}
      BY <1>t, <2>1 DEF Return, Invocations
    <2> QED
      BY <1>t, <2>1, <2>2, <2>3, ReportKept, CalmStep DEF Waves, Resting
  <1>6. CASE EndInvocation \/ ProcessDies
    <2>1. /\ run' = Idle /\ task' = [x \in Paths(flow) |-> IdleTask]
          /\ disk' = disk \/ \E v, p : disk' = [disk EXCEPT !.terminal = v, !.prompts = p]
      BY <1>6 DEF EndInvocation, ProcessDies
    <2>2. Calmer(disk, disk')
      BY <1>t, <2>1, CalmFields DEF Disks
    <2>3. run'.at = "idle"
      BY <2>1 DEF Idle
    <2> QED
      BY <1>t, <2>1, <2>2, <2>3, ReportKept, CalmStep DEF Waves, Resting
  <1> QED
    BY <1>1, <1>3, <1>4, <1>5, <1>6

\* The loop's top, the pass and the dispatch.
LEMMA UnknownPass ==
    ASSUME LoopInv, LoopInv', UnknownInv, LoopTop \/ Scan \/ Dispatch
    PROVE  UnknownInv'
  <1>t. /\ flow \in Flows /\ disk \in Disks(flow) /\ run \in Invocations(flow)
        /\ task \in [Paths(flow) -> Tasks] /\ UNCHANGED flow /\ disk' \in Disks(flow)
        /\ run.at \in {"loop", "scan"} /\ \A x \in Paths(flow) : task[x].stage = "idle"
    BY DEF LoopInv, LoopTypes, LoopTop, Scan, Dispatch, TaskInv, Busy
  <1>1. ASSUME run'.at \notin Waves, Calmer(disk, disk'),
               \A y \in Paths(flow) : task'[y] = task[y] \/ task'[y] \in {IdleTask, NewTask}
        PROVE  UnknownInv'
    BY <1>t, <1>1, ReportKept, CalmStep DEF Waves, Resting
  <1>2. CASE LoopTop
    <2>1. /\ UNCHANGED <<disk, task>>
          /\ \/ \E ret : run' = Return(run, ret)
             \/ run' = [run EXCEPT !.at = "scan", !.cursor = 1, !.ready = <<>>, !.progressed = FALSE]
      BY <1>2 DEF LoopTop
    <2>2. run'.at \in {"returned", "scan"}
      BY <1>t, <2>1 DEF Return, Invocations
    <2> QED
      BY <1>t, <1>1, <2>1, <2>2, CalmFields DEF Waves
  <1>3. CASE Scan
    <2>s. /\ run.at = "scan" /\ run.cursor \in Nat \ {0} /\ run.cursor <= Len(flow.order)
      BY <1>3 DEF Scan, LoopInv, ReadyInv, Picked
    <2>n. PICK n \in Nodes(flow) : n = flow.order[run.cursor]
      BY <1>t, <2>s, FlowFacts
    <2> DEFINE next == [run EXCEPT !.cursor = @ + 1]
    <2>1. /\ UNCHANGED task /\ disk' \in {disk, StepSkipped(disk, n)}
          /\ \/ run' = next
             \/ \E s \in {"skipped", "success"} : run' = [NodeState(next, n, s) EXCEPT !.progressed = TRUE]
             \/ run' = [next EXCEPT !.ready = Append(@, n)]
             \/ run' = Return(run, "error")
      BY <1>3, <2>n DEF Scan
    <2>2. run'.at \in {"scan", "returned"}
      BY <1>t, <2>s, <2>1 DEF Invocations, NodeState, Return
    <2>3. Calmer(disk, disk')
      BY <1>t, <2>1, CalmEvents, PathFacts
    <2> QED
      BY <1>1, <2>1, <2>2, <2>3 DEF Waves
  <1>4. CASE Dispatch
    <2>1. CASE run' = EndPass(run) /\ UNCHANGED <<disk, task>>
      <3>1. run'.at \notin Waves
        BY <1>t, <2>1, EndPassFacts DEF Waves
      <3> QED
        BY <1>t, <1>1, <2>1, <3>1, CalmFields
    <2>2. CASE (\E ret : run' = Return(run, ret)) /\ UNCHANGED <<disk, task>>
      <3>1. run'.at = "returned"
        BY <1>t, <2>2 DEF Return, Invocations
      <3> QED
        BY <1>t, <1>1, <2>2, <3>1, CalmFields DEF Waves
    <2>3. ASSUME run.ready # <<>>, run' = [NodeState(run, run.ready[1], "running") EXCEPT !.at = "node"],
                 disk' = [disk EXCEPT !.started = @ + 1],
                 task' = [task EXCEPT ![Root(run.ready[1])] = NewTask]
          PROVE  UnknownInv'
      <3>1. run.ready[1] \in Nodes(flow)
        BY <1>t, <2>3 DEF Invocations
      <3>2. Root(run.ready[1]) \in Paths(flow)
        BY <1>t, <3>1, PathFacts
      <3>3. run'.at = "node"
        BY <1>t, <2>3 DEF NodeState, Invocations
      <3>4. Calmer(disk, disk')
        BY <1>t, <2>3, CalmFields DEF Disks
      <3> QED
        BY <1>t, <1>1, <2>3, <3>2, <3>3, <3>4, OneTask DEF Waves
    <2>4. ASSUME Wave, UNCHANGED <<disk, task>>,
                 run' = [run EXCEPT !.at = "starting", !.cursor = 1, !.aborting = FALSE,
                                    !.parentCanceled = FALSE, !.startError = "none", !.errors = {}]
          PROVE  UnknownInv'
      <3>1. run'.at = "starting" /\ run'.aborting = FALSE /\ run'.ready = run.ready
        BY <1>t, <2>4 DEF Invocations
      <3>2. ReportInv'
        BY <1>t, <2>4, CalmFields, ReportKept
      <3>3. Paths(flow)' = Paths(flow) /\ \A x : Def(x)' = Def(x)
        BY <1>t DEF Paths, Nodes, Root, Hook, Child, Def
      <3>4. \A i \in DOMAIN run.ready : is_parallel_safe_node(run.ready[i])
        BY <1>t, <2>4 DEF Wave, Invocations
      <3>5. AbortInv'
        BY <1>t, <2>4, <3>1, <3>3, <3>4 DEF AbortInv, Lost, is_parallel_safe_node
      <3>6. \A x \in disk.unresolved : Def(x).replaySafe
        BY <1>t DEF UnknownInv, UnresolvedInv, Resting
      <3>7. UnresolvedInv'
        BY <2>4, <3>3, <3>6 DEF UnresolvedInv
      <3> QED
        BY <3>2, <3>5, <3>7 DEF UnknownInv
    <2> QED
      BY <1>4, <2>1, <2>2, <2>3, <2>4 DEF Dispatch
  <1> QED
    BY <1>2, <1>3, <1>4

\* The wave's nodes start; a refused start is a cause.
LEMMA UnknownStartWave ==
    ASSUME LoopInv, LoopInv', UnknownInv, StartWaveNode
    PROVE  UnknownInv'
  <1>t. /\ flow \in Flows /\ disk \in Disks(flow) /\ run \in Invocations(flow)
        /\ task \in [Paths(flow) -> Tasks] /\ UNCHANGED flow /\ disk' \in Disks(flow)
        /\ run.at = "starting" /\ run.ready \in Seq(Nodes(flow))
        /\ run.cursor \in Nat \ {0} /\ run.cursor <= Len(run.ready)
        /\ \A x \in Paths(flow) : Busy(x) => \E i \in 1..(run.cursor - 1) : x = Root(run.ready[i])
    BY DEF LoopInv, LoopTypes, StartWaveNode, TaskInv, ReadyInv, Picked, Invocations
  <1>p. Paths(flow)' = Paths(flow) /\ \A x : Def(x)' = Def(x)
    BY <1>t DEF Paths, Nodes, Root, Hook, Child, Def
  <1>u. \A x \in disk.unresolved : Def(x).replaySafe
    BY <1>t DEF UnknownInv, UnresolvedInv, Resting
  <1>a. /\ \A i \in DOMAIN run.ready : is_parallel_safe_node(run.ready[i])
        /\ run.aborting \/ (\E x \in Paths(flow) : Lost(task[x])) => Cause
    BY <1>t DEF UnknownInv, AbortInv, Waves
  <1>n. PICK n \in Nodes(flow) : n = run.ready[run.cursor] /\ Root(n) \in Paths(flow)
    BY <1>t, PathFacts
  <1>1. CASE /\ run' = [run EXCEPT !.at = "wave", !.aborting = TRUE,
                                   !.startError = IF stop THEN "canceled" ELSE "elapsed",
                                   !.ready = SubSeq(@, 1, run.cursor - 1)]
             /\ UNCHANGED <<disk, task>>
    <2>1. /\ run'.at = "wave" /\ run'.startError # "none"
          /\ run'.ready = SubSeq(run.ready, 1, run.cursor - 1)
      BY <1>t, <1>1 DEF Invocations
    <2>2. \A i \in DOMAIN run'.ready : i \in DOMAIN run.ready /\ run'.ready[i] = run.ready[i]
      BY <1>t, <2>1
    <2>3. AbortInv'
      BY <1>t, <1>a, <2>1, <2>2 DEF AbortInv, Cause, is_parallel_safe_node
    <2>4. ReportInv' /\ UnresolvedInv'
      BY <1>t, <1>p, <1>u, <1>1, CalmFields, ReportKept DEF UnresolvedInv
    <2> QED
      BY <2>3, <2>4 DEF UnknownInv
  <1>2. CASE /\ run' = [NodeState(run, run.ready[run.cursor], "running")
                          EXCEPT !.cursor = IF run.cursor = Len(run.ready) THEN @ ELSE @ + 1,
                                 !.at = IF run.cursor = Len(run.ready) THEN "wave" ELSE @]
             /\ disk' = [disk EXCEPT !.started = @ + 1]
             /\ task' = [task EXCEPT ![Root(run.ready[run.cursor])] = NewTask]
    <2>1. /\ run'.at \in {"starting", "wave"} /\ run'.ready = run.ready /\ run'.aborting = run.aborting
          /\ run'.parentCanceled = run.parentCanceled /\ run'.startError = run.startError
      BY <1>t, <1>2 DEF NodeState, Invocations
    <2>2. disk'.unresolved = disk.unresolved /\ Calmer(disk, disk')
      BY <1>t, <1>2, CalmFields DEF Disks
    <2>3. /\ task'[Root(n)] = NewTask /\ \A y \in Paths(flow) \ {Root(n)} : task'[y] = task[y]
          /\ WavePaths' = WavePaths /\ WavePaths \subseteq Paths(flow)
      BY <1>t, <1>n, <1>2, <2>1, PathFacts DEF WavePaths
    <2>4. ~Lost(NewTask) /\ NewTask.stage = "charge"
      BY DEF Lost, NewTask, IdleTask
    <2>5. task[Root(n)].stage # "joined"
      <3>1. ASSUME Busy(Root(n)) PROVE FALSE
        <4>1. PICK i \in 1..(run.cursor - 1) : Root(n) = Root(run.ready[i])
          BY <1>t, <1>n, <3>1
        <4>2. run.ready[i] = n /\ i \in DOMAIN run.ready /\ run.cursor \in DOMAIN run.ready
          BY <1>t, <4>1, PathFacts
        <4>3. i = run.cursor
          BY <1>t, <1>n, <4>2 DEF LoopInv, ReadyInv, Picked
        <4> QED
          BY <1>t, <4>3
      <3> QED
        BY <3>1 DEF Busy
    <2>6. Cause => Cause'
      BY <2>1, <2>3, <2>5 DEF Cause
    <2>7. (\E x \in Paths(flow) : Lost(task'[x])) => \E x \in Paths(flow) : Lost(task[x])
      BY <2>3, <2>4
    <2>8. AbortInv'
      BY <1>t, <1>p, <1>a, <2>1, <2>6, <2>7 DEF AbortInv, is_parallel_safe_node
    <2>9. ReportInv' /\ UnresolvedInv'
      BY <1>t, <1>n, <1>p, <1>u, <1>2, <2>2, <2>3, ReportKept DEF UnresolvedInv
    <2> QED
      BY <2>8, <2>9 DEF UnknownInv
  <1> QED
    BY <1>1, <1>2 DEF StartWaveNode

\* What a wave's paths are.
LEMMA WaveFacts ==
    ASSUME LoopInv, run.at \in {"wave", "settleWave"}
    PROVE  /\ flow \in Flows /\ disk \in Disks(flow) /\ run \in Invocations(flow)
           /\ task \in [Paths(flow) -> Tasks] /\ run.ready \in Seq(Nodes(flow))
           /\ WavePaths \subseteq Paths(flow)
           /\ \A x \in WavePaths : \E i \in DOMAIN run.ready : x = Root(run.ready[i])
  <1>1. /\ flow \in Flows /\ disk \in Disks(flow) /\ run \in Invocations(flow)
        /\ task \in [Paths(flow) -> Tasks] /\ run.ready \in Seq(Nodes(flow))
    BY DEF LoopInv, LoopTypes, Invocations
  <1> QED
    BY <1>1, PathFacts DEF WavePaths

\* A wave is canceled, joined or drained: what is joined as unreported has a cause.
LEMMA UnknownWave ==
    ASSUME LoopInv, LoopInv', UnknownInv,
           CancelWave \/ WaveDrained \/ \E x \in Paths(flow) : JoinTask(x)
    PROVE  UnknownInv'
  <1>0. run.at = "wave" /\ UNCHANGED flow /\ disk' \in Disks(flow)
    BY DEF CancelWave, WaveDrained, JoinTask, LoopInv, LoopTypes
  <1>t. /\ flow \in Flows /\ disk \in Disks(flow) /\ run \in Invocations(flow)
        /\ task \in [Paths(flow) -> Tasks] /\ run.ready \in Seq(Nodes(flow))
        /\ WavePaths \subseteq Paths(flow)
    BY <1>0, WaveFacts
  <1>p. Paths(flow)' = Paths(flow) /\ \A x : Def(x)' = Def(x)
    BY <1>0 DEF Paths, Nodes, Root, Hook, Child, Def
  <1>a. /\ \A i \in DOMAIN run.ready : is_parallel_safe_node(run.ready[i])
        /\ run.aborting \/ (\E x \in Paths(flow) : Lost(task[x])) => Cause
    BY <1>0 DEF UnknownInv, AbortInv, Waves
  <1>u. \A x \in disk.unresolved :
          \/ Def(x).replaySafe
          \/ x \in WavePaths /\ task[x].stage = "joined" /\ task[x].result \in {"none", "canceled"}
    BY <1>0 DEF UnknownInv, UnresolvedInv, Resting
  <1>1. CASE CancelWave
    <2>1. UNCHANGED <<disk, task>> /\ run' = [run EXCEPT !.aborting = TRUE, !.parentCanceled = TRUE]
      BY <1>1 DEF CancelWave
    <2>2. run'.at = "wave" /\ run'.ready = run.ready /\ run'.parentCanceled
      BY <1>0, <1>t, <2>1 DEF Invocations
    <2>3. WavePaths' = WavePaths
      BY <2>2 DEF WavePaths
    <2>4. AbortInv'
      BY <1>0, <1>a, <2>2 DEF AbortInv, Cause, is_parallel_safe_node
    <2>5. ReportInv' /\ UnresolvedInv'
      BY <1>0, <1>t, <1>p, <1>u, <2>1, <2>2, <2>3, CalmFields, ReportKept DEF UnresolvedInv
    <2> QED
      BY <2>4, <2>5 DEF UnknownInv
  <1>2. CASE WaveDrained
    <2>1. UNCHANGED <<disk, task>> /\ run' = [run EXCEPT !.at = "settleWave", !.cursor = 1]
      BY <1>2 DEF WaveDrained
    <2>2. /\ run'.at = "settleWave" /\ run'.ready = run.ready /\ run'.parentCanceled = run.parentCanceled
          /\ run'.startError = run.startError /\ run'.aborting = run.aborting /\ run'.cursor = 1
      BY <1>0, <1>t, <2>1 DEF Invocations
    <2>3. WavePaths' = WavePaths
      BY <2>2 DEF WavePaths
    <2>4. Cause => Cause'
      BY <2>1, <2>2, <2>3 DEF Cause
    <2>5. \A i \in DOMAIN run.ready : ~(i < 1)
      BY <1>t
    <2>6. AbortInv'
      BY <1>0, <1>p, <1>a, <2>1, <2>2, <2>4, <2>5 DEF AbortInv, is_parallel_safe_node
    <2>7. ReportInv' /\ UnresolvedInv'
      BY <1>0, <1>t, <1>p, <1>u, <2>1, <2>2, <2>3, CalmFields, ReportKept DEF UnresolvedInv
    <2> QED
      BY <2>6, <2>7 DEF UnknownInv
  <1>3. ASSUME NEW x \in Paths(flow), JoinTask(x) PROVE UnknownInv'
    <2> DEFINE t == [task[x] EXCEPT !.stage = "joined",
                                    !.result = IF task[x].stage = "dropped" THEN "none" ELSE @]
               u == disk.unresolved \cup {y \in {x} : Unreported(task[x])}
               b == run.aborting \/ task[x].result # "success"
    <2>1. /\ x \in WavePaths /\ task[x].stage \in {"done", "dropped"}
          /\ disk' = [disk EXCEPT !.unresolved = u]
          /\ task' = [task EXCEPT ![x] = t] /\ run' = [run EXCEPT !.aborting = b]
      <3>1. /\ x \in WavePaths /\ task[x].stage \in {"done", "dropped"}
            /\ disk' = [disk EXCEPT !.unresolved = u]
        BY <1>3 DEF JoinTask
      <3>2. task' = [task EXCEPT ![x] = t]
        BY <1>t, <1>3 DEF JoinTask, Tasks
      <3>3. run' = [run EXCEPT !.aborting = b]
        BY <1>3 DEF JoinTask
      <3> QED
        BY <3>1, <3>2, <3>3
    <2>2. /\ t.stage = "joined" /\ t.result = IF task[x].stage = "dropped" THEN "none" ELSE task[x].result
      BY <1>t DEF Tasks
    <2> HIDE DEF t
    <2>3. disk'.unresolved = u /\ disk'.ops = disk.ops
      BY <1>t, <2>1 DEF Disks
    <2>4. /\ run'.at = "wave" /\ run'.ready = run.ready /\ run'.parentCanceled = run.parentCanceled
          /\ run'.startError = run.startError /\ run'.aborting = b
      BY <1>0, <1>t, <2>1 DEF Invocations
    <2>5. WavePaths' = WavePaths
      BY <2>4 DEF WavePaths
    <2>6. task'[x] = t /\ \A y \in Paths(flow) \ {x} : task'[y] = task[y]
      BY <1>t, <2>1
    <2>7. Cause => Cause'
      BY <1>t, <2>1, <2>4, <2>5, <2>6 DEF Cause
    <2>8. ASSUME run'.aborting \/ \E y \in Paths(flow) : Lost(task'[y])
          PROVE  Cause'
      <3>1. CASE task[x].stage = "dropped"
        BY <1>a, <2>7, <3>1 DEF Lost
      <3>2. CASE task[x].stage = "done"
        <4>1. task[x].result # "none"
          BY <3>2 DEF UnknownInv, ReportInv
        <4>2. CASE task[x].result = "success"
          <5>1. ~Lost(t) /\ run'.aborting = run.aborting
            BY <1>t, <2>2, <2>4, <3>2, <4>2 DEF Lost, Invocations
          <5> QED
            BY <1>a, <2>6, <2>7, <2>8, <5>1
        <4>3. CASE task[x].result # "success"
          BY <2>1, <2>2, <2>5, <2>6, <3>2, <4>1, <4>3 DEF Cause
        <4> QED
          BY <4>2, <4>3
      <3> QED
        BY <2>1, <3>1, <3>2
    <2>9. AbortInv'
      BY <1>0, <1>p, <1>a, <2>4, <2>8 DEF AbortInv, is_parallel_safe_node
    <2>10. ReportInv'
      <3>1. \A y \in Paths(flow) :
               /\ task'[y].stage = "done" => task'[y].result # "none"
               /\ task'[y].result = "check" => task[y].result = "check"
        BY <2>2, <2>6 DEF UnknownInv, ReportInv
      <3> QED
        BY <1>p, <2>3, <3>1 DEF UnknownInv, ReportInv
    <2>11. UnresolvedInv'
      <3>1. ASSUME NEW y \in disk.unresolved
            PROVE  \/ Def(y).replaySafe
                   \/ y \in WavePaths /\ task'[y].stage = "joined" /\ task'[y].result \in {"none", "canceled"}
        BY <1>t, <1>u, <2>1, <2>6
      <3>2. Unreported(task[x]) => t.result \in {"none", "canceled"}
        BY <2>2 DEF Unreported
      <3>3. ASSUME NEW y \in disk'.unresolved
            PROVE  \/ Def(y).replaySafe
                   \/ y \in WavePaths /\ task'[y].stage = "joined" /\ task'[y].result \in {"none", "canceled"}
        <4>1. CASE y \in disk.unresolved
          BY <3>1, <4>1
        <4>2. CASE y = x /\ Unreported(task[x])
          BY <2>1, <2>2, <2>6, <3>2, <4>2
        <4> QED
          BY <2>3, <4>1, <4>2
      <3> QED
        BY <1>p, <2>4, <2>5, <3>3 DEF UnresolvedInv
    <2> QED
      BY <2>9, <2>10, <2>11 DEF UnknownInv
  <1> QED
    BY <1>1, <1>2, <1>3

\* The wave's reports settle, and every error among them is noted.
LEMMA UnknownSettleWave ==
    ASSUME LoopInv, LoopInv', UnknownInv, SettleWaveNode
    PROVE  UnknownInv'
  <1>0. /\ run.at = "settleWave" /\ UNCHANGED <<flow, task>> /\ disk' \in Disks(flow)
        /\ run.cursor \in Nat \ {0} /\ run.cursor <= Len(run.ready)
    BY DEF SettleWaveNode, LoopInv, LoopTypes, ReadyInv, Picked
  <1>t. /\ flow \in Flows /\ disk \in Disks(flow) /\ run \in Invocations(flow)
        /\ task \in [Paths(flow) -> Tasks] /\ run.ready \in Seq(Nodes(flow))
        /\ WavePaths \subseteq Paths(flow)
    BY <1>0, WaveFacts
  <1>p. Paths(flow)' = Paths(flow) /\ \A x : Def(x)' = Def(x)
    BY <1>0 DEF Paths, Nodes, Root, Hook, Child, Def
  <1>n. PICK n \in Nodes(flow) : n = run.ready[run.cursor] /\ Root(n) \in Paths(flow) /\ Root(n) \in WavePaths
    BY <1>0, <1>t, PathFacts DEF WavePaths
  <1> DEFINE next == [run EXCEPT !.cursor = @ + 1]
             res == task[Root(n)].result
             er == [NodeState(next, n, "failed") EXCEPT !.errors = @ \cup {<<n, res>>}]
  <1>1. /\ \/ run' = next \/ \E s \in {"pending", "success", "failed"} : run' = NodeState(next, n, s)
           \/ run' = er
        /\ \/ UNCHANGED disk \/ \E s : disk' = StepFinished(disk, Root(n), s)
           \/ disk' = StepSuspended(disk, Root(n), OwnQuestion(Root(n)))
        /\ ~HitlPending => run' = er \/ res \in {"none", "success", "check"}
    <2>1. res = "question" => HitlPending
      BY <1>n DEF HitlPending
    <2> QED
      BY <1>n, <2>1 DEF SettleWaveNode
  <1>2. /\ run'.at = "settleWave" /\ run'.ready = run.ready /\ run'.parentCanceled = run.parentCanceled
        /\ run'.startError = run.startError /\ run'.aborting = run.aborting /\ run'.cursor = run.cursor + 1
        /\ run.errors \subseteq run'.errors /\ (run' = er => run'.errors # {})
    <2> DEFINE Same(r) ==
                 /\ r.at = "settleWave" /\ r.ready = run.ready /\ r.parentCanceled = run.parentCanceled
                 /\ r.startError = run.startError /\ r.aborting = run.aborting
                 /\ r.cursor = run.cursor + 1
    <2>1. Same(next) /\ next.errors = run.errors
      BY <1>0, <1>t DEF Invocations
    <2>2. ASSUME NEW s PROVE Same(NodeState(next, n, s)) /\ NodeState(next, n, s).errors = run.errors
      BY <1>0, <1>t DEF NodeState, Invocations
    <2>3. Same(er) /\ er.errors = run.errors \cup {<<n, res>>}
      BY <1>0, <1>t DEF NodeState, Invocations
    <2> HIDE DEF er, next, Same
    <2>4. Same(run') /\ run.errors \subseteq run'.errors /\ (run' = er => run'.errors # {})
      BY <1>1, <2>1, <2>2, <2>3
    <2> QED
      BY <2>4 DEF Same
  <1> HIDE DEF er, next
  <1>3. Calmer(disk, disk')
    BY <1>t, <1>n, <1>1, CalmEvents, QuestionFacts
  <1>4. WavePaths' = WavePaths
    BY <1>2 DEF WavePaths
  <1>5. (Cause => Cause') /\ (HitlPending' <=> HitlPending)
    BY <1>0, <1>2, <1>4 DEF Cause, HitlPending
  <1>6. ASSUME ~HitlPending, run'.errors = {}, NEW i \in DOMAIN run.ready, i < run.cursor + 1
        PROVE  task[Root(run.ready[i])].result \in {"none", "success", "check"}
    <2>1. run.errors = {} /\ res \in {"none", "success", "check"}
      BY <1>1, <1>2, <1>6
    <2>2. CASE i = run.cursor
      BY <1>n, <2>1, <2>2
    <2>3. CASE i < run.cursor
      BY <1>0, <1>6, <2>1, <2>3 DEF UnknownInv, AbortInv
    <2> QED
      BY <1>0, <1>t, <1>6, <2>2, <2>3
  <1>7. AbortInv'
    <2>1. /\ \A i \in DOMAIN run.ready : is_parallel_safe_node(run.ready[i])
          /\ run.aborting \/ (\E x \in Paths(flow) : Lost(task[x])) => Cause
      BY <1>0 DEF UnknownInv, AbortInv, Waves
    <2> QED
      BY <1>0, <1>p, <1>2, <1>5, <1>6, <2>1 DEF AbortInv, is_parallel_safe_node
  <1>8. ReportInv'
    BY <1>0, <1>3, ReportKept
  <1>9. UnresolvedInv'
    <2>1. \A x \in disk.unresolved :
            \/ Def(x).replaySafe
            \/ x \in WavePaths /\ task[x].stage = "joined" /\ task[x].result \in {"none", "canceled"}
      BY <1>0 DEF UnknownInv, UnresolvedInv, Resting
    <2> QED
      BY <1>0, <1>p, <1>2, <1>3, <1>4, <2>1 DEF UnresolvedInv, Calmer
  <1> QED
    BY <1>7, <1>8, <1>9 DEF UnknownInv

\* A wave without an error has lost nothing; with one, what it has lost ends the
\* invocation.
LEMMA UnknownEndWave ==
    ASSUME ChecksApart, LoopInv, LoopInv', UnknownInv, EndWave
    PROVE  UnknownInv'
  <1>0. /\ run.at = "settleWave" /\ UNCHANGED <<flow, disk>>
        /\ run.cursor \in Nat /\ run.cursor > Len(run.ready)
        /\ task' = [x \in Paths(flow) |-> IdleTask]
        /\ \A x \in WavePaths : task[x].stage = "joined"
    BY DEF EndWave, LoopInv, LoopTypes, ReadyInv, Picked, TaskInv
  <1>t. /\ flow \in Flows /\ disk \in Disks(flow) /\ run \in Invocations(flow)
        /\ task \in [Paths(flow) -> Tasks] /\ run.ready \in Seq(Nodes(flow))
        /\ WavePaths \subseteq Paths(flow)
        /\ \A x \in WavePaths : \E i \in DOMAIN run.ready : x = Root(run.ready[i])
    BY <1>0, WaveFacts
  <1>r. Calmer(disk, disk') /\ ReportInv'
    BY <1>0, <1>t, CalmFields, ReportKept
  <1> DEFINE r == [run EXCEPT !.aborting = FALSE, !.progressed = TRUE]
  <1>1. \/ \E ret : run' = Return(r, ret)
        \/ /\ run' = EndPass(r) \/ run' = [r EXCEPT !.at = "settle"]
           /\ WaveError = "none" \/ disk.unresolved = {}
    BY DEF EndWave
  <1>2. r \in Invocations(flow)
    BY <1>t DEF Invocations
  <1> HIDE DEF r
  <1>3. CASE \E ret : run' = Return(r, ret)
    <2>1. run'.at = "returned"
      BY <1>2, <1>3 DEF Return, Invocations
    <2> QED
      BY <1>0, <1>r, <2>1, CalmStep DEF Waves, Resting
  <1>4. ASSUME run' = EndPass(r) \/ run' = [r EXCEPT !.at = "settle"],
               WaveError = "none" \/ disk.unresolved = {}
        PROVE  UnknownInv'
    <2>1. run'.at \in {"settle", "loop", "returned"}
      <3>1. run' = EndPass(r) => run'.at \in {"settle", "loop", "returned"}
        BY <1>2, EndPassFacts
      <3>2. run' = [r EXCEPT !.at = "settle"] => run'.at = "settle"
        BY <1>2 DEF Invocations
      <3> QED
        BY <1>4, <3>1, <3>2
    <2>2. ASSUME NEW x \in disk.unresolved, ~Def(x).replaySafe PROVE FALSE
      <3>1. ~run.parentCanceled /\ run.startError = "none" /\ ~HitlPending /\ run.errors = {}
        <4>1. WaveError = "none"
          BY <1>4, <2>2
        <4>2. ~run.parentCanceled /\ run.startError = "none" /\ ~HitlPending
          BY <4>1 DEF WaveError
        <4>3. ASSUME run.errors # {} PROVE FALSE
          <5>1. \A e \in run.errors : e[2] \in Results
            BY <1>t DEF Invocations
          <5>2. (CHOOSE e \in run.errors : TRUE) \in run.errors
            BY <4>3
          <5>3. WaveError \in Results \cup {"failed"}
            BY <4>2, <4>3, <5>1, <5>2 DEF WaveError
          <5> QED
            BY <4>1, <5>3 DEF Results
        <4> QED
          BY <4>2, <4>3
      <3>2. \A i \in DOMAIN run.ready : task[Root(run.ready[i])].result \in {"none", "success", "check"}
        BY <1>0, <1>t, <3>1 DEF UnknownInv, AbortInv
      <3>3. x \in WavePaths /\ task[x].stage = "joined" /\ task[x].result = "none"
        <4>1. x \in WavePaths /\ task[x].stage = "joined" /\ task[x].result \in {"none", "canceled"}
          BY <1>0, <2>2 DEF UnknownInv, UnresolvedInv, Resting
        <4> QED
          BY <1>t, <3>2, <4>1
      <3>4. Cause
        BY <1>0, <1>t, <3>3 DEF UnknownInv, AbortInv, Waves, Lost
      <3>5. PICK y \in WavePaths : task[y].result = "check"
        BY <1>t, <3>1, <3>2, <3>4 DEF Cause
      <3>6. PICK i \in DOMAIN run.ready, j \in DOMAIN run.ready :
              y = Root(run.ready[i]) /\ x = Root(run.ready[j])
        BY <1>t, <3>3, <3>5
      <3> DEFINE m == run.ready[i]
                 n == run.ready[j]
      <3>7. m \in Nodes(flow) /\ n \in Nodes(flow) /\ m # n
        BY <1>t, <3>3, <3>5, <3>6
      <3>8. is_parallel_safe_node(m) /\ is_parallel_safe_node(n)
        BY <1>0 DEF UnknownInv, AbortInv, Waves
      <3>9. Def(y) = flow.nodes[m] /\ Def(x) = flow.nodes[n] /\ y \in Paths(flow)
        BY <1>t, <3>6, <3>7, PathFacts
      <3>10. "check" \in flow.nodes[m].may
        BY <3>5, <3>9 DEF UnknownInv, ReportInv
      <3> HIDE DEF m, n
      <3>11. flow.nodes[n].replaySafe
        BY <1>t, <3>7, <3>8, <3>10 DEF ChecksApart, is_parallel_safe_node
      <3> QED
        BY <2>2, <3>9, <3>11
    <2>3. UnresolvedInv'
      BY <1>0, <2>2 DEF UnresolvedInv, Def
    <2>4. AbortInv'
      BY <2>1 DEF AbortInv, Waves
    <2> QED
      BY <1>r, <2>3, <2>4 DEF UnknownInv
  <1> QED
    BY <1>1, <1>3, <1>4

\* Where a node's own report leaves the scheduler.
LEMMA SettledAt ==
    ASSUME NEW r \in Invocations(flow), NEW n \in Nodes(flow), NEW s
    PROVE  AfterSettling(r, n, s).at \in {"settle", "loop", "returned"}
  BY DEF AfterSettling, EndPass, Return, NodeState, Invocations

\* A cycle that has used up its attempts.
LEMMA UnknownExhausted ==
    ASSUME LoopInv, run.at = "node", NEW n \in Nodes(flow), Exhausted(n)
    PROVE  run'.at \in {"settle", "loop", "returned"} /\ Calmer(disk, disk')
  <1>t. flow \in Flows /\ run \in Invocations(flow) /\ disk \in Disks(flow)
    BY DEF LoopInv, LoopTypes
  <1> DEFINE p == flow.nodes[n].exhausted
             a == flow.nodes[n].repair
             b == flow.nodes[n].recheck
             r == IF run.cycle.kind = "repair"
                  THEN NodeState(NodeState(run, a, "skipped"), b, "skipped") ELSE run
  <1>1. a \in Nodes(flow) /\ b \in Nodes(flow) /\ p \in {"fail", "route", "ask"} /\ Root(n) \in Paths(flow)
    BY <1>t, RepairTargets, PathFacts
  <1>2. \/ \E s, status : run' = AfterSettling(r, n, s) /\ disk' = StepFinished(disk, Root(n), status)
        \/ run' = Suspend(OnFailQuestion(Root(n))) /\ UNCHANGED disk
        \/ /\ run' = Suspend(OnFailQuestion(Root(n)))
           /\ disk' = StepSuspended(disk, Root(n), OnFailQuestion(Root(n)))
    <2>1. CASE p = "fail"
      BY <2>1 DEF Exhausted, AfterSettling
    <2>2. CASE p = "route"
      BY <2>2 DEF Exhausted, AfterSettling
    <2>3. CASE p = "ask"
      BY <2>3 DEF Exhausted, AfterSettling, Ask
    <2> QED
      BY <1>1, <2>1, <2>2, <2>3
  <1>3. r \in Invocations(flow)
    <2>1. run.states \in [Nodes(flow) -> NodeStatus]
      BY CurrentFacts
    <2> DEFINE q == NodeState(run, a, "skipped")
    <2>2. q \in Invocations(flow) /\ q.states \in [Nodes(flow) -> NodeStatus]
      BY <1>t, <1>1, <2>1, NodeStateFacts DEF NodeStatus
    <2> HIDE DEF q
    <2>3. NodeState(q, b, "skipped") \in Invocations(flow)
      BY <1>1, <2>2, NodeStateFacts DEF NodeStatus
    <2> QED
      BY <1>t, <2>3 DEF q
  <1> HIDE DEF r
  <1>4. Suspend(OnFailQuestion(Root(n))).at = "returned"
    BY <1>t DEF Suspend, Invocations
  <1> QED
    BY <1>t, <1>1, <1>2, <1>3, <1>4, SettledAt, CalmEvents, QuestionFacts

\* A node outside the repair cycles.
LEMMA UnknownNode ==
    ASSUME LoopInv, LoopInv', UnknownInv, NodeDone \/ StartRegenerate \/ RegenerateDone
    PROVE  UnknownInv'
  <1>0. run.at = "node" /\ UNCHANGED flow
    BY DEF NodeDone, StartRegenerate, RegenerateDone
  <1>n. PICK n \in Nodes(flow) : n = Current /\ Root(n) \in Paths(flow)
    BY <1>0, CurrentFacts
  <1>t. /\ flow \in Flows /\ run \in Invocations(flow) /\ disk \in Disks(flow) /\ disk' \in Disks(flow)
        /\ task \in [Paths(flow) -> Tasks]
    BY <1>0 DEF LoopInv, LoopTypes
  <1>1. ASSUME run'.at \in {"node", "settle", "loop", "returned"}, Calmer(disk, disk'),
               \/ UNCHANGED task
               \/ \E u \in {IdleTask, NewTask} : task' = [task EXCEPT ![Root(n)] = u]
        PROVE  UnknownInv'
    <2>1. \A y \in Paths(flow) : task'[y] = task[y] \/ task'[y] \in {IdleTask, NewTask}
      BY <1>t, <1>n, <1>1, OneTask
    <2> QED
      BY <1>0, <1>1, <2>1, ReportKept, CalmStep DEF Waves, Resting
  <1>2. ASSUME NEW s, NEW status, Settle(n, s, status)
        PROVE  run'.at \in {"settle", "loop", "returned"} /\ Calmer(disk, disk')
    BY <1>t, <1>n, <1>2, SettledAt, CalmEvents DEF Settle, AfterSettling
  <1>3. ASSUME NEW q \in Questions(flow), Ask(n, q)
        PROVE  run'.at = "returned" /\ Calmer(disk, disk')
    BY <1>t, <1>n, <1>3, CalmEvents DEF Ask, Suspend, Invocations
  <1>4. ASSUME NEW ret, run' = Return(run, ret) PROVE run'.at = "returned"
    BY <1>t, <1>4 DEF Return, Invocations
  <1>5. UNCHANGED disk => Calmer(disk, disk')
    BY <1>t, CalmFields
  <1>6. OwnQuestion(Root(n)) \in Questions(flow) /\ OnFailQuestion(Root(n)) \in Questions(flow)
    BY <1>n, QuestionFacts
  <1>7. CASE NodeDone
    <2> DEFINE r == task[Root(n)].result
    <2>0. \E u \in {IdleTask, NewTask} : task' = [task EXCEPT ![Root(n)] = u]
      BY <1>7, <1>n DEF NodeDone, Take
    <2>1. \/ \E s, status : Settle(n, s, status)
          \/ \E q \in Questions(flow) : Ask(n, q)
          \/ (\E c : run' = [run EXCEPT !.cycle = c]) /\ UNCHANGED disk
          \/ NodeError(n, r)
      BY <1>7, <1>n, <1>6 DEF NodeDone
    <2>2. (\E c : run' = [run EXCEPT !.cycle = c]) => run'.at = "node"
      BY <1>0, <1>t DEF Invocations
    <2>3. ASSUME NodeError(n, r) PROVE run'.at \in {"settle", "loop", "returned"} /\ Calmer(disk, disk')
      <3>1. CASE run' = Return(run, "canceled") /\ UNCHANGED disk
        BY <1>4, <1>5, <3>1
      <3>2. CASE /\ \E at \in {"settle", "loop"} : run' = [NodeState(run, n, "failed") EXCEPT !.at = at]
                 /\ disk' = StepFinished(disk, Root(n), "failed")
        <4>1. run'.at \in {"settle", "loop"}
          BY <1>t, <3>2 DEF NodeState, Invocations
        <4> QED
          BY <1>t, <1>n, <3>2, <4>1, CalmEvents
      <3> QED
        BY <2>3, <3>1, <3>2 DEF NodeError
    <2> QED
      BY <1>1, <1>2, <1>3, <1>5, <2>0, <2>1, <2>2, <2>3
  <1>8. CASE StartRegenerate
    <2>1. CASE Exhausted(n) /\ UNCHANGED task
      BY <1>0, <1>1, <2>1, UnknownExhausted
    <2>2. CASE (\E ret : run' = Return(run, ret)) /\ UNCHANGED <<disk, task>>
      BY <1>1, <1>4, <1>5, <2>2
    <2>3. CASE task' = [task EXCEPT ![Root(n)] = NewTask] /\ UNCHANGED <<disk, run>>
      BY <1>0, <1>1, <1>5, <2>3
    <2> QED
      BY <1>8, <1>n, <2>1, <2>2, <2>3 DEF StartRegenerate
  <1>9. CASE RegenerateDone
    <2>0. \E u \in {IdleTask, NewTask} : task' = [task EXCEPT ![Root(n)] = u]
      BY <1>9, <1>n DEF RegenerateDone, Take
    <2>1. \/ \E s, status : Settle(n, s, status)
          \/ \E q \in Questions(flow) : Ask(n, q)
          \/ run' = NextAttempt /\ UNCHANGED disk
          \/ (\E ret : run' = Return(run, ret)) /\ UNCHANGED disk
      BY <1>9, <1>n, <1>6 DEF RegenerateDone
    <2>2. NextAttempt.at = "node"
      BY <1>0, <1>t, NextAttemptFacts
    <2> QED
      BY <1>1, <1>2, <1>3, <1>4, <1>5, <2>0, <2>1, <2>2
  <1> QED
    BY <1>7, <1>8, <1>9

\* A repair cycle.
LEMMA UnknownRepair ==
    ASSUME LoopInv, LoopInv', UnknownInv, StartRepair \/ RepairDone
    PROVE  UnknownInv'
  <1>0. run.at = "node" /\ run.cycle.kind = "repair" /\ UNCHANGED flow
    BY DEF StartRepair, RepairDone
  <1>o. PICK o \in Nodes(flow) : o = run.cycle.owner /\ Root(o) \in Paths(flow)
    BY <1>0, CurrentFacts, CycleFacts
  <1>n. PICK n \in Nodes(flow) : n = RepairTarget
    BY <1>0, CycleFacts
  <1>t. /\ flow \in Flows /\ run \in Invocations(flow) /\ disk \in Disks(flow) /\ disk' \in Disks(flow)
        /\ task \in [Paths(flow) -> Tasks] /\ run.states \in [Nodes(flow) -> NodeStatus]
    BY <1>0, CurrentFacts DEF LoopInv, LoopTypes
  <1> DEFINE x == RepairPath(n)
  <1>x. run.cycle.attempt <= MaxRepairs => x \in Paths(flow)
    BY <1>0, <1>n, CycleFacts
  <1> HIDE DEF x
  <1>1. ASSUME run'.at \in {"node", "settle", "loop", "returned"}, Calmer(disk, disk'),
               \/ UNCHANGED task
               \/ x \in Paths(flow) /\ \E u \in {IdleTask, NewTask} : task' = [task EXCEPT ![x] = u]
        PROVE  UnknownInv'
    <2>1. \A y \in Paths(flow) : task'[y] = task[y] \/ task'[y] \in {IdleTask, NewTask}
      BY <1>t, <1>1, OneTask
    <2> QED
      BY <1>0, <1>1, <2>1, ReportKept, CalmStep DEF Waves, Resting
  <1>2. ASSUME NEW d, Calmer(disk, d), NamedSuccess(n, d)
        PROVE  run'.at \in {"node", "settle", "loop", "returned"} /\ Calmer(disk, disk')
    <2> DEFINE q == NodeState(run, n, "success")
    <2>1. q \in Invocations(flow) /\ q.at = "node" /\ d \in Disks(flow)
      BY <1>0, <1>t, <1>2, NodeStateFacts DEF NodeStatus, Calmer
    <2>2. \/ run' = AfterSettling(q, o, "success") /\ disk' = StepFinished(d, Root(o), "repaired")
          \/ run' = [q EXCEPT !.cycle.part = "recheck"] /\ disk' = d
      BY <1>o, <1>2 DEF NamedSuccess, RepairSettled, AfterSettling
    <2> HIDE DEF q
    <2>3. CASE run' = AfterSettling(q, o, "success") /\ disk' = StepFinished(d, Root(o), "repaired")
      <3>1. run'.at \in {"settle", "loop", "returned"}
        BY <2>1, <2>3, SettledAt
      <3>2. Calmer(d, disk')
        BY <1>o, <1>t, <2>1, <2>3, CalmEvents
      <3> QED
        BY <1>2, <3>1, <3>2 DEF Calmer
    <2>4. CASE run' = [q EXCEPT !.cycle.part = "recheck"] /\ disk' = d
      BY <1>2, <2>1, <2>4 DEF Invocations
    <2> QED
      BY <2>2, <2>3, <2>4
  <1>3. ASSUME NEW ret, run' = Return(run, ret) PROVE run'.at = "returned"
    BY <1>t, <1>3 DEF Return, Invocations
  <1>4. Calmer(disk, disk) /\ (UNCHANGED disk => Calmer(disk, disk'))
    BY <1>t, CalmFields DEF Calmer
  <1>5. CASE StartRepair
    <2>1. CASE Exhausted(o) /\ UNCHANGED task
      BY <1>0, <1>1, <2>1, UnknownExhausted
    <2>2. CASE (\E ret : run' = Return(run, ret)) /\ UNCHANGED <<disk, task>>
      BY <1>1, <1>3, <1>4, <2>2
    <2>3. CASE NamedSuccess(n, disk) /\ UNCHANGED task
      BY <1>1, <1>2, <1>4, <2>3
    <2>4. CASE /\ run.cycle.attempt <= MaxRepairs /\ run' = NodeState(run, n, "running")
               /\ disk' = [disk EXCEPT !.started = @ + 1] /\ task' = [task EXCEPT ![x] = NewTask]
      <3>1. run'.at = "node"
        BY <1>0, <1>t, <2>4, NodeStateFacts DEF NodeStatus
      <3>2. Calmer(disk, disk')
        BY <1>t, <2>4, CalmFields DEF Disks
      <3> QED
        BY <1>1, <1>x, <2>4, <3>1, <3>2
    <2> QED
      BY <1>5, <1>o, <1>n, <2>1, <2>2, <2>3, <2>4 DEF StartRepair, x
  <1>6. CASE RepairDone
    <2>0. x \in Paths(flow) /\ \E u \in {IdleTask, NewTask} : task' = [task EXCEPT ![x] = u]
      BY <1>6, <1>n, <1>x DEF RepairDone, Take, x
    <2>q. OwnQuestion(x) \in Questions(flow)
      BY <2>0, QuestionFacts
    <2>1. \/ NamedSuccess(n, StepFinished(disk, x, "success"))
          \/ disk' = StepSuspended(disk, x, OwnQuestion(x)) /\ run' = Suspend(OwnQuestion(x))
          \/ disk' = StepFinished(disk, x, "check_failed") /\ run' = NodeState(NextAttempt, n, "failed")
          \/ /\ UNCHANGED disk \/ disk' = StepFinished(disk, x, "failed")
             /\ \E ret : run' = Return(run, ret)
      BY <1>6, <1>n DEF RepairDone, x
    <2>2. Suspend(OwnQuestion(x)).at = "returned"
      BY <1>t DEF Suspend, Invocations
    <2>3. NodeState(NextAttempt, n, "failed").at = "node"
      BY <1>0, <1>t, NextAttemptFacts, NodeStateFacts DEF NodeStatus
    <2>4. \A s : Calmer(disk, StepFinished(disk, x, s))
      BY <1>t, <2>0, CalmEvents
    <2>5. Calmer(disk, StepSuspended(disk, x, OwnQuestion(x)))
      BY <1>t, <2>0, <2>q, CalmEvents
    <2> QED
      BY <1>1, <1>2, <1>3, <1>4, <2>0, <2>1, <2>2, <2>3, <2>4, <2>5
  <1> QED
    BY <1>5, <1>6

\* A task reports what it may report.
LEMMA TaskReports ==
    ASSUME LoopInv, UnknownInv, NEW x \in Paths(flow), TaskStep(x)
    PROVE  /\ task'[x].stage = "done" => task'[x].result # "none"
           /\ task'[x].result = "check" \/ disk'.ops[x] = "check" => "check" \in Def(x).may
           /\ task'[x].stage = "dropped" => run.aborting
           /\ task[x].stage \in {"charge", "attempt", "effect"} /\ task'[x].stage \notin {"idle", "joined"}
           /\ \A y \in Paths(flow) \ {x} : task'[y] = task[y] /\ disk'.ops[y] = disk.ops[y]
           /\ disk'.unresolved = disk.unresolved /\ UNCHANGED flow
           /\ UNCHANGED run \/ run' = [run EXCEPT !.budget = @ + 1]
  <1>t. LoopTypes /\ disk \in Disks(flow) /\ task \in [Paths(flow) -> Tasks] /\ flow \in Flows
    BY DEF LoopInv, LoopTypes
  <1>u. /\ task[x].stage = "done" => task[x].result # "none"
        /\ task[x].result = "check" \/ disk.ops[x] = "check" => "check" \in Def(x).may
    BY DEF UnknownInv, ReportInv
  <1>m. TaskMoves(x)
    BY <1>t, ChargeMoves, AttemptMoves, EffectMoves, DropMoves DEF TaskStep
  <1>d. ASSUME NEW r \in Results, NEW c \in BOOLEAN, Done(x, r, c)
        PROVE  task'[x].stage = "done" /\ task'[x].result = r
    BY <1>t, <1>d DEF Done, Tasks
  <1>f. ASSUME FailAttempt(x)
        PROVE  /\ task'[x].stage \in {"done", "charge"}
               /\ task'[x].stage = "done" => task'[x].result # "none"
               /\ task'[x].result = "check" => task[x].result = "check"
    <2>1. CASE task' = [task EXCEPT ![x].stage = "charge", ![x].try = @ + 1]
      BY <1>t, <2>1 DEF Tasks
    <2> QED
      BY <1>d, <1>f, <2>1 DEF FailAttempt, Results
  <1>o. ASSUME NEW o, disk' = [disk EXCEPT !.ops[x] = o]
        PROVE  /\ disk'.ops[x] = o /\ disk'.unresolved = disk.unresolved
               /\ \A y \in Paths(flow) \ {x} : disk'.ops[y] = disk.ops[y]
    BY <1>t, <1>o DEF Disks
  <1> DEFINE Reports ==
               /\ task'[x].stage = "done" => task'[x].result # "none"
               /\ task'[x].result = "check" \/ disk'.ops[x] = "check" => "check" \in Def(x).may
               /\ task'[x].stage = "dropped" => run.aborting
             Frame ==
               /\ \A y \in Paths(flow) \ {x} : disk'.ops[y] = disk.ops[y]
               /\ disk'.unresolved = disk.unresolved
               /\ UNCHANGED run \/ run' = [run EXCEPT !.budget = @ + 1]
  <1>1. CASE Charge(x)
    <2>1. /\ disk' = disk \/ disk' = [disk EXCEPT !.charged = @ + 1, !.hasCharges = TRUE]
          /\ Done(x, "budget", FALSE) \/ task' = [task EXCEPT ![x].stage = "attempt"]
          /\ UNCHANGED run \/ run' = [run EXCEPT !.budget = @ + 1]
      BY <1>1 DEF Charge
    <2>2. disk'.ops = disk.ops /\ disk'.unresolved = disk.unresolved
      BY <1>t, <2>1 DEF Disks
    <2>3. task' = [task EXCEPT ![x].stage = "attempt"] =>
             task'[x].stage = "attempt" /\ task'[x].result = task[x].result
      BY <1>t DEF Tasks
    <2>4. Reports /\ Frame
      BY <1>u, <1>d, <2>1, <2>2, <2>3 DEF Results
    <2> QED
      BY <1>m, <2>4 DEF TaskMoves
  <1>2. CASE Attempt(x)
    <2>1. \/ /\ UNCHANGED disk
             /\ \E r \in {"canceled", "elapsed", "question", "refused"} : Done(x, r, FALSE)
          \/ UNCHANGED disk /\ \E r \in Def(x).may \ {"failed"} : Done(x, r, FALSE)
          \/ UNCHANGED disk /\ FailAttempt(x)
          \/ /\ disk' = [disk EXCEPT !.ops[x] = "started"]
             /\ task' = [task EXCEPT ![x].stage = "effect"]
          \/ UNCHANGED disk /\ GuardVerdict(x) = "resend" /\ Done(x, disk.ops[x], TRUE)
      BY <1>2 DEF Attempt
    <2>2. "none" \notin Def(x).may /\ Def(x).may \subseteq Results
      BY <1>t, PathFacts DEF StepRecord, Results
    <2>3. GuardVerdict(x) = "resend" => disk.ops[x] \in Results /\ disk.ops[x] # "none"
      BY <1>t DEF GuardVerdict, Disks, Operations, Results
    <2>4. task' = [task EXCEPT ![x].stage = "effect"] =>
             task'[x].stage = "effect" /\ task'[x].result = task[x].result
      BY <1>t DEF Tasks
    <2>5. UNCHANGED run
      BY <1>2 DEF Attempt
    <2>6. Reports
      <3>1. CASE UNCHANGED disk /\ \E r \in {"canceled", "elapsed", "question", "refused"} : Done(x, r, FALSE)
        BY <1>u, <1>d, <3>1 DEF Results
      <3>2. CASE UNCHANGED disk /\ \E r \in Def(x).may \ {"failed"} : Done(x, r, FALSE)
        BY <1>u, <1>d, <2>2, <3>2
      <3>3. CASE UNCHANGED disk /\ FailAttempt(x)
        BY <1>u, <1>f, <3>3
      <3>4. CASE /\ disk' = [disk EXCEPT !.ops[x] = "started"]
                 /\ task' = [task EXCEPT ![x].stage = "effect"]
        BY <1>u, <1>o, <2>4, <3>4
      <3>5. CASE UNCHANGED disk /\ GuardVerdict(x) = "resend" /\ Done(x, disk.ops[x], TRUE)
        BY <1>u, <1>d, <2>3, <3>5
      <3> QED
        BY <2>1, <3>1, <3>2, <3>3, <3>4, <3>5
    <2>7. Frame
      BY <1>o, <2>1, <2>5
    <2> QED
      BY <1>m, <2>6, <2>7 DEF TaskMoves
  <1>3. CASE Effect(x)
    <2>1. \/ \E r \in Def(x).may \ {"failed"} :
                /\ disk' = [disk EXCEPT !.ops[x] = r]
                /\ Done(x, IF expired THEN "elapsed" ELSE r, FALSE)
          \/ /\ \E o \in {"clean", "unknown"} : disk' = [disk EXCEPT !.ops[x] = o]
             /\ FailAttempt(x)
          \/ UNCHANGED disk /\ \E r \in {"canceled", "elapsed"} : Done(x, r, FALSE)
          \/ UNCHANGED disk /\ FailAttempt(x)
      BY <1>3 DEF Effect
    <2>2. "none" \notin Def(x).may /\ Def(x).may \subseteq Results
      BY <1>t, PathFacts DEF StepRecord, Results
    <2>3. UNCHANGED run
      BY <1>3 DEF Effect
    <2>4. Reports
      BY <1>u, <1>d, <1>f, <1>o, <2>1, <2>2 DEF Results
    <2>5. Frame
      BY <1>o, <2>1, <2>3
    <2> QED
      BY <1>m, <2>4, <2>5 DEF TaskMoves
  <1>4. CASE DropTask(x)
    <2>1. run.aborting /\ UNCHANGED <<run, disk>> /\ task' = [task EXCEPT ![x].stage = "dropped"]
      BY <1>4 DEF DropTask
    <2>2. task'[x].stage = "dropped" /\ task'[x].result = task[x].result
      BY <1>t, <2>1 DEF Tasks
    <2> QED
      BY <1>m, <1>u, <2>1, <2>2 DEF TaskMoves
  <1> QED
    BY <1>1, <1>2, <1>3, <1>4 DEF TaskStep

\* The tasks: an aborted one is lost for the wave's cause.
LEMMA UnknownTasks ==
    ASSUME LoopInv, UnknownInv, NEW x \in Paths(flow), TaskStep(x)
    PROVE  UnknownInv'
  <1>1. /\ task'[x].stage = "done" => task'[x].result # "none"
        /\ task'[x].result = "check" \/ disk'.ops[x] = "check" => "check" \in Def(x).may
        /\ task'[x].stage = "dropped" => run.aborting
        /\ task[x].stage \in {"charge", "attempt", "effect"} /\ task'[x].stage \notin {"idle", "joined"}
        /\ \A y \in Paths(flow) \ {x} : task'[y] = task[y] /\ disk'.ops[y] = disk.ops[y]
        /\ disk'.unresolved = disk.unresolved /\ UNCHANGED flow
        /\ UNCHANGED run \/ run' = [run EXCEPT !.budget = @ + 1]
    BY TaskReports
  <1>t. flow \in Flows /\ run \in Invocations(flow)
    BY DEF LoopInv, LoopTypes
  <1>2. /\ run'.at = run.at /\ run'.ready = run.ready /\ run'.aborting = run.aborting
        /\ run'.parentCanceled = run.parentCanceled /\ run'.startError = run.startError
    BY <1>1, <1>t DEF Invocations
  <1>3. Paths(flow)' = Paths(flow) /\ \A y : Def(y)' = Def(y)
    BY <1>1 DEF Paths, Nodes, Root, Hook, Child, Def
  <1>4. WavePaths' = WavePaths /\ WavePaths \subseteq Paths(flow)
    <2>1. run.ready \in Seq(Nodes(flow))
      BY <1>t DEF Invocations
    <2> QED
      BY <1>t, <1>2, <2>1, PathFacts DEF WavePaths
  <1>5. run.at # "settleWave"
    BY <1>1 DEF LoopInv, TaskInv, Busy
  <1>6. Cause => Cause'
    BY <1>1, <1>2, <1>4 DEF Cause
  <1>7. ReportInv'
    BY <1>1, <1>3 DEF UnknownInv, ReportInv
  <1>8. AbortInv'
    <2>1. (\E y \in Paths(flow) : Lost(task'[y])) => run.aborting \/ \E y \in Paths(flow) : Lost(task[y])
      BY <1>1 DEF Lost
    <2> QED
      BY <1>1, <1>2, <1>3, <1>5, <1>6, <2>1 DEF UnknownInv, AbortInv, is_parallel_safe_node
  <1>9. UnresolvedInv'
    BY <1>1, <1>2, <1>3, <1>4 DEF UnknownInv, UnresolvedInv
  <1> QED
    BY <1>7, <1>8, <1>9 DEF UnknownInv

\* The world outside.
LEMMA UnknownOutside ==
    ASSUME LoopInv, UnknownInv, Answer \/ Cancel \/ RequestYield \/ Expire \/ UNCHANGED loopVars
    PROVE  UnknownInv'
  <1>1. UNCHANGED <<flow, run, task>> /\ disk'.unresolved = disk.unresolved /\ disk'.ops = disk.ops
    <2>1. UNCHANGED <<flow, run, task>>
          /\ (UNCHANGED disk \/ \E a, p : disk' = [disk EXCEPT !.answers = a, !.prompts = p])
      BY DEF Answer, Cancel, RequestYield, Expire, loopVars
    <2>2. disk \in Disks(flow)
      BY DEF LoopInv, LoopTypes
    <2> QED
      BY <2>1, <2>2 DEF Disks
  <1>2. Paths(flow)' = Paths(flow) /\ (\A y : Def(y)' = Def(y)) /\ WavePaths' = WavePaths
    BY <1>1 DEF Paths, Nodes, Root, Hook, Child, Def, WavePaths
  <1>3. (Cause' <=> Cause) /\ (HitlPending' <=> HitlPending)
    BY <1>1, <1>2 DEF Cause, HitlPending
  <1>4. ReportInv'
    BY <1>1, <1>2 DEF UnknownInv, ReportInv
  <1>5. AbortInv'
    BY <1>1, <1>2, <1>3 DEF UnknownInv, AbortInv, is_parallel_safe_node
  <1>6. UnresolvedInv'
    BY <1>1, <1>2 DEF UnknownInv, UnresolvedInv
  <1> QED
    BY <1>4, <1>5, <1>6 DEF UnknownInv

\* A task whose effects a join left unknown is executed again only if its
\* executor declared that safe: no later wave, resume or yield slips it back in,
\* as long as a check that may fail shares a wave with no task of unsafe replay.
THEOREM UnknownCorrect == ASSUME ChecksApart PROVE LoopSpec => []UnknownEffectsStayPut
  <1>1. LoopInit => UnknownInv
    <2> SUFFICES ASSUME LoopInit PROVE UnknownInv
      OBVIOUS
    <2>1. run.at = "idle"
      BY DEF LoopInit, Idle
    <2>2. \A x \in Paths(flow) : /\ task[x].stage = "idle" /\ task[x].result = "none"
                                 /\ disk.ops[x] = "none"
      BY DEF LoopInit, EmptyDisk, IdleTask
    <2> QED
      BY <2>1, <2>2 DEF UnknownInv, ReportInv, AbortInv, UnresolvedInv, Waves, Resting
  <1>2. LoopInv /\ LoopInv' /\ UnknownInv /\ [LoopNext]_loopVars => UnknownInv'
    BY UnknownSetup, UnknownPass, UnknownStartWave, UnknownWave, UnknownSettleWave, UnknownEndWave,
       UnknownNode, UnknownRepair, UnknownTasks, UnknownOutside DEF LoopNext, Scheduler
  <1>3. LoopInv /\ UnknownInv => UnknownEffectsStayPut
    <2> SUFFICES ASSUME LoopInv, UnknownInv, NEW x \in disk.unresolved,
                        task[x].stage \in {"charge", "attempt", "effect"}
                 PROVE  Def(x).replaySafe
      BY DEF UnknownEffectsStayPut
    <2>1. x \in Paths(flow)
      BY DEF LoopInv, LoopTypes, Disks
    <2>2. run.at \notin Resting
      BY <2>1 DEF LoopInv, TaskInv, Busy, Resting
    <2> QED
      BY <2>2 DEF UnknownInv, UnresolvedInv
  <1> QED
    BY <1>1, <1>2, <1>3, LoopInvariant, PTL DEF LoopSpec
=============================================================================
