------------------------------ MODULE EngineLoop ------------------------------
(***************************************************************************)
(* The engine's run loop (crates/engine/src/engine): one run is invoked    *)
(* again and again over one durable journal, until a terminal event is     *)
(* written.  An invocation folds the journal (state.rs), schedules the     *)
(* nodes of the flow in waves of parallel tasks or one at a time, retries  *)
(* attempts under a durable step budget, guards every external operation,  *)
(* runs the repair and regenerate cycles and the lifecycle hooks, and ends *)
(* by finishing, failing, suspending, yielding or being canceled.  The     *)
(* process may die between any two of these steps.                         *)
(*                                                                         *)
(* `disk' is the journal as RunState folds it; the file format, torn tails *)
(* and sequence numbers are JournalStream's subject.  Payloads are         *)
(* abstracted to the outcome classes the loop branches on; file pins and   *)
(* the resource checks of a resume are left out.                           *)
(***************************************************************************)
EXTENDS Naturals, FiniteSets, Sequences

CONSTANTS
    Flows,         \* the flows a run may have; each fixes its nodes and hooks
    MaxSteps,      \* budget.max_steps: attempts the run may charge in total
    MaxParallel,   \* options.max_parallel_steps
    MaxRepairs,    \* on_fail.max_attempts of repair and regenerate
    MaxInterruptions  \* bound: process deaths and yields per behaviour

Results == {"success", "check", "question", "failed", "refused", "budget",
            "elapsed", "canceled"}
Events  == {"run_started", "step_failed", "run_failed", "run_succeeded"}

(***************************************************************************)
(* A step's path: a graph node, a node run for a repair attempt of its     *)
(* owner, or a hook of a lifecycle event.                                  *)
(***************************************************************************)
Root(n)        == <<n>>
Child(o, k, n) == <<o, k, n>>
Hook(e)        == <<"hook", e>>

(* `when' is the set of values the step's condition may take in this run:  *)
(* an expression over the inputs and any step's output or outcome, which   *)
(* every pass evaluates anew and which may fail to evaluate.               *)
StepRecord(N) ==
    [needs : SUBSET N, deps : {"all", "any", "none_failed"},
     when : SUBSET {"true", "false", "error"} \ {{}},
     tries : Nat \ {0}, effect : {"none", "fail", "repeat"}, asks : BOOLEAN,
     may : SUBSET {"success", "check", "failed"}, safe : BOOLEAN,
     replaySafe : BOOLEAN, policy : {"warn", "fail"},
     onFail : {"none", "route", "ask", "regenerate", "repair"},
     repair : N, recheck : N, exhausted : {"fail", "route", "ask"}]

ASSUME EngineAssumption ==
    /\ MaxSteps \in Nat \ {0} /\ MaxParallel \in Nat \ {0}
    /\ MaxRepairs \in Nat \ {0} /\ MaxInterruptions \in Nat
    /\ \A f \in Flows :
         LET N == DOMAIN f.nodes
         IN /\ f.nodes \in [N -> StepRecord(N)]
            /\ f.order \in Seq(N)
            \* topo_sort lists every node once
            /\ \A n \in N : \E i \in 1..Len(f.order) : f.order[i] = n
            /\ \A i, j \in 1..Len(f.order) : f.order[i] = f.order[j] => i = j
            \* topo_sort accepted the flow: every need comes before its node
            /\ \A i, j \in 1..Len(f.order) :
                 f.order[i] \in f.nodes[f.order[j]].needs => i < j
            /\ DOMAIN f.hooks \subseteq Events
            /\ \A e \in DOMAIN f.hooks : f.hooks[e] \in StepRecord(N)

VARIABLES
    flow,     \* the run's contract: [nodes, order, hooks]
    disk,     \* the journal, folded
    run,      \* the invocation's memory
    task,     \* [path -> the task that executes it]
    stop,     \* the cancellation token
    yield,    \* the scheduler_yield token
    expired,  \* the elapsed deadline has passed
    applied,  \* [path -> how often its external effect took place] (history)
    kept,     \* nodes settled in memory when the invocation yielded (history)
    interruptions

loopVars == <<flow, disk, run, task, stop, yield, expired, applied, kept, interruptions>>

Nodes(f) == DOMAIN f.nodes
Paths(f) ==
    {Root(n) : n \in Nodes(f)} \cup {Hook(e) : e \in DOMAIN f.hooks}
    \cup UNION {{Child(o, k, n) : k \in 1..MaxRepairs,
                                  n \in {f.nodes[o].repair, f.nodes[o].recheck}} :
                 o \in {m \in Nodes(f) : f.nodes[m].onFail = "repair"}}
Def(x) ==
    CASE Len(x) = 1 -> flow.nodes[x[1]]
      [] Len(x) = 2 -> flow.hooks[x[2]]
      [] OTHER      -> flow.nodes[x[3]]

(* The two questions a step can put, by their stable ids. *)
OwnQuestion(x)    == <<x, "own">>
OnFailQuestion(x) == <<x, "on_fail">>

-----------------------------------------------------------------------------
(* RunState: what the journal's events fold into *)

EmptyDisk(f) ==
    [outcome    |-> [x \in Paths(f) |-> "none"],
     executions |-> [x \in Paths(f) |-> 0],
     ops        |-> [x \in Paths(f) |-> "none"],
     stuck      |-> {},
     unresolved |-> {},
     prompts    |-> {},
     answers    |-> {},
     charged    |-> 0,
     hasCharges |-> FALSE,
     started    |-> 0,
     hooksSettled |-> {},
     executionStarted |-> FALSE,
     terminal   |-> "none"]

Succeeded == {"success", "repaired", "routed", "answered_on_fail", "regenerated"}

(* apply_step_finished: a finished execution settles the path, retires its *)
(* prompt and opens a new invocation identity; an operation the old        *)
(* identity left Started stays behind and keeps the re-entry gate shut.    *)
StepFinished(d, x, status) ==
    [d EXCEPT !.outcome[x]    = IF status \in Succeeded THEN "success" ELSE "failed",
              !.unresolved    = @ \ {x},
              !.prompts       = {p \in @ : p[1] # x},
              !.executions[x] = @ + 1,
              !.stuck = @ \cup {y \in {x} : d.ops[x] = "started" /\ Def(x).effect = "fail"},
              !.ops[x] = "none"]

(* install_interaction: a suspended report replaces its owner's prompt. *)
StepSuspended(d, x, question) ==
    [d EXCEPT !.prompts    = {p \in @ : p[1] # x} \cup {<<x, question>>},
              !.unresolved = @ \ {x}]

StepSkipped(d, n) ==
    [d EXCEPT !.outcome[Root(n)] = "skipped",
              !.prompts = {p \in @ : p[1] # Root(n)}]

-----------------------------------------------------------------------------
(* The graph's dependency rules *)

needs_satisfied(n, states) ==
    LET d == flow.nodes[n]
    IN \/ d.needs = {}
       \/ CASE d.deps = "all"         -> \A m \in d.needs : states[m] = "success"
            [] d.deps = "any"         -> \E m \in d.needs : states[m] = "success"
            [] d.deps = "none_failed" -> \A m \in d.needs : states[m] \in {"success", "skipped"}

(* The same rule without the wait for the siblings: not the code's. *)
skip_before_all_terminal(n, states) ==
    /\ flow.nodes[n].needs # {}
    /\ flow.nodes[n].deps = "all"
    /\ \A m \in flow.nodes[n].needs : states[m] = "failed"

should_skip_by_dependencies(n, states) ==
    LET d == flow.nodes[n]
        allTerminal == \A m \in d.needs : states[m] \in {"success", "skipped", "failed"}
    IN /\ d.needs # {}
       /\ CASE d.deps = "all" ->
                 \E m \in d.needs : states[m] \in {"skipped", "failed"}
            [] d.deps = "any" ->
                 allTerminal /\ \A m \in d.needs : states[m] # "success"
            [] d.deps = "none_failed" ->
                 allTerminal /\ \E m \in d.needs : states[m] = "failed"

is_parallel_safe_node(n) == flow.nodes[n].onFail = "none" /\ flow.nodes[n].safe

-----------------------------------------------------------------------------
(* Tasks *)

IdleTask == [stage |-> "idle", try |-> 0, result |-> "none", cached |-> FALSE]
NewTask  == [IdleTask EXCEPT !.stage = "charge", !.try = 1]

NoCycle == [kind |-> "none", owner |-> "none", attempt |-> 0, part |-> "none"]

Idle ==
    [at |-> "idle", states |-> [n \in {} |-> "pending"], budget |-> 0,
     cursor |-> 0, ready |-> <<>>, progressed |-> FALSE,
     aborting |-> FALSE, parentCanceled |-> FALSE, startError |-> "none",
     errors |-> {}, cycle |-> NoCycle, event |-> "none", failed |-> FALSE,
     ret |-> "none", asked |-> <<>>]

Live == {x \in Paths(flow) : task[x].stage # "idle"}
Return(r, ret) == [r EXCEPT !.at = "returned", !.ret = ret]
Suspend(q) == [run EXCEPT !.at = "returned", !.ret = "suspended", !.asked = q]
NodeState(r, n, s) == [r EXCEPT !.states[n] = s]

LoopInit ==
    /\ flow \in Flows
    /\ disk = EmptyDisk(flow)
    /\ run = Idle
    /\ task = [x \in Paths(flow) |-> IdleTask]
    /\ stop = FALSE /\ yield = FALSE /\ expired = FALSE
    /\ applied = [x \in Paths(flow) |-> 0]
    /\ kept = {}
    /\ interruptions = 0

(***************************************************************************)
(* run_inner, the setup of an invocation.  A Started fail-closed operation *)
(* refuses re-entry; an unanswered prompt is surfaced again; an unreported *)
(* task refuses unless its executor declared replay safe.                  *)
(***************************************************************************)
(* Not the code's: the raw outcomes, and failed nodes scheduled again. *)
RawOutcomes(d) == [n \in Nodes(flow) |-> d.outcome[Root(n)]]
NothingSettled(d) == [n \in Nodes(flow) |-> "pending"]

NodeStates(d) ==
    [n \in Nodes(flow) |->
        IF d.outcome[Root(n)] \in {"skipped", "failed"} THEN d.outcome[Root(n)]
                                                        ELSE "pending"]
(* Not the code's: a resume that counts the started steps again. *)
BudgetFromStarts(d) == d.started

BudgetSeed(d) == IF d.hasCharges THEN d.charged ELSE d.started

FailClosedInflight(d) ==
    \/ d.stuck # {}
    \/ \E x \in Paths(flow) : d.ops[x] = "started" /\ Def(x).effect = "fail"

(* Not the code's: any owner is authorized. *)
AlwaysResume(d) == TRUE

MayResume(d) ==
    \A x \in d.unresolved : Len(x) = 1 /\ flow.nodes[x[1]].replaySafe

Invoke ==
    /\ run.at = "idle" /\ disk.terminal = "none"
    /\ IF FailClosedInflight(disk)
       THEN run' = Return(Idle, "error") /\ UNCHANGED disk
       ELSE IF \E p \in disk.prompts : p[1] # <<>> /\ p[2] \notin disk.answers
       THEN /\ run' = Return(Idle, "suspended")
            /\ disk' = [disk EXCEPT !.executionStarted = TRUE]
       ELSE /\ disk' = [disk EXCEPT !.executionStarted = TRUE]
            /\ run' = IF MayResume(disk)
                      THEN [Idle EXCEPT !.at = "hook", !.event = "run_started",
                                        !.states = NodeStates(disk),
                                        !.budget = BudgetSeed(disk)]
                      ELSE Return(Idle, "error")
    /\ UNCHANGED <<flow, task, stop, yield, expired, applied, kept, interruptions>>

-----------------------------------------------------------------------------
(* execute_node_with_retry: one task, attempt by attempt *)

Done(x, result, cached) ==
    task' = [task EXCEPT ![x].stage = "done", ![x].result = result, ![x].cached = cached]

(* Only failures and timeouts retry; the backoff ends at a cancellation or *)
(* at the elapsed deadline.                                                *)
FailAttempt(x) ==
    IF task[x].try >= Def(x).tries THEN Done(x, "failed", FALSE)
    ELSE IF stop    THEN Done(x, "canceled", FALSE)
    ELSE IF expired THEN Done(x, "elapsed", FALSE)
    ELSE task' = [task EXCEPT ![x].stage = "charge", ![x].try = @ + 1]

Charge(x) ==
    /\ task[x].stage = "charge"
    /\ IF run.budget < MaxSteps
       THEN /\ run' = [run EXCEPT !.budget = @ + 1]
            /\ disk' = [disk EXCEPT !.charged = @ + 1, !.hasCharges = TRUE]
            /\ task' = [task EXCEPT ![x].stage = "attempt"]
       ELSE Done(x, "budget", FALSE) /\ UNCHANGED <<run, disk>>
    /\ UNCHANGED <<flow, stop, yield, expired, applied, kept, interruptions>>

(* Not the code's: an indeterminate result read as a clean one. *)
GuardRestarts(x) ==
    IF disk.ops[x] \in {"none", "clean", "started", "unknown"} THEN "start" ELSE "resend"

(* decide_operation_guard over the path's current invocation. *)
GuardVerdict(x) ==
    CASE disk.ops[x] \in {"none", "clean"} -> "start"
      [] disk.ops[x] \in {"started", "unknown"} ->
            IF Def(x).effect = "repeat" THEN "start" ELSE "refuse"
      [] OTHER -> "resend"

(* One attempt up to its external operation: the checkpoint, the question  *)
(* the step has to ask first, and the operation guard.  A step without an  *)
(* effect reports what it may report.                                      *)
Attempt(x) ==
    /\ task[x].stage = "attempt"
    /\ \/ stop /\ Done(x, "canceled", FALSE) /\ UNCHANGED disk
       \/ ~stop /\ expired /\ Done(x, "elapsed", FALSE) /\ UNCHANGED disk
       \/ /\ ~stop /\ ~expired /\ Def(x).asks /\ OwnQuestion(x) \notin disk.answers
          /\ Done(x, "question", FALSE) /\ UNCHANGED disk
       \/ /\ ~stop /\ ~expired /\ (Def(x).asks => OwnQuestion(x) \in disk.answers)
          /\ \/ /\ Def(x).effect = "none"
                /\ \/ \E r \in Def(x).may \ {"failed"} : Done(x, r, FALSE)
                   \/ "failed" \in Def(x).may /\ FailAttempt(x)
                /\ UNCHANGED disk
             \/ /\ Def(x).effect # "none" /\ GuardVerdict(x) = "start"
                /\ disk' = [disk EXCEPT !.ops[x] = "started"]
                /\ task' = [task EXCEPT ![x].stage = "effect"]
             \/ /\ Def(x).effect # "none" /\ GuardVerdict(x) = "resend"
                /\ Done(x, disk.ops[x], TRUE) /\ UNCHANGED disk
             \/ /\ Def(x).effect # "none" /\ GuardVerdict(x) = "refuse"
                /\ Done(x, "refused", FALSE) /\ UNCHANGED disk
    /\ UNCHANGED <<flow, run, stop, yield, expired, applied, kept, interruptions>>

(***************************************************************************)
(* The external operation, and what the gateway could prove of it:         *)
(* success with a cached result, a failure before anything was sent, a     *)
(* failure that may have applied, a cancellation or a timeout that leaves  *)
(* the operation Started.  An attempt that ends past the elapsed deadline  *)
(* loses to it, whatever it reports.                                       *)
(***************************************************************************)
Effect(x) ==
    /\ task[x].stage = "effect"
    /\ \E happened \in BOOLEAN :
         /\ applied' = [applied EXCEPT ![x] = @ + (IF happened THEN 1 ELSE 0)]
         /\ \/ /\ happened
               /\ \E r \in Def(x).may \ {"failed"} :
                     /\ disk' = [disk EXCEPT !.ops[x] = r]
                     /\ Done(x, IF expired THEN "elapsed" ELSE r, FALSE)
            \/ /\ ~happened /\ "failed" \in Def(x).may
               /\ disk' = [disk EXCEPT !.ops[x] = "clean"] /\ FailAttempt(x)
            \/ /\ "failed" \in Def(x).may
               /\ disk' = [disk EXCEPT !.ops[x] = "unknown"] /\ FailAttempt(x)
            \/ stop /\ Done(x, "canceled", FALSE) /\ UNCHANGED disk
            \/ ~stop /\ expired /\ Done(x, "elapsed", FALSE) /\ UNCHANGED disk
            \/ "failed" \in Def(x).may /\ FailAttempt(x) /\ UNCHANGED disk
    /\ UNCHANGED <<flow, run, stop, yield, expired, kept, interruptions>>

(* A task the scheduler aborts dies at its next await point.               *)
DropTask(x) ==
    /\ run.aborting /\ task[x].stage \in {"charge", "attempt", "effect"}
    /\ \E happened \in (IF task[x].stage = "effect" THEN BOOLEAN ELSE {FALSE}) :
         applied' = [applied EXCEPT ![x] = @ + (IF happened THEN 1 ELSE 0)]
    /\ task' = [task EXCEPT ![x].stage = "dropped"]
    /\ UNCHANGED <<flow, disk, run, stop, yield, expired, kept, interruptions>>

-----------------------------------------------------------------------------
(* run_hooks *)

(* What follows the hooks of an event. *)
AfterHooks(r) ==
    CASE r.event = "run_started"   -> [r EXCEPT !.at = "loop", !.event = "none"]
      [] r.event = "step_failed"   -> [r EXCEPT !.event = "run_failed"]
      [] r.event = "run_failed"    -> [r EXCEPT !.at = "finish", !.event = "none"]
      [] r.event = "run_succeeded" -> [r EXCEPT !.at = "finish", !.event = "none"]

Settling(r) == r.event \in {"step_failed", "run_failed"}
HookSettled(d, e) ==
    e \in DOMAIN flow.hooks =>
        d.outcome[Hook(e)] = "success" \/ Hook(e) \in d.hooksSettled

RunHook ==
    /\ run.at = "hook" /\ Live = {}
    /\ LET h == Hook(run.event)
       IN \/ /\ HookSettled(disk, run.event)
             /\ run' = AfterHooks(run) /\ UNCHANGED <<disk, task>>
          \/ /\ ~HookSettled(disk, run.event) /\ Settling(run) /\ (stop \/ expired)
             /\ IF stop
                THEN run' = AfterHooks(run) /\ UNCHANGED disk
                ELSE /\ run' = AfterHooks(run)
                     /\ disk' = [disk EXCEPT !.hooksSettled = @ \cup {h}]
             /\ UNCHANGED task
          \/ /\ ~HookSettled(disk, run.event) /\ (Settling(run) => ~stop /\ ~expired)
             /\ disk' = [disk EXCEPT !.started = @ + 1]
             /\ task' = [task EXCEPT ![h] = NewTask]
             /\ UNCHANGED run
    /\ UNCHANGED <<flow, stop, yield, expired, applied, kept, interruptions>>

(* A hook never suspends; what a contract may downgrade to a warning is a  *)
(* hook's own failure, never a cancellation or an expired deadline.        *)
HookDone ==
    /\ run.at = "hook"
    /\ \E e \in DOMAIN flow.hooks :
         LET h == Hook(e)
             failed == IF flow.hooks[e].policy = "warn"
                       THEN [disk EXCEPT !.hooksSettled = @ \cup {h}] ELSE disk
             after == IF flow.hooks[e].policy = "warn" \/ Settling(run)
                      THEN AfterHooks(run) ELSE Return(run, "error")
         IN /\ task[h].stage = "done"
            /\ task' = [task EXCEPT ![h] = IdleTask]
            /\ CASE task[h].result = "success" ->
                      disk' = StepFinished(disk, h, "success") /\ run' = AfterHooks(run)
                 [] task[h].result = "check" ->
                      /\ disk' = [StepFinished(disk, h, "check_failed")
                                     EXCEPT !.hooksSettled = failed.hooksSettled]
                      /\ run' = after
                 [] task[h].result = "canceled" ->
                      /\ run' = IF Settling(run) THEN AfterHooks(run)
                                                 ELSE Return(run, "canceled")
                      /\ UNCHANGED disk
                 [] task[h].result = "elapsed" /\ ~Settling(run) ->
                      run' = Return(run, "error") /\ UNCHANGED disk
                 [] task[h].result = "budget" \/ (task[h].result = "elapsed" /\ Settling(run)) ->
                      /\ disk' = [disk EXCEPT !.hooksSettled = @ \cup {h}]
                      /\ run' = AfterHooks(run)
                 [] OTHER -> disk' = failed /\ run' = after
    /\ UNCHANGED <<flow, stop, yield, expired, applied, kept, interruptions>>

-----------------------------------------------------------------------------
(* The scheduling loop *)

(* The top of the loop: cancellation first, then a yield, which happens    *)
(* only here, between nodes or complete waves.                             *)
LoopTop ==
    /\ run.at = "loop"
    /\ \/ stop /\ run' = Return(run, "canceled") /\ UNCHANGED kept
       \/ /\ ~stop /\ yield
          /\ run' = Return(run, IF expired THEN "error" ELSE "yielded")
          /\ kept' = IF expired THEN kept
                     ELSE {n \in Nodes(flow) : run.states[n] # "pending"}
       \/ /\ ~stop /\ ~yield
          /\ run' = [run EXCEPT !.at = "scan", !.cursor = 1, !.ready = <<>>,
                                !.progressed = FALSE]
          /\ UNCHANGED kept
    /\ UNCHANGED <<flow, disk, task, stop, yield, expired, applied, interruptions>>

(***************************************************************************)
(* One node of a pass over graph.order.  A pending node whose dependencies *)
(* hold evaluates its condition in every pass, and before the pass asks    *)
(* whether an earlier invocation has settled the node: a false one skips   *)
(* the node over the success it had, an error ends the invocation.         *)
(***************************************************************************)
Scan ==
    /\ run.at = "scan" /\ run.cursor <= Len(flow.order)
    /\ LET n == flow.order[run.cursor]
           next == [run EXCEPT !.cursor = @ + 1]
           settle(s) == [NodeState(next, n, s) EXCEPT !.progressed = TRUE]
       IN \/ /\ run.states[n] # "pending"
             /\ run' = next /\ UNCHANGED disk
          \/ /\ run.states[n] = "pending"
             /\ should_skip_by_dependencies(n, run.states)
             /\ run' = settle("skipped") /\ disk' = StepSkipped(disk, n)
          \/ /\ run.states[n] = "pending"
             /\ ~should_skip_by_dependencies(n, run.states)
             /\ ~needs_satisfied(n, run.states)
             /\ run' = next /\ UNCHANGED disk
          \/ /\ run.states[n] = "pending"
             /\ ~should_skip_by_dependencies(n, run.states)
             /\ needs_satisfied(n, run.states)
             /\ \/ /\ "error" \in flow.nodes[n].when
                   /\ run' = Return(run, "error") /\ UNCHANGED disk
                \/ /\ "false" \in flow.nodes[n].when
                   /\ run' = settle("skipped") /\ disk' = StepSkipped(disk, n)
                \/ /\ "true" \in flow.nodes[n].when /\ disk.outcome[Root(n)] = "success"
                   /\ run' = settle("success") /\ UNCHANGED disk
                \/ /\ "true" \in flow.nodes[n].when /\ disk.outcome[Root(n)] # "success"
                   /\ run' = [next EXCEPT !.ready = Append(@, n)] /\ UNCHANGED disk
    /\ UNCHANGED <<flow, task, stop, yield, expired, applied, kept, interruptions>>

AllSettled(states) == \A n \in DOMAIN states : states[n] \notin {"pending", "running"}

(* The end of a pass: nothing left, nothing runnable, or another pass. *)
EndPass(r) ==
    IF AllSettled(r.states) THEN [r EXCEPT !.at = "settle"]
    ELSE IF r.progressed THEN [r EXCEPT !.at = "loop"]
    ELSE Return(r, "stalled")

Wave == /\ Len(run.ready) > 1 /\ Len(run.ready) <= MaxParallel
        /\ \A i \in 1..Len(run.ready) : is_parallel_safe_node(run.ready[i])

(* After the pass: start a wave, or the first ready node alone. *)
Dispatch ==
    /\ run.at = "scan" /\ run.cursor > Len(flow.order)
    /\ \/ /\ run.ready = <<>>
          /\ run' = EndPass(run) /\ UNCHANGED <<disk, task>>
       \/ /\ Wave
          /\ run' = [run EXCEPT !.at = "starting", !.cursor = 1, !.aborting = FALSE,
                                !.parentCanceled = FALSE, !.startError = "none",
                                !.errors = {}]
          /\ UNCHANGED <<disk, task>>
       \/ /\ run.ready # <<>> /\ ~Wave
          /\ IF stop \/ expired
             THEN /\ run' = Return(run, IF stop THEN "canceled" ELSE "error")
                  /\ UNCHANGED <<disk, task>>
             ELSE LET n == run.ready[1]
                  IN /\ run' = [NodeState(run, n, "running") EXCEPT !.at = "node"]
                     /\ disk' = [disk EXCEPT !.started = @ + 1]
                     /\ task' = [task EXCEPT ![Root(n)] = NewTask]
    /\ UNCHANGED <<flow, stop, yield, expired, applied, kept, interruptions>>

-----------------------------------------------------------------------------
(* execute_parallel_wave *)

WavePaths == {Root(run.ready[i]) : i \in 1..Len(run.ready)}

(* The wave's nodes start one after the other, and the first ones already  *)
(* run; a checkpoint that refuses a start aborts what has been started.    *)
StartWaveNode ==
    /\ run.at = "starting" /\ run.startError = "none"
    /\ LET n == run.ready[run.cursor]
           last == run.cursor = Len(run.ready)
       IN IF stop \/ expired
          THEN /\ run' = [run EXCEPT !.at = "wave", !.aborting = TRUE,
                                     !.startError = IF stop THEN "canceled" ELSE "elapsed",
                                     !.ready = SubSeq(@, 1, run.cursor - 1)]
               /\ UNCHANGED <<disk, task>>
          ELSE /\ run' = [NodeState(run, n, "running")
                            EXCEPT !.cursor = IF last THEN @ ELSE @ + 1,
                                   !.at = IF last THEN "wave" ELSE @]
               /\ disk' = [disk EXCEPT !.started = @ + 1]
               /\ task' = [task EXCEPT ![Root(n)] = NewTask]
    /\ UNCHANGED <<flow, stop, yield, expired, applied, kept, interruptions>>

(* External cancellation aborts every task; the biased select prefers it.  *)
CancelWave ==
    /\ run.at = "wave" /\ stop /\ ~run.parentCanceled /\ run.startError = "none"
    /\ \E x \in WavePaths : task[x].stage \notin {"idle", "joined"}
    /\ run' = [run EXCEPT !.aborting = TRUE, !.parentCanceled = TRUE]
    /\ UNCHANGED <<flow, disk, task, stop, yield, expired, applied, kept, interruptions>>

(* record_wave_join: what the join proves of the task.  A task that was    *)
(* dropped or that reports its own cancellation leaves unknown effects.    *)
Unreported(t) == t.stage = "dropped" \/ t.result = "canceled"

(* Not the code's: a join that does not count an aborted task. *)
JoinReported(x) ==
    /\ run.at = "wave" /\ x \in WavePaths
    /\ task[x].stage = "done"
    /\ ~stop \/ run.parentCanceled \/ run.startError # "none"
    /\ disk' = [disk EXCEPT !.unresolved = @ \cup {y \in {x} : Unreported(task[x])}]
    /\ task' = [task EXCEPT ![x].stage = "joined"]
    /\ run' = [run EXCEPT !.aborting = @ \/ task[x].result # "success"]
    /\ UNCHANGED <<flow, stop, yield, expired, applied, kept, interruptions>>

JoinTask(x) ==
    /\ run.at = "wave" /\ x \in WavePaths
    /\ task[x].stage \in {"done", "dropped"}
    /\ ~stop \/ run.parentCanceled \/ run.startError # "none"
    /\ disk' = [disk EXCEPT !.unresolved = @ \cup {y \in {x} : Unreported(task[x])}]
    /\ task' = [task EXCEPT ![x].stage = "joined",
                            ![x].result = IF task[x].stage = "dropped" THEN "none" ELSE @]
    /\ run' = [run EXCEPT !.aborting = @ \/ task[x].result # "success"]
    /\ UNCHANGED <<flow, stop, yield, expired, applied, kept, interruptions>>

(* Every task is joined: settle the nodes in the wave's order. *)
WaveDrained ==
    /\ run.at = "wave" /\ \A x \in WavePaths : task[x].stage = "joined"
    /\ run' = [run EXCEPT !.at = "settleWave", !.cursor = 1]
    /\ UNCHANGED <<flow, disk, task, stop, yield, expired, applied, kept, interruptions>>

HitlPending == \E x \in WavePaths : task[x].result = "question"

SettleWaveNode ==
    /\ run.at = "settleWave" /\ run.cursor <= Len(run.ready)
    /\ LET n == run.ready[run.cursor]
           x == Root(n)
           r == task[x].result
           next == [run EXCEPT !.cursor = @ + 1]
       IN CASE r = "none" \/ (r = "canceled" /\ HitlPending) ->
                 run' = NodeState(next, n, "pending") /\ UNCHANGED disk
            [] r = "success" ->
                 /\ run' = NodeState(next, n, "success")
                 /\ disk' = StepFinished(disk, x, "success")
            [] r = "question" ->
                 run' = next /\ disk' = StepSuspended(disk, x, OwnQuestion(x))
            [] r = "check" ->
                 /\ run' = NodeState(next, n, "failed")
                 /\ disk' = StepFinished(disk, x, "check_failed")
            [] OTHER ->
                 /\ run' = [NodeState(next, n, "failed") EXCEPT !.errors = @ \cup {<<n, r>>}]
                 /\ disk' = StepFinished(disk, x, "failed")
    /\ UNCHANGED <<flow, task, stop, yield, expired, applied, kept, interruptions>>

(* combine_terminal_errors and the loop's handling of the wave's error:    *)
(* an interaction is delivered first; an unreported execution, and a       *)
(* cancellation, end the invocation; an exhausted budget or deadline goes  *)
(* to settlement; an ordinary failure keeps scheduling.                    *)
WaveError ==
    IF run.parentCanceled THEN "canceled"
    ELSE IF run.startError # "none" THEN run.startError
    ELSE IF HitlPending THEN "suspended"
    ELSE IF run.errors = {} THEN "none"
    ELSE IF Cardinality(run.errors) = 1 THEN (CHOOSE e \in run.errors : TRUE)[2]
    ELSE "failed"

EndWave ==
    /\ run.at = "settleWave" /\ run.cursor > Len(run.ready)
    /\ task' = [x \in Paths(flow) |-> IdleTask]
    /\ run' = LET r == [run EXCEPT !.aborting = FALSE, !.progressed = TRUE]
              IN CASE WaveError = "none" -> EndPass(r)
                   [] WaveError \in {"canceled", "suspended"} -> Return(r, WaveError)
                   [] /\ WaveError \notin {"none", "canceled", "suspended"}
                      /\ disk.unresolved # {} -> Return(r, "error")
                   [] WaveError \in {"budget", "elapsed"} /\ disk.unresolved = {} ->
                        [r EXCEPT !.at = "settle"]
                   [] OTHER -> EndPass(r)
    /\ UNCHANGED <<flow, disk, stop, yield, expired, applied, kept, interruptions>>

-----------------------------------------------------------------------------
(* A node on its own, with its on_fail policy *)

Current == run.ready[1]

(* A node's own report, taken from its task once it is done. *)
Take(x) == task' = [task EXCEPT ![x] = IdleTask]

(* An error outside every cycle: cancellation propagates, the rest fails   *)
(* the node, and an exhausted budget or deadline ends the scheduling.      *)
NodeError(n, r) ==
    IF r = "canceled" THEN run' = Return(run, "canceled") /\ UNCHANGED disk
    ELSE /\ disk' = StepFinished(disk, Root(n), "failed")
         /\ run' = [NodeState(run, n, "failed")
                      EXCEPT !.at = IF r \in {"budget", "elapsed"} THEN "settle" ELSE "loop"]

Settle(n, s, status) ==
    /\ disk' = StepFinished(disk, Root(n), status)
    /\ run' = EndPass([NodeState(run, n, s) EXCEPT !.progressed = TRUE, !.cycle = NoCycle])

Ask(n, q) ==
    /\ disk' = StepSuspended(disk, Root(n), q)
    /\ run' = Suspend(q)

OnFailAnswered(n) == OnFailQuestion(Root(n)) \in disk.answers

NodeDone ==
    /\ run.at = "node" /\ run.cycle = NoCycle
    /\ LET n == Current
           x == Root(n)
           r == task[x].result
           p == flow.nodes[n].onFail
       IN /\ task[x].stage = "done" /\ Take(x)
          /\ CASE r = "success"  -> Settle(n, "success", "success")
               [] r = "question" -> Ask(n, OwnQuestion(x))
               [] r = "check" /\ p = "none"  -> Settle(n, "failed", "check_failed")
               [] r = "check" /\ p = "route" -> Settle(n, "success", "routed")
               [] r = "check" /\ p = "ask" /\ OnFailAnswered(n) ->
                    Settle(n, "success", "answered_on_fail")
               [] r = "check" /\ p = "ask" /\ ~OnFailAnswered(n) ->
                    Ask(n, OnFailQuestion(x))
               [] r = "check" /\ p \in {"regenerate", "repair"} ->
                    /\ run' = [run EXCEPT !.cycle = [kind |-> p, owner |-> n, attempt |-> 1,
                                                 part |-> "repair"]]
                    /\ UNCHANGED disk
               [] OTHER -> NodeError(n, r)
    /\ UNCHANGED <<flow, stop, yield, expired, applied, kept, interruptions>>

(***************************************************************************)
(* What a cycle that has used up its attempts does.  The repair cycle      *)
(* leaves both of its nodes skipped; its question is not journaled with a  *)
(* step_finished, so it is the service's run_waiting record that keeps it. *)
(***************************************************************************)
Exhausted(n) ==
    LET p == flow.nodes[n].exhausted
        r == IF run.cycle.kind = "repair"
             THEN NodeState(NodeState(run, flow.nodes[n].repair, "skipped"),
                            flow.nodes[n].recheck, "skipped")
             ELSE run
        settle(s, status) ==
            /\ disk' = StepFinished(disk, Root(n), status)
            /\ run' = EndPass([NodeState(r, n, s) EXCEPT !.progressed = TRUE, !.cycle = NoCycle])
    IN CASE p = "fail"  -> settle("failed", "exhausted")
         [] p = "route" -> settle("success", "routed")
         [] p = "ask" /\ OnFailAnswered(n) -> settle("success", "answered_on_fail")
         [] p = "ask" /\ ~OnFailAnswered(n) /\ run.cycle.kind = "repair" ->
              run' = Suspend(OnFailQuestion(Root(n))) /\ UNCHANGED disk
         [] OTHER -> Ask(n, OnFailQuestion(Root(n)))

NextAttempt == [run EXCEPT !.cycle.attempt = @ + 1, !.cycle.part = "repair"]

(* execute_regenerate: the node again, under its own path. *)
StartRegenerate ==
    /\ run.at = "node" /\ run.cycle.kind = "regenerate" /\ Live = {}
    /\ \/ /\ run.cycle.attempt > MaxRepairs
          /\ Exhausted(Current) /\ UNCHANGED task
       \/ /\ run.cycle.attempt <= MaxRepairs
          /\ IF stop \/ expired
             THEN run' = Return(run, IF stop THEN "canceled" ELSE "error") /\ UNCHANGED task
             ELSE task' = [task EXCEPT ![Root(Current)] = NewTask] /\ UNCHANGED run
          /\ UNCHANGED disk
    /\ UNCHANGED <<flow, stop, yield, expired, applied, kept, interruptions>>

RegenerateDone ==
    /\ run.at = "node" /\ run.cycle.kind = "regenerate"
    /\ LET n == Current
           x == Root(n)
           r == task[x].result
       IN /\ task[x].stage = "done" /\ Take(x)
          /\ CASE r = "success"  -> Settle(n, "success", "regenerated")
               [] r = "question" -> Ask(n, OwnQuestion(x))
               [] r = "check"    -> run' = NextAttempt /\ UNCHANGED disk
               [] OTHER -> /\ run' = Return(run, IF r = "canceled" THEN r ELSE "error")
                           /\ UNCHANGED disk
    /\ UNCHANGED <<flow, stop, yield, expired, applied, kept, interruptions>>

(***************************************************************************)
(* execute_repair_cycle and execute_named_node: the repair node and then   *)
(* the recheck node, each under a path of the owner and the attempt, with  *)
(* the journal's successes of earlier invocations replayed.                *)
(***************************************************************************)
RepairTarget ==
    IF run.cycle.part = "repair" THEN flow.nodes[run.cycle.owner].repair
                                 ELSE flow.nodes[run.cycle.owner].recheck

RepairPath(n) == Child(run.cycle.owner, run.cycle.attempt, n)

(* The recheck passed: the owner is repaired. *)
RepairSettled(r, d) ==
    /\ disk' = StepFinished(d, Root(run.cycle.owner), "repaired")
    /\ run' = EndPass([NodeState(r, run.cycle.owner, "success")
                         EXCEPT !.progressed = TRUE, !.cycle = NoCycle])

NamedSuccess(n, d) ==
    IF run.cycle.part = "recheck"
    THEN RepairSettled(NodeState(run, n, "success"), d)
    ELSE /\ run' = [NodeState(run, n, "success") EXCEPT !.cycle.part = "recheck"]
         /\ disk' = d

StartRepair ==
    /\ run.at = "node" /\ run.cycle.kind = "repair" /\ Live = {}
    /\ \/ /\ run.cycle.attempt > MaxRepairs
          /\ Exhausted(run.cycle.owner) /\ UNCHANGED task
       \/ /\ run.cycle.attempt <= MaxRepairs
          /\ LET n == RepairTarget
                 x == RepairPath(n)
             IN IF run.cycle.part = "repair" /\ (stop \/ expired)
                THEN /\ run' = Return(run, IF stop THEN "canceled" ELSE "error")
                     /\ UNCHANGED <<disk, task>>
                ELSE IF disk.outcome[x] = "success"
                THEN NamedSuccess(n, disk) /\ UNCHANGED task
                ELSE /\ run' = NodeState(run, n, "running")
                     /\ disk' = [disk EXCEPT !.started = @ + 1]
                     /\ task' = [task EXCEPT ![x] = NewTask]
    /\ UNCHANGED <<flow, stop, yield, expired, applied, kept, interruptions>>

RepairDone ==
    /\ run.at = "node" /\ run.cycle.kind = "repair"
    /\ run.cycle.attempt <= MaxRepairs
    /\ LET n == RepairTarget
           x == RepairPath(n)
           r == task[x].result
       IN /\ task[x].stage = "done" /\ Take(x)
          /\ CASE r = "success" -> NamedSuccess(n, StepFinished(disk, x, "success"))
               [] r = "question" ->
                    /\ disk' = StepSuspended(disk, x, OwnQuestion(x))
                    /\ run' = Suspend(OwnQuestion(x))
               [] r = "check" ->
                    /\ disk' = StepFinished(disk, x, "check_failed")
                    /\ run' = NodeState(NextAttempt, n, "failed")
               [] r = "canceled" -> run' = Return(run, "canceled") /\ UNCHANGED disk
               [] OTHER -> /\ disk' = StepFinished(disk, x, "failed")
                           /\ run' = Return(run, "error")
    /\ UNCHANGED <<flow, stop, yield, expired, applied, kept, interruptions>>

-----------------------------------------------------------------------------
(* Settlement, the caller's part of an invocation's end, and the environment *)

Failures(states) == {n \in DOMAIN states : states[n] = "failed"}

(* Not the code's: no deadline gate before success. *)
SettleUngated ==
    /\ run.at = "settle"
    /\ run' = IF Failures(run.states) # {}
              THEN [run EXCEPT !.at = "hook", !.event = "step_failed", !.failed = TRUE]
              ELSE [run EXCEPT !.at = "hook", !.event = "run_succeeded"]
    /\ UNCHANGED <<flow, disk, task, stop, yield, expired, applied, kept, interruptions>>

(* Failures go through the failure hooks; success passes the deadline gate *)
(* and the success hooks first.                                            *)
SettleRun ==
    /\ run.at = "settle"
    /\ run' = IF Failures(run.states) # {}
              THEN [run EXCEPT !.at = "hook", !.event = "step_failed", !.failed = TRUE]
              ELSE IF stop THEN Return(run, "canceled")
              ELSE IF expired THEN Return(run, "error")
              ELSE [run EXCEPT !.at = "hook", !.event = "run_succeeded"]
    /\ UNCHANGED <<flow, disk, task, stop, yield, expired, applied, kept, interruptions>>

FinishRun ==
    /\ run.at = "finish"
    /\ disk' = [disk EXCEPT !.terminal = IF run.failed THEN "failed" ELSE "success"]
    /\ run' = Return(run, IF run.failed THEN "failed" ELSE "done")
    /\ UNCHANGED <<flow, task, stop, yield, expired, applied, kept, interruptions>>

(* run_with_id settles a cancellation; the service settles an error, and   *)
(* leaves a suspended or yielded run to be invoked again.  Its run_waiting *)
(* record keeps a question no step owns.                                   *)
EndInvocation ==
    /\ run.at = "returned"
    /\ disk' = [disk EXCEPT
                  !.terminal = CASE run.ret = "canceled" -> "canceled"
                                 [] run.ret \in {"error", "stalled"} -> "failed"
                                 [] OTHER -> @,
                  !.prompts = IF run.ret # "suspended" \/ run.asked = <<>>
                                 \/ \E p \in @ : p[2] = run.asked
                              THEN @ ELSE @ \cup {<<<<>>, run.asked>>}]
    /\ run' = Idle
    /\ task' = [x \in Paths(flow) |-> IdleTask]
    /\ stop' = FALSE /\ yield' = FALSE
    /\ UNCHANGED <<flow, expired, applied, kept, interruptions>>

Answer ==
    /\ run.at = "idle" /\ disk.terminal = "none"
    /\ \E p \in disk.prompts :
         disk' = [disk EXCEPT !.answers = @ \cup {p[2]}, !.prompts = @ \ {p}]
    /\ UNCHANGED <<flow, run, task, stop, yield, expired, applied, kept, interruptions>>

Cancel == /\ ~stop /\ run.at \notin {"idle", "returned"} /\ stop' = TRUE
          /\ UNCHANGED <<flow, disk, run, task, yield, expired, applied, kept, interruptions>>
RequestYield == /\ ~yield /\ run.at \notin {"idle", "returned"} /\ yield' = TRUE
                /\ interruptions < MaxInterruptions /\ interruptions' = interruptions + 1
                /\ UNCHANGED <<flow, disk, run, task, stop, expired, applied, kept>>
Expire == /\ ~expired /\ run.at \notin {"idle", "returned"} /\ expired' = TRUE
          /\ UNCHANGED <<flow, disk, run, task, stop, yield, applied, kept, interruptions>>

(* The process dies: the memory is gone, and an effect under way may still *)
(* take place.                                                             *)
ProcessDies ==
    /\ run.at # "idle"
    /\ interruptions < MaxInterruptions /\ interruptions' = interruptions + 1
    /\ \E late \in SUBSET {x \in Paths(flow) : task[x].stage = "effect"} :
         applied' = [x \in Paths(flow) |-> applied[x] + (IF x \in late THEN 1 ELSE 0)]
    /\ run' = Idle /\ task' = [x \in Paths(flow) |-> IdleTask]
    /\ stop' = FALSE /\ yield' = FALSE
    /\ UNCHANGED <<flow, disk, expired, kept>>

TaskStep(x) == Charge(x) \/ Attempt(x) \/ Effect(x) \/ DropTask(x)
Scheduler ==
    \/ Invoke \/ RunHook \/ HookDone \/ LoopTop \/ Scan \/ Dispatch
    \/ StartWaveNode \/ CancelWave \/ WaveDrained \/ SettleWaveNode \/ EndWave
    \/ NodeDone \/ StartRegenerate \/ RegenerateDone \/ StartRepair \/ RepairDone
    \/ SettleRun \/ FinishRun \/ EndInvocation
    \/ \E x \in Paths(flow) : JoinTask(x)

LoopNext ==
    \/ Scheduler
    \/ \E x \in Paths(flow) : TaskStep(x)
    \/ Answer \/ Cancel \/ RequestYield \/ Expire \/ ProcessDies

LoopSpec == LoopInit /\ [][LoopNext]_loopVars

(* The executor polls every ready task, and the loop itself, until they    *)
(* end: tokio's scheduler is fair to runnable tasks.                       *)
LoopFairness == WF_loopVars(Scheduler) /\ WF_loopVars(\E x \in Paths(flow) : TaskStep(x))

-----------------------------------------------------------------------------
(* Properties *)

(* The nodes a repair cycle runs on its owner's behalf. *)
RepairNodes(f) ==
    UNION {{f.nodes[o].repair, f.nodes[o].recheck} :
              o \in {m \in Nodes(f) : f.nodes[m].onFail = "repair"}}

(***************************************************************************)
(* What the run promises its caller: FlowContract, with a repair cycle's   *)
(* nodes counted to their owner and the effects of the fail-closed nodes.  *)
(***************************************************************************)
OwnNodes == Nodes(flow) \ RepairNodes(flow)
Contract == INSTANCE FlowContract WITH
    steps   <- OwnNodes,
    outcome <- [n \in OwnNodes |-> disk.outcome[Root(n)]],
    effects <- [n \in OwnNodes |->
                  IF flow.nodes[n].effect = "fail" THEN applied[Root(n)] ELSE 0],
    verdict <- disk.terminal

(* The engine implements the contract: over all its invocations, crashes,  *)
(* yields and resumes a node settles once, its fail-closed effect happens  *)
(* once and only while it is open, and the verdict fits the nodes.         *)
KeepsContract == Contract!ContractSpec

(* The variables have the shape the loop gives them. *)
EngineTypeOK ==
    /\ flow \in Flows
    /\ disk.outcome \in [Paths(flow) -> {"none", "success", "skipped", "failed"}]
    /\ disk.ops \in [Paths(flow) -> {"none", "started", "clean", "unknown", "success", "check"}]
    /\ disk.unresolved \subseteq Paths(flow) /\ disk.stuck \subseteq Paths(flow)
    /\ disk.hooksSettled \subseteq Paths(flow)
    /\ disk.terminal \in {"none", "success", "failed", "canceled"}
    /\ disk.charged \in Nat /\ disk.started \in Nat /\ disk.hasCharges \in BOOLEAN
    /\ run.at \in {"idle", "hook", "loop", "scan", "starting", "wave", "settleWave",
                   "node", "settle", "finish", "returned"}
    /\ run.at \notin {"idle", "returned"} =>
         run.states \in [Nodes(flow) -> {"pending", "running", "success", "skipped", "failed"}]
    /\ task \in [Paths(flow) -> [stage : {"idle", "charge", "attempt", "effect", "done",
                                          "dropped", "joined"},
                                 try : Nat, result : Results \cup {"none"}, cached : BOOLEAN]]
    /\ applied \in [Paths(flow) -> Nat]
    /\ stop \in BOOLEAN /\ yield \in BOOLEAN /\ expired \in BOOLEAN
    /\ kept \subseteq Nodes(flow) /\ interruptions \in 0..MaxInterruptions

(***************************************************************************)
(* The external effect of a graph node whose retry policy is fail-closed   *)
(* takes place at most once in the whole life of the run: not again after  *)
(* a crash between the effect and its record, not in a retry after a       *)
(* timeout, not when a sibling's failure aborted the task, and not when an *)
(* invocation repeats a step that had not reported yet.                    *)
(***************************************************************************)
EffectAppliedOnce ==
    \A n \in Nodes(flow) :
        flow.nodes[n].effect = "fail" => applied[Root(n)] <= 1

(***************************************************************************)
(* A task whose join left its effects unknown is executed again only when  *)
(* its executor declared that safe; no later wave, retry, resume or yield  *)
(* slips it back in.                                                       *)
(***************************************************************************)
UnknownEffectsStayPut ==
    \A x \in disk.unresolved :
        task[x].stage \in {"charge", "attempt", "effect"} => Def(x).replaySafe

(***************************************************************************)
(* However often the run crashes, yields, retries and repairs, and however *)
(* many tasks charge concurrently, the attempts it charges never pass      *)
(* budget.max_steps.                                                       *)
(***************************************************************************)
BudgetSurvivesRestarts == disk.charged <= MaxSteps

(***************************************************************************)
(* A run is recorded as successful only when every node of its flow is     *)
(* durably settled without failure, no task's effects are unknown and no   *)
(* question is left open - also when a deadline, a budget or an aborted    *)
(* wave ended the scheduling with nodes still pending.                     *)
(***************************************************************************)
SuccessIsComplete ==
    disk.terminal = "success" =>
        /\ \A n \in Nodes(flow) \ RepairNodes(flow) :
              disk.outcome[Root(n)] \in {"success", "skipped"}
        /\ disk.unresolved = {} /\ disk.stuck = {}
        /\ \A p \in disk.prompts : p[2] \in disk.answers

(***************************************************************************)
(* The scheduler of an acyclic flow never reports that no runnable node    *)
(* remains: whatever the dependency policies, skips, failures and aborted  *)
(* waves, every pass settles, starts or ends something.                    *)
(***************************************************************************)
NeverStalls == run.ret # "stalled"

(***************************************************************************)
(* What the scheduler had settled when the run yielded its slot is not     *)
(* executed again when it is invoked the next time.                        *)
(***************************************************************************)
YieldKeepsSettledNodes ==
    \A n \in kept \ RepairNodes(flow) : task[Root(n)].stage = "idle"

(***************************************************************************)
(* The same of the nodes a repair cycle settled: "All started work has     *)
(* checkpointed before re-entry" (run.rs).                                 *)
(***************************************************************************)
YieldKeepsRepairedNodes ==
    \A n \in kept \cap RepairNodes(flow) : task[Root(n)].stage = "idle"

(***************************************************************************)
(* A regenerate attempt is an invocation of its own: it is never answered  *)
(* from the operation cache of the attempt it replaces.                    *)
(***************************************************************************)
RegenerateIsNewInvocation ==
    run.cycle.kind = "regenerate" => \A x \in Paths(flow) : ~task[x].cached

(***************************************************************************)
(* Every invocation ends: no abort, drain, retry or repair leaves the loop *)
(* waiting for a task that never reports.                                  *)
(***************************************************************************)
InvocationEnds == (run.at # "idle") ~> (run.at = "idle")
=============================================================================
