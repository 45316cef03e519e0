------------------------------- MODULE AgentStep -------------------------------
(***************************************************************************)
(* One llm.agent step (crates/llm-steps): the loop that asks the model,    *)
(* executes the tool calls it answers with and records a checkpoint at     *)
(* every point where a restart, a question or a confirmation may cut the   *)
(* turn.  The journal keeps only a redacted copy of a pending call; the    *)
(* exact bytes ride in a private payload file that is removed when the     *)
(* operation settles.  Effects go through the approval policy and the      *)
(* operation guard of the engine (run_context.rs).                         *)
(*                                                                         *)
(* The environment is the model (any response at any turn, ids reused at   *)
(* will), the remote side of a tool, the user, and a process that may die  *)
(* between any two steps.  `disk' is what the journal folds into, plus the *)
(* payload files; `run' is the memory of the attempt.  Specialists (agent  *)
(* tools) are not offered to the model here.                               *)
(***************************************************************************)
EXTENDS Naturals, Sequences, FiniteSets, Functions

CONSTANTS
    Ids,         \* tool call ids the model may use
    Secrets,     \* contents that redaction replaces by a constant
    Setups,      \* the nodes under study: tools offered, policies, limits
    MaxTurns,    \* params.max_iterations
    MaxCalls,    \* params.max_tool_calls_total
    MaxSteps,    \* budget.max_steps: attempts the run may charge
    MaxAsks,     \* bound: different requests for input a remote tool makes
    MaxCrashes,  \* bound: process deaths per behaviour
    MaxFaults    \* bound: timeouts, rejections, gateway and provider failures

Tools == {"write", "patch", "command", "http", "get", "mcp", "query", "ask", "search"}

ASSUME AgentAssumption ==
    /\ {MaxTurns, MaxCalls, MaxSteps} \subseteq Nat \ {0}
    /\ {MaxAsks, MaxCrashes, MaxFaults} \subseteq Nat
    /\ "masked" \notin Secrets
    /\ \A s \in Setups :
         /\ s.policy \in {"none", "allowed", "confirm"}
         /\ s.scope \in {"invocation", "content"}
         /\ s.auth \in {"fail", "wait", "degrade"}
         /\ s.outside \in {"fail", "clarify", "clamp"}
         /\ s.repeat \in BOOLEAN
         /\ s.tries \in Nat \ {0} /\ s.cap \in Nat
         /\ \A o \in s.offers :
              /\ o.tool \in Tools /\ o.text \notin {"none", "masked"}
              \* a command takes nothing from the model's arguments: its text is
              \* the declared argument vector, which redaction never touches
              /\ o.tool = "command" => o.text \notin Secrets

VARIABLES
    setup,     \* the node's parameters
    disk,      \* the folded journal and the payload files
    run,       \* the attempt in memory
    effects,   \* [id -> how often its side effect took place] (history)
    applied,   \* the calls that took effect, as executed (history)
    asked,     \* the calls as the model sent them (history)
    continued, \* the questions whose answer a resumed call sent, in order (history)
    crashes, faults

agentVars == <<setup, disk, run, effects, applied, asked, continued, crashes, faults>>
history   == <<effects, applied, asked, continued>>

-----------------------------------------------------------------------------
(* Arguments, their journaled copies and the identities built from them *)

(* A call's arguments: their text, and how often a hash placeholder has    *)
(* been put in place of it.                                                *)
Live(text) == [text |-> text, hashes |-> 0]
Mask       == Live("masked")
NoBody     == Live("none")
NoCall     == [id |-> "none", tool |-> "none", body |-> NoBody]

args_contain_redaction_marker(body) == body = Mask \/ body.hashes > 0

(* Credentials become a constant.  File content and request bodies become  *)
(* a hash of themselves, so a copy redacted again differs; patch lines,    *)
(* once replaced, are no longer an array and stay as they are.             *)
redact_agent_tool_args_for_journal(tool, body) ==
    IF tool = "write" THEN [body EXCEPT !.hashes = @ + 1]
    ELSE IF tool = "patch" THEN [body EXCEPT !.hashes = 1]
    ELSE IF body = Mask \/ body.text \in Secrets THEN Mask
    ELSE IF tool = "http" THEN [body EXCEPT !.hashes = @ + 1]
    ELSE body

Redacted(call) == [call EXCEPT !.body = redact_agent_tool_args_for_journal(call.tool, @)]

(* A prompt is its identity: a builtin question, a remote tool's request   *)
(* for input, a confirmation, the authorization or the clarification form. *)
NoPrompt     == [kind |-> "none", id |-> "none", tool |-> "none", body |-> NoBody, n |-> 0]
AuthPrompt   == [NoPrompt EXCEPT !.kind = "auth"]
ClarifyPrompt == [NoPrompt EXCEPT !.kind = "clarify"]

ask_user_question_id(call) ==
    [kind |-> "ask", id |-> call.id, tool |-> call.tool, body |-> call.body, n |-> 0]

(* The remote side's n-th request, bound to the redacted arguments. *)
mcp_question_id(call, n) ==
    [ask_user_question_id(Redacted(call)) EXCEPT !.kind = "mcp", !.n = n]

(* The approval binds the full arguments, and the call when the scope says so. *)
ConfirmId(call) ==
    [ask_user_question_id(call) EXCEPT
        !.kind = "confirm", !.id = IF setup.scope = "content" THEN "any" ELSE call.id]

(* The operation record binds what the guard is given: MCP its redacted form. *)
operation_digest(call) ==
    [tool |-> call.tool,
     body |-> IF call.tool \in {"mcp", "query"} THEN Redacted(call).body ELSE call.body]

(* The continuation of a remote request is found by its redacted call. *)
pending_key_for_agent_mcp(call) == Redacted(call)

agent_tool_has_side_effects(tool) == tool \in {"write", "patch", "command", "http", "get", "mcp"}

agent_tool_requires_serial_execution(tool) == tool = "ask" \/ agent_tool_has_side_effects(tool)

-----------------------------------------------------------------------------
(* The journal, folded, and the payload files *)

NoCounts == [t \in Tools |-> 0]
NoneUsed == [i \in Ids |-> NoBody]

(* An agent_checkpoint event: either a pending side effect, with or without *)
(* the confirmation it waits for, or a call suspended on a question.        *)
AgentCheckpoint(turn, counts, used) ==
    [turn |-> turn, counts |-> counts, used |-> used,
     pending |-> NoCall, confirm |-> NoPrompt, suspended |-> NoCall, question |-> NoPrompt]

NoCheckpoint == AgentCheckpoint(0, NoCounts, NoneUsed)
NoOperation  == [status |-> "none", digest |-> operation_digest(NoCall)]

EmptyDisk ==
    [checkpoint  |-> NoCheckpoint,
     ops         |-> [i \in Ids |-> NoOperation],
     payload     |-> [i \in Ids |-> NoCall],
     mcp_pending |-> {},  \* [key, question] of suspended remote requests
     mcp_resumed |-> {},  \* [key, question] of those re-entered
     prompt      |-> NoPrompt,
     answers     |-> {},
     approved    |-> {},
     rejected    |-> {},
     charged     |-> 0,
     outcome     |-> "none"]

operation_started(d, call) ==
    [d EXCEPT !.ops[call.id] = [status |-> "started", digest |-> operation_digest(call)]]

operation_finished(d, call, status) == [d EXCEPT !.ops[call.id].status = status]

(* A stored payload never holds the placeholders of a remote call. *)
store_pending_tool_payload(d, call) ==
    IF call.tool = "mcp" /\ args_contain_redaction_marker(call.body)
    THEN d ELSE [d EXCEPT !.payload[call.id] = call]

clear_pending_tool_payload(d, call) == [d EXCEPT !.payload[call.id] = NoCall]

(* A settled step drops its checkpoint and its prompt. *)
step_finished(d, outcome) ==
    [d EXCEPT !.outcome = outcome, !.checkpoint = NoCheckpoint, !.prompt = NoPrompt]

ensure_no_fail_closed_inflight_operations(d) ==
    \A i \in Ids : d.ops[i].status = "started" => setup.repeat

(* Not the code's: only an unfinished operation counts as indeterminate. *)
RetriesUnknown(d, call) ==
    LET record == d.ops[call.id]
        same   == record.digest = operation_digest(call)
    IN IF \/ record.status \in {"none", "clean", "unknown"}
          \/ same /\ record.status = "started" /\ setup.repeat
       THEN "start"
       ELSE IF same /\ record.status = "success" THEN "resend" ELSE "refuse"

(* The guard's verdict from the durable record of the call's operation: no *)
(* record starts it, other content is refused, a proven failure is tried   *)
(* again, an indeterminate one only where the node says so, and a success  *)
(* answers from its cached result, when it has one.                        *)
decide_operation_guard(d, call) ==
    LET record == d.ops[call.id]
        same   == record.digest = operation_digest(call)
    IN IF \/ record.status = "none"
          \/ same /\ record.status = "clean"
          \/ same /\ record.status \in {"started", "unknown"} /\ setup.repeat
       THEN "start"
       ELSE IF same /\ record.status = "success" THEN "resend" ELSE "refuse"

(* Not the code's: an approval is looked up by tool, without content. *)
ApprovesTool(d, call) ==
    IF setup.policy = "none" THEN "denied"
    ELSE IF setup.policy = "allowed" \/ \E p \in d.approved : p.tool = call.tool
    THEN "allowed" ELSE "confirm"

(* What the manifest's side-effect policy says of the call. *)
require_side_effect(d, call) ==
    IF setup.policy = "none" THEN "denied"
    ELSE IF setup.policy = "allowed" \/ ConfirmId(call) \in d.approved
    THEN "allowed" ELSE "confirm"

(* The payload file's call, when it redacts to the journaled copy and      *)
(* matches the digest the confirmation shows; the redacted copy otherwise. *)
restore_pending_call_from_sidecar(d) ==
    LET stored  == d.checkpoint.pending
        sidecar == d.payload[stored.id]
        confirm == d.checkpoint.confirm
        digested == stored.tool \in {"write", "patch", "http", "mcp"}
    IN IF /\ sidecar # NoCall
          /\ Redacted(sidecar) = stored
          /\ confirm # NoPrompt /\ digested => confirm.body = sidecar.body
       THEN sidecar ELSE stored

-----------------------------------------------------------------------------
(* The attempt in memory *)

(* pc: idle (no process), paused (waiting for the user), charge, load,     *)
(* turn, call, payload, marker, execute, continue, guard, placeholder,     *)
(* effect, remote, consume, finish, clear, output, settle, suspend,        *)
(* report, end, done.                                                      *)
Gone(pc) ==
    [pc |-> pc, attempt |-> 0, turn |-> 0, counts |-> NoCounts, start |-> NoCounts,
     used |-> NoneUsed, queue |-> <<>>, call |-> NoCall, op |-> FALSE,
     ask |-> NoPrompt, error |-> "none", degraded |-> FALSE, resume |-> "none"]

At(pc)       == run.pc = pc
GoTo(pc)     == run' = [run EXCEPT !.pc = pc]
Fail(class)  == run' = [run EXCEPT !.pc = "end", !.error = class]
Report(ask)  == run' = [run EXCEPT !.pc = "report", !.ask = ask]
Suspend(ask) == run' = [run EXCEPT !.pc = "suspend", !.ask = ask]
ToolResult   == GoTo("output")

(* A failing fs.patch releases its payload file before the error surfaces. *)
FailTool(class) ==
    run' = [run EXCEPT !.pc = IF run.call.tool = "patch" THEN "clear" ELSE "end", !.error = class]

Fault == faults < MaxFaults /\ faults' = faults + 1

Calm == UNCHANGED <<setup, crashes, faults>>

Effect(call) ==
    /\ applied' = applied \cup {call}
    /\ effects' = IF call.tool = "query" THEN effects ELSE [effects EXCEPT ![call.id] = @ + 1]
    /\ UNCHANGED <<asked, continued>>

MaybeEffect(call) == Effect(call) \/ UNCHANGED history

-----------------------------------------------------------------------------
(* Entering the step *)

Decided(d, prompt) == prompt \in d.answers \cup d.approved \cup d.rejected

(* A run with an unfinished fail-closed operation is refused before any    *)
(* node runs; an undecided prompt is surfaced again instead of re-entering. *)
Enter ==
    /\ At("idle")
    /\ disk.prompt = NoPrompt \/ Decided(disk, disk.prompt)
    /\ IF ensure_no_fail_closed_inflight_operations(disk)
       THEN run' = [Gone("charge") EXCEPT !.attempt = 1] /\ UNCHANGED disk
       ELSE run' = Gone("done") /\ disk' = [disk EXCEPT !.outcome = "blocked"]
    /\ Calm /\ UNCHANGED history

(* Not the code's: the charge stays in memory. *)
ChargeInMemory ==
    /\ At("charge")
    /\ IF run.attempt <= MaxSteps THEN GoTo("load") ELSE Fail("budget")
    /\ UNCHANGED disk
    /\ Calm /\ UNCHANGED history

(* Every attempt charges the run's step budget before it executes. *)
ChargeAttempt ==
    /\ At("charge")
    /\ IF disk.charged < MaxSteps
       THEN GoTo("load") /\ disk' = [disk EXCEPT !.charged = @ + 1]
       ELSE Fail("budget") /\ UNCHANGED disk
    /\ Calm /\ UNCHANGED history

(* The call waits for a confirmation that was refused or never shown. *)
ResumeUndecided ==
    LET confirm == disk.checkpoint.confirm
    IN /\ At("load") /\ confirm # NoPrompt /\ confirm \notin disk.approved
       /\ IF confirm \in disk.rejected THEN Fail("refused") ELSE Report(confirm)
       /\ Calm /\ UNCHANGED <<disk, history>>

MayLoad == At("load") /\ (disk.checkpoint.confirm = NoPrompt \/ disk.checkpoint.confirm \in disk.approved)

checkpoint_has_pending_mcp_call ==
    {disk.checkpoint.pending.tool, disk.checkpoint.suspended.tool} \cap {"mcp", "query"} # {}

(* Discovery finds an MCP server that wants authorization. *)
AuthorizationRequired ==
    /\ MayLoad /\ ~run.degraded
    /\ \E o \in setup.offers : o.tool \in {"mcp", "query"}
    /\ Fault
    /\ CASE setup.auth = "fail" -> Fail("refused")
         [] setup.auth = "wait" -> Report(AuthPrompt)
         [] setup.auth = "degrade" ->
              IF checkpoint_has_pending_mcp_call
              THEN Fail("refused") ELSE run' = [run EXCEPT !.degraded = TRUE]
    /\ UNCHANGED <<setup, disk, history, crashes>>

(* Which stored call the first turn re-issues instead of asking the model. *)
ResumeKind ==
    LET stored == disk.checkpoint
    IN IF stored.pending # NoCall THEN "pending"
       ELSE IF stored.suspended.tool = "ask" THEN "user"
       ELSE IF stored.suspended # NoCall /\ stored.question \in disk.answers THEN "mcp"
       ELSE "none"

verify_resumed_mcp_call ==
    [key      |-> pending_key_for_agent_mcp(disk.checkpoint.suspended),
     question |-> disk.checkpoint.question] \in disk.mcp_pending

LoadCheckpoint ==
    /\ MayLoad
    /\ IF ResumeKind = "mcp" /\ ~verify_resumed_mcp_call
       THEN Fail("failed")
       ELSE run' = [run EXCEPT !.pc     = "turn",
                               !.turn   = disk.checkpoint.turn,
                               !.counts = disk.checkpoint.counts,
                               !.used   = disk.checkpoint.used,
                               !.resume = ResumeKind]
    /\ Calm /\ UNCHANGED <<disk, history>>

-----------------------------------------------------------------------------
(* One turn *)

MayTurn == At("turn") /\ run.turn < MaxTurns
Asking  == MayTurn /\ run.resume = "none"

IterationsExhausted ==
    /\ At("turn") /\ run.turn >= MaxTurns
    /\ Fail("failed")
    /\ Calm /\ UNCHANGED <<disk, history>>

Issue(calls) ==
    run' = [run EXCEPT !.pc = "call", !.start = run.counts, !.queue = calls, !.resume = "none"]

(* The stored call is executed as it is; the marker checkpoints of the two *)
(* suspended kinds repeat what the journal already holds.                  *)
ResumeTurn ==
    /\ MayTurn /\ run.resume # "none"
    /\ Issue(<<IF run.resume = "pending"
               THEN restore_pending_call_from_sidecar(disk) ELSE disk.checkpoint.suspended>>)
    /\ Calm /\ UNCHANGED <<disk, history>>

(* The payload file is unreadable: the redacted copy is all there is. *)
ResumeRedacted ==
    /\ MayTurn /\ run.resume = "pending" /\ Fault
    /\ Issue(<<disk.checkpoint.pending>>)
    /\ UNCHANGED <<setup, disk, history, crashes>>

FinalAnswer ==
    /\ Asking
    /\ GoTo("end")
    /\ Calm /\ UNCHANGED <<disk, history>>

(* A final answer against the schema costs a turn. *)
FinalInvalid ==
    /\ Asking
    /\ disk' = [disk EXCEPT !.checkpoint = AgentCheckpoint(run.turn + 1, run.counts, run.used)]
    /\ run' = [run EXCEPT !.turn = @ + 1]
    /\ Calm /\ UNCHANGED history

(* A final answer the model itself marks as outside the contract. *)
enforce_out_of_contract_policy ==
    /\ Asking
    /\ CASE setup.outside = "fail"    -> Fail("failed")
         [] setup.outside = "clarify" -> Report(ClarifyPrompt)
         [] setup.outside = "clamp"   -> GoTo("end")
    /\ Calm /\ UNCHANGED <<disk, history>>

(* No usable response: provider, token budget, stop reason, guardrail. *)
ResponseFails ==
    /\ Asking /\ Fault
    /\ Fail("failed")
    /\ UNCHANGED <<setup, disk, history, crashes>>

Offered ==
    {o \in setup.offers : run.degraded => o.tool \notin {"mcp", "query"}}

Calls == {[id |-> i, tool |-> o.tool, body |-> Live(o.text)] : i \in Ids, o \in Offered}

ModelCalls ==
    /\ Asking
    /\ \E call \in Calls : Issue(<<call>>) /\ asked' = asked \cup {call}
    /\ Calm /\ UNCHANGED <<disk, effects, applied, continued>>

(* Several calls in one response, unless one of them must run alone. *)
ModelCallsInParallel ==
    /\ Asking
    /\ \E a, b \in Calls :
         /\ a.id # b.id
         /\ IF \E call \in {a, b} : agent_tool_requires_serial_execution(call.tool)
            THEN Fail("failed") /\ UNCHANGED asked
            ELSE Issue(<<a, b>>) /\ asked' = asked \cup {a, b}
    /\ Calm /\ UNCHANGED <<disk, effects, applied, continued>>

(* Not the code's: the completed turn is recorded with the counts it began with. *)
CompleteTurnUncharged ==
    /\ At("settle")
    /\ disk' = [disk EXCEPT !.checkpoint = AgentCheckpoint(run.turn + 1, run.start, run.used)]
    /\ run' = [run EXCEPT !.pc = "turn", !.turn = @ + 1, !.call = NoCall]
    /\ Calm /\ UNCHANGED history

(* turn_completed *)
CompleteTurn ==
    /\ At("settle")
    /\ disk' = [disk EXCEPT !.checkpoint = AgentCheckpoint(run.turn + 1, run.counts, run.used)]
    /\ run' = [run EXCEPT !.pc = "turn", !.turn = @ + 1, !.call = NoCall]
    /\ Calm /\ UNCHANGED history

-----------------------------------------------------------------------------
(* One tool call *)

charge_agent_tool_call(call) == [run.counts EXCEPT ![call.tool] = @ + 1]

WithinBudget(counts, tool) ==
    /\ FoldFunction(LAMBDA a, b : a + b, 0, counts) <= MaxCalls
    /\ tool \in {"mcp", "query", "search"} => counts[tool] <= setup.cap

(* The registry keeps the redacted arguments each call id was used with. *)
check_used_call_id(call) == run.used[call.id] \in {NoBody, Redacted(call).body}

(* Replaced patch lines are not the array the schema asks for. *)
validate_agent_tool_call_args(call) == call.tool = "patch" => call.body.hashes = 0

CheckCall ==
    LET call   == Head(run.queue)
        counts == charge_agent_tool_call(call)
    IN /\ At("call")
       /\ IF /\ WithinBudget(counts, call.tool)
             /\ check_used_call_id(call)
             /\ validate_agent_tool_call_args(call)
          THEN run' = [run EXCEPT
                 !.pc     = IF agent_tool_has_side_effects(call.tool) THEN "payload" ELSE "execute",
                 !.counts = counts,
                 !.used[call.id] = Redacted(call).body,
                 !.queue  = Tail(@),
                 !.call   = call]
          ELSE Fail("failed")
       /\ Calm /\ UNCHANGED <<disk, history>>

(* A guardrail, the scanner or the destination policy refuses the input, or *)
(* the tool itself cannot run it; nothing has been started.                 *)
CallRejected ==
    /\ run.pc \in {"call", "execute", "continue"} /\ Fault
    /\ Fail("failed")
    /\ UNCHANGED <<setup, disk, history, crashes>>

(* before_side_effect and safe_read: the payload file, then the journal. *)
StorePayload ==
    /\ At("payload")
    /\ disk' = store_pending_tool_payload(disk, run.call)
    /\ GoTo("marker")
    /\ Calm /\ UNCHANGED history

MarkSideEffect ==
    /\ At("marker")
    /\ disk' = [disk EXCEPT !.checkpoint =
                  [AgentCheckpoint(run.turn, run.counts, run.used) EXCEPT
                      !.pending = Redacted(run.call)]]
    /\ GoTo("execute")
    /\ Calm /\ UNCHANGED history

ExecuteAskUser ==
    /\ At("execute") /\ run.call.tool = "ask"
    /\ LET question == ask_user_question_id(run.call)
       IN IF question \in disk.answers THEN ToolResult ELSE Suspend(question)
    /\ Calm /\ UNCHANGED <<disk, history>>

ExecuteRead ==
    /\ At("execute") /\ run.call.tool \in {"search", "get"}
    /\ IF run.call.tool = "get" /\ args_contain_redaction_marker(run.call.body)
       THEN Fail("refused") ELSE ToolResult
    /\ Calm /\ UNCHANGED <<disk, history>>

(* Placeholders of a journaled copy: a cached success is resent, anything  *)
(* else goes to the guard without an approval and never to the effect.     *)
ExecuteRedacted ==
    /\ At("execute") /\ run.call.tool \in {"write", "patch", "http"}
    /\ args_contain_redaction_marker(run.call.body)
    /\ IF disk.ops[run.call.id].status = "success" THEN ToolResult ELSE GoTo("guard")
    /\ Calm /\ UNCHANGED <<disk, history>>

(* Every other effect is approved first; MCP tools declared free of side   *)
(* effects are not.                                                        *)
ExecuteEffectful ==
    LET call == run.call
        next == IF call.tool \in {"mcp", "query"} THEN "continue" ELSE "guard"
        verdict == IF call.tool = "query" THEN "allowed" ELSE require_side_effect(disk, call)
    IN /\ At("execute") /\ call.tool \in {"write", "patch", "command", "http", "mcp", "query"}
       /\ call.tool \in {"write", "patch", "http"} => ~args_contain_redaction_marker(call.body)
       /\ CASE verdict = "allowed" -> GoTo(next)
            [] verdict = "denied"  -> FailTool("failed")
            [] verdict = "confirm" -> Suspend(ConfirmId(call))
       /\ Calm /\ UNCHANGED <<disk, history>>

GuardOperation ==
    LET call == run.call
        verdict == decide_operation_guard(disk, call)
    IN /\ At("guard")
       /\ CASE verdict = "start" ->
                 /\ disk' = operation_started(disk, call)
                 /\ GoTo(IF call.tool \in {"mcp", "query"} THEN "remote"
                         ELSE IF args_contain_redaction_marker(call.body) /\ call.tool # "command"
                         THEN "placeholder" ELSE "effect")
            [] verdict = "resend" -> ToolResult /\ UNCHANGED disk
            [] verdict = "refuse" -> FailTool("refused") /\ UNCHANGED disk
       /\ Calm /\ UNCHANGED history

RefusePlaceholder ==
    /\ At("placeholder")
    /\ disk' = operation_finished(disk, run.call, "unknown")
    /\ FailTool("refused")
    /\ Calm /\ UNCHANGED history

(* The gateway carries the operation out.  File tools settle it at once;   *)
(* commands and requests settle it after the output checks.                *)
EffectApplied ==
    /\ At("effect") /\ Effect(run.call)
    /\ IF run.call.tool \in {"write", "patch"}
       THEN GoTo("finish") ELSE run' = [run EXCEPT !.pc = "output", !.op = TRUE]
    /\ Calm /\ UNCHANGED disk

(* Proven not applied, or perhaps applied. *)
EffectFails ==
    /\ At("effect") /\ Fault
    /\ \/ disk' = operation_finished(disk, run.call, "clean") /\ UNCHANGED history
       \/ disk' = operation_finished(disk, run.call, "unknown") /\ MaybeEffect(run.call)
    /\ FailTool("failed")
    /\ UNCHANGED <<setup, crashes>>

(* An anchor or base that no longer matches: the model may correct it. *)
PatchRejected ==
    /\ At("effect") /\ run.call.tool = "patch" /\ Fault
    /\ disk' = operation_finished(disk, run.call, "unknown")
    /\ GoTo("clear")
    /\ UNCHANGED <<setup, history, crashes>>

(* The node timeout or the run's cancellation cuts a wait, or a remote tool *)
(* has asked ten times: the operation keeps its started record.             *)
Interrupted ==
    /\ run.pc \in {"turn", "effect", "remote"} /\ Fault
    /\ \E class \in {"failed", "canceled"} : FailTool(class)
    /\ IF run.pc = "turn" THEN UNCHANGED history ELSE MaybeEffect(run.call)
    /\ UNCHANGED <<setup, disk, crashes>>

-----------------------------------------------------------------------------
(* Remote tools and their requests for input *)

(* decide_agent_mcp_continuation: an answered request is re-entered once,  *)
(* recorded before the remote side hears of it.                            *)
resume_agent_mcp_continuation ==
    LET key     == pending_key_for_agent_mcp(run.call)
        pending == {p \in disk.mcp_pending : p.key = key /\ p.question \in disk.answers}
        marked  == args_contain_redaction_marker(run.call.body)
    IN /\ At("continue")
       /\ \/ /\ pending = {}
             /\ UNCHANGED continued
             /\ IF marked /\ disk.ops[run.call.id].status \notin {"success", "empty"}
                THEN Fail("refused") /\ UNCHANGED disk
                ELSE /\ GoTo("guard")
                     \* supersede_agent_mcp_continuations
                     /\ disk' = [disk EXCEPT
                          !.mcp_pending = {p \in @ : p.key = key \/ p.key.tool # run.call.tool},
                          !.mcp_resumed = {p \in @ : p.key = key \/ p.key.tool # run.call.tool}]
          \/ \E p \in pending :
               IF p \in disk.mcp_resumed
               THEN Fail("failed") /\ UNCHANGED <<disk, continued>>
               ELSE /\ disk' = [disk EXCEPT !.mcp_resumed = {r \in @ : r.key # key} \cup {p}]
                    /\ IF marked
                       THEN Fail("refused") /\ UNCHANGED continued
                       ELSE GoTo("remote") /\ continued' = Append(continued, p.question)
       /\ Calm /\ UNCHANGED <<effects, applied, asked>>

RemoteCompletes ==
    /\ At("remote") /\ Effect(run.call)
    /\ GoTo("consume")
    /\ Calm /\ UNCHANGED disk

consume_agent_mcp_continuation ==
    LET key == pending_key_for_agent_mcp(run.call)
    IN /\ At("consume")
       /\ disk' = [disk EXCEPT !.mcp_pending = {p \in @ : p.key # key},
                               !.mcp_resumed = {p \in @ : p.key # key}]
       /\ run' = [run EXCEPT !.pc = "output", !.op = TRUE]
       /\ Calm /\ UNCHANGED history

(* Input required: the request is journaled, then the call suspends.  A    *)
(* request that already has its answer is answered within the same call.   *)
RemoteAsks ==
    \E n \in 1 .. MaxAsks :
      LET key      == pending_key_for_agent_mcp(run.call)
          question == mcp_question_id(run.call, n)
      IN /\ At("remote") /\ question \notin disk.answers
         /\ disk' = [disk EXCEPT !.mcp_pending =
                       {p \in @ : p.key # key} \cup {[key |-> key, question |-> question]}]
         /\ Suspend(question)
         /\ Calm /\ UNCHANGED history

(* The transport fails: indeterminate, never clean. *)
RemoteLost ==
    /\ At("remote") /\ Fault
    /\ disk' = operation_finished(disk, run.call, "unknown")
    /\ MaybeEffect(run.call)
    /\ Fail("failed")
    /\ UNCHANGED <<setup, crashes>>

-----------------------------------------------------------------------------
(* Results, settlement and suspension *)

AfterCall == IF run.queue = <<>> THEN "settle" ELSE "call"

OutputAccepted ==
    /\ At("output")
    /\ GoTo(IF run.op THEN "finish" ELSE AfterCall)
    /\ Calm /\ UNCHANGED <<disk, history>>

(* The effect has happened: a success without a reusable result. *)
finish_rejected_external_operation ==
    /\ At("output") /\ Fault
    /\ disk' = IF run.op THEN operation_finished(disk, run.call, "empty") ELSE disk
    /\ \E class \in {"failed", "canceled"} :
         run' = [run EXCEPT !.pc = IF run.op THEN "clear" ELSE "end", !.error = class, !.op = FALSE]
    /\ UNCHANGED <<setup, history, crashes>>

FinishOperation ==
    /\ At("finish")
    /\ disk' = operation_finished(disk, run.call, "success")
    /\ run' = [run EXCEPT !.pc = "clear", !.op = FALSE]
    /\ Calm /\ UNCHANGED history

ClearPayload ==
    /\ At("clear")
    /\ disk' = clear_pending_tool_payload(disk, run.call)
    /\ GoTo(IF run.error # "none" THEN "end"
            ELSE IF run.call.tool \in {"write", "patch"} THEN "output" ELSE AfterCall)
    /\ Calm /\ UNCHANGED history

(* waiting_for_user and waiting_for_confirmation: the turn starts over with *)
(* the counts it began with.                                                *)
SuspendCall ==
    LET stored == AgentCheckpoint(run.turn, run.start, run.used)
        call   == Redacted(run.call)
    IN /\ At("suspend")
       /\ disk' = [disk EXCEPT !.checkpoint =
                     IF run.ask.kind = "confirm"
                     THEN [stored EXCEPT !.pending = call, !.confirm = run.ask]
                     ELSE [stored EXCEPT !.suspended = call, !.question = run.ask]]
       /\ GoTo("report")
       /\ Calm /\ UNCHANGED history

(* The engine journals the interaction and the run pauses. *)
ReportPrompt ==
    /\ At("report")
    /\ disk' = [disk EXCEPT !.prompt = run.ask]
    /\ run' = Gone("paused")
    /\ Calm /\ UNCHANGED history

(* execute_node_with_retry: only failures are tried again in process. *)
EndAttempt ==
    /\ At("end")
    /\ IF run.error = "failed" /\ run.attempt < setup.tries
       THEN run' = [Gone("charge") EXCEPT !.attempt = run.attempt + 1] /\ UNCHANGED disk
       ELSE /\ run' = Gone("done")
            /\ disk' = step_finished(disk, IF run.error = "none" THEN "success" ELSE run.error)
    /\ Calm /\ UNCHANGED history

-----------------------------------------------------------------------------
(* The user and the process *)

Waiting == At("paused") \/ (At("idle") /\ disk.prompt # NoPrompt /\ ~Decided(disk, disk.prompt))

UserDecides ==
    /\ Waiting
    /\ \/ /\ disk.prompt.kind # "confirm"
          /\ disk' = [disk EXCEPT !.answers = @ \cup {disk.prompt}]
       \/ /\ disk.prompt.kind = "confirm"
          /\ \/ disk' = [disk EXCEPT !.approved = @ \cup {disk.prompt}]
             \/ disk' = [disk EXCEPT !.rejected = @ \cup {disk.prompt}]
    /\ run' = Gone("idle")
    /\ Calm /\ UNCHANGED history

Crash ==
    /\ run.pc \notin {"idle", "paused", "done"} /\ crashes < MaxCrashes
    /\ crashes' = crashes + 1
    /\ run' = Gone("idle")
    /\ UNCHANGED <<setup, disk, history, faults>>

Init ==
    /\ setup \in Setups
    /\ disk = EmptyDisk
    /\ run = Gone("idle")
    /\ effects = [i \in Ids |-> 0] /\ applied = {} /\ asked = {} /\ continued = <<>>
    /\ crashes = 0 /\ faults = 0

Entering  == Enter \/ ChargeAttempt \/ ResumeUndecided \/ AuthorizationRequired \/ LoadCheckpoint
Turning   == \/ IterationsExhausted \/ ResumeTurn \/ ResumeRedacted \/ FinalAnswer \/ FinalInvalid
             \/ enforce_out_of_contract_policy \/ ResponseFails
             \/ ModelCalls \/ ModelCallsInParallel \/ CompleteTurn
Calling   == \/ CheckCall \/ CallRejected \/ StorePayload \/ MarkSideEffect
             \/ ExecuteAskUser \/ ExecuteRead \/ ExecuteRedacted \/ ExecuteEffectful
             \/ GuardOperation \/ RefusePlaceholder
             \/ EffectApplied \/ EffectFails \/ PatchRejected \/ Interrupted
Remote    == \/ resume_agent_mcp_continuation \/ RemoteCompletes \/ consume_agent_mcp_continuation
             \/ RemoteAsks \/ RemoteLost
Settling  == \/ OutputAccepted \/ finish_rejected_external_operation \/ FinishOperation
             \/ ClearPayload \/ SuspendCall \/ ReportPrompt \/ EndAttempt

Progress == Entering \/ Turning \/ Calling \/ Remote \/ Settling \/ UserDecides

Next == Progress \/ Crash

(* The engine keeps running the step and re-enters an open run, the model, *)
(* the remote side and the user answer in the end.                         *)
Spec == Init /\ [][Next]_agentVars /\ WF_agentVars(Progress)

-----------------------------------------------------------------------------
(* Properties *)

Texts     == {"none", "masked"} \cup {o.text : o \in UNION {s.offers : s \in Setups}}
Bodies    == [text : Texts, hashes : Nat]
ToolCalls == [id : Ids, tool : Tools, body : Bodies]
Prompts   == [kind : {"none", "ask", "mcp", "confirm", "auth", "clarify"},
              id : Ids \cup {"none", "any"}, tool : Tools \cup {"none"},
              body : Bodies, n : Nat]
McpPrompts  == [key : ToolCalls, question : Prompts]
Checkpoints ==
    [turn : 0 .. MaxTurns, counts : [Tools -> Nat], used : [Ids -> Bodies],
     pending : ToolCalls \cup {NoCall}, confirm : Prompts,
     suspended : ToolCalls \cup {NoCall}, question : Prompts]
Operations  ==
    [status : {"none", "started", "success", "clean", "unknown", "empty"},
     digest : [tool : Tools \cup {"none"}, body : Bodies]]
Disks ==
    [checkpoint : Checkpoints, ops : [Ids -> Operations], payload : [Ids -> ToolCalls \cup {NoCall}],
     mcp_pending : SUBSET McpPrompts, mcp_resumed : SUBSET McpPrompts,
     prompt : Prompts, answers : SUBSET Prompts, approved : SUBSET Prompts,
     rejected : SUBSET Prompts, charged : 0 .. MaxSteps,
     outcome : {"none", "success", "failed", "refused", "canceled", "budget", "blocked"}]

\* Where the attempt holds a tool call, and where it is inside a turn.
CallPlaces == {"payload", "marker", "execute", "continue", "guard", "placeholder", "effect",
               "remote", "consume", "finish", "clear", "output", "suspend"}
TurnPlaces == CallPlaces \cup {"call", "settle"}
Places     == TurnPlaces \cup {"idle", "paused", "charge", "load", "turn", "report", "end", "done"}
AttemptStates ==
    [pc : Places, attempt : Nat, turn : 0 .. MaxTurns, counts : [Tools -> Nat],
     start : [Tools -> Nat], used : [Ids -> Bodies], queue : Seq(ToolCalls),
     call : ToolCalls \cup {NoCall}, op : BOOLEAN, ask : Prompts,
     error : {"none", "failed", "refused", "canceled", "budget"}, degraded : BOOLEAN,
     resume : {"none", "pending", "user", "mcp"}]

(* What the variables hold. *)
AgentTypeOK ==
    /\ setup \in Setups /\ disk \in Disks /\ run \in AttemptStates
    /\ effects \in [Ids -> Nat] /\ applied \subseteq ToolCalls /\ asked \subseteq ToolCalls
    /\ continued \in Seq(Prompts)
    /\ crashes \in 0 .. MaxCrashes /\ faults \in 0 .. MaxFaults

(* Under the default on_indeterminate policy no tool call takes effect     *)
(* twice, whatever crashes, timeouts, retries, prompts and re-entries cut  *)
(* the step; and under any policy the answer to a remote request re-enters *)
(* that request at most once (run_context.rs guard, tool_events.rs         *)
(* mcp_continuation_resumed).                                              *)
EffectsOnce ==
    /\ ~setup.repeat => \A i \in Ids : effects[i] <= 1
    /\ \A i, j \in DOMAIN continued : continued[i] = continued[j] => i = j

(* What takes effect is byte for byte a call the model sent, never the     *)
(* placeholders of a journaled copy, and under side_effects=confirm a call *)
(* whose very arguments a user approved; under none nothing does           *)
(* (require_side_effect, restore_pending_call_from_sidecar).               *)
OnlyApprovedBytes ==
    \A call \in applied :
        /\ call \in asked
        /\ ~args_contain_redaction_marker(call.body)
        /\ call.tool # "query" =>
             /\ setup.policy # "none"
             /\ setup.policy = "confirm" =>
                  \E p \in disk.approved :
                      /\ p.kind = "confirm" /\ p.tool = call.tool /\ p.body = call.body
                      /\ setup.scope = "invocation" => p.id = call.id

(* Checkpoints carry the tool-call budget across every cut: over all       *)
(* attempts and re-entries a step has no more side effects than            *)
(* max_tool_calls_total.                                                   *)
CallBudgetSurvivesResumes ==
    FoldFunction(LAMBDA a, b : a + b, 0, effects) <= MaxCalls

(* The step settles although a model may go on answering outside the       *)
(* contract and every re-entry forgets the attempt count: the step budget, *)
(* charged on disk before each attempt, ends it.                           *)
StepSettles == <>(disk.outcome # "none")

-----------------------------------------------------------------------------
(* Statements of the documentation that the code does not keep *)

(* agent_runtime.rs, AskUser: a resume re-issues the stored call with the  *)
(* same identity, so the question a user answered is not put again.        *)
AnswerIsReused ==
    \A p \in disk.answers :
        p.kind = "ask" /\ disk.prompt.kind = "ask" /\ disk.prompt.id = p.id => disk.prompt = p

(* docs/operations.md: a run suspended on a remote request continues once  *)
(* the request is answered.                                                *)
AnsweredRunReenters ==
    disk.outcome = "blocked" => ~\E p \in disk.mcp_pending : p.question \in disk.answers

(* agent.rs, entry: a re-issued call whose operation succeeded is settled  *)
(* by its durable record, also from the redacted copy.                     *)
CachedSuccessResends ==
    At("call") /\ Head(run.queue) = disk.checkpoint.pending
               /\ disk.ops[disk.checkpoint.pending.id].status = "success"
        => check_used_call_id(Head(run.queue)) /\ validate_agent_tool_call_args(Head(run.queue))

=============================================================================
