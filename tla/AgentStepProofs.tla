--------------------------- MODULE AgentStepProofs ---------------------------
(***************************************************************************)
(* The agent step for every set of call ids, nodes, limits and bounds on   *)
(* crashes and faults: types, OnlyApprovedBytes and EffectsOnce, from one  *)
(* inductive invariant.  A call exists in up to five copies (memory, the   *)
(* queue of the turn, the two calls of a checkpoint, a payload file); the  *)
(* invariant says that each is what the model sent or shows that it is     *)
(* not, and what the durable records of its operation then exclude.        *)
(***************************************************************************)
EXTENDS AgentStep, TLAPS

-----------------------------------------------------------------------------
(* The inductive invariant *)

(* Where the attempt stands: inside a turn there are turns left and the    *)
(* re-issued call is taken up; a call is held where one is worked on; what *)
(* is to be re-issued is in the checkpoint.                                *)
Placed ==
    /\ run.pc \in TurnPlaces => run.turn < MaxTurns /\ run.resume = "none"
    /\ run.pc \in CallPlaces => run.call # NoCall
    /\ run.pc \in {"charge", "load", "turn"} => run.call = NoCall
    /\ run.pc = "call" => run.queue # <<>>
    /\ run.pc = "turn" =>
         /\ run.resume = "pending" => disk.checkpoint.pending # NoCall
         /\ run.resume \in {"user", "mcp"} => disk.checkpoint.suspended # NoCall

(* A call is what the model sent, or it shows its placeholders.  A command *)
(* has none to show.                                                       *)
Marked(call)  == args_contain_redaction_marker(call.body)
Genuine(call) == call \in asked \/ (Marked(call) /\ call.tool # "command")
Held(call)    == call = NoCall \/ Genuine(call)

(* Every copy of a call, in memory, in the journal and in a payload file. *)
CopiesGenuine ==
    /\ Held(run.call) /\ Held(disk.checkpoint.pending) /\ Held(disk.checkpoint.suspended)
    /\ \A i \in Ids : Held(disk.payload[i])
    /\ \A i \in 1 .. Len(run.queue) : Genuine(run.queue[i])
    /\ \A call \in asked :
         /\ call.body.hashes = 0 /\ call.body.text \notin {"none", "masked"}
         /\ call.tool = "command" => call.body.text \notin Secrets

(* The policy lets the call take effect. *)
Permitted(call) ==
    call.tool = "query" \/ require_side_effect(disk, call) = "allowed"

(* A call past the approval is permitted, and what is about to take effect *)
(* shows no placeholder.                                                   *)
EffectsPermitted ==
    /\ run.pc = "continue" => Permitted(run.call) /\ run.call.tool \in {"mcp", "query"}
    /\ run.pc = "guard" =>
         \/ Marked(run.call) /\ run.call.tool \in {"write", "patch", "http"}
         \/ /\ Permitted(run.call)
            /\ Marked(run.call) =>
                 /\ run.call.tool \in {"mcp", "query"}
                 /\ disk.ops[run.call.id].status \in {"success", "empty"}
    /\ run.pc \in {"effect", "remote"} => Permitted(run.call) /\ ~Marked(run.call)
    /\ \A call \in applied : call \in asked /\ Permitted(call)

(* Under the default policy: an effect leaves a record that refuses it a   *)
(* second start, a call about to take effect has had none, and a remote    *)
(* request for input is only left behind by a started operation.           *)
StartedOnce ==
    ~setup.repeat =>
      /\ \A i \in Ids :
           /\ effects[i] <= 1
           /\ effects[i] = 1 => disk.ops[i].status \notin {"none", "clean"}
      /\ run.pc \in {"effect", "remote"} =>
           /\ effects[run.call.id] = 0
           /\ disk.ops[run.call.id].status = "started"
      /\ disk.mcp_pending # {} =>
           /\ run.pc \in {"idle", "paused", "done", "suspend", "report"}
           /\ \E i \in Ids : disk.ops[i].status = "started"

(* A request is named by its question, a call has one of them open, and    *)
(* one whose answer was sent is marked as re-entered.                      *)
RequestsNamed ==
    /\ \A p \in disk.mcp_pending :
         p.question.id = p.key.id /\ p.question.tool = p.key.tool /\ p.question.body = p.key.body
    /\ \A p, q \in disk.mcp_pending : p.key = q.key => p = q
    /\ \A i \in 1 .. Len(continued) :
         /\ continued[i] \in disk.answers
         /\ \A p \in disk.mcp_pending : p.question = continued[i] => p \in disk.mcp_resumed
    /\ \A i, j \in 1 .. Len(continued) : continued[i] = continued[j] => i = j

AgentInv == /\ AgentTypeOK /\ Placed /\ CopiesGenuine /\ EffectsPermitted
            /\ StartedOnce /\ RequestsNamed

-----------------------------------------------------------------------------
(* Calls, their redacted copies and prompts *)

(* NoCall is no tool call, and its parts are bodies and prompts. *)
LEMMA Constants ==
  /\ NoCall \notin ToolCalls
  /\ NoBody \in Bodies /\ Mask \in Bodies /\ Mask.text = "masked" /\ Mask.hashes = 0
  /\ NoPrompt \in Prompts /\ AuthPrompt \in Prompts /\ ClarifyPrompt \in Prompts
  /\ NoPrompt.kind = "none" /\ AuthPrompt.kind = "auth" /\ ClarifyPrompt.kind = "clarify"
  /\ NoCall.tool = "none" /\ NoCall.body = NoBody
<1>1. NoCall \notin ToolCalls
  BY DEF NoCall, ToolCalls, Tools
<1>2. NoBody \in Bodies /\ Mask \in Bodies /\ Mask.text = "masked" /\ Mask.hashes = 0
  BY DEF NoBody, Mask, Live, Bodies, Texts
<1>3. NoPrompt \in Prompts
  BY <1>2 DEF NoPrompt, Prompts
<1>4. AuthPrompt \in Prompts /\ ClarifyPrompt \in Prompts
  BY <1>3 DEF AuthPrompt, ClarifyPrompt, Prompts
<1>5. NoPrompt.kind = "none" /\ NoCall.tool = "none" /\ NoCall.body = NoBody
  BY DEF NoPrompt, NoCall
<1>6. AuthPrompt.kind = "auth" /\ ClarifyPrompt.kind = "clarify"
  BY <1>3 DEF AuthPrompt, ClarifyPrompt, Prompts
<1> QED
  BY <1>1, <1>2, <1>3, <1>4, <1>5, <1>6

(* Redaction of a body (redact_agent_tool_args_for_journal): a body, marked *)
(* when it was marked, and marked or unchanged when it was not.             *)
LEMMA RedactedBody ==
  ASSUME NEW tool, NEW body \in Bodies
  PROVE  LET r == redact_agent_tool_args_for_journal(tool, body)
         IN  /\ r \in Bodies
             /\ args_contain_redaction_marker(body) => args_contain_redaction_marker(r)
             /\ r = body \/ args_contain_redaction_marker(r)
             /\ tool \notin {"write", "patch", "http"} /\ body.text \notin Secrets => r = body
<1> DEFINE r == redact_agent_tool_args_for_journal(tool, body)
<1>0. /\ body.text \in Texts /\ body.hashes \in Nat /\ Mask \in Bodies
      /\ Mask.text = "masked" /\ Mask.hashes = 0
  BY Constants DEF Bodies
<1>1. ASSUME NEW n \in Nat
      PROVE  /\ [body EXCEPT !.hashes = n] \in Bodies
             /\ [body EXCEPT !.hashes = n].hashes = n
  BY <1>0 DEF Bodies
<1>2. CASE tool = "write"
  <2>1. r = [body EXCEPT !.hashes = body.hashes + 1]
    BY <1>2 DEF redact_agent_tool_args_for_journal
  <2>2. body.hashes + 1 \in Nat /\ body.hashes + 1 > 0
    BY <1>0
  <2>3. r \in Bodies /\ r.hashes = body.hashes + 1
    BY <2>1, <2>2, <1>1
  <2> QED
    BY <1>2, <2>2, <2>3 DEF args_contain_redaction_marker
<1>3. CASE tool = "patch"
  <2>1. r = [body EXCEPT !.hashes = 1]
    BY <1>3 DEF redact_agent_tool_args_for_journal
  <2>2. r \in Bodies /\ r.hashes = 1
    BY <2>1, <1>1
  <2> QED
    BY <1>3, <2>2 DEF args_contain_redaction_marker
<1>4. CASE tool \notin {"write", "patch"} /\ (body = Mask \/ body.text \in Secrets)
  <2>1. r = Mask
    BY <1>4 DEF redact_agent_tool_args_for_journal
  <2> QED
    BY <1>0, <1>4, <2>1, AgentAssumption DEF args_contain_redaction_marker
<1>5. CASE tool = "http" /\ ~(body = Mask \/ body.text \in Secrets)
  <2>1. r = [body EXCEPT !.hashes = body.hashes + 1]
    BY <1>5 DEF redact_agent_tool_args_for_journal
  <2>2. body.hashes + 1 \in Nat /\ body.hashes + 1 > 0
    BY <1>0
  <2>3. r \in Bodies /\ r.hashes = body.hashes + 1
    BY <2>1, <2>2, <1>1
  <2> QED
    BY <1>5, <2>2, <2>3 DEF args_contain_redaction_marker
<1>6. CASE tool \notin {"write", "patch", "http"} /\ ~(body = Mask \/ body.text \in Secrets)
  <2>1. r = body
    BY <1>6 DEF redact_agent_tool_args_for_journal
  <2> QED
    BY <1>6, <2>1
<1> QED
  BY <1>2, <1>3, <1>4, <1>5, <1>6

(* The redacted copy of a call keeps its id and its tool. *)
LEMMA RedactedCall ==
  ASSUME NEW call \in ToolCalls
  PROVE  /\ Redacted(call) \in ToolCalls
         /\ Redacted(call).id = call.id /\ Redacted(call).tool = call.tool
         /\ Redacted(call).body = redact_agent_tool_args_for_journal(call.tool, call.body)
<1>1. call.id \in Ids /\ call.tool \in Tools /\ call.body \in Bodies
  BY DEF ToolCalls
<1>2. redact_agent_tool_args_for_journal(call.tool, call.body) \in Bodies
  BY <1>1, RedactedBody
<1> QED
  BY <1>1, <1>2 DEF Redacted, ToolCalls

(* A copy of what the model sent, redacted for the journal, is what the    *)
(* model sent or shows its placeholders.                                   *)
LEMMA RedactedGenuine ==
  ASSUME CopiesGenuine, asked \subseteq ToolCalls, NEW call \in ToolCalls, Genuine(call)
  PROVE  Genuine(Redacted(call)) /\ Redacted(call) \in ToolCalls /\ Redacted(call) # NoCall
<1> DEFINE r == Redacted(call)
<1>0. call.id \in Ids /\ call.tool \in Tools /\ call.body \in Bodies
  BY DEF ToolCalls
<1>1. /\ r \in ToolCalls /\ r.id = call.id /\ r.tool = call.tool
      /\ r.body = redact_agent_tool_args_for_journal(call.tool, call.body)
  BY RedactedCall
<1>2. /\ args_contain_redaction_marker(call.body) => args_contain_redaction_marker(r.body)
      /\ r.body = call.body \/ args_contain_redaction_marker(r.body)
      /\ call.tool \notin {"write", "patch", "http"} /\ call.body.text \notin Secrets
           => r.body = call.body
  BY <1>0, <1>1, RedactedBody
<1>3. r.body = call.body => r = call
  BY <1>1 DEF ToolCalls
<1>4. call \in asked /\ call.tool = "command" => r = call
  BY <1>2, <1>3 DEF CopiesGenuine
<1>5. r # NoCall
  BY <1>1, Constants
<1> QED
  BY <1>1, <1>2, <1>3, <1>4, <1>5 DEF Genuine, Marked

(* What the model sent shows no placeholder. *)
LEMMA SentUnmarked ==
  ASSUME CopiesGenuine, NEW call \in asked
  PROVE  ~Marked(call)
BY Constants DEF CopiesGenuine, Marked, args_contain_redaction_marker

(* The prompts a call may raise are prompts. *)
LEMMA PromptTypes ==
  ASSUME NEW call \in ToolCalls
  PROVE  /\ ask_user_question_id(call) \in Prompts /\ ask_user_question_id(call).kind = "ask"
         /\ ConfirmId(call) \in Prompts /\ ConfirmId(call).kind = "confirm"
         /\ ConfirmId(call).tool = call.tool /\ ConfirmId(call).body = call.body
         /\ setup.scope # "content" => ConfirmId(call).id = call.id
         /\ \A n \in Nat : /\ mcp_question_id(call, n) \in Prompts
                           /\ mcp_question_id(call, n).kind = "mcp"
                           /\ mcp_question_id(call, n).id = Redacted(call).id
                           /\ mcp_question_id(call, n).tool = Redacted(call).tool
                           /\ mcp_question_id(call, n).body = Redacted(call).body
<1>1. ASSUME NEW c \in ToolCalls
      PROVE  /\ ask_user_question_id(c) \in Prompts /\ ask_user_question_id(c).kind = "ask"
             /\ ask_user_question_id(c).id = c.id /\ ask_user_question_id(c).tool = c.tool
             /\ ask_user_question_id(c).body = c.body
  BY DEF ask_user_question_id, Prompts, ToolCalls
<1>2. /\ ConfirmId(call) \in Prompts /\ ConfirmId(call).kind = "confirm"
      /\ ConfirmId(call).tool = call.tool /\ ConfirmId(call).body = call.body
      /\ setup.scope # "content" => ConfirmId(call).id = call.id
  <2>1. call.id \in Ids
    BY DEF ToolCalls
  <2> QED
    BY <1>1, <2>1 DEF ConfirmId, Prompts
<1>3. Redacted(call) \in ToolCalls
  BY RedactedCall
<1>4. \A n \in Nat : /\ mcp_question_id(call, n) \in Prompts
                     /\ mcp_question_id(call, n).kind = "mcp"
                     /\ mcp_question_id(call, n).id = Redacted(call).id
                     /\ mcp_question_id(call, n).tool = Redacted(call).tool
                     /\ mcp_question_id(call, n).body = Redacted(call).body
  <2> SUFFICES ASSUME NEW n \in Nat
               PROVE  /\ mcp_question_id(call, n) \in Prompts
                      /\ mcp_question_id(call, n).kind = "mcp"
                      /\ mcp_question_id(call, n).id = Redacted(call).id
                      /\ mcp_question_id(call, n).tool = Redacted(call).tool
                      /\ mcp_question_id(call, n).body = Redacted(call).body
    OBVIOUS
  <2> QED
    BY <1>1, <1>3 DEF mcp_question_id, Prompts
<1> QED
  BY <1>1, <1>2, <1>4

-----------------------------------------------------------------------------
(* Updates of the disk and of the attempt *)

KeepsRequests(d, e)  == e.mcp_pending = d.mcp_pending /\ e.mcp_resumed = d.mcp_resumed
KeepsDecisions(d, e) == e.answers = d.answers /\ e.approved = d.approved
KeepsCopies(d, e)    == e.checkpoint = d.checkpoint /\ e.payload = d.payload

(* The parts of a disk and of an attempt have their types. *)
LEMMA Parts ==
  ASSUME AgentTypeOK
  PROVE  /\ disk.checkpoint \in Checkpoints /\ disk.ops \in [Ids -> Operations]
         /\ disk.payload \in [Ids -> ToolCalls \cup {NoCall}]
         /\ disk.mcp_pending \subseteq McpPrompts /\ disk.mcp_resumed \subseteq McpPrompts
         /\ disk.prompt \in Prompts /\ disk.answers \subseteq Prompts
         /\ disk.approved \subseteq Prompts /\ disk.rejected \subseteq Prompts
         /\ disk.charged \in 0 .. MaxSteps
         /\ disk.checkpoint.turn \in 0 .. MaxTurns
         /\ disk.checkpoint.counts \in [Tools -> Nat] /\ disk.checkpoint.used \in [Ids -> Bodies]
         /\ disk.checkpoint.pending \in ToolCalls \cup {NoCall}
         /\ disk.checkpoint.suspended \in ToolCalls \cup {NoCall}
         /\ disk.checkpoint.confirm \in Prompts /\ disk.checkpoint.question \in Prompts
         /\ run.pc \in Places /\ run.attempt \in Nat /\ run.turn \in 0 .. MaxTurns
         /\ run.counts \in [Tools -> Nat] /\ run.start \in [Tools -> Nat]
         /\ run.used \in [Ids -> Bodies] /\ run.queue \in Seq(ToolCalls)
         /\ run.call \in ToolCalls \cup {NoCall} /\ run.op \in BOOLEAN /\ run.ask \in Prompts
         /\ run.error \in {"none", "failed", "refused", "canceled", "budget"}
         /\ run.resume \in {"none", "pending", "user", "mcp"}
<1>1. disk \in Disks /\ run \in AttemptStates
  BY DEF AgentTypeOK
<1>2. /\ disk.checkpoint \in Checkpoints /\ disk.ops \in [Ids -> Operations]
      /\ disk.payload \in [Ids -> ToolCalls \cup {NoCall}]
      /\ disk.mcp_pending \subseteq McpPrompts /\ disk.mcp_resumed \subseteq McpPrompts
      /\ disk.prompt \in Prompts /\ disk.answers \subseteq Prompts
      /\ disk.approved \subseteq Prompts /\ disk.rejected \subseteq Prompts
      /\ disk.charged \in 0 .. MaxSteps
  BY <1>1 DEF Disks
<1>3. /\ disk.checkpoint.turn \in 0 .. MaxTurns
      /\ disk.checkpoint.counts \in [Tools -> Nat] /\ disk.checkpoint.used \in [Ids -> Bodies]
      /\ disk.checkpoint.pending \in ToolCalls \cup {NoCall}
      /\ disk.checkpoint.suspended \in ToolCalls \cup {NoCall}
      /\ disk.checkpoint.confirm \in Prompts /\ disk.checkpoint.question \in Prompts
  BY <1>2 DEF Checkpoints
<1>4. /\ run.pc \in Places /\ run.attempt \in Nat /\ run.turn \in 0 .. MaxTurns
      /\ run.counts \in [Tools -> Nat] /\ run.start \in [Tools -> Nat]
      /\ run.used \in [Ids -> Bodies] /\ run.queue \in Seq(ToolCalls)
      /\ run.call \in ToolCalls \cup {NoCall} /\ run.op \in BOOLEAN /\ run.ask \in Prompts
      /\ run.error \in {"none", "failed", "refused", "canceled", "budget"}
      /\ run.resume \in {"none", "pending", "user", "mcp"}
  BY <1>1 DEF AttemptStates
<1> QED
  BY <1>2, <1>3, <1>4

(* One operation record is changed, and nothing else. *)
LEMMA OperationUpdate ==
  ASSUME NEW d \in Disks, NEW id \in Ids, NEW o \in Operations,
         NEW e, e = [d EXCEPT !.ops = [d.ops EXCEPT ![id] = o]]
  PROVE  /\ e \in Disks /\ e.ops[id] = o
         /\ \A i \in Ids : i # id => e.ops[i] = d.ops[i]
         /\ KeepsRequests(d, e) /\ KeepsDecisions(d, e) /\ KeepsCopies(d, e)
<1>1. d.ops \in [Ids -> Operations]
  BY DEF Disks
<1> DEFINE f == [d.ops EXCEPT ![id] = o]
<1>2. /\ f \in [Ids -> Operations] /\ f[id] = o
      /\ \A i \in Ids : i # id => f[i] = d.ops[i]
  BY <1>1
<1>3. e = [d EXCEPT !.ops = f]
  OBVIOUS
<1> HIDE DEF f
<1>4. /\ e \in Disks /\ e.ops = f
      /\ KeepsRequests(d, e) /\ KeepsDecisions(d, e) /\ KeepsCopies(d, e)
  BY <1>2, <1>3 DEF Disks, KeepsRequests, KeepsDecisions, KeepsCopies
<1> QED
  BY <1>2, <1>4

(* The record operation_started writes. *)
LEMMA OperationStarted ==
  ASSUME NEW d \in Disks, NEW call \in ToolCalls, NEW e, e = operation_started(d, call)
  PROVE  /\ e \in Disks /\ e.ops[call.id].status = "started"
         /\ \A i \in Ids : i # call.id => e.ops[i] = d.ops[i]
         /\ KeepsRequests(d, e) /\ KeepsDecisions(d, e) /\ KeepsCopies(d, e)
<1>1. call.id \in Ids /\ call.tool \in Tools /\ call.body \in Bodies /\ Redacted(call).body \in Bodies
  BY RedactedCall DEF ToolCalls
<1> DEFINE o == [status |-> "started", digest |-> operation_digest(call)]
<1>2. operation_digest(call) \in [tool : Tools \cup {"none"}, body : Bodies]
  BY <1>1 DEF operation_digest
<1>3. o \in Operations /\ o.status = "started"
  BY <1>2 DEF Operations
<1>4. e = [d EXCEPT !.ops = [d.ops EXCEPT ![call.id] = o]]
  BY DEF operation_started
<1> HIDE DEF o
<1>5. /\ e \in Disks /\ e.ops[call.id] = o
      /\ \A i \in Ids : i # call.id => e.ops[i] = d.ops[i]
      /\ KeepsRequests(d, e) /\ KeepsDecisions(d, e) /\ KeepsCopies(d, e)
  BY <1>1, <1>3, <1>4, OperationUpdate
<1> QED
  BY <1>3, <1>5

Ends == {"success", "clean", "unknown", "empty"}

(* The record operation_finished writes. *)
LEMMA OperationFinished ==
  ASSUME NEW d \in Disks, NEW call \in ToolCalls, NEW status \in Ends,
         NEW e, e = operation_finished(d, call, status)
  PROVE  /\ e \in Disks /\ e.ops[call.id].status = status
         /\ \A i \in Ids : i # call.id => e.ops[i] = d.ops[i]
         /\ KeepsRequests(d, e) /\ KeepsDecisions(d, e) /\ KeepsCopies(d, e)
<1>1. call.id \in Ids /\ d.ops \in [Ids -> Operations]
  BY DEF ToolCalls, Disks
<1> DEFINE o == [d.ops[call.id] EXCEPT !.status = status]
<1>2. o \in Operations /\ o.status = status
  BY <1>1 DEF Operations, Ends
<1>3. e = [d EXCEPT !.ops = [d.ops EXCEPT ![call.id] = o]]
  BY DEF operation_finished
<1> HIDE DEF o
<1> QED
  BY <1>1, <1>2, <1>3, OperationUpdate

(* A payload file is written or removed, and nothing else. *)
LEMMA PayloadUpdates ==
  ASSUME NEW d \in Disks, NEW call \in ToolCalls, NEW i \in Ids,
         NEW e \in {store_pending_tool_payload(d, call), clear_pending_tool_payload(d, call)}
  PROVE  /\ e \in Disks /\ e.checkpoint = d.checkpoint /\ e.ops = d.ops
         /\ KeepsRequests(d, e) /\ KeepsDecisions(d, e)
         /\ e.payload[i] \in {d.payload[i], call, NoCall}
<1>0. call.id \in Ids /\ d.payload \in [Ids -> ToolCalls \cup {NoCall}]
  BY DEF ToolCalls, Disks
<1>1. ASSUME NEW f \in [Ids -> ToolCalls \cup {NoCall}]
      PROVE  /\ [d EXCEPT !.payload = f] \in Disks /\ [d EXCEPT !.payload = f].payload = f
             /\ KeepsRequests(d, [d EXCEPT !.payload = f])
             /\ KeepsDecisions(d, [d EXCEPT !.payload = f])
             /\ [d EXCEPT !.payload = f].checkpoint = d.checkpoint
             /\ [d EXCEPT !.payload = f].ops = d.ops
  BY DEF Disks, KeepsRequests, KeepsDecisions
<1>2. ASSUME NEW c \in {call, NoCall}
      PROVE  /\ [d.payload EXCEPT ![call.id] = c] \in [Ids -> ToolCalls \cup {NoCall}]
             /\ [d.payload EXCEPT ![call.id] = c][i] \in {d.payload[i], call, NoCall}
  BY <1>0
<1>3. CASE e = d
  BY <1>3 DEF KeepsRequests, KeepsDecisions
<1>4. CASE e = [d EXCEPT !.payload = [d.payload EXCEPT ![call.id] = call]]
  BY <1>1, <1>2, <1>4
<1>5. CASE e = [d EXCEPT !.payload = [d.payload EXCEPT ![call.id] = NoCall]]
  BY <1>1, <1>2, <1>5
<1>6. \/ e = d
      \/ e = [d EXCEPT !.payload = [d.payload EXCEPT ![call.id] = call]]
      \/ e = [d EXCEPT !.payload = [d.payload EXCEPT ![call.id] = NoCall]]
  BY DEF store_pending_tool_payload, clear_pending_tool_payload
<1> QED
  BY <1>3, <1>4, <1>5, <1>6

(* A checkpoint with no call. *)
LEMMA CheckpointTypes ==
  ASSUME NEW turn \in 0 .. MaxTurns, NEW counts \in [Tools -> Nat], NEW used \in [Ids -> Bodies]
  PROVE  /\ AgentCheckpoint(turn, counts, used) \in Checkpoints
         /\ AgentCheckpoint(turn, counts, used).pending = NoCall
         /\ AgentCheckpoint(turn, counts, used).suspended = NoCall
BY Constants DEF AgentCheckpoint, Checkpoints

(* A checkpoint is recorded, and nothing else. *)
LEMMA CheckpointUpdate ==
  ASSUME NEW d \in Disks, NEW c \in Checkpoints
  PROVE  /\ [d EXCEPT !.checkpoint = c] \in Disks
         /\ [d EXCEPT !.checkpoint = c].checkpoint = c
         /\ [d EXCEPT !.checkpoint = c].ops = d.ops
         /\ [d EXCEPT !.checkpoint = c].payload = d.payload
         /\ KeepsRequests(d, [d EXCEPT !.checkpoint = c])
         /\ KeepsDecisions(d, [d EXCEPT !.checkpoint = c])
BY DEF Disks, KeepsRequests, KeepsDecisions

(* A memory that holds no attempt. *)
LEMMA GoneTypes ==
  ASSUME NEW pc \in Places, NEW n \in Nat
  PROVE  /\ Gone(pc) \in AttemptStates /\ Gone(pc).pc = pc /\ Gone(pc).call = NoCall
         /\ Gone(pc).queue = <<>>
         /\ [Gone(pc) EXCEPT !.attempt = n] \in AttemptStates
         /\ [Gone(pc) EXCEPT !.attempt = n].pc = pc
         /\ [Gone(pc) EXCEPT !.attempt = n].call = NoCall
         /\ [Gone(pc) EXCEPT !.attempt = n].queue = <<>>
<1>1. NoCounts \in [Tools -> Nat] /\ NoneUsed \in [Ids -> Bodies] /\ 0 \in 0 .. MaxTurns
  BY Constants, AgentAssumption DEF NoCounts, NoneUsed
<1>2. <<>> \in Seq(ToolCalls)
  OBVIOUS
<1>3. /\ Gone(pc) \in AttemptStates /\ Gone(pc).pc = pc /\ Gone(pc).call = NoCall
      /\ Gone(pc).queue = <<>>
  BY <1>1, <1>2, Constants DEF Gone, AttemptStates
<1> DEFINE g == Gone(pc)
<1>4. g \in AttemptStates /\ g.pc = pc /\ g.call = NoCall /\ g.queue = <<>>
  BY <1>3
<1> HIDE DEF g
<1>5. /\ [g EXCEPT !.attempt = n] \in AttemptStates /\ [g EXCEPT !.attempt = n].pc = pc
      /\ [g EXCEPT !.attempt = n].call = NoCall /\ [g EXCEPT !.attempt = n].queue = <<>>
  BY <1>4 DEF AttemptStates
<1> QED
  BY <1>4, <1>5 DEF g

(* The attempt goes on with the call, the queue and the turn it has. *)
Moved(pc) ==
    /\ run' \in AttemptStates /\ run'.pc = pc /\ run'.turn = run.turn
    /\ run'.call = run.call /\ run'.queue = run.queue /\ run'.resume = run.resume

(* The steps GoTo, Fail, FailTool, Report and Suspend move the attempt. *)
LEMMA Moves ==
  ASSUME AgentTypeOK
  PROVE  /\ \A pc \in Places : GoTo(pc) => Moved(pc) /\ run'.op = run.op
         /\ \A class \in {"failed", "refused", "canceled", "budget"} :
              /\ Fail(class) => Moved("end")
              /\ FailTool(class) => \/ run.call.tool = "patch" /\ Moved("clear")
                                    \/ run.call.tool # "patch" /\ Moved("end")
         /\ \A ask \in Prompts : (Report(ask) => Moved("report")) /\ (Suspend(ask) => Moved("suspend"))
         /\ ToolResult => Moved("output")
<1>0. run \in AttemptStates
  BY DEF AgentTypeOK
<1>1. /\ "end" \in Places /\ "report" \in Places /\ "suspend" \in Places /\ "clear" \in Places
      /\ "output" \in Places
  BY DEF Places, TurnPlaces, CallPlaces
<1>2. ASSUME NEW p \in Places, run' = [run EXCEPT !.pc = p]
      PROVE  Moved(p) /\ run'.op = run.op
  BY <1>0, <1>2 DEF AttemptStates, Moved
<1>3. ASSUME NEW p \in Places, NEW class \in {"failed", "refused", "canceled", "budget"},
             run' = [run EXCEPT !.pc = p, !.error = class]
      PROVE  Moved(p)
  BY <1>0, <1>3 DEF AttemptStates, Moved
<1>4. ASSUME NEW p \in Places, NEW ask \in Prompts, run' = [run EXCEPT !.pc = p, !.ask = ask]
      PROVE  Moved(p)
  BY <1>0, <1>4 DEF AttemptStates, Moved
<1>5. ASSUME NEW pc \in Places, GoTo(pc)
      PROVE  Moved(pc) /\ run'.op = run.op
  BY <1>2, <1>5 DEF GoTo
<1>6. ASSUME NEW class \in {"failed", "refused", "canceled", "budget"}
      PROVE  /\ Fail(class) => Moved("end")
             /\ FailTool(class) => \/ run.call.tool = "patch" /\ Moved("clear")
                                   \/ run.call.tool # "patch" /\ Moved("end")
  BY <1>1, <1>3 DEF Fail, FailTool
<1>7. ASSUME NEW ask \in Prompts
      PROVE  (Report(ask) => Moved("report")) /\ (Suspend(ask) => Moved("suspend"))
  BY <1>1, <1>4 DEF Report, Suspend
<1>9. ToolResult => Moved("output")
  BY <1>1, <1>2 DEF ToolResult, GoTo
<1> QED
  BY <1>5, <1>6, <1>7, <1>9

-----------------------------------------------------------------------------
(* What keeps each part of the invariant *)

(* Copies that are held now are held after a step that sends nothing. *)
LEMMA CopiesKept ==
  ASSUME CopiesGenuine, asked' = asked,
         Held(run'.call), Held(disk'.checkpoint.pending), Held(disk'.checkpoint.suspended),
         \A i \in Ids : Held(disk'.payload[i]),
         \A i \in 1 .. Len(run'.queue) : Genuine(run'.queue[i])
  PROVE  CopiesGenuine'
BY DEF CopiesGenuine, Held, Genuine, Marked, args_contain_redaction_marker

(* A permission is not taken back: approvals only come in. *)
LEMMA PermittedKept ==
  ASSUME setup' = setup, disk.approved \subseteq disk'.approved, NEW call, Permitted(call)
  PROVE  \/ call.tool = "query"
         \/ /\ setup'.policy # "none"
            /\ \/ setup'.policy = "allowed"
               \/ [ask_user_question_id(call) EXCEPT !.kind = "confirm",
                     !.id = IF setup'.scope = "content" THEN "any" ELSE call.id] \in disk'.approved
BY DEF Permitted, require_side_effect, ConfirmId

(* ... and read as the invariant reads it. *)
LEMMA PermittedCalls ==
  ASSUME setup' = setup, disk.approved \subseteq disk'.approved
  PROVE  /\ \A call : Permitted(call) => Permitted(call)'
         /\ run'.call = run.call => (Permitted(run.call) => Permitted(run.call)')
<1>1. ASSUME NEW call, Permitted(call) PROVE Permitted(call)'
  BY <1>1, PermittedKept DEF Permitted, require_side_effect, ConfirmId, ask_user_question_id
<1>2. ASSUME run'.call = run.call, Permitted(run.call) PROVE Permitted(run.call)'
  <2>1. PICK c : c = run.call
    OBVIOUS
  <2>2. Permitted(c)'
    BY <1>1, <1>2, <2>1
  <2> QED
    BY <1>2, <2>1, <2>2 DEF Permitted, require_side_effect, ConfirmId, ask_user_question_id
<1> QED
  BY <1>1, <1>2

(* A step that applies nothing and comes near no effect. *)
LEMMA EffectsKept ==
  ASSUME EffectsPermitted, setup' = setup, applied' = applied, asked \subseteq asked',
         disk.approved \subseteq disk'.approved,
         run'.pc \notin {"continue", "guard", "effect", "remote"}
  PROVE  EffectsPermitted'
<1>1. \A call \in applied' : call \in asked' /\ Permitted(call)'
  BY PermittedCalls DEF EffectsPermitted
<1> QED
  BY <1>1 DEF EffectsPermitted

Resting == {"idle", "paused", "done", "suspend", "report"}

(* A step that records nothing about operations and requests. *)
LEMMA OnceKept ==
  ASSUME StartedOnce, setup' = setup, effects' = effects, disk'.ops = disk.ops,
         disk'.mcp_pending = disk.mcp_pending, run'.pc \notin {"effect", "remote"},
         ~setup.repeat /\ disk.mcp_pending # {} => run'.pc \in Resting
  PROVE  StartedOnce'
BY DEF StartedOnce, Resting

(* Requests stay named while nothing rewrites them and answers only come in. *)
LEMMA RequestsKept ==
  ASSUME RequestsNamed, KeepsRequests(disk, disk'), disk.answers \subseteq disk'.answers,
         continued' = continued
  PROVE  RequestsNamed'
BY DEF RequestsNamed, KeepsRequests

(* A step of the loop that writes nothing, keeps its call and its queue    *)
(* and comes near no effect.                                               *)
LEMMA QuietStep ==
  ASSUME AgentInv, UNCHANGED <<setup, disk, history>>,
         crashes' \in 0 .. MaxCrashes, faults' \in 0 .. MaxFaults,
         NEW pc \in Places, Moved(pc), run.pc \notin Resting,
         pc \notin {"turn", "continue", "guard", "effect", "remote"},
         pc \in TurnPlaces => run.pc \in TurnPlaces,
         pc \in CallPlaces => run.pc \in CallPlaces,
         pc \in {"charge", "load"} => run.call = NoCall,
         pc = "call" => run.queue # <<>>
  PROVE  AgentInv'
<1>0. /\ AgentTypeOK /\ Placed /\ CopiesGenuine /\ EffectsPermitted /\ StartedOnce /\ RequestsNamed
      /\ UNCHANGED <<setup, disk, effects, applied, asked, continued>>
  BY DEF AgentInv, history
<1>1. /\ run' \in AttemptStates /\ run'.pc = pc /\ run'.turn = run.turn
      /\ run'.call = run.call /\ run'.queue = run.queue /\ run'.resume = run.resume
  BY DEF Moved
<1>2. AgentTypeOK'
  BY <1>0, <1>1 DEF AgentTypeOK
<1>3. Placed'
  BY <1>0, <1>1 DEF Placed
<1>4. CopiesGenuine'
  <2>1. /\ Held(run'.call) /\ Held(disk'.checkpoint.pending) /\ Held(disk'.checkpoint.suspended)
        /\ \A i \in Ids : Held(disk'.payload[i])
        /\ \A i \in 1 .. Len(run'.queue) : Genuine(run'.queue[i])
    BY <1>0, <1>1 DEF CopiesGenuine
  <2> QED
    BY <1>0, <2>1, CopiesKept
<1>5. EffectsPermitted'
  BY <1>0, <1>1, EffectsKept
<1>6. StartedOnce'
  BY <1>0, <1>1, OnceKept DEF StartedOnce, Resting
<1>7. RequestsNamed'
  BY <1>0, RequestsKept DEF KeepsRequests
<1> QED
  BY <1>2, <1>3, <1>4, <1>5, <1>6, <1>7 DEF AgentInv

(* A step that leaves no attempt, or a new one, in memory.  It may record  *)
(* prompts, decisions and the end of the step.                             *)
LEMMA RestStep ==
  ASSUME AgentInv, UNCHANGED <<setup, history>>,
         crashes' \in 0 .. MaxCrashes, faults' \in 0 .. MaxFaults,
         run' \in AttemptStates, run'.pc \in {"idle", "paused", "done", "charge", "load"},
         run'.call = NoCall, run'.queue = <<>>,
         disk' \in Disks, disk'.ops = disk.ops, disk'.payload = disk.payload,
         KeepsRequests(disk, disk'),
         disk.answers \subseteq disk'.answers, disk.approved \subseteq disk'.approved,
         disk'.checkpoint.pending \in {disk.checkpoint.pending, NoCall},
         disk'.checkpoint.suspended \in {disk.checkpoint.suspended, NoCall},
         run'.pc \in {"charge", "load"} /\ ~setup.repeat => disk.mcp_pending = {}
  PROVE  AgentInv'
<1>0. /\ AgentTypeOK /\ Placed /\ CopiesGenuine /\ EffectsPermitted /\ StartedOnce /\ RequestsNamed
      /\ UNCHANGED <<setup, effects, applied, asked, continued>>
  BY DEF AgentInv, history
<1>2. AgentTypeOK'
  BY <1>0 DEF AgentTypeOK
<1>3. Placed'
  BY <1>0 DEF Placed, TurnPlaces, CallPlaces
<1>4. CopiesGenuine'
  <2>1. /\ Held(run'.call) /\ Held(disk'.checkpoint.pending) /\ Held(disk'.checkpoint.suspended)
        /\ \A i \in Ids : Held(disk'.payload[i])
    BY <1>0 DEF CopiesGenuine, Held
  <2>2. \A i \in 1 .. Len(run'.queue) : Genuine(run'.queue[i])
    OBVIOUS
  <2> QED
    BY <1>0, <2>1, <2>2, CopiesKept
<1>5. EffectsPermitted'
  BY <1>0, EffectsKept
<1>6. StartedOnce'
  BY <1>0, OnceKept DEF Resting, KeepsRequests
<1>7. RequestsNamed'
  BY <1>0, RequestsKept
<1> QED
  BY <1>2, <1>3, <1>4, <1>5, <1>6, <1>7 DEF AgentInv

(* The counters of crashes and faults stay within their bounds. *)
LEMMA Counters ==
  ASSUME AgentTypeOK
  PROVE  /\ Calm => crashes' \in 0 .. MaxCrashes /\ faults' \in 0 .. MaxFaults /\ setup' = setup
         /\ Fault /\ UNCHANGED crashes => crashes' \in 0 .. MaxCrashes /\ faults' \in 0 .. MaxFaults
BY AgentAssumption DEF AgentTypeOK, Calm, Fault


-----------------------------------------------------------------------------
(* Steps near no effect *)

(* The checkpoint of a step that has none. *)
LEMMA NoCheckpointTypes ==
  NoCheckpoint \in Checkpoints /\ NoCheckpoint.pending = NoCall /\ NoCheckpoint.suspended = NoCall
<1>1. NoCounts \in [Tools -> Nat] /\ NoneUsed \in [Ids -> Bodies] /\ 0 \in 0 .. MaxTurns
  BY Constants, AgentAssumption DEF NoCounts, NoneUsed
<1> QED
  BY <1>1, Constants DEF NoCheckpoint, AgentCheckpoint, Checkpoints

(* A charged attempt goes on to read the checkpoint. *)
LEMMA LoadStep ==
  ASSUME AgentInv, UNCHANGED <<setup, history>>,
         crashes' \in 0 .. MaxCrashes, faults' \in 0 .. MaxFaults,
         Moved("load"), run.call = NoCall,
         disk' \in Disks, disk'.ops = disk.ops, disk'.payload = disk.payload,
         KeepsRequests(disk, disk'), KeepsDecisions(disk, disk'),
         disk'.checkpoint = disk.checkpoint,
         ~setup.repeat => disk.mcp_pending = {}
  PROVE  AgentInv'
<1>0. /\ AgentTypeOK /\ Placed /\ CopiesGenuine /\ EffectsPermitted /\ StartedOnce /\ RequestsNamed
      /\ UNCHANGED <<setup, effects, applied, asked, continued>>
      /\ disk'.answers = disk.answers /\ disk'.approved = disk.approved
  BY DEF AgentInv, history, KeepsDecisions
<1>1. /\ run' \in AttemptStates /\ run'.pc = "load" /\ run'.turn = run.turn
      /\ run'.call = run.call /\ run'.queue = run.queue /\ run'.resume = run.resume
  BY DEF Moved
<1>2. AgentTypeOK'
  BY <1>0, <1>1 DEF AgentTypeOK
<1>3. Placed'
  BY <1>0, <1>1 DEF Placed, TurnPlaces, CallPlaces
<1>4. CopiesGenuine'
  <2>1. /\ Held(run'.call) /\ Held(disk'.checkpoint.pending) /\ Held(disk'.checkpoint.suspended)
        /\ \A i \in Ids : Held(disk'.payload[i])
        /\ \A i \in 1 .. Len(run'.queue) : Genuine(run'.queue[i])
    BY <1>0, <1>1 DEF CopiesGenuine
  <2> QED
    BY <1>0, <2>1, CopiesKept
<1>5. EffectsPermitted'
  BY <1>0, <1>1, EffectsKept
<1>6. StartedOnce'
  BY <1>0, <1>1, OnceKept DEF KeepsRequests
<1>7. RequestsNamed'
  BY <1>0, RequestsKept
<1> QED
  BY <1>2, <1>3, <1>4, <1>5, <1>6, <1>7 DEF AgentInv

(* No turns are left. *)
LEMMA IterationsExhausted_Step ==
  ASSUME AgentInv, IterationsExhausted
  PROVE  AgentInv'
<1>0. AgentTypeOK /\ Placed
  BY DEF AgentInv
<1>1. run.pc = "turn"
  BY DEF IterationsExhausted, At
<1>2. UNCHANGED <<setup, disk, history>>
  BY DEF IterationsExhausted, Calm
<1>3. crashes' \in 0 .. MaxCrashes /\ faults' \in 0 .. MaxFaults
  BY <1>0, Counters DEF IterationsExhausted
<1>4. Moved("end")
  BY <1>0, Moves DEF IterationsExhausted, Places
<1> QED
  BY <1>1, <1>2, <1>3, <1>4, QuietStep DEF Places, TurnPlaces, CallPlaces, Resting

(* The model answers. *)
LEMMA FinalAnswer_Step ==
  ASSUME AgentInv, FinalAnswer
  PROVE  AgentInv'
<1>0. AgentTypeOK /\ Placed
  BY DEF AgentInv
<1>1. run.pc = "turn"
  BY DEF FinalAnswer, At, Asking, MayTurn
<1>2. UNCHANGED <<setup, disk, history>>
  BY DEF FinalAnswer, Calm
<1>3. crashes' \in 0 .. MaxCrashes /\ faults' \in 0 .. MaxFaults
  BY <1>0, Counters DEF FinalAnswer
<1>4. Moved("end")
  BY <1>0, Moves DEF FinalAnswer, Places
<1> QED
  BY <1>1, <1>2, <1>3, <1>4, QuietStep DEF Places, TurnPlaces, CallPlaces, Resting

(* No usable response. *)
LEMMA ResponseFails_Step ==
  ASSUME AgentInv, ResponseFails
  PROVE  AgentInv'
<1>0. AgentTypeOK /\ Placed
  BY DEF AgentInv
<1>1. run.pc = "turn"
  BY DEF ResponseFails, At, Asking, MayTurn
<1>2. UNCHANGED <<setup, disk, history>>
  BY DEF ResponseFails, Calm
<1>3. crashes' \in 0 .. MaxCrashes /\ faults' \in 0 .. MaxFaults
  BY <1>0, Counters DEF ResponseFails
<1>4. Moved("end")
  BY <1>0, Moves DEF ResponseFails
<1> QED
  BY <1>1, <1>2, <1>3, <1>4, QuietStep DEF Places, TurnPlaces, CallPlaces, Resting

(* A guardrail refuses a call before it starts. *)
LEMMA CallRejected_Step ==
  ASSUME AgentInv, CallRejected
  PROVE  AgentInv'
<1>0. AgentTypeOK /\ Placed
  BY DEF AgentInv
<1>1. run.pc \in {"call", "execute", "continue"}
  BY DEF CallRejected, At
<1>2. UNCHANGED <<setup, disk, history>>
  BY DEF CallRejected, Calm
<1>3. crashes' \in 0 .. MaxCrashes /\ faults' \in 0 .. MaxFaults
  BY <1>0, Counters DEF CallRejected
<1>4. Moved("end")
  BY <1>0, Moves DEF CallRejected
<1> QED
  BY <1>1, <1>2, <1>3, <1>4, QuietStep DEF Places, TurnPlaces, CallPlaces, Resting

(* A final answer outside the contract. *)
LEMMA enforce_out_of_contract_policy_Step ==
  ASSUME AgentInv, enforce_out_of_contract_policy
  PROVE  AgentInv'
<1>0. AgentTypeOK /\ Placed
  BY DEF AgentInv
<1>1. run.pc = "turn"
  BY DEF enforce_out_of_contract_policy, At, Asking, MayTurn
<1>2. UNCHANGED <<setup, disk, history>>
  BY DEF enforce_out_of_contract_policy, Calm
<1>3. crashes' \in 0 .. MaxCrashes /\ faults' \in 0 .. MaxFaults
  BY <1>0, Counters DEF enforce_out_of_contract_policy
<1>4. setup.outside \in {"fail", "clarify", "clamp"}
  BY <1>0, AgentAssumption DEF AgentTypeOK
<1>5. Fail("failed") \/ Report(ClarifyPrompt) \/ GoTo("end")
  BY <1>4 DEF enforce_out_of_contract_policy
<1>6. Moved("end") \/ Moved("report")
  BY <1>0, <1>5, Moves, Constants DEF Places
<1> QED
  BY <1>1, <1>2, <1>3, <1>6, QuietStep DEF Places, TurnPlaces, CallPlaces, Resting

(* The confirmation was refused, or is shown again. *)
LEMMA ResumeUndecided_Step ==
  ASSUME AgentInv, ResumeUndecided
  PROVE  AgentInv'
<1>0. AgentTypeOK /\ Placed
  BY DEF AgentInv
<1>1. run.pc = "load"
  BY DEF ResumeUndecided, At
<1>2. UNCHANGED <<setup, disk, history>>
  BY DEF ResumeUndecided, Calm
<1>3. crashes' \in 0 .. MaxCrashes /\ faults' \in 0 .. MaxFaults
  BY <1>0, Counters DEF ResumeUndecided
<1>4. Fail("refused") \/ Report(disk.checkpoint.confirm)
  BY DEF ResumeUndecided
<1>5. Moved("end") \/ Moved("report")
  BY <1>0, <1>4, Moves, Parts
<1> QED
  BY <1>1, <1>2, <1>3, <1>5, QuietStep DEF Places, TurnPlaces, CallPlaces, Resting

(* An MCP server wants authorization. *)
LEMMA AuthorizationRequired_Step ==
  ASSUME AgentInv, AuthorizationRequired
  PROVE  AgentInv'
<1>0. AgentTypeOK /\ Placed
  BY DEF AgentInv
<1>1. run.pc = "load" /\ run.call = NoCall
  BY <1>0 DEF AuthorizationRequired, At, MayLoad, Placed
<1>2. UNCHANGED <<setup, disk, history>>
  BY DEF AuthorizationRequired, Calm
<1>3. crashes' \in 0 .. MaxCrashes /\ faults' \in 0 .. MaxFaults
  BY <1>0, Counters DEF AuthorizationRequired
<1>4. setup.auth \in {"fail", "wait", "degrade"}
  BY <1>0, AgentAssumption DEF AgentTypeOK
<1>5. Fail("refused") \/ Report(AuthPrompt) \/ run' = [run EXCEPT !.degraded = TRUE]
  BY <1>4 DEF AuthorizationRequired
<1>6. ASSUME run' = [run EXCEPT !.degraded = TRUE] PROVE Moved("load")
  BY <1>0, <1>1, <1>6 DEF AgentTypeOK, AttemptStates, Moved
<1>7. Moved("end") \/ Moved("report") \/ Moved("load")
  BY <1>0, <1>5, <1>6, Moves, Constants
<1> QED
  BY <1>1, <1>2, <1>3, <1>7, QuietStep DEF Places, TurnPlaces, CallPlaces, Resting

(* A question, answered or put. *)
LEMMA ExecuteAskUser_Step ==
  ASSUME AgentInv, ExecuteAskUser
  PROVE  AgentInv'
<1>0. AgentTypeOK /\ Placed
  BY DEF AgentInv
<1>1. run.pc = "execute" /\ run.call \in ToolCalls
  BY <1>0, Parts DEF ExecuteAskUser, At, Placed, CallPlaces
<1>2. UNCHANGED <<setup, disk, history>>
  BY DEF ExecuteAskUser, Calm
<1>3. crashes' \in 0 .. MaxCrashes /\ faults' \in 0 .. MaxFaults
  BY <1>0, Counters DEF ExecuteAskUser
<1>4. ToolResult \/ Suspend(ask_user_question_id(run.call))
  BY DEF ExecuteAskUser
<1>5. Moved("output") \/ Moved("suspend")
  BY <1>0, <1>1, <1>4, Moves, PromptTypes
<1> QED
  BY <1>1, <1>2, <1>3, <1>5, QuietStep DEF Places, TurnPlaces, CallPlaces, Resting

(* A search or a safe read. *)
LEMMA ExecuteRead_Step ==
  ASSUME AgentInv, ExecuteRead
  PROVE  AgentInv'
<1>0. AgentTypeOK /\ Placed
  BY DEF AgentInv
<1>1. run.pc = "execute"
  BY DEF ExecuteRead, At
<1>2. UNCHANGED <<setup, disk, history>>
  BY DEF ExecuteRead, Calm
<1>3. crashes' \in 0 .. MaxCrashes /\ faults' \in 0 .. MaxFaults
  BY <1>0, Counters DEF ExecuteRead
<1>4. ToolResult \/ Fail("refused")
  BY DEF ExecuteRead
<1>5. Moved("output") \/ Moved("end")
  BY <1>0, <1>4, Moves
<1> QED
  BY <1>1, <1>2, <1>3, <1>5, QuietStep DEF Places, TurnPlaces, CallPlaces, Resting

(* The result passes the output checks. *)
LEMMA OutputAccepted_Step ==
  ASSUME AgentInv, OutputAccepted
  PROVE  AgentInv'
<1>0. AgentTypeOK /\ Placed
  BY DEF AgentInv
<1>1. run.pc = "output"
  BY DEF OutputAccepted, At
<1>2. UNCHANGED <<setup, disk, history>>
  BY DEF OutputAccepted, Calm
<1>3. crashes' \in 0 .. MaxCrashes /\ faults' \in 0 .. MaxFaults
  BY <1>0, Counters DEF OutputAccepted
<1>4. \/ GoTo("finish") \/ GoTo("settle")
      \/ run.queue # <<>> /\ GoTo("call")
  BY DEF OutputAccepted, AfterCall
<1>5. Moved("finish") \/ Moved("settle") \/ (run.queue # <<>> /\ Moved("call"))
  BY <1>0, <1>4, Moves DEF Places, TurnPlaces, CallPlaces
<1> QED
  BY <1>1, <1>2, <1>3, <1>5, QuietStep DEF Places, TurnPlaces, CallPlaces, Resting

(* The engine enters the step, unless an operation is unfinished. *)
LEMMA Enter_Step ==
  ASSUME AgentInv, Enter
  PROVE  AgentInv'
<1>0. AgentTypeOK /\ Placed
  BY DEF AgentInv
<1>1. /\ UNCHANGED <<setup, history>>
      /\ crashes' \in 0 .. MaxCrashes /\ faults' \in 0 .. MaxFaults
  BY <1>0, Counters DEF Enter, Calm
<1>2. run.pc = "idle" /\ disk \in Disks
  BY <1>0 DEF Enter, At, AgentTypeOK
<1>3. CASE ensure_no_fail_closed_inflight_operations(disk)
  <2>1. run' = [Gone("charge") EXCEPT !.attempt = 1] /\ disk' = disk
    BY <1>3 DEF Enter
  <2>2. /\ run' \in AttemptStates /\ run'.pc = "charge" /\ run'.call = NoCall
        /\ run'.queue = <<>>
    BY <2>1, GoneTypes DEF Places
  <2>3. ~setup.repeat => disk.mcp_pending = {}
    BY <1>3 DEF ensure_no_fail_closed_inflight_operations, AgentInv, StartedOnce
  <2> QED
    BY <1>0, <1>1, <1>2, <2>1, <2>2, <2>3, RestStep DEF KeepsRequests
<1>4. CASE ~ensure_no_fail_closed_inflight_operations(disk)
  <2>1. run' = Gone("done") /\ disk' = [disk EXCEPT !.outcome = "blocked"]
    BY <1>4 DEF Enter
  <2>2. /\ run' \in AttemptStates /\ run'.pc = "done" /\ run'.call = NoCall
        /\ run'.queue = <<>>
    BY <2>1, GoneTypes DEF Places
  <2>3. /\ disk' \in Disks /\ disk'.ops = disk.ops /\ disk'.payload = disk.payload
        /\ KeepsRequests(disk, disk') /\ KeepsDecisions(disk, disk')
        /\ disk'.checkpoint = disk.checkpoint
    BY <1>2, <2>1 DEF Disks, KeepsRequests, KeepsDecisions
  <2> QED
    BY <1>0, <1>1, <2>2, <2>3, RestStep DEF KeepsDecisions
<1> QED
  BY <1>0, <1>3, <1>4, RestStep DEF Places, TurnPlaces, CallPlaces

(* The attempt is charged on disk, or the budget is spent. *)
LEMMA ChargeAttempt_Step ==
  ASSUME AgentInv, ChargeAttempt
  PROVE  AgentInv'
<1>0. AgentTypeOK /\ Placed
  BY DEF AgentInv
<1>1. /\ UNCHANGED <<setup, history>>
      /\ crashes' \in 0 .. MaxCrashes /\ faults' \in 0 .. MaxFaults
  BY <1>0, Counters DEF ChargeAttempt, Calm
<1>2. run.pc = "charge" /\ disk \in Disks /\ run.call = NoCall
  BY <1>0 DEF ChargeAttempt, At, AgentTypeOK, Placed
<1>3. CASE disk.charged < MaxSteps
  <2>1. GoTo("load") /\ disk' = [disk EXCEPT !.charged = disk.charged + 1]
    BY <1>3 DEF ChargeAttempt
  <2>2. Moved("load")
    BY <1>0, <2>1, Moves DEF Places
  <2>3. disk.charged + 1 \in 0 .. MaxSteps
    BY <1>0, <1>3, Parts, AgentAssumption
  <2>4. /\ disk' \in Disks /\ disk'.ops = disk.ops /\ disk'.payload = disk.payload
        /\ KeepsRequests(disk, disk') /\ KeepsDecisions(disk, disk')
        /\ disk'.checkpoint = disk.checkpoint
    BY <1>2, <2>1, <2>3 DEF Disks, KeepsRequests, KeepsDecisions
  <2>5. ~setup.repeat => disk.mcp_pending = {}
    BY <1>2 DEF AgentInv, StartedOnce
  <2> QED
    BY <1>0, <1>1, <1>2, <2>2, <2>4, <2>5, LoadStep DEF KeepsDecisions
<1>4. CASE ~(disk.charged < MaxSteps)
  <2>1. Fail("budget") /\ disk' = disk
    BY <1>4 DEF ChargeAttempt
  <2>2. Moved("end")
    BY <1>0, <2>1, Moves
  <2> QED
    BY <1>1, <1>2, <2>1, <2>2, QuietStep DEF Places, TurnPlaces, CallPlaces, Resting
<1> QED
  BY <1>0, <1>3, <1>4, RestStep DEF Places, TurnPlaces, CallPlaces

(* The prompt is journaled and the run pauses. *)
LEMMA ReportPrompt_Step ==
  ASSUME AgentInv, ReportPrompt
  PROVE  AgentInv'
<1>0. AgentTypeOK /\ Placed
  BY DEF AgentInv
<1>1. /\ UNCHANGED <<setup, history>>
      /\ crashes' \in 0 .. MaxCrashes /\ faults' \in 0 .. MaxFaults
  BY <1>0, Counters DEF ReportPrompt, Calm
<1>2. disk \in Disks /\ run.ask \in Prompts
  BY <1>0, Parts DEF AgentTypeOK
<1>3. run' = Gone("paused") /\ disk' = [disk EXCEPT !.prompt = run.ask]
  BY DEF ReportPrompt
<1>4. run' \in AttemptStates /\ run'.pc = "paused" /\ run'.call = NoCall /\ run'.queue = <<>>
  BY <1>3, GoneTypes DEF Places
<1>5. /\ disk' \in Disks /\ disk'.ops = disk.ops /\ disk'.payload = disk.payload
      /\ KeepsRequests(disk, disk') /\ KeepsDecisions(disk, disk')
      /\ disk'.checkpoint = disk.checkpoint
  BY <1>2, <1>3 DEF Disks, KeepsRequests, KeepsDecisions
<1>6. disk.answers \subseteq disk'.answers /\ disk.approved \subseteq disk'.approved
  BY <1>5 DEF KeepsDecisions
<1> QED
  BY <1>0, <1>1, <1>4, <1>5, <1>6, RestStep DEF Places, TurnPlaces, CallPlaces

(* Another attempt, or the step is settled. *)
LEMMA EndAttempt_Step ==
  ASSUME AgentInv, EndAttempt
  PROVE  AgentInv'
<1>0. AgentTypeOK /\ Placed
  BY DEF AgentInv
<1>1. /\ UNCHANGED <<setup, history>>
      /\ crashes' \in 0 .. MaxCrashes /\ faults' \in 0 .. MaxFaults
  BY <1>0, Counters DEF EndAttempt, Calm
<1>2. disk \in Disks /\ run.attempt \in Nat /\ run.pc = "end"
  BY <1>0, Parts DEF AgentTypeOK, EndAttempt, At
<1>3. CASE run.error = "failed" /\ run.attempt < setup.tries
  <2>1. run' = [Gone("charge") EXCEPT !.attempt = run.attempt + 1] /\ disk' = disk
    BY <1>3 DEF EndAttempt
  <2>2. /\ run' \in AttemptStates /\ run'.pc = "charge" /\ run'.call = NoCall
        /\ run'.queue = <<>>
    <3>1. run.attempt + 1 \in Nat /\ "charge" \in Places
      BY <1>2 DEF Places
    <3> QED
      BY <2>1, <3>1, GoneTypes
  <2>3. ~setup.repeat => disk.mcp_pending = {}
    BY <1>2 DEF AgentInv, StartedOnce
  <2> QED
    BY <1>0, <1>1, <1>2, <2>1, <2>2, <2>3, RestStep DEF KeepsRequests
<1>4. CASE ~(run.error = "failed" /\ run.attempt < setup.tries)
  <2>0. PICK how \in {"success", "failed", "refused", "canceled", "budget"} :
          run' = Gone("done") /\ disk' = step_finished(disk, how)
    BY <1>0, <1>4, Parts DEF EndAttempt
  <2>1. /\ run' \in AttemptStates /\ run'.pc = "done" /\ run'.call = NoCall
        /\ run'.queue = <<>>
    BY <2>0, GoneTypes DEF Places
  <2>2. NoCheckpoint \in Checkpoints /\ NoCheckpoint.pending = NoCall /\ NoCheckpoint.suspended = NoCall
    BY NoCheckpointTypes
  <2>3. /\ disk' \in Disks /\ disk'.ops = disk.ops /\ disk'.payload = disk.payload
        /\ KeepsRequests(disk, disk') /\ KeepsDecisions(disk, disk')
        /\ disk'.checkpoint = NoCheckpoint
    BY <1>2, <2>0, <2>2, Constants DEF step_finished, Disks, KeepsRequests, KeepsDecisions
  <2> QED
    BY <1>0, <1>1, <2>1, <2>2, <2>3, RestStep DEF KeepsDecisions
<1> QED
  BY <1>0, <1>3, <1>4, RestStep DEF Places, TurnPlaces, CallPlaces

(* The user answers, approves or rejects. *)
LEMMA UserDecides_Step ==
  ASSUME AgentInv, UserDecides
  PROVE  AgentInv'
<1>0. AgentTypeOK /\ Placed
  BY DEF AgentInv
<1>1. /\ UNCHANGED <<setup, history>>
      /\ crashes' \in 0 .. MaxCrashes /\ faults' \in 0 .. MaxFaults
  BY <1>0, Counters DEF UserDecides, Calm
<1>2. disk \in Disks /\ disk.prompt \in Prompts
  BY <1>0, Parts DEF AgentTypeOK
<1>3. run' \in AttemptStates /\ run'.pc = "idle" /\ run'.call = NoCall /\ run'.queue = <<>>
  BY GoneTypes DEF UserDecides, Places
<1>4. \/ disk' = [disk EXCEPT !.answers = disk.answers \cup {disk.prompt}]
      \/ disk' = [disk EXCEPT !.approved = disk.approved \cup {disk.prompt}]
      \/ disk' = [disk EXCEPT !.rejected = disk.rejected \cup {disk.prompt}]
  BY DEF UserDecides
<1>5. /\ disk' \in Disks /\ disk'.ops = disk.ops /\ disk'.payload = disk.payload
      /\ KeepsRequests(disk, disk') /\ disk'.checkpoint = disk.checkpoint
      /\ disk.answers \subseteq disk'.answers /\ disk.approved \subseteq disk'.approved
  <2>1. CASE disk' = [disk EXCEPT !.answers = disk.answers \cup {disk.prompt}]
    BY <1>2, <2>1 DEF Disks, KeepsRequests
  <2>2. CASE disk' = [disk EXCEPT !.approved = disk.approved \cup {disk.prompt}]
    BY <1>2, <2>2 DEF Disks, KeepsRequests
  <2>3. CASE disk' = [disk EXCEPT !.rejected = disk.rejected \cup {disk.prompt}]
    BY <1>2, <2>3 DEF Disks, KeepsRequests
  <2> QED
    BY <1>4, <2>1, <2>2, <2>3
<1> QED
  BY <1>0, <1>1, <1>3, <1>5, RestStep DEF Places, TurnPlaces, CallPlaces

(* The process dies. *)
LEMMA Crash_Step ==
  ASSUME AgentInv, Crash
  PROVE  AgentInv'
<1>0. AgentTypeOK /\ Placed
  BY DEF AgentInv
<1>1. /\ UNCHANGED <<setup, disk, history>> /\ disk \in Disks
      /\ crashes' \in 0 .. MaxCrashes /\ faults' \in 0 .. MaxFaults
  BY <1>0, AgentAssumption DEF Crash, AgentTypeOK
<1>2. run' \in AttemptStates /\ run'.pc = "idle" /\ run'.call = NoCall /\ run'.queue = <<>>
  BY GoneTypes DEF Crash, Places
<1>3. KeepsRequests(disk, disk')
  BY <1>1 DEF KeepsRequests
<1> QED
  BY <1>0, <1>1, <1>2, <1>3, RestStep DEF Places, TurnPlaces, CallPlaces

-----------------------------------------------------------------------------
(* Steps that write the journal or a payload file *)

(* A step that takes up or records copies of calls and settles operations. *)
LEMMA WriteStep ==
  ASSUME AgentInv, UNCHANGED <<setup, history>>,
         crashes' \in 0 .. MaxCrashes, faults' \in 0 .. MaxFaults,
         run' \in AttemptStates, Placed',
         run'.pc \notin {"continue", "guard", "effect", "remote"},
         disk' \in Disks, KeepsRequests(disk, disk'), KeepsDecisions(disk, disk'),
         Held(run'.call), Held(disk'.checkpoint.pending), Held(disk'.checkpoint.suspended),
         \A i \in Ids : Held(disk'.payload[i]),
         \A i \in 1 .. Len(run'.queue) : Genuine(run'.queue[i]),
         \A i \in Ids : disk'.ops[i] = disk.ops[i] \/ disk'.ops[i].status \notin {"none", "clean"},
         \/ run.pc \notin Resting
         \/ run'.pc \in Resting /\ disk'.ops = disk.ops
  PROVE  AgentInv'
<1>0. /\ AgentTypeOK /\ Placed /\ CopiesGenuine /\ EffectsPermitted /\ StartedOnce /\ RequestsNamed
      /\ UNCHANGED <<setup, effects, applied, asked, continued>>
      /\ disk'.answers = disk.answers /\ disk'.approved = disk.approved
      /\ disk'.mcp_pending = disk.mcp_pending
  BY DEF AgentInv, history, KeepsDecisions, KeepsRequests
<1>1. AgentTypeOK'
  BY <1>0 DEF AgentTypeOK
<1>2. CopiesGenuine'
  BY <1>0, CopiesKept
<1>3. EffectsPermitted'
  BY <1>0, EffectsKept
<1>4. StartedOnce'
  BY <1>0 DEF StartedOnce, Resting
<1>5. RequestsNamed'
  BY <1>0, RequestsKept
<1> QED
  BY <1>1, <1>2, <1>3, <1>4, <1>5 DEF AgentInv

(* What every step starts from. *)
LEMMA Unpacked ==
  ASSUME AgentInv
  PROVE  /\ AgentTypeOK /\ Placed /\ CopiesGenuine /\ EffectsPermitted /\ StartedOnce /\ RequestsNamed
         /\ disk \in Disks /\ run \in AttemptStates /\ asked \subseteq ToolCalls
         /\ Held(run.call) /\ Held(disk.checkpoint.pending) /\ Held(disk.checkpoint.suspended)
         /\ \A i \in Ids : Held(disk.payload[i])
         /\ \A i \in 1 .. Len(run.queue) : Genuine(run.queue[i])
         /\ run.pc \in CallPlaces => run.call \in ToolCalls /\ Genuine(run.call)
         /\ run.pc \in TurnPlaces => run.turn < MaxTurns /\ run.resume = "none"
<1>1. /\ AgentTypeOK /\ Placed /\ CopiesGenuine /\ EffectsPermitted /\ StartedOnce /\ RequestsNamed
  BY DEF AgentInv
<1>2. /\ disk \in Disks /\ run \in AttemptStates /\ asked \subseteq ToolCalls
      /\ Held(run.call) /\ Held(disk.checkpoint.pending) /\ Held(disk.checkpoint.suspended)
      /\ \A i \in Ids : Held(disk.payload[i])
      /\ \A i \in 1 .. Len(run.queue) : Genuine(run.queue[i])
  BY <1>1 DEF AgentTypeOK, CopiesGenuine
<1>3. run.pc \in CallPlaces => run.call \in ToolCalls /\ Genuine(run.call)
  BY <1>1, <1>2, Parts DEF Placed, Held
<1>4. run.pc \in TurnPlaces => run.turn < MaxTurns /\ run.resume = "none"
  BY <1>1 DEF Placed
<1> QED
  BY <1>1, <1>2, <1>3, <1>4

(* The checkpoint is read into memory. *)
LEMMA LoadCheckpoint_Step ==
  ASSUME AgentInv, LoadCheckpoint
  PROVE  AgentInv'
<1>0. /\ AgentTypeOK /\ Placed /\ disk \in Disks /\ run \in AttemptStates
      /\ Held(run.call) /\ Held(disk.checkpoint.pending) /\ Held(disk.checkpoint.suspended)
      /\ \A i \in Ids : Held(disk.payload[i])
      /\ \A i \in 1 .. Len(run.queue) : Genuine(run.queue[i])
  BY Unpacked
<1>1. /\ run.pc = "load" /\ run.call = NoCall /\ UNCHANGED <<setup, disk, history>>
      /\ crashes' \in 0 .. MaxCrashes /\ faults' \in 0 .. MaxFaults
  BY <1>0, Counters DEF LoadCheckpoint, MayLoad, At, Placed, Calm
<1>2. CASE ResumeKind = "mcp" /\ ~verify_resumed_mcp_call
  <2>1. Moved("end")
    BY <1>0, <1>2, Moves DEF LoadCheckpoint
  <2> QED
    BY <1>1, <2>1, QuietStep DEF Places, TurnPlaces, CallPlaces, Resting
<1>3. CASE ~(ResumeKind = "mcp" /\ ~verify_resumed_mcp_call)
  <2>1. run' = [run EXCEPT !.pc     = "turn",
                           !.turn   = disk.checkpoint.turn,
                           !.counts = disk.checkpoint.counts,
                           !.used   = disk.checkpoint.used,
                           !.resume = ResumeKind]
    BY <1>3 DEF LoadCheckpoint
  <2>2. /\ ResumeKind \in {"none", "pending", "user", "mcp"}
        /\ ResumeKind = "pending" => disk.checkpoint.pending # NoCall
        /\ ResumeKind \in {"user", "mcp"} => disk.checkpoint.suspended # NoCall
    BY Constants DEF ResumeKind
  <2>3. "turn" \in Places
    BY DEF Places
  <2>4. /\ run' \in AttemptStates /\ run'.pc = "turn" /\ run'.call = run.call
        /\ run'.queue = run.queue /\ run'.resume = ResumeKind
    BY <1>0, <2>1, <2>2, <2>3, Parts DEF AttemptStates
  <2>5. Placed'
    BY <1>1, <2>2, <2>4 DEF Placed, TurnPlaces, CallPlaces
  <2> QED
    BY <1>0, <1>1, <2>4, <2>5, WriteStep DEF KeepsRequests, KeepsDecisions, Resting
<1> QED
  BY <1>2, <1>3

(* A turn is opened with the calls it has to run. *)
LEMMA Issued ==
  ASSUME AgentTypeOK, NEW calls \in Seq(ToolCalls), calls # <<>>, Issue(calls),
         run.turn < MaxTurns
  PROVE  /\ run' \in AttemptStates /\ run'.pc = "call" /\ run'.queue = calls
         /\ run'.call = run.call /\ run'.turn = run.turn /\ Placed'
<1>1. run \in AttemptStates /\ run.counts \in [Tools -> Nat] /\ "call" \in Places
  BY Parts DEF AgentTypeOK, Places, TurnPlaces
<1>2. /\ run' \in AttemptStates /\ run'.pc = "call" /\ run'.queue = calls
      /\ run'.call = run.call /\ run'.turn = run.turn /\ run'.resume = "none"
  BY <1>1 DEF Issue, AttemptStates
<1>3. Placed'
  BY <1>2 DEF Placed, CallPlaces
<1> QED
  BY <1>2, <1>3

(* A stored call is re-issued. *)
LEMMA ReissueStep ==
  ASSUME AgentInv, UNCHANGED <<setup, disk, history>>,
         crashes' \in 0 .. MaxCrashes, faults' \in 0 .. MaxFaults,
         run.pc = "turn", run.turn < MaxTurns,
         NEW call \in ToolCalls, Genuine(call), Issue(<<call>>)
  PROVE  AgentInv'
<1>0. /\ AgentTypeOK /\ disk \in Disks
      /\ Held(run.call) /\ Held(disk.checkpoint.pending) /\ Held(disk.checkpoint.suspended)
      /\ \A i \in Ids : Held(disk.payload[i])
  BY Unpacked
<1>1. <<call>> \in Seq(ToolCalls) /\ <<call>> # <<>>
  OBVIOUS
<1>2. /\ run' \in AttemptStates /\ run'.pc = "call" /\ run'.queue = <<call>>
      /\ run'.call = run.call /\ Placed'
  BY <1>0, <1>1, Issued
<1>3. \A i \in 1 .. Len(run'.queue) : Genuine(run'.queue[i])
  BY <1>2
<1> QED
  BY <1>0, <1>2, <1>3, WriteStep DEF KeepsRequests, KeepsDecisions, Resting

(* The first turn re-issues the stored call, from its payload file if that *)
(* matches.                                                                *)
LEMMA ResumeTurn_Step ==
  ASSUME AgentInv, ResumeTurn
  PROVE  AgentInv'
<1>0. /\ AgentTypeOK /\ Placed /\ disk \in Disks
      /\ Held(disk.checkpoint.pending) /\ Held(disk.checkpoint.suspended)
      /\ \A i \in Ids : Held(disk.payload[i])
  BY Unpacked
<1>1. /\ run.pc = "turn" /\ run.turn < MaxTurns /\ run.resume # "none"
      /\ UNCHANGED <<setup, disk, history>>
      /\ crashes' \in 0 .. MaxCrashes /\ faults' \in 0 .. MaxFaults
  BY <1>0, Counters DEF ResumeTurn, MayTurn, At, Calm
<1>2. CASE run.resume = "pending"
  <2> DEFINE call == restore_pending_call_from_sidecar(disk)
  <2>1. disk.checkpoint.pending \in ToolCalls /\ Genuine(disk.checkpoint.pending)
    BY <1>0, <1>1, <1>2, Parts DEF Placed, Held
  <2>2. disk.checkpoint.pending.id \in Ids
    BY <2>1 DEF ToolCalls
  <2>3. \/ call = disk.checkpoint.pending
        \/ call = disk.payload[disk.checkpoint.pending.id] /\ call # NoCall
    BY DEF restore_pending_call_from_sidecar
  <2>4. call \in ToolCalls /\ Genuine(call)
    BY <1>0, <2>1, <2>2, <2>3, Parts DEF Held
  <2>5. Issue(<<call>>)
    BY <1>2 DEF ResumeTurn
  <2> QED
    BY <1>1, <2>4, <2>5, ReissueStep
<1>3. CASE run.resume # "pending"
  <2>1. disk.checkpoint.suspended \in ToolCalls /\ Genuine(disk.checkpoint.suspended)
    BY <1>0, <1>1, <1>3, Parts DEF Placed, Held
  <2>2. Issue(<<disk.checkpoint.suspended>>)
    BY <1>3 DEF ResumeTurn
  <2> QED
    BY <1>1, <2>1, <2>2, ReissueStep
<1> QED
  BY <1>2, <1>3

(* ... or from the redacted copy, when the file cannot be read. *)
LEMMA ResumeRedacted_Step ==
  ASSUME AgentInv, ResumeRedacted
  PROVE  AgentInv'
<1>0. AgentTypeOK /\ Placed /\ Held(disk.checkpoint.pending)
  BY Unpacked
<1>1. /\ run.pc = "turn" /\ run.turn < MaxTurns /\ run.resume = "pending"
      /\ UNCHANGED <<setup, disk, history>>
      /\ crashes' \in 0 .. MaxCrashes /\ faults' \in 0 .. MaxFaults
  BY <1>0, Counters DEF ResumeRedacted, MayTurn, At
<1>2. disk.checkpoint.pending \in ToolCalls /\ Genuine(disk.checkpoint.pending)
  BY <1>0, <1>1, Parts DEF Placed, Held
<1>3. Issue(<<disk.checkpoint.pending>>)
  BY DEF ResumeRedacted
<1> QED
  BY <1>1, <1>2, <1>3, ReissueStep

(* A checkpoint without calls; the attempt goes on with none. *)
LEMMA FinalInvalid_Step ==
  ASSUME AgentInv, FinalInvalid
  PROVE  AgentInv'
<1>0. /\ AgentTypeOK /\ Placed /\ disk \in Disks /\ run \in AttemptStates
      /\ Held(run.call) /\ \A i \in Ids : Held(disk.payload[i])
      /\ \A i \in 1 .. Len(run.queue) : Genuine(run.queue[i])
  BY Unpacked
<1>1. /\ run.pc = "turn" /\ run.turn < MaxTurns /\ run.resume = "none" /\ run.call = NoCall
      /\ UNCHANGED <<setup, history>>
      /\ crashes' \in 0 .. MaxCrashes /\ faults' \in 0 .. MaxFaults
  BY <1>0, Counters DEF FinalInvalid, Asking, MayTurn, At, Calm, Placed
<1>2. run.turn + 1 \in 0 .. MaxTurns
  BY <1>0, <1>1, Parts, AgentAssumption
<1> DEFINE c == AgentCheckpoint(run.turn + 1, run.counts, run.used)
<1>3. c \in Checkpoints /\ c.pending = NoCall /\ c.suspended = NoCall
  BY <1>0, <1>2, Parts, Constants DEF AgentCheckpoint, Checkpoints
<1>4. disk' = [disk EXCEPT !.checkpoint = c] /\ run' = [run EXCEPT !.turn = run.turn + 1]
  BY DEF FinalInvalid
<1> HIDE DEF c
<1>5. /\ disk' \in Disks /\ disk'.checkpoint = c /\ disk'.ops = disk.ops
      /\ disk'.payload = disk.payload /\ KeepsRequests(disk, disk') /\ KeepsDecisions(disk, disk')
  BY <1>0, <1>3, <1>4, CheckpointUpdate
<1>6. /\ run' \in AttemptStates /\ run'.pc = run.pc /\ run'.call = run.call
      /\ run'.queue = run.queue /\ run'.resume = run.resume
  BY <1>0, <1>2, <1>4 DEF AttemptStates
<1>7. Placed'
  BY <1>1, <1>6 DEF Placed, TurnPlaces, CallPlaces
<1> QED
  BY <1>0, <1>1, <1>3, <1>5, <1>6, <1>7, WriteStep DEF Held, Resting

(* The completed turn is recorded. *)
LEMMA CompleteTurn_Step ==
  ASSUME AgentInv, CompleteTurn
  PROVE  AgentInv'
<1>0. /\ AgentTypeOK /\ Placed /\ disk \in Disks /\ run \in AttemptStates
      /\ \A i \in Ids : Held(disk.payload[i])
      /\ \A i \in 1 .. Len(run.queue) : Genuine(run.queue[i])
  BY Unpacked
<1>1. /\ run.pc = "settle" /\ run.turn < MaxTurns /\ run.resume = "none" /\ UNCHANGED <<setup, history>>
      /\ crashes' \in 0 .. MaxCrashes /\ faults' \in 0 .. MaxFaults
  BY <1>0, Counters DEF CompleteTurn, At, Calm, Placed, TurnPlaces
<1>2. run.turn + 1 \in 0 .. MaxTurns /\ "turn" \in Places
  BY <1>0, <1>1, Parts, AgentAssumption DEF Places
<1> DEFINE c == AgentCheckpoint(run.turn + 1, run.counts, run.used)
<1>3. c \in Checkpoints /\ c.pending = NoCall /\ c.suspended = NoCall
  BY <1>0, <1>2, Parts, Constants DEF AgentCheckpoint, Checkpoints
<1>4. /\ disk' = [disk EXCEPT !.checkpoint = c]
      /\ run' = [run EXCEPT !.pc = "turn", !.turn = run.turn + 1, !.call = NoCall]
  BY DEF CompleteTurn
<1> HIDE DEF c
<1>5. /\ disk' \in Disks /\ disk'.checkpoint = c /\ disk'.ops = disk.ops
      /\ disk'.payload = disk.payload /\ KeepsRequests(disk, disk') /\ KeepsDecisions(disk, disk')
  BY <1>0, <1>3, <1>4, CheckpointUpdate
<1>6. /\ run' \in AttemptStates /\ run'.pc = "turn" /\ run'.call = NoCall
      /\ run'.queue = run.queue /\ run'.resume = run.resume
  BY <1>0, <1>2, <1>4 DEF AttemptStates
<1>7. Placed'
  BY <1>1, <1>6 DEF Placed, TurnPlaces, CallPlaces
<1> QED
  BY <1>0, <1>1, <1>3, <1>5, <1>6, <1>7, WriteStep DEF Held, Resting

(* What the model may send: tool calls with text of their own. *)
LEMMA CallsTyped ==
  ASSUME AgentTypeOK, NEW call \in Calls
  PROVE  /\ call \in ToolCalls /\ call.body.hashes = 0
         /\ call.body.text \notin {"none", "masked"}
         /\ call.tool = "command" => call.body.text \notin Secrets
<1>1. PICK i \in Ids, o \in Offered : call = [id |-> i, tool |-> o.tool, body |-> Live(o.text)]
  BY DEF Calls
<1>2. o \in setup.offers /\ setup \in Setups
  BY <1>1 DEF Offered, AgentTypeOK
<1>3. /\ o.tool \in Tools /\ o.text \notin {"none", "masked"}
      /\ o.tool = "command" => o.text \notin Secrets
  BY <1>2, AgentAssumption
<1>4. o.text \in Texts
  BY <1>2 DEF Texts
<1>5. Live(o.text) \in Bodies /\ Live(o.text).text = o.text /\ Live(o.text).hashes = 0
  BY <1>4 DEF Live, Bodies
<1> QED
  BY <1>1, <1>3, <1>5 DEF ToolCalls

(* The model sends calls and the turn takes them up. *)
LEMMA SendStep ==
  ASSUME AgentInv, UNCHANGED <<setup, disk, effects, applied, continued>>,
         crashes' \in 0 .. MaxCrashes, faults' \in 0 .. MaxFaults,
         run.pc = "turn", run.turn < MaxTurns,
         NEW calls \in Seq(Calls), calls # <<>>, Issue(calls),
         asked' = asked \cup {calls[i] : i \in 1 .. Len(calls)}
  PROVE  AgentInv'
<1>0. /\ AgentTypeOK /\ Placed /\ CopiesGenuine /\ EffectsPermitted /\ StartedOnce /\ RequestsNamed
      /\ disk \in Disks
  BY Unpacked
<1>1. Calls \subseteq ToolCalls
  BY <1>0, CallsTyped
<1>2. calls \in Seq(ToolCalls) /\ \A i \in 1 .. Len(calls) : calls[i] \in Calls
  BY <1>1
<1>3. /\ run' \in AttemptStates /\ run'.pc = "call" /\ run'.queue = calls
      /\ run'.call = run.call /\ Placed'
  BY <1>0, <1>2, Issued
<1>4. asked' \subseteq ToolCalls /\ asked \subseteq asked'
  BY <1>0, <1>1, <1>2 DEF AgentTypeOK
<1>5. AgentTypeOK'
  BY <1>0, <1>3, <1>4 DEF AgentTypeOK
<1>6. CopiesGenuine'
  <2>1. \A i \in 1 .. Len(run'.queue) : run'.queue[i] \in asked'
    BY <1>3
  <2>2. \A call \in asked' :
          /\ call.body.hashes = 0 /\ call.body.text \notin {"none", "masked"}
          /\ call.tool = "command" => call.body.text \notin Secrets
    BY <1>0, <1>2, CallsTyped DEF CopiesGenuine
  <2>3. \A call : Held(call) => \/ call = NoCall \/ call \in asked'
                                \/ Marked(call) /\ call.tool # "command"
    BY <1>4 DEF Held, Genuine
  <2>4. /\ Held(run'.call) /\ Held(disk'.checkpoint.pending) /\ Held(disk'.checkpoint.suspended)
        /\ \A i \in Ids : Held(disk'.payload[i])
    BY <1>0, <1>3 DEF CopiesGenuine
  <2> QED
    BY <2>1, <2>2, <2>3, <2>4
    DEF CopiesGenuine, Held, Genuine, Marked, args_contain_redaction_marker
<1>7. EffectsPermitted'
  BY <1>0, <1>3, <1>4, EffectsKept
<1>8. StartedOnce'
  BY <1>0, <1>3 DEF StartedOnce
<1>9. RequestsNamed'
  BY <1>0, RequestsKept DEF KeepsRequests
<1> QED
  BY <1>3, <1>5, <1>6, <1>7, <1>8, <1>9 DEF AgentInv

(* The model answers with one call. *)
LEMMA ModelCalls_Step ==
  ASSUME AgentInv, ModelCalls
  PROVE  AgentInv'
<1>0. AgentTypeOK
  BY DEF AgentInv
<1>1. /\ run.pc = "turn" /\ run.turn < MaxTurns
      /\ UNCHANGED <<setup, disk, effects, applied, continued>>
      /\ crashes' \in 0 .. MaxCrashes /\ faults' \in 0 .. MaxFaults
  BY <1>0, Counters DEF ModelCalls, Asking, MayTurn, At, Calm
<1>2. PICK call \in Calls : Issue(<<call>>) /\ asked' = asked \cup {call}
  BY DEF ModelCalls
<1>3. /\ <<call>> \in Seq(Calls) /\ <<call>> # <<>>
      /\ {<<call>>[i] : i \in 1 .. Len(<<call>>)} = {call}
  OBVIOUS
<1> QED
  BY <1>1, <1>2, <1>3, SendStep

(* ... or with two, which fail the turn if one of them has to run alone. *)
LEMMA ModelCallsInParallel_Step ==
  ASSUME AgentInv, ModelCallsInParallel
  PROVE  AgentInv'
<1>0. AgentTypeOK
  BY DEF AgentInv
<1>1. /\ run.pc = "turn" /\ run.turn < MaxTurns
      /\ UNCHANGED <<setup, disk, effects, applied, continued>>
      /\ crashes' \in 0 .. MaxCrashes /\ faults' \in 0 .. MaxFaults
  BY <1>0, Counters DEF ModelCallsInParallel, Asking, MayTurn, At, Calm
<1>2. PICK a \in Calls, b \in Calls :
        \/ Fail("failed") /\ UNCHANGED asked
        \/ Issue(<<a, b>>) /\ asked' = asked \cup {a, b}
  BY DEF ModelCallsInParallel
<1>3. CASE Fail("failed") /\ UNCHANGED asked
  <2>1. Moved("end") /\ UNCHANGED <<setup, disk, history>>
    BY <1>0, <1>1, <1>3, Moves DEF history
  <2> QED
    BY <1>1, <2>1, QuietStep DEF Places, TurnPlaces, CallPlaces, Resting
<1>4. CASE Issue(<<a, b>>) /\ asked' = asked \cup {a, b}
  <2>1. <<a, b>> \in Seq(Calls) /\ <<a, b>> # <<>>
    OBVIOUS
  <2>2. {<<a, b>>[i] : i \in 1 .. Len(<<a, b>>)} = {a, b}
    <3>1. 1 .. Len(<<a, b>>) = {1, 2}
      OBVIOUS
    <3>2. <<a, b>>[1] = a /\ <<a, b>>[2] = b
      OBVIOUS
    <3> QED
      BY <3>1, <3>2
  <2> QED
    BY <1>1, <1>4, <2>1, <2>2, SendStep
<1> QED
  BY <1>2, <1>3, <1>4

(* The next call of the turn is charged, or the turn fails. *)
LEMMA CheckCall_Step ==
  ASSUME AgentInv, CheckCall
  PROVE  AgentInv'
<1>0. /\ AgentTypeOK /\ Placed /\ disk \in Disks /\ run \in AttemptStates
      /\ Held(disk.checkpoint.pending) /\ Held(disk.checkpoint.suspended)
      /\ \A i \in Ids : Held(disk.payload[i])
      /\ \A i \in 1 .. Len(run.queue) : Genuine(run.queue[i])
  BY Unpacked
<1>1. /\ run.pc = "call" /\ run.queue # <<>> /\ run.turn < MaxTurns /\ run.resume = "none"
      /\ UNCHANGED <<setup, disk, history>>
      /\ crashes' \in 0 .. MaxCrashes /\ faults' \in 0 .. MaxFaults
  BY <1>0, Counters DEF CheckCall, At, Calm, Placed, TurnPlaces
<1> DEFINE call   == Head(run.queue)
           rest   == Tail(run.queue)
           counts == charge_agent_tool_call(call)
           used   == [run.used EXCEPT ![call.id] = Redacted(call).body]
<1>2. \/ Fail("failed")
      \/ \E pc \in {"payload", "execute"} :
           run' = [run EXCEPT !.pc = pc, !.counts = counts,
                              !.used[call.id] = Redacted(call).body,
                              !.queue = Tail(@), !.call = call]
  BY DEF CheckCall
<1>3. CASE Fail("failed")
  <2>1. Moved("end")
    BY <1>0, <1>3, Moves
  <2> QED
    BY <1>1, <2>1, QuietStep DEF Places, TurnPlaces, CallPlaces, Resting
<1>4. ASSUME NEW pc \in {"payload", "execute"},
             run' = [run EXCEPT !.pc = pc, !.counts = counts,
                                !.used[call.id] = Redacted(call).body,
                                !.queue = Tail(@), !.call = call]
      PROVE  AgentInv'
  <2>1. run.queue \in Seq(ToolCalls)
    BY <1>0, Parts
  <2>2. /\ call \in ToolCalls /\ call = run.queue[1] /\ rest \in Seq(ToolCalls)
        /\ Len(run.queue) > 0 /\ Len(rest) = Len(run.queue) - 1
        /\ \A i \in 1 .. Len(rest) : rest[i] = run.queue[i + 1]
    BY <1>1, <2>1
  <2>3. Genuine(call) /\ \A i \in 1 .. Len(rest) : Genuine(rest[i])
    <3>1. Len(run.queue) \in Nat
      BY <2>1
    <3>2. 1 \in 1 .. Len(run.queue)
      BY <2>2, <3>1
    <3>3. \A i \in 1 .. Len(rest) : i + 1 \in 1 .. Len(run.queue)
      BY <2>2, <3>1
    <3> QED
      BY <1>0, <2>2, <3>2, <3>3
  <2>4. counts \in [Tools -> Nat]
    <3>1. run.counts \in [Tools -> Nat] /\ call.tool \in Tools
      BY <1>0, <2>2, Parts DEF ToolCalls
    <3> QED
      BY <3>1 DEF charge_agent_tool_call
  <2>5. used \in [Ids -> Bodies]
    <3>1. run.used \in [Ids -> Bodies] /\ Redacted(call).body \in Bodies
      BY <1>0, <2>2, Parts, RedactedCall DEF ToolCalls
    <3> QED
      BY <3>1
  <2>6. run' = [run EXCEPT !.pc = pc, !.counts = counts, !.used = used, !.queue = rest,
                           !.call = call]
    BY <1>4
  <2>7. pc \in Places
    BY DEF Places, TurnPlaces, CallPlaces
  <2> HIDE DEF call, rest, counts, used
  <2>8. /\ run' \in AttemptStates /\ run'.pc = pc /\ run'.call = call /\ run'.queue = rest
        /\ run'.turn = run.turn /\ run'.resume = run.resume
    BY <1>0, <2>2, <2>4, <2>5, <2>6, <2>7 DEF AttemptStates
  <2>9. Placed'
    BY <1>1, <2>2, <2>8, Constants DEF Placed
  <2>10. /\ Held(run'.call) /\ \A i \in 1 .. Len(run'.queue) : Genuine(run'.queue[i])
    BY <2>3, <2>8 DEF Held
  <2> QED
    BY <1>0, <1>1, <2>8, <2>9, <2>10, WriteStep DEF KeepsRequests, KeepsDecisions, Resting
<1> QED
  BY <1>2, <1>3, <1>4

(* The payload file is written before the journal. *)
LEMMA StorePayload_Step ==
  ASSUME AgentInv, StorePayload
  PROVE  AgentInv'
<1>0. /\ AgentTypeOK /\ Placed /\ disk \in Disks /\ run \in AttemptStates /\ Held(run.call)
      /\ Held(disk.checkpoint.pending) /\ Held(disk.checkpoint.suspended)
      /\ \A i \in Ids : Held(disk.payload[i])
      /\ \A i \in 1 .. Len(run.queue) : Genuine(run.queue[i])
      /\ run.pc \in CallPlaces => run.call \in ToolCalls
  BY Unpacked
<1>1. /\ run.pc = "payload" /\ run.call \in ToolCalls /\ UNCHANGED <<setup, history>>
      /\ crashes' \in 0 .. MaxCrashes /\ faults' \in 0 .. MaxFaults
  BY <1>0, Counters DEF StorePayload, At, Calm, CallPlaces
<1>2. Moved("marker")
  BY <1>0, Moves DEF StorePayload, Places, TurnPlaces, CallPlaces
<1>3. disk' = store_pending_tool_payload(disk, run.call)
  BY DEF StorePayload
<1>4. /\ disk' \in Disks /\ disk'.checkpoint = disk.checkpoint /\ disk'.ops = disk.ops
      /\ KeepsRequests(disk, disk') /\ KeepsDecisions(disk, disk')
      /\ \A i \in Ids : disk'.payload[i] \in {disk.payload[i], run.call, NoCall}
  <2>1. run.call.id \in Ids
    BY <1>1 DEF ToolCalls
  <2> QED
    BY <1>0, <1>1, <1>3, <2>1, PayloadUpdates
<1>5. \A i \in Ids : Held(disk'.payload[i])
  BY <1>0, <1>4 DEF Held
<1>6. Placed'
  BY <1>0, <1>1, <1>2 DEF Placed, Moved, TurnPlaces, CallPlaces
<1> QED
  BY <1>0, <1>1, <1>2, <1>4, <1>5, <1>6, WriteStep DEF Moved, Resting

(* The settled operation's payload file is removed. *)
LEMMA ClearPayload_Step ==
  ASSUME AgentInv, ClearPayload
  PROVE  AgentInv'
<1>0. /\ AgentTypeOK /\ Placed /\ disk \in Disks /\ run \in AttemptStates /\ Held(run.call)
      /\ Held(disk.checkpoint.pending) /\ Held(disk.checkpoint.suspended)
      /\ \A i \in Ids : Held(disk.payload[i])
      /\ \A i \in 1 .. Len(run.queue) : Genuine(run.queue[i])
      /\ run.pc \in CallPlaces => run.call \in ToolCalls
  BY Unpacked
<1>1. /\ run.pc = "clear" /\ run.call \in ToolCalls /\ UNCHANGED <<setup, history>>
      /\ crashes' \in 0 .. MaxCrashes /\ faults' \in 0 .. MaxFaults
  BY <1>0, Counters DEF ClearPayload, At, Calm, CallPlaces
<1>2. \/ Moved("end") \/ Moved("output") \/ Moved("settle")
      \/ run.queue # <<>> /\ Moved("call")
  BY <1>0, Moves DEF ClearPayload, AfterCall, Places, TurnPlaces, CallPlaces
<1>3. disk' = clear_pending_tool_payload(disk, run.call)
  BY DEF ClearPayload
<1>4. /\ disk' \in Disks /\ disk'.checkpoint = disk.checkpoint /\ disk'.ops = disk.ops
      /\ KeepsRequests(disk, disk') /\ KeepsDecisions(disk, disk')
      /\ \A i \in Ids : disk'.payload[i] \in {disk.payload[i], run.call, NoCall}
  <2>1. run.call.id \in Ids
    BY <1>1 DEF ToolCalls
  <2> QED
    BY <1>0, <1>1, <1>3, <2>1, PayloadUpdates
<1>5. \A i \in Ids : Held(disk'.payload[i])
  BY <1>0, <1>4 DEF Held
<1>6. Placed'
  BY <1>0, <1>1, <1>2 DEF Placed, Moved, TurnPlaces, CallPlaces
<1> QED
  BY <1>0, <1>1, <1>2, <1>4, <1>5, <1>6, WriteStep DEF Moved, Resting

(* The journal learns of the call that is about to start. *)
LEMMA MarkSideEffect_Step ==
  ASSUME AgentInv, MarkSideEffect
  PROVE  AgentInv'
<1>0. /\ AgentTypeOK /\ Placed /\ CopiesGenuine /\ asked \subseteq ToolCalls
      /\ disk \in Disks /\ run \in AttemptStates /\ Held(run.call)
      /\ \A i \in Ids : Held(disk.payload[i])
      /\ \A i \in 1 .. Len(run.queue) : Genuine(run.queue[i])
      /\ run.pc \in CallPlaces => run.call \in ToolCalls /\ Genuine(run.call)
  BY Unpacked
<1>1. /\ run.pc = "marker" /\ run.call \in ToolCalls /\ Genuine(run.call)
      /\ UNCHANGED <<setup, history>>
      /\ crashes' \in 0 .. MaxCrashes /\ faults' \in 0 .. MaxFaults
  BY <1>0, Counters DEF MarkSideEffect, At, Calm, CallPlaces
<1>2. Moved("execute")
  BY <1>0, Moves DEF MarkSideEffect, Places, TurnPlaces, CallPlaces
<1> DEFINE b    == AgentCheckpoint(run.turn, run.counts, run.used)
           call == Redacted(run.call)
           c    == [b EXCEPT !.pending = call]
<1>3. call \in ToolCalls /\ Genuine(call)
  BY <1>0, <1>1, RedactedGenuine
<1>4. b \in Checkpoints /\ b.pending = NoCall /\ b.suspended = NoCall
  BY <1>0, Parts, CheckpointTypes
<1>5. disk' = [disk EXCEPT !.checkpoint = c]
  BY DEF MarkSideEffect
<1> HIDE DEF b, call
<1>9. c \in Checkpoints /\ c.pending = call /\ c.suspended = NoCall
  BY <1>3, <1>4 DEF Checkpoints
<1> HIDE DEF c
<1>6. /\ disk' \in Disks /\ disk'.checkpoint = c /\ disk'.ops = disk.ops
      /\ disk'.payload = disk.payload /\ KeepsRequests(disk, disk') /\ KeepsDecisions(disk, disk')
  BY <1>0, <1>9, <1>5, CheckpointUpdate
<1>7. Held(disk'.checkpoint.pending) /\ Held(disk'.checkpoint.suspended)
  BY <1>3, <1>9, <1>6 DEF Held
<1>8. Placed'
  BY <1>0, <1>1, <1>2 DEF Placed, Moved, TurnPlaces, CallPlaces
<1> QED
  BY <1>0, <1>1, <1>2, <1>6, <1>7, <1>8, WriteStep DEF Moved, Resting

(* The call waits in the journal, in its redacted form. *)
LEMMA SuspendCall_Step ==
  ASSUME AgentInv, SuspendCall
  PROVE  AgentInv'
<1>0. /\ AgentTypeOK /\ Placed /\ CopiesGenuine /\ asked \subseteq ToolCalls
      /\ disk \in Disks /\ run \in AttemptStates /\ Held(run.call)
      /\ \A i \in Ids : Held(disk.payload[i])
      /\ \A i \in 1 .. Len(run.queue) : Genuine(run.queue[i])
      /\ run.pc \in CallPlaces => run.call \in ToolCalls /\ Genuine(run.call)
  BY Unpacked
<1>1. /\ run.pc = "suspend" /\ run.call \in ToolCalls /\ Genuine(run.call)
      /\ UNCHANGED <<setup, history>>
      /\ crashes' \in 0 .. MaxCrashes /\ faults' \in 0 .. MaxFaults
  BY <1>0, Counters DEF SuspendCall, At, Calm, CallPlaces
<1>2. Moved("report")
  BY <1>0, Moves DEF SuspendCall, Places
<1> DEFINE b == AgentCheckpoint(run.turn, run.start, run.used)
           call == Redacted(run.call)
<1>3. call \in ToolCalls /\ Genuine(call)
  BY <1>0, <1>1, RedactedGenuine
<1>4. PICK c : /\ disk' = [disk EXCEPT !.checkpoint = c]
               /\ \/ c = [b EXCEPT !.pending = call, !.confirm = run.ask]
                  \/ c = [b EXCEPT !.suspended = call, !.question = run.ask]
  BY DEF SuspendCall
<1>5. c \in Checkpoints /\ Held(c.pending) /\ Held(c.suspended)
  <2>1. b \in Checkpoints /\ b.pending = NoCall /\ b.suspended = NoCall
    BY <1>0, Parts, CheckpointTypes
  <2>2. run.ask \in Prompts
    BY <1>0, Parts
  <2> HIDE DEF b, call
  <2>3. CASE c = [b EXCEPT !.pending = call, !.confirm = run.ask]
    BY <1>3, <2>1, <2>2, <2>3 DEF Held, Checkpoints
  <2>4. CASE c = [b EXCEPT !.suspended = call, !.question = run.ask]
    BY <1>3, <2>1, <2>2, <2>4 DEF Held, Checkpoints
  <2> QED
    BY <1>4, <2>3, <2>4
<1>6. /\ disk' \in Disks /\ disk'.checkpoint = c /\ disk'.ops = disk.ops
      /\ disk'.payload = disk.payload /\ KeepsRequests(disk, disk') /\ KeepsDecisions(disk, disk')
  BY <1>0, <1>4, <1>5, CheckpointUpdate
<1>8. Placed'
  BY <1>0, <1>1, <1>2 DEF Placed, Moved, TurnPlaces, CallPlaces
<1> QED
  BY <1>0, <1>1, <1>2, <1>5, <1>6, <1>8, WriteStep DEF Moved, Resting

-----------------------------------------------------------------------------
(* Steps at and after an effect *)

(* A step of a call that touches no copy of it. *)
LEMMA CallStep ==
  ASSUME AgentInv, setup' = setup, asked' = asked,
         crashes' \in 0 .. MaxCrashes, faults' \in 0 .. MaxFaults,
         run.pc \in CallPlaces, NEW pc \in CallPlaces \cup {"end"}, Moved(pc),
         disk' \in Disks, KeepsCopies(disk, disk'),
         effects' \in [Ids -> Nat], applied' \subseteq ToolCalls, continued' \in Seq(Prompts)
  PROVE  AgentTypeOK' /\ Placed' /\ CopiesGenuine'
<1>0. /\ AgentTypeOK /\ Placed /\ CopiesGenuine
      /\ Held(run.call) /\ Held(disk.checkpoint.pending) /\ Held(disk.checkpoint.suspended)
      /\ \A i \in Ids : Held(disk.payload[i])
      /\ \A i \in 1 .. Len(run.queue) : Genuine(run.queue[i])
      /\ run.turn < MaxTurns /\ run.resume = "none"
  BY Unpacked DEF TurnPlaces
<1>1. /\ run' \in AttemptStates /\ run'.pc = pc /\ run'.turn = run.turn
      /\ run'.call = run.call /\ run'.queue = run.queue /\ run'.resume = run.resume
  BY DEF Moved
<1>2. AgentTypeOK'
  BY <1>0, <1>1 DEF AgentTypeOK
<1>3. Placed'
  BY <1>0, <1>1 DEF Placed, TurnPlaces, CallPlaces
<1>4. CopiesGenuine'
  BY <1>0, <1>1, CopiesKept DEF KeepsCopies
<1> QED
  BY <1>2, <1>3, <1>4

(* The operation of the call is settled, not as clean. *)
LEMMA SettleStep ==
  ASSUME AgentInv, UNCHANGED <<setup, history>>,
         crashes' \in 0 .. MaxCrashes, faults' \in 0 .. MaxFaults,
         run.pc \in CallPlaces, run.pc # "suspend",
         NEW status \in Ends, status # "clean",
         disk' = operation_finished(disk, run.call, status),
         NEW pc \in {"clear", "end"}, Moved(pc)
  PROVE  AgentInv'
<1>0. /\ AgentTypeOK /\ Placed /\ disk \in Disks /\ run \in AttemptStates /\ Held(run.call)
      /\ Held(disk.checkpoint.pending) /\ Held(disk.checkpoint.suspended)
      /\ \A i \in Ids : Held(disk.payload[i])
      /\ \A i \in 1 .. Len(run.queue) : Genuine(run.queue[i])
      /\ run.call \in ToolCalls /\ run.turn < MaxTurns /\ run.resume = "none"
  BY Unpacked DEF TurnPlaces
<1>1. /\ disk' \in Disks /\ disk'.ops[run.call.id].status = status
      /\ \A i \in Ids : i # run.call.id => disk'.ops[i] = disk.ops[i]
      /\ KeepsRequests(disk, disk') /\ KeepsDecisions(disk, disk') /\ KeepsCopies(disk, disk')
  BY <1>0, OperationFinished
<1>2. Placed'
  BY <1>0 DEF Placed, Moved, TurnPlaces, CallPlaces
<1>3. \A i \in Ids : disk'.ops[i] = disk.ops[i] \/ disk'.ops[i].status \notin {"none", "clean"}
  BY <1>1 DEF Ends
<1>4. run.pc \notin Resting /\ run'.pc \notin {"continue", "guard", "effect", "remote"}
  BY DEF Resting, CallPlaces, Moved
<1> QED
  BY <1>0, <1>1, <1>2, <1>3, <1>4, WriteStep DEF Moved, KeepsCopies

(* The call about to take effect may have taken it. *)
LEMMA EffectStep ==
  ASSUME AgentInv, setup' = setup,
         crashes' \in 0 .. MaxCrashes, faults' \in 0 .. MaxFaults,
         run.pc \in {"effect", "remote"}, MaybeEffect(run.call),
         NEW pc \in {"finish", "output", "clear", "end", "consume"}, Moved(pc),
         \/ disk' = disk
         \/ disk' = operation_finished(disk, run.call, "unknown")
         \/ disk' = operation_finished(disk, run.call, "clean") /\ UNCHANGED history
  PROVE  AgentInv'
<1>0. /\ AgentTypeOK /\ Placed /\ CopiesGenuine /\ EffectsPermitted /\ StartedOnce /\ RequestsNamed
      /\ disk \in Disks /\ asked \subseteq ToolCalls
      /\ run.call \in ToolCalls /\ Genuine(run.call)
      /\ run.pc \in CallPlaces /\ pc \in CallPlaces \cup {"end"}
  BY Unpacked DEF CallPlaces
<1>1. run.call \in asked /\ Permitted(run.call) /\ run.call.id \in Ids
  BY <1>0 DEF EffectsPermitted, Genuine, ToolCalls
<1>2. /\ disk' \in Disks
      /\ KeepsRequests(disk, disk') /\ KeepsDecisions(disk, disk') /\ KeepsCopies(disk, disk')
      /\ \A i \in Ids : i # run.call.id => disk'.ops[i] = disk.ops[i]
      /\ \/ disk'.ops[run.call.id] = disk.ops[run.call.id]
         \/ disk'.ops[run.call.id].status = "unknown"
         \/ UNCHANGED history
  <2>0. "unknown" \in Ends /\ "clean" \in Ends
    BY DEF Ends
  <2>1. CASE disk' = disk
    BY <1>0, <2>1 DEF KeepsRequests, KeepsDecisions, KeepsCopies
  <2>2. CASE disk' = operation_finished(disk, run.call, "unknown")
    BY <1>0, <2>0, <2>2, OperationFinished
  <2>3. CASE disk' = operation_finished(disk, run.call, "clean") /\ UNCHANGED history
    BY <1>0, <2>0, <2>3, OperationFinished
  <2> QED
    BY <2>1, <2>2, <2>3
<1>3. /\ asked' = asked /\ continued' = continued
      /\ applied' \in {applied, applied \cup {run.call}}
      /\ effects' \in {effects, [effects EXCEPT ![run.call.id] = @ + 1]}
  BY DEF MaybeEffect, Effect, history
<1>4. effects \in [Ids -> Nat] /\ applied \subseteq ToolCalls /\ continued \in Seq(Prompts)
  BY <1>0 DEF AgentTypeOK
<1>5. /\ effects' \in [Ids -> Nat] /\ applied' \subseteq ToolCalls /\ continued' \in Seq(Prompts)
      /\ \A i \in Ids : i # run.call.id => effects'[i] = effects[i]
      /\ effects'[run.call.id] \in {effects[run.call.id], effects[run.call.id] + 1}
  BY <1>0, <1>1, <1>3, <1>4
<1>6. AgentTypeOK' /\ Placed' /\ CopiesGenuine'
  BY <1>0, <1>2, <1>3, <1>5, CallStep
<1>7. EffectsPermitted'
  <2>1. \A call \in applied' : call \in asked' /\ Permitted(call)
    BY <1>0, <1>1, <1>3 DEF EffectsPermitted
  <2>2. \A call \in applied' : call \in asked' /\ Permitted(call)'
    BY <1>2, <2>1, PermittedCalls DEF KeepsDecisions
  <2>3. run'.pc \notin {"continue", "guard", "effect", "remote"}
    BY DEF Moved
  <2> QED
    BY <2>2, <2>3 DEF EffectsPermitted
<1>8. StartedOnce'
  <2> SUFFICES ASSUME ~setup.repeat PROVE StartedOnce'
    BY DEF StartedOnce
  <2>1. /\ effects[run.call.id] = 0 /\ disk.ops[run.call.id].status = "started"
        /\ disk.mcp_pending = {} /\ disk'.mcp_pending = {}
    BY <1>0, <1>2 DEF StartedOnce, KeepsRequests
  <2>2. \/ effects'[run.call.id] = 0
        \/ effects'[run.call.id] = 1 /\ disk'.ops[run.call.id].status \in {"started", "unknown"}
    BY <1>2, <1>5, <2>1 DEF history
  <2>3. \A i \in Ids : /\ effects'[i] <= 1
                       /\ effects'[i] = 1 => disk'.ops[i].status \notin {"none", "clean"}
    BY <1>0, <1>2, <1>5, <2>2 DEF StartedOnce
  <2> QED
    BY <2>1, <2>3 DEF StartedOnce, Moved
<1>9. RequestsNamed'
  BY <1>0, <1>2, <1>3, RequestsKept DEF KeepsDecisions
<1> QED
  BY <1>6, <1>7, <1>8, <1>9 DEF AgentInv

(* A redacted copy is refused by the tool. *)
LEMMA RefusePlaceholder_Step ==
  ASSUME AgentInv, RefusePlaceholder
  PROVE  AgentInv'
<1>0. AgentTypeOK
  BY DEF AgentInv
<1>1. /\ run.pc = "placeholder" /\ disk' = operation_finished(disk, run.call, "unknown")
      /\ FailTool("refused") /\ UNCHANGED <<setup, history>>
      /\ crashes' \in 0 .. MaxCrashes /\ faults' \in 0 .. MaxFaults
  BY <1>0, Counters DEF RefusePlaceholder, At, Calm
<1>2. Moved("clear") \/ Moved("end")
  BY <1>0, <1>1, Moves
<1>3. run.pc \in CallPlaces /\ run.pc # "suspend"
  BY <1>1 DEF CallPlaces
<1> QED
  BY <1>1, <1>2, <1>3, SettleStep DEF Ends

(* The gateway carries the operation out. *)
LEMMA EffectApplied_Step ==
  ASSUME AgentInv, EffectApplied
  PROVE  AgentInv'
<1>0. AgentTypeOK /\ run \in AttemptStates
  BY DEF AgentInv, AgentTypeOK
<1>1. /\ run.pc = "effect" /\ MaybeEffect(run.call) /\ disk' = disk /\ setup' = setup
      /\ crashes' \in 0 .. MaxCrashes /\ faults' \in 0 .. MaxFaults
  BY <1>0, Counters DEF EffectApplied, At, Calm, MaybeEffect
<1>2. "finish" \in Places /\ "output" \in Places
  BY DEF Places, TurnPlaces, CallPlaces
<1>3. Moved("finish") \/ Moved("output")
  <2>1. GoTo("finish") \/ run' = [run EXCEPT !.pc = "output", !.op = TRUE]
    BY DEF EffectApplied
  <2>2. CASE run' = [run EXCEPT !.pc = "output", !.op = TRUE]
    BY <1>0, <1>2, <2>2 DEF AttemptStates, Moved
  <2> QED
    BY <1>0, <1>2, <2>1, <2>2, Moves
<1> QED
  BY <1>1, <1>3, EffectStep

(* The gateway fails, with or without an effect. *)
LEMMA EffectFails_Step ==
  ASSUME AgentInv, EffectFails
  PROVE  AgentInv'
<1>0. AgentTypeOK
  BY DEF AgentInv
<1>1. /\ run.pc = "effect" /\ MaybeEffect(run.call) /\ setup' = setup /\ FailTool("failed")
      /\ \/ disk' = operation_finished(disk, run.call, "unknown")
         \/ disk' = operation_finished(disk, run.call, "clean") /\ UNCHANGED history
      /\ crashes' \in 0 .. MaxCrashes /\ faults' \in 0 .. MaxFaults
  BY <1>0, Counters DEF EffectFails, At, MaybeEffect
<1>2. Moved("clear") \/ Moved("end")
  BY <1>0, <1>1, Moves
<1> QED
  BY <1>1, <1>2, EffectStep

(* A patch that no longer applies. *)
LEMMA PatchRejected_Step ==
  ASSUME AgentInv, PatchRejected
  PROVE  AgentInv'
<1>0. AgentTypeOK
  BY DEF AgentInv
<1>1. /\ run.pc = "effect" /\ disk' = operation_finished(disk, run.call, "unknown")
      /\ GoTo("clear") /\ UNCHANGED <<setup, history>>
      /\ crashes' \in 0 .. MaxCrashes /\ faults' \in 0 .. MaxFaults
  BY <1>0, Counters DEF PatchRejected, At
<1>2. Moved("clear")
  BY <1>0, <1>1, Moves DEF Places, TurnPlaces, CallPlaces
<1>3. run.pc \in CallPlaces /\ run.pc # "suspend"
  BY <1>1 DEF CallPlaces
<1> QED
  BY <1>1, <1>2, <1>3, SettleStep DEF Ends

(* A timeout or the cancellation cuts a wait. *)
LEMMA Interrupted_Step ==
  ASSUME AgentInv, Interrupted
  PROVE  AgentInv'
<1>0. AgentTypeOK /\ Placed
  BY DEF AgentInv
<1>1. /\ run.pc \in {"turn", "effect", "remote"} /\ UNCHANGED <<setup, disk>>
      /\ crashes' \in 0 .. MaxCrashes /\ faults' \in 0 .. MaxFaults
  BY <1>0, Counters DEF Interrupted
<1>2. PICK class \in {"failed", "canceled"} : FailTool(class)
  BY DEF Interrupted
<1>3. \/ run.call.tool = "patch" /\ Moved("clear")
      \/ Moved("end")
  BY <1>0, <1>2, Moves
<1>4. CASE run.pc = "turn"
  <2>1. Moved("end") /\ UNCHANGED history
    BY <1>0, <1>3, <1>4, Constants DEF Placed, Interrupted
  <2> QED
    BY <1>1, <1>4, <2>1, QuietStep DEF Places, TurnPlaces, CallPlaces, Resting
<1>5. CASE run.pc # "turn"
  <2>1. MaybeEffect(run.call)
    BY <1>5 DEF Interrupted
  <2> QED
    BY <1>1, <1>3, <1>5, <2>1, EffectStep
<1> QED
  BY <1>4, <1>5

(* The remote side answers. *)
LEMMA RemoteCompletes_Step ==
  ASSUME AgentInv, RemoteCompletes
  PROVE  AgentInv'
<1>0. AgentTypeOK
  BY DEF AgentInv
<1>1. /\ run.pc = "remote" /\ MaybeEffect(run.call) /\ disk' = disk /\ setup' = setup
      /\ GoTo("consume") /\ crashes' \in 0 .. MaxCrashes /\ faults' \in 0 .. MaxFaults
  BY <1>0, Counters DEF RemoteCompletes, At, Calm, MaybeEffect
<1>2. Moved("consume")
  BY <1>0, <1>1, Moves DEF Places, TurnPlaces, CallPlaces
<1> QED
  BY <1>1, <1>2, EffectStep

(* The transport fails. *)
LEMMA RemoteLost_Step ==
  ASSUME AgentInv, RemoteLost
  PROVE  AgentInv'
<1>0. AgentTypeOK
  BY DEF AgentInv
<1>1. /\ run.pc = "remote" /\ MaybeEffect(run.call) /\ setup' = setup /\ Fail("failed")
      /\ disk' = operation_finished(disk, run.call, "unknown")
      /\ crashes' \in 0 .. MaxCrashes /\ faults' \in 0 .. MaxFaults
  BY <1>0, Counters DEF RemoteLost, At
<1>2. Moved("end")
  BY <1>0, <1>1, Moves
<1> QED
  BY <1>1, <1>2, EffectStep

(* The output is refused after the effect. *)
LEMMA finish_rejected_external_operation_Step ==
  ASSUME AgentInv, finish_rejected_external_operation
  PROVE  AgentInv'
<1>0. AgentTypeOK /\ run \in AttemptStates
  BY DEF AgentInv, AgentTypeOK
<1>1. /\ run.pc = "output" /\ UNCHANGED <<setup, history>>
      /\ crashes' \in 0 .. MaxCrashes /\ faults' \in 0 .. MaxFaults
  BY <1>0, Counters DEF finish_rejected_external_operation, At
<1>2. PICK class \in {"failed", "canceled"} :
        run' = [run EXCEPT !.pc = IF run.op THEN "clear" ELSE "end", !.error = class, !.op = FALSE]
  BY DEF finish_rejected_external_operation
<1>3. "clear" \in Places /\ "end" \in Places /\ run.pc \in CallPlaces /\ run.pc # "suspend"
  BY <1>1 DEF Places, TurnPlaces, CallPlaces
<1>4. CASE run.op
  <2>1. run' = [run EXCEPT !.pc = "clear", !.error = class, !.op = FALSE]
    BY <1>2, <1>4
  <2>2. Moved("clear")
    BY <1>0, <1>3, <2>1 DEF AttemptStates, Moved
  <2>3. disk' = operation_finished(disk, run.call, "empty")
    BY <1>4 DEF finish_rejected_external_operation
  <2> QED
    BY <1>1, <1>3, <2>2, <2>3, SettleStep DEF Ends
<1>5. CASE ~run.op
  <2>1. run' = [run EXCEPT !.pc = "end", !.error = class, !.op = FALSE]
    BY <1>2, <1>5
  <2>2. Moved("end")
    BY <1>0, <1>3, <2>1 DEF AttemptStates, Moved
  <2>3. disk' = disk
    BY <1>5 DEF finish_rejected_external_operation
  <2> QED
    BY <1>1, <2>2, <2>3, QuietStep DEF Places, TurnPlaces, CallPlaces, Resting
<1> QED
  BY <1>4, <1>5

(* The operation is settled as a success. *)
LEMMA FinishOperation_Step ==
  ASSUME AgentInv, FinishOperation
  PROVE  AgentInv'
<1>0. AgentTypeOK /\ run \in AttemptStates
  BY DEF AgentInv, AgentTypeOK
<1>1. /\ run.pc = "finish" /\ disk' = operation_finished(disk, run.call, "success")
      /\ run' = [run EXCEPT !.pc = "clear", !.op = FALSE] /\ UNCHANGED <<setup, history>>
      /\ crashes' \in 0 .. MaxCrashes /\ faults' \in 0 .. MaxFaults
  BY <1>0, Counters DEF FinishOperation, At, Calm
<1>2. "clear" \in Places /\ run.pc \in CallPlaces /\ run.pc # "suspend"
  BY <1>1 DEF Places, TurnPlaces, CallPlaces
<1>3. Moved("clear")
  BY <1>0, <1>1, <1>2 DEF AttemptStates, Moved
<1> QED
  BY <1>1, <1>2, <1>3, SettleStep DEF Ends

-----------------------------------------------------------------------------
(* Steps towards an effect *)

(* A step that records nothing and comes to the continuation or the guard. *)
LEMMA ApproachStep ==
  ASSUME AgentInv, UNCHANGED <<setup, disk, history>>,
         crashes' \in 0 .. MaxCrashes, faults' \in 0 .. MaxFaults,
         run.pc = "execute", NEW pc \in {"continue", "guard"}, Moved(pc),
         pc = "continue" => Permitted(run.call) /\ run.call.tool \in {"mcp", "query"},
         pc = "guard" => \/ Marked(run.call) /\ run.call.tool \in {"write", "patch", "http"}
                         \/ Permitted(run.call) /\ ~Marked(run.call)
  PROVE  AgentInv'
<1>0. /\ AgentTypeOK /\ Placed /\ CopiesGenuine /\ EffectsPermitted /\ StartedOnce /\ RequestsNamed
      /\ disk \in Disks /\ UNCHANGED <<setup, disk, effects, applied, asked, continued>>
  BY Unpacked DEF history
<1>1. /\ KeepsCopies(disk, disk') /\ KeepsRequests(disk, disk') /\ KeepsDecisions(disk, disk')
      /\ run.pc \in CallPlaces /\ pc \in CallPlaces \cup {"end"} /\ run.pc \notin Resting
  BY <1>0 DEF KeepsCopies, KeepsRequests, KeepsDecisions, CallPlaces, Resting
<1>2. AgentTypeOK' /\ Placed' /\ CopiesGenuine'
  BY <1>0, <1>1, CallStep DEF AgentTypeOK
<1>3. run'.pc = pc /\ run'.call = run.call
  BY DEF Moved
<1>4. EffectsPermitted'
  <2>1. \A call \in applied' : call \in asked' /\ Permitted(call)'
    BY <1>0, PermittedCalls DEF EffectsPermitted
  <2>2. Permitted(run.call) => Permitted(run.call)'
    BY <1>0, <1>3, PermittedCalls
  <2> QED
    BY <1>3, <2>1, <2>2 DEF EffectsPermitted, Marked, args_contain_redaction_marker
<1>5. StartedOnce'
  BY <1>0, <1>1, <1>3, OnceKept DEF StartedOnce, Resting
<1>6. RequestsNamed'
  BY <1>0, <1>1, RequestsKept
<1> QED
  BY <1>2, <1>4, <1>5, <1>6 DEF AgentInv

(* A redacted copy goes to the guard without an approval. *)
LEMMA ExecuteRedacted_Step ==
  ASSUME AgentInv, ExecuteRedacted
  PROVE  AgentInv'
<1>0. AgentTypeOK
  BY DEF AgentInv
<1>1. /\ run.pc = "execute" /\ run.call.tool \in {"write", "patch", "http"} /\ Marked(run.call)
      /\ UNCHANGED <<setup, disk, history>>
      /\ crashes' \in 0 .. MaxCrashes /\ faults' \in 0 .. MaxFaults
  BY <1>0, Counters DEF ExecuteRedacted, At, Calm, Marked
<1>2. Moved("output") \/ Moved("guard")
  BY <1>0, Moves DEF ExecuteRedacted, Places, TurnPlaces, CallPlaces
<1>3. CASE Moved("output")
  BY <1>1, <1>3, QuietStep DEF Places, TurnPlaces, CallPlaces, Resting
<1>4. CASE Moved("guard")
  BY <1>1, <1>4, ApproachStep
<1> QED
  BY <1>2, <1>3, <1>4

(* Every other effect asks the policy first.  A command shows no           *)
(* placeholders, and those of a remote call are met at the continuation.   *)
LEMMA ExecuteEffectful_Step ==
  ASSUME AgentInv, ExecuteEffectful
  PROVE  AgentInv'
<1>0. /\ AgentTypeOK /\ CopiesGenuine
      /\ run.pc \in CallPlaces => run.call \in ToolCalls /\ Genuine(run.call)
  BY Unpacked
<1>1. /\ run.pc = "execute"
      /\ run.call.tool \in {"write", "patch", "command", "http", "mcp", "query"}
      /\ run.call.tool \in {"write", "patch", "http"} => ~Marked(run.call)
      /\ UNCHANGED <<setup, disk, history>>
      /\ crashes' \in 0 .. MaxCrashes /\ faults' \in 0 .. MaxFaults
  BY <1>0, Counters DEF ExecuteEffectful, At, Calm, Marked
<1>2. run.call \in ToolCalls /\ Genuine(run.call)
  BY <1>0, <1>1 DEF CallPlaces
<1> DEFINE verdict == IF run.call.tool = "query" THEN "allowed" ELSE require_side_effect(disk, run.call)
<1>3. verdict \in {"allowed", "denied", "confirm"}
  BY DEF require_side_effect
<1>4. CASE verdict = "allowed"
  <2>1. Permitted(run.call)
    BY <1>4 DEF Permitted
  <2>2. CASE run.call.tool \in {"mcp", "query"}
    <3>1. GoTo("continue")
      BY <1>4, <2>2 DEF ExecuteEffectful
    <3>2. Moved("continue")
      BY <1>0, <3>1, Moves DEF Places, TurnPlaces, CallPlaces
    <3> QED
      BY <1>1, <2>1, <2>2, <3>2, ApproachStep
  <2>3. CASE run.call.tool \notin {"mcp", "query"}
    <3>1. GoTo("guard")
      BY <1>4, <2>3 DEF ExecuteEffectful
    <3>2. Moved("guard")
      BY <1>0, <3>1, Moves DEF Places, TurnPlaces, CallPlaces
    <3>3. ~Marked(run.call)
      BY <1>0, <1>1, <1>2, <2>3, SentUnmarked DEF Genuine
    <3> QED
      BY <1>1, <2>1, <3>2, <3>3, ApproachStep
  <2> QED
    BY <2>2, <2>3
<1>5. CASE verdict = "denied"
  <2>1. FailTool("failed")
    BY <1>5 DEF ExecuteEffectful
  <2>2. Moved("clear") \/ Moved("end")
    BY <1>0, <2>1, Moves
  <2> QED
    BY <1>1, <2>2, QuietStep DEF Places, TurnPlaces, CallPlaces, Resting
<1>6. CASE verdict = "confirm"
  <2>1. Suspend(ConfirmId(run.call)) /\ ConfirmId(run.call) \in Prompts
    BY <1>2, <1>6, PromptTypes DEF ExecuteEffectful
  <2>2. Moved("suspend")
    BY <1>0, <2>1, Moves
  <2> QED
    BY <1>1, <2>2, QuietStep DEF Places, TurnPlaces, CallPlaces, Resting
<1> QED
  BY <1>3, <1>4, <1>5, <1>6

(* What the guard lets start had no effect, and shows no placeholder       *)
(* unless it is on its way to be refused.                                  *)
LEMMA GuardStarts ==
  ASSUME AgentInv, run.pc = "guard", decide_operation_guard(disk, run.call) = "start"
  PROVE  /\ ~setup.repeat => effects[run.call.id] = 0
         /\ \/ Marked(run.call) /\ run.call.tool \in {"write", "patch", "http"}
            \/ Permitted(run.call) /\ ~Marked(run.call)
<1>0. /\ AgentTypeOK /\ EffectsPermitted /\ StartedOnce
      /\ run.call \in ToolCalls /\ run.call.id \in Ids
  BY Unpacked DEF CallPlaces, ToolCalls
<1>1. /\ disk.ops[run.call.id].status \in {"none", "clean", "started", "unknown"}
      /\ ~setup.repeat => disk.ops[run.call.id].status \in {"none", "clean"}
  BY DEF decide_operation_guard
<1>2. effects[run.call.id] \in Nat
  BY <1>0 DEF AgentTypeOK
<1>3. ~setup.repeat => effects[run.call.id] <= 1 /\ effects[run.call.id] # 1
  BY <1>0, <1>1 DEF StartedOnce
<1>4. ~setup.repeat => effects[run.call.id] = 0
  BY <1>2, <1>3
<1> QED
  BY <1>0, <1>1, <1>4 DEF EffectsPermitted

(* The operation is recorded as started before it starts. *)
LEMMA StartStep ==
  ASSUME AgentInv, UNCHANGED <<setup, history>>,
         crashes' \in 0 .. MaxCrashes, faults' \in 0 .. MaxFaults,
         run.pc = "guard", disk' = operation_started(disk, run.call),
         NEW pc \in {"effect", "remote", "placeholder"}, Moved(pc),
         ~setup.repeat => effects[run.call.id] = 0,
         pc # "placeholder" => Permitted(run.call) /\ ~Marked(run.call)
  PROVE  AgentInv'
<1>0. /\ AgentTypeOK /\ EffectsPermitted /\ StartedOnce /\ RequestsNamed
      /\ disk \in Disks /\ UNCHANGED <<setup, effects, applied, asked, continued>>
      /\ run.call \in ToolCalls /\ run.call.id \in Ids
  BY Unpacked DEF history, CallPlaces, ToolCalls
<1>1. /\ disk' \in Disks /\ disk'.ops[run.call.id].status = "started"
      /\ \A i \in Ids : i # run.call.id => disk'.ops[i] = disk.ops[i]
      /\ KeepsRequests(disk, disk') /\ KeepsDecisions(disk, disk') /\ KeepsCopies(disk, disk')
  BY <1>0, OperationStarted
<1>2. run.pc \in CallPlaces /\ pc \in CallPlaces \cup {"end"}
  BY DEF CallPlaces
<1>3. AgentTypeOK' /\ Placed' /\ CopiesGenuine'
  BY <1>0, <1>1, <1>2, CallStep DEF AgentTypeOK
<1>4. run'.pc = pc /\ run'.call = run.call
  BY DEF Moved
<1>5. EffectsPermitted'
  <2>1. \A call \in applied' : call \in asked' /\ Permitted(call)'
    BY <1>0, <1>1, PermittedCalls DEF EffectsPermitted, KeepsDecisions
  <2>2. Permitted(run.call) => Permitted(run.call)'
    BY <1>0, <1>1, <1>4, PermittedCalls DEF KeepsDecisions
  <2> QED
    BY <1>4, <2>1, <2>2 DEF EffectsPermitted, Marked, args_contain_redaction_marker
<1>6. StartedOnce'
  <2> SUFFICES ASSUME ~setup.repeat PROVE StartedOnce'
    BY DEF StartedOnce
  <2>1. disk'.mcp_pending = {}
    BY <1>0, <1>1 DEF StartedOnce, KeepsRequests
  <2>2. \A i \in Ids : /\ effects'[i] <= 1
                       /\ effects'[i] = 1 => disk'.ops[i].status \notin {"none", "clean"}
    BY <1>0, <1>1 DEF StartedOnce
  <2> QED
    BY <1>0, <1>1, <1>4, <2>1, <2>2 DEF StartedOnce
<1>7. RequestsNamed'
  BY <1>0, <1>1, RequestsKept DEF KeepsDecisions
<1> QED
  BY <1>3, <1>5, <1>6, <1>7 DEF AgentInv

(* The guard starts the call, resends its result or refuses it. *)
LEMMA GuardOperation_Step ==
  ASSUME AgentInv, GuardOperation
  PROVE  AgentInv'
<1>0. AgentTypeOK
  BY DEF AgentInv
<1>1. /\ run.pc = "guard" /\ UNCHANGED <<setup, history>>
      /\ crashes' \in 0 .. MaxCrashes /\ faults' \in 0 .. MaxFaults
  BY <1>0, Counters DEF GuardOperation, At, Calm
<1> DEFINE verdict == decide_operation_guard(disk, run.call)
<1>2. verdict \in {"start", "resend", "refuse"}
  BY DEF decide_operation_guard
<1>3. CASE verdict = "start"
  <2>1. /\ ~setup.repeat => effects[run.call.id] = 0
        /\ \/ Marked(run.call) /\ run.call.tool \in {"write", "patch", "http"}
           \/ Permitted(run.call) /\ ~Marked(run.call)
    BY <1>1, <1>3, GuardStarts
  <2>2. /\ disk' = operation_started(disk, run.call)
        /\ \/ GoTo("remote") /\ run.call.tool \in {"mcp", "query"}
           \/ GoTo("placeholder")
           \/ GoTo("effect") /\ ~(Marked(run.call) /\ run.call.tool # "command")
    BY <1>3 DEF GuardOperation, Marked
  <2>3. \/ Moved("remote") /\ Permitted(run.call) /\ ~Marked(run.call)
        \/ Moved("placeholder")
        \/ Moved("effect") /\ Permitted(run.call) /\ ~Marked(run.call)
    BY <1>0, <2>1, <2>2, Moves DEF Places, TurnPlaces, CallPlaces
  <2> QED
    BY <1>1, <2>1, <2>2, <2>3, StartStep
<1>4. CASE verdict = "resend"
  <2>1. ToolResult /\ UNCHANGED disk
    BY <1>4 DEF GuardOperation
  <2>2. Moved("output")
    BY <1>0, <2>1, Moves
  <2> QED
    BY <1>1, <2>1, <2>2, QuietStep DEF Places, TurnPlaces, CallPlaces, Resting
<1>5. CASE verdict = "refuse"
  <2>1. FailTool("refused") /\ UNCHANGED disk
    BY <1>5 DEF GuardOperation
  <2>2. Moved("clear") \/ Moved("end")
    BY <1>0, <2>1, Moves
  <2> QED
    BY <1>1, <2>1, <2>2, QuietStep DEF Places, TurnPlaces, CallPlaces, Resting
<1> QED
  BY <1>2, <1>3, <1>4, <1>5

-----------------------------------------------------------------------------
(* Requests of a remote tool *)

(* A step of a remote call that rewrites the records of requests. *)
LEMMA RequestStep ==
  ASSUME AgentInv, UNCHANGED <<setup, effects, applied, asked>>,
         crashes' \in 0 .. MaxCrashes, faults' \in 0 .. MaxFaults,
         run.pc \in {"continue", "consume", "remote"},
         NEW pc \in {"guard", "remote", "output", "suspend", "end"}, Moved(pc),
         NEW P \in SUBSET McpPrompts, NEW R \in SUBSET McpPrompts,
         disk' = [disk EXCEPT !.mcp_pending = P, !.mcp_resumed = R],
         continued' \in Seq(Prompts), RequestsNamed',
         pc = "guard" => /\ run.pc = "continue"
                         /\ Marked(run.call) => disk.ops[run.call.id].status \in {"success", "empty"},
         pc = "remote" => run.pc = "continue" /\ ~Marked(run.call) /\ setup.repeat,
         ~setup.repeat => P = {} \/ (run.pc = "remote" /\ pc = "suspend")
  PROVE  AgentInv'
<1>0. /\ AgentTypeOK /\ EffectsPermitted /\ StartedOnce /\ disk \in Disks
      /\ run.call \in ToolCalls /\ run.call.id \in Ids
  BY Unpacked DEF CallPlaces, ToolCalls
<1>1. /\ disk' \in Disks /\ disk'.mcp_pending = P /\ disk'.ops = disk.ops
      /\ KeepsDecisions(disk, disk') /\ KeepsCopies(disk, disk')
  BY <1>0 DEF Disks, KeepsDecisions, KeepsCopies
<1>2. run.pc \in CallPlaces /\ pc \in CallPlaces \cup {"end"}
  BY DEF CallPlaces
<1>3. AgentTypeOK' /\ Placed' /\ CopiesGenuine'
  BY <1>0, <1>1, <1>2, CallStep DEF AgentTypeOK
<1>4. run'.pc = pc /\ run'.call = run.call
  BY DEF Moved
<1>5. EffectsPermitted'
  <2>1. \A call \in applied' : call \in asked' /\ Permitted(call)'
    BY <1>0, <1>1, PermittedCalls DEF EffectsPermitted, KeepsDecisions
  <2>2. Permitted(run.call) => Permitted(run.call)'
    BY <1>0, <1>1, <1>4, PermittedCalls DEF KeepsDecisions
  <2>3. run.pc = "continue" => Permitted(run.call) /\ run.call.tool \in {"mcp", "query"}
    BY <1>0 DEF EffectsPermitted
  <2> QED
    BY <1>1, <1>4, <2>1, <2>2, <2>3 DEF EffectsPermitted, Marked, args_contain_redaction_marker
<1>6. StartedOnce'
  BY <1>0, <1>1, <1>4 DEF StartedOnce
<1> QED
  BY <1>3, <1>5, <1>6 DEF AgentInv

(* Dropping a key's requests, open and re-entered, keeps the rest. *)
LEMMA RequestsDropped ==
  ASSUME RequestsNamed, continued' = continued, KeepsDecisions(disk, disk'), NEW K,
         disk'.mcp_pending = {p \in disk.mcp_pending : p.key \in K},
         disk'.mcp_resumed = {p \in disk.mcp_resumed : p.key \in K}
  PROVE  RequestsNamed'
BY DEF RequestsNamed, KeepsDecisions

(* The completed call's requests are dropped. *)
LEMMA consume_agent_mcp_continuation_Step ==
  ASSUME AgentInv, consume_agent_mcp_continuation
  PROVE  AgentInv'
<1>0. /\ AgentTypeOK /\ StartedOnce /\ RequestsNamed /\ run \in AttemptStates /\ disk \in Disks
  BY Unpacked
<1>1. /\ run.pc = "consume" /\ UNCHANGED <<setup, effects, applied, asked, continued>>
      /\ crashes' \in 0 .. MaxCrashes /\ faults' \in 0 .. MaxFaults
  BY <1>0, Counters DEF consume_agent_mcp_continuation, At, Calm, history
<1>2. Moved("output")
  <2>1. run' = [run EXCEPT !.pc = "output", !.op = TRUE] /\ "output" \in Places
    BY DEF consume_agent_mcp_continuation, Places, TurnPlaces, CallPlaces
  <2> QED
    BY <1>0, <2>1 DEF AttemptStates, Moved
<1> DEFINE K == ToolCalls \ {pending_key_for_agent_mcp(run.call)}
           P == {p \in disk.mcp_pending : p.key \in K}
           R == {p \in disk.mcp_resumed : p.key \in K}
<1>3. disk' = [disk EXCEPT !.mcp_pending = P, !.mcp_resumed = R]
  <2>1. disk.mcp_pending \subseteq McpPrompts /\ disk.mcp_resumed \subseteq McpPrompts
    BY <1>0, Parts
  <2>2. \A p \in McpPrompts : p.key \in ToolCalls
    BY DEF McpPrompts
  <2>3. /\ P = {p \in disk.mcp_pending : p.key # pending_key_for_agent_mcp(run.call)}
        /\ R = {p \in disk.mcp_resumed : p.key # pending_key_for_agent_mcp(run.call)}
    BY <2>1, <2>2
  <2> QED
    BY <2>3 DEF consume_agent_mcp_continuation
<1>4. /\ P \in SUBSET McpPrompts /\ R \in SUBSET McpPrompts
      /\ ~setup.repeat => P = {}
  BY <1>0, <1>1, Parts DEF StartedOnce
<1>5. /\ disk'.mcp_pending = P /\ disk'.mcp_resumed = R /\ KeepsDecisions(disk, disk')
  <2> HIDE DEF P, R
  <2> QED
    BY <1>0, <1>3, <1>4 DEF Disks, KeepsDecisions, KeepsCopies
<1>6. RequestsNamed'
  <2> HIDE DEF K
  <2> QED
    BY <1>0, <1>1, <1>5, RequestsDropped
<1>7. continued' \in Seq(Prompts)
  BY <1>0, <1>1 DEF AgentTypeOK
<1> HIDE DEF P, R
<1> QED
  BY <1>1, <1>2, <1>3, <1>4, <1>6, <1>7, RequestStep

(* The remote side asks: the request is recorded in place of an older one. *)
LEMMA RemoteAsks_Step ==
  ASSUME AgentInv, RemoteAsks
  PROVE  AgentInv'
<1>0. /\ AgentTypeOK /\ StartedOnce /\ RequestsNamed /\ disk \in Disks
      /\ run.pc \in CallPlaces => run.call \in ToolCalls
  BY Unpacked
<1>1. /\ run.pc = "remote" /\ UNCHANGED <<setup, effects, applied, asked, continued>>
      /\ crashes' \in 0 .. MaxCrashes /\ faults' \in 0 .. MaxFaults
  BY <1>0, Counters DEF RemoteAsks, At, Calm, history
<1> DEFINE key == pending_key_for_agent_mcp(run.call)
           asks(n) == mcp_question_id(run.call, n)
           open(n) == [key |-> key, question |-> asks(n)]
<1>2. PICK n \in 1 .. MaxAsks :
        /\ asks(n) \notin disk.answers
        /\ disk' = [disk EXCEPT !.mcp_pending = {p \in @ : p.key # key} \cup {open(n)}]
        /\ Suspend(asks(n))
  BY DEF RemoteAsks
<1>3. n \in Nat /\ run.call \in ToolCalls
  BY <1>0, <1>1, AgentAssumption DEF CallPlaces
<1>4. /\ key \in ToolCalls /\ asks(n) \in Prompts
      /\ asks(n).id = key.id /\ asks(n).tool = key.tool /\ asks(n).body = key.body
  BY <1>3, PromptTypes, RedactedCall DEF pending_key_for_agent_mcp
<1> HIDE DEF key, asks
<1> DEFINE P == {p \in disk.mcp_pending : p.key # key} \cup {open(n)}
           R == disk.mcp_resumed
<1>5. open(n) \in McpPrompts /\ open(n).key = key /\ open(n).question = asks(n)
  BY <1>4 DEF McpPrompts
<1> HIDE DEF open
<1>6. disk.mcp_pending \subseteq McpPrompts /\ R \in SUBSET McpPrompts /\ P \in SUBSET McpPrompts
  BY <1>0, <1>5, Parts
<1>7. disk' = [disk EXCEPT !.mcp_pending = P, !.mcp_resumed = R]
  BY <1>0, <1>2 DEF Disks
<1>8. Moved("suspend")
  BY <1>0, <1>2, <1>4, Moves
<1>9. disk'.mcp_pending = P /\ disk'.mcp_resumed = R /\ KeepsDecisions(disk, disk')
  <2> HIDE DEF P, R
  <2> QED
    BY <1>0, <1>6, <1>7 DEF Disks, KeepsDecisions, KeepsCopies
<1>10. RequestsNamed'
  <2>1. \A p \in disk'.mcp_pending : \/ p \in disk.mcp_pending /\ p.key # key
                                     \/ p = open(n)
    BY <1>9
  <2>2. \A p \in disk'.mcp_pending :
          p.question.id = p.key.id /\ p.question.tool = p.key.tool /\ p.question.body = p.key.body
    BY <1>0, <1>4, <1>5, <2>1 DEF RequestsNamed
  <2>3. \A p, q \in disk'.mcp_pending : p.key = q.key => p = q
    BY <1>0, <1>5, <2>1 DEF RequestsNamed
  <2>4. \A i \in 1 .. Len(continued') :
          /\ continued'[i] \in disk'.answers
          /\ \A p \in disk'.mcp_pending : p.question = continued'[i] => p \in disk'.mcp_resumed
    BY <1>0, <1>1, <1>2, <1>5, <1>9, <2>1 DEF RequestsNamed, KeepsDecisions
  <2>5. \A i, j \in 1 .. Len(continued') : continued'[i] = continued'[j] => i = j
    BY <1>0, <1>1 DEF RequestsNamed
  <2> QED
    BY <2>2, <2>3, <2>4, <2>5 DEF RequestsNamed
<1>11. continued' \in Seq(Prompts)
  BY <1>0, <1>1 DEF AgentTypeOK
<1> HIDE DEF P, R
<1> QED
  BY <1>1, <1>6, <1>7, <1>8, <1>10, <1>11, RequestStep

(* The request of a key, found open and answered and not re-entered so     *)
(* far, is marked as re-entered; its answer may then be sent.              *)
LEMMA RequestReentered ==
  ASSUME RequestsNamed, AgentTypeOK, KeepsDecisions(disk, disk'),
         NEW p \in disk.mcp_pending, p.question \in disk.answers, p \notin disk.mcp_resumed,
         disk'.mcp_pending = disk.mcp_pending,
         disk'.mcp_resumed = {r \in disk.mcp_resumed : r.key # p.key} \cup {p},
         continued' \in {continued, Append(continued, p.question)}
  PROVE  RequestsNamed'
<1>1. continued \in Seq(Prompts) /\ disk.mcp_pending \subseteq McpPrompts /\ disk'.answers = disk.answers
  BY Parts DEF AgentTypeOK, KeepsDecisions
<1>2. \A q \in disk.mcp_pending : q.key = p.key => q = p
  BY DEF RequestsNamed
<1>3. \A q \in disk.mcp_pending : q \in disk.mcp_resumed => q \in disk'.mcp_resumed
  BY <1>2
<1>4. \A q \in disk.mcp_pending : q.question = p.question => q = p
  <2> SUFFICES ASSUME NEW q \in disk.mcp_pending, q.question = p.question
               PROVE  q.key = p.key
    BY <1>2
  <2>1. q.key \in ToolCalls /\ p.key \in ToolCalls
    BY <1>1 DEF McpPrompts
  <2>2. q.key.id = p.key.id /\ q.key.tool = p.key.tool /\ q.key.body = p.key.body
    BY DEF RequestsNamed
  <2> QED
    BY <2>1, <2>2 DEF ToolCalls
<1>5. \A i \in 1 .. Len(continued) : continued[i] # p.question
  BY DEF RequestsNamed
<1>6. /\ \A i \in 1 .. Len(continued') :
           \/ i \in 1 .. Len(continued) /\ continued'[i] = continued[i]
           \/ continued'[i] = p.question /\ i = Len(continued) + 1
  BY <1>1
<1>7. \A i \in 1 .. Len(continued') :
        /\ continued'[i] \in disk'.answers
        /\ \A q \in disk'.mcp_pending : q.question = continued'[i] => q \in disk'.mcp_resumed
  BY <1>1, <1>3, <1>4, <1>6 DEF RequestsNamed
<1>8. \A i, j \in 1 .. Len(continued') : continued'[i] = continued'[j] => i = j
  BY <1>5, <1>6 DEF RequestsNamed
<1> QED
  BY <1>7, <1>8 DEF RequestsNamed

(* An answered request is re-entered, or the call goes to the guard. *)
LEMMA resume_agent_mcp_continuation_Step ==
  ASSUME AgentInv, resume_agent_mcp_continuation
  PROVE  AgentInv'
<1>0. /\ AgentTypeOK /\ StartedOnce /\ RequestsNamed /\ run \in AttemptStates /\ disk \in Disks
      /\ disk.mcp_pending \subseteq McpPrompts /\ disk.mcp_resumed \subseteq McpPrompts
      /\ continued \in Seq(Prompts)
  BY Unpacked, Parts DEF AgentTypeOK
<1>1. /\ run.pc = "continue" /\ UNCHANGED <<setup, effects, applied, asked>>
      /\ crashes' \in 0 .. MaxCrashes /\ faults' \in 0 .. MaxFaults
      /\ ~setup.repeat => disk.mcp_pending = {}
  BY <1>0, Counters DEF resume_agent_mcp_continuation, At, Calm, StartedOnce
<1> DEFINE key == pending_key_for_agent_mcp(run.call)
           K   == {k \in ToolCalls : k = key \/ k.tool # run.call.tool}
<1>2. \/ (Fail("refused") \/ Fail("failed")) /\ UNCHANGED <<disk, continued>>
      \/ /\ GoTo("guard") /\ UNCHANGED continued
         /\ Marked(run.call) => disk.ops[run.call.id].status \in {"success", "empty"}
         /\ disk' = [disk EXCEPT
              !.mcp_pending = {p \in @ : p.key = key \/ p.key.tool # run.call.tool},
              !.mcp_resumed = {p \in @ : p.key = key \/ p.key.tool # run.call.tool}]
      \/ \E p \in disk.mcp_pending :
           /\ p.key = key /\ p.question \in disk.answers /\ p \notin disk.mcp_resumed
           /\ disk' = [disk EXCEPT !.mcp_resumed = {r \in @ : r.key # key} \cup {p}]
           /\ \/ Fail("refused") /\ UNCHANGED continued
              \/ ~Marked(run.call) /\ GoTo("remote") /\ continued' = Append(continued, p.question)
  BY DEF resume_agent_mcp_continuation, Marked
<1>3. CASE (Fail("refused") \/ Fail("failed")) /\ UNCHANGED <<disk, continued>>
  <2>1. Moved("end") /\ UNCHANGED <<setup, disk, history>>
    BY <1>0, <1>1, <1>3, Moves DEF history
  <2> QED
    BY <1>1, <2>1, QuietStep DEF Places, TurnPlaces, CallPlaces, Resting
<1>4. CASE /\ GoTo("guard") /\ UNCHANGED continued
           /\ Marked(run.call) => disk.ops[run.call.id].status \in {"success", "empty"}
           /\ disk' = [disk EXCEPT
                !.mcp_pending = {p \in @ : p.key = key \/ p.key.tool # run.call.tool},
                !.mcp_resumed = {p \in @ : p.key = key \/ p.key.tool # run.call.tool}]
  <2> DEFINE P == {p \in disk.mcp_pending : p.key \in K}
             R == {p \in disk.mcp_resumed : p.key \in K}
  <2>1. Moved("guard")
    BY <1>0, <1>4, Moves DEF Places, TurnPlaces, CallPlaces
  <2>2. disk' = [disk EXCEPT !.mcp_pending = P, !.mcp_resumed = R]
    <3>1. \A p \in McpPrompts : p.key \in ToolCalls
      BY DEF McpPrompts
    <3>2. /\ P = {p \in disk.mcp_pending : p.key = key \/ p.key.tool # run.call.tool}
          /\ R = {p \in disk.mcp_resumed : p.key = key \/ p.key.tool # run.call.tool}
      BY <1>0, <3>1
    <3> QED
      BY <1>4, <3>2
  <2>3. /\ P \in SUBSET McpPrompts /\ R \in SUBSET McpPrompts /\ continued' \in Seq(Prompts)
        /\ ~setup.repeat => P = {}
    BY <1>0, <1>1, <1>4
  <2>4. disk'.mcp_pending = P /\ disk'.mcp_resumed = R /\ KeepsDecisions(disk, disk')
    <3> HIDE DEF P, R
    <3> QED
      BY <1>0, <2>2, <2>3 DEF Disks, KeepsDecisions, KeepsCopies
  <2>5. RequestsNamed'
    <3> HIDE DEF K
    <3> QED
      BY <1>0, <1>4, <2>4, RequestsDropped
  <2> HIDE DEF P, R
  <2> QED
    BY <1>1, <1>4, <2>1, <2>2, <2>3, <2>5, RequestStep
<1>5. ASSUME NEW p \in disk.mcp_pending,
             p.key = key, p.question \in disk.answers, p \notin disk.mcp_resumed,
             disk' = [disk EXCEPT !.mcp_resumed = {r \in @ : r.key # key} \cup {p}],
             \/ Fail("refused") /\ UNCHANGED continued
             \/ ~Marked(run.call) /\ GoTo("remote") /\ continued' = Append(continued, p.question)
      PROVE  AgentInv'
  <2> HIDE DEF key
  <2> DEFINE P == disk.mcp_pending
             R == {r \in disk.mcp_resumed : r.key # key} \cup {p}
  <2>1. P \in SUBSET McpPrompts /\ R \in SUBSET McpPrompts
    BY <1>0
  <2>2. disk' = [disk EXCEPT !.mcp_pending = P, !.mcp_resumed = R]
    BY <1>0, <1>5 DEF Disks
  <2>3. disk'.mcp_pending = P /\ disk'.mcp_resumed = R /\ KeepsDecisions(disk, disk')
    <3> HIDE DEF P, R
    <3> QED
      BY <1>0, <2>1, <2>2 DEF Disks, KeepsDecisions, KeepsCopies
  <2>4. p.question \in Prompts /\ setup.repeat
    BY <1>0, <1>1 DEF McpPrompts, AgentTypeOK
  <2>5. continued' \in {continued, Append(continued, p.question)} /\ continued' \in Seq(Prompts)
    BY <1>0, <1>5, <2>4
  <2>6. RequestsNamed'
    BY <1>0, <1>5, <2>3, <2>5, RequestReentered
  <2>7. Moved("end") \/ (Moved("remote") /\ ~Marked(run.call))
    BY <1>0, <1>5, Moves DEF Places, TurnPlaces, CallPlaces
  <2> HIDE DEF P, R
  <2> QED
    BY <1>1, <2>1, <2>2, <2>4, <2>5, <2>6, <2>7, RequestStep
<1> QED
  BY <1>2, <1>3, <1>4, <1>5

-----------------------------------------------------------------------------
(* The invariant and its consequences *)

(* The step has not been entered: nothing is held, recorded or sent. *)
LEMMA AgentInv_Init ==
  ASSUME Init
  PROVE  AgentInv
<1>1. /\ setup \in Setups /\ disk = EmptyDisk /\ run = Gone("idle")
      /\ effects = [i \in Ids |-> 0] /\ applied = {} /\ asked = {} /\ continued = <<>>
      /\ crashes = 0 /\ faults = 0
  BY DEF Init
<1>2. /\ run \in AttemptStates /\ run.pc = "idle" /\ run.call = NoCall /\ run.queue = <<>>
  BY <1>1, GoneTypes DEF Places
<1>3. NoOperation \in Operations /\ NoOperation.status = "none"
  <2>1. operation_digest(NoCall) \in [tool : Tools \cup {"none"}, body : Bodies]
    BY Constants DEF operation_digest
  <2> QED
    BY <2>1 DEF NoOperation, Operations
<1>4. /\ disk \in Disks /\ disk.checkpoint = NoCheckpoint /\ disk.payload = [i \in Ids |-> NoCall]
      /\ disk.ops = [i \in Ids |-> NoOperation] /\ disk.mcp_pending = {}
  <2>1. 0 \in 0 .. MaxSteps
    BY AgentAssumption
  <2>2. [i \in Ids |-> NoOperation] \in [Ids -> Operations]
    BY <1>3
  <2>3. [i \in Ids |-> NoCall] \in [Ids -> ToolCalls \cup {NoCall}]
    OBVIOUS
  <2> QED
    BY <1>1, <2>1, <2>2, <2>3, NoCheckpointTypes, Constants DEF EmptyDisk, Disks
<1>5. AgentTypeOK
  <2>1. crashes \in 0 .. MaxCrashes /\ faults \in 0 .. MaxFaults
    BY <1>1, AgentAssumption
  <2>2. effects \in [Ids -> Nat] /\ continued \in Seq(Prompts)
    BY <1>1
  <2> QED
    BY <1>1, <1>2, <1>4, <2>1, <2>2 DEF AgentTypeOK
<1>6. Placed
  BY <1>2 DEF Placed, TurnPlaces, CallPlaces
<1>7. CopiesGenuine
  BY <1>1, <1>2, <1>4, NoCheckpointTypes DEF CopiesGenuine, Held
<1>8. EffectsPermitted
  BY <1>1, <1>2 DEF EffectsPermitted
<1>9. StartedOnce
  BY <1>1, <1>2, <1>4 DEF StartedOnce
<1>10. RequestsNamed
  BY <1>1, <1>4 DEF RequestsNamed
<1> QED
  BY <1>5, <1>6, <1>7, <1>8, <1>9, <1>10 DEF AgentInv

(* Every step keeps the invariant. *)
LEMMA AgentInv_Next ==
  ASSUME AgentInv, [Next]_agentVars
  PROVE  AgentInv'
<1>1. CASE Entering
  BY <1>1, Enter_Step, ChargeAttempt_Step, ResumeUndecided_Step, AuthorizationRequired_Step,
     LoadCheckpoint_Step DEF Entering
<1>2. CASE Turning
  BY <1>2, IterationsExhausted_Step, ResumeTurn_Step, ResumeRedacted_Step, FinalAnswer_Step,
     FinalInvalid_Step, enforce_out_of_contract_policy_Step, ResponseFails_Step,
     ModelCalls_Step, ModelCallsInParallel_Step, CompleteTurn_Step DEF Turning
<1>3. CASE Calling
  BY <1>3, CheckCall_Step, CallRejected_Step, StorePayload_Step, MarkSideEffect_Step,
     ExecuteAskUser_Step, ExecuteRead_Step, ExecuteRedacted_Step, ExecuteEffectful_Step,
     GuardOperation_Step, RefusePlaceholder_Step, EffectApplied_Step, EffectFails_Step,
     PatchRejected_Step, Interrupted_Step DEF Calling
<1>4. CASE Remote
  BY <1>4, resume_agent_mcp_continuation_Step, RemoteCompletes_Step,
     consume_agent_mcp_continuation_Step, RemoteAsks_Step, RemoteLost_Step DEF Remote
<1>5. CASE Settling
  BY <1>5, OutputAccepted_Step, finish_rejected_external_operation_Step, FinishOperation_Step,
     ClearPayload_Step, SuspendCall_Step, ReportPrompt_Step, EndAttempt_Step DEF Settling
<1>6. CASE UserDecides \/ Crash
  BY <1>6, UserDecides_Step, Crash_Step
<1>7. CASE UNCHANGED agentVars
  <2>1. UNCHANGED <<setup, disk, run, effects, applied, asked, continued, crashes, faults>>
    BY <1>7 DEF agentVars
  <2>2. AgentTypeOK'
    BY <2>1 DEF AgentInv, AgentTypeOK
  <2>3. Placed'
    BY <2>1 DEF AgentInv, Placed
  <2>4. CopiesGenuine'
    BY <2>1 DEF AgentInv, CopiesGenuine, Held, Genuine, Marked
  <2>5. EffectsPermitted'
    BY <2>1 DEF AgentInv, EffectsPermitted, Marked, Permitted, require_side_effect, ConfirmId
  <2>6. StartedOnce'
    BY <2>1 DEF AgentInv, StartedOnce
  <2>7. RequestsNamed'
    BY <2>1 DEF AgentInv, RequestsNamed
  <2> QED
    BY <2>2, <2>3, <2>4, <2>5, <2>6, <2>7 DEF AgentInv
<1> QED
  BY <1>1, <1>2, <1>3, <1>4, <1>5, <1>6, <1>7 DEF Next, Progress

(* The invariant holds of every behaviour of the step. *)
THEOREM AgentInvariant == Spec => []AgentInv
<1>1. Init => AgentInv
  BY AgentInv_Init
<1>2. AgentInv /\ [Next]_agentVars => AgentInv'
  BY AgentInv_Next
<1> QED
  BY <1>1, <1>2, PTL DEF Spec

(* The variables of the agent step keep their types: a folded journal      *)
(* always restores to a checkpoint, operations and requests of this node.  *)
THEOREM AgentTypes == Spec => []AgentTypeOK
<1>1. AgentInv => AgentTypeOK
  BY DEF AgentInv
<1> QED
  BY <1>1, AgentInvariant, PTL

(* What takes effect is a call exactly as the model sent it, and under     *)
(* side_effects=confirm one whose arguments a user approved, for any ids,  *)
(* texts and nodes and any number of crashes and faults                    *)
(* (require_side_effect, restore_pending_call_from_sidecar).               *)
THEOREM EffectsAreApproved == Spec => []OnlyApprovedBytes
<1>1. AgentInv => OnlyApprovedBytes
  <2> SUFFICES ASSUME AgentInv, NEW call \in applied
               PROVE  /\ call \in asked
                      /\ ~args_contain_redaction_marker(call.body)
                      /\ call.tool # "query" =>
                           /\ setup.policy # "none"
                           /\ setup.policy = "confirm" =>
                                \E p \in disk.approved :
                                    /\ p.kind = "confirm" /\ p.tool = call.tool
                                    /\ p.body = call.body
                                    /\ setup.scope = "invocation" => p.id = call.id
    BY DEF OnlyApprovedBytes
  <2>1. AgentTypeOK /\ CopiesGenuine /\ EffectsPermitted
    BY DEF AgentInv
  <2>2. call \in asked /\ Permitted(call) /\ call \in ToolCalls
    BY <2>1 DEF EffectsPermitted, AgentTypeOK
  <2>3. ~args_contain_redaction_marker(call.body)
    BY <2>1, <2>2, SentUnmarked DEF Marked
  <2>4. ASSUME call.tool # "query"
        PROVE  /\ setup.policy # "none"
               /\ setup.policy = "confirm" => ConfirmId(call) \in disk.approved
    BY <2>2, <2>4 DEF Permitted, require_side_effect
  <2>5. /\ ConfirmId(call).kind = "confirm" /\ ConfirmId(call).tool = call.tool
        /\ ConfirmId(call).body = call.body
        /\ setup.scope = "invocation" => ConfirmId(call).id = call.id
    BY <2>2, PromptTypes
  <2> QED
    BY <2>2, <2>3, <2>4, <2>5
<1> QED
  BY <1>1, AgentInvariant, PTL

(* Under the default on_indeterminate policy no call takes effect twice,   *)
(* and under any policy an answer re-enters its request once, for any      *)
(* number of crashes, faults, turns and attempts (run_context.rs guard,    *)
(* tool_events.rs mcp_continuation_resumed).                               *)
THEOREM EffectsHappenOnce == Spec => []EffectsOnce
<1>1. AgentInv => EffectsOnce
  <2> SUFFICES ASSUME AgentInv PROVE EffectsOnce
    OBVIOUS
  <2>1. AgentTypeOK /\ StartedOnce /\ RequestsNamed
    BY DEF AgentInv
  <2>2. DOMAIN continued = 1 .. Len(continued)
    BY <2>1 DEF AgentTypeOK
  <2> QED
    BY <2>1, <2>2 DEF StartedOnce, RequestsNamed, EffectsOnce
<1> QED
  BY <1>1, AgentInvariant, PTL

=============================================================================
