----------------------------- MODULE RunJournal -----------------------------
(***************************************************************************)
(* The durable side of one run: the state that every reader folds out of   *)
(* journal.jsonl (crates/engine/src/state.rs) and the cancel mailbox kept  *)
(* beside it (crates/service/src/run_dirs.rs).  The journal is append only *)
(* and every append re-folds it under the journal lock, so the folded      *)
(* record is what the properties need; the events themselves are left out. *)
(*                                                                         *)
(* Prompts are numbered in the order in which the engine asks them.        *)
(* Confirmations is the set of numbers that are side-effect confirmations; *)
(* the others are questions.                                               *)
(***************************************************************************)
EXTENDS Naturals

CONSTANTS
    Operations,     \* identities of user cancel operations
    Services,       \* service processes; a shutdown publishes under its own identity
    MaxPrompts,     \* bound: prompts the run may ask
    Confirmations   \* the prompts that are confirmations

ASSUME PromptAssumption ==
    /\ MaxPrompts \in Nat
    /\ Confirmations \subseteq 1..MaxPrompts

ASSUME IdentityAssumption == Operations \cap Services = {}

Controls == Operations \cup Services

Final == {"succeeded", "failed", "canceled"}
Terminals == Final \cup {"interrupted"}

(***************************************************************************)
(* terminal            the last terminal event not followed by a restart   *)
(* terminals           how many terminal events the file holds (0, 1, 2+)  *)
(* cancel_requested    some user_cancel_requested is in the file           *)
(* cancel_operations   the operations those events name                    *)
(* asked, open         prompts asked so far; the last one is unanswered    *)
(* denied              an accepted user_confirmed with approved = false    *)
(* execution_started   a run_started is in the file                        *)
(* inflight            an operation_started without outcome, fail closed   *)
(* last                what the last event was, as far as anybody asks     *)
(***************************************************************************)
RunState ==
    [terminal : Terminals \cup {"none"},
     terminals : 0..2,
     cancel_requested : BOOLEAN,
     cancel_operations : SUBSET Controls,
     asked : 0..MaxPrompts,
     open : BOOLEAN,
     denied : BOOLEAN,
     execution_started : BOOLEAN,
     inflight : BOOLEAN,
     last : {"other", "yielded", "denied", "sealed"}]

\* The journal of a freshly admitted run: run_queued only.
Admitted ==
    [terminal |-> "none", terminals |-> 0,
     cancel_requested |-> FALSE, cancel_operations |-> {},
     asked |-> 0, open |-> FALSE, denied |-> FALSE,
     execution_started |-> FALSE, inflight |-> FALSE, last |-> "other"]

\* What pending/settled_pending shows: a terminal event hides the prompt.
Pending(st) == st.open /\ st.terminal = "none"
PendingQuestion(st) == Pending(st) /\ st.asked \notin Confirmations
PendingConfirmation(st) == Pending(st) /\ st.asked \in Confirmations

\* ensure_no_fail_closed_inflight_operations refuses to re-enter such a run.
\* Variant: an unresolved operation no longer refuses.
FailClosedIgnored(st) == FALSE
FailClosed(st) == st.inflight

\* Some confirmation was answered with a denial.
\* Variant: a denial counts only once its settlement is journaled.
DeniedOnceSealed(st) == st.denied /\ st.last = "sealed"
Denied(st) == st.denied

\* A final run accepts no event but an explicit lifecycle restart; the
\* append fails and leaves the file as it was.
AcceptsEvent(st) == st.terminal \notin Final

\* run_finished, run_error, run_canceled and run_interrupted.
Settle(st, outcome) ==
    [st EXCEPT !.terminal = outcome,
               !.terminals = IF @ < 2 THEN @ + 1 ELSE @,
               !.last = "other"]

\* A party that settles reads the outcome first and never writes a second.
\* Variants: it writes without reading; the append is forgotten.
SettleBlindly(st, outcome) == Settle(st, outcome)
SettleForgotten(st, outcome) == st
SettleOnce(st, outcome) == IF st.terminal = "none" THEN Settle(st, outcome) ELSE st

\* run_queued and run_started restart the lifecycle; run_resumed too.
Restart(st) == [st EXCEPT !.terminal = "none", !.last = "other"]
Start(st) == [Restart(st) EXCEPT !.execution_started = TRUE]

\* The engine reports a suspension and thereby installs the prompt.
Ask(st) == [st EXCEPT !.asked = @ + 1, !.open = TRUE, !.last = "other"]

\* user_answered, or user_confirmed with approved = TRUE.
Respond(st) == [st EXCEPT !.open = FALSE, !.terminal = "none", !.last = "other"]

\* user_confirmed with approved = FALSE.
Deny(st) == [st EXCEPT !.open = FALSE, !.terminal = "none",
                       !.denied = TRUE, !.last = "denied"]

\* Both acceptances recheck, under the journal lock, that nothing else won.
MayRespond(st, mailbox) ==
    /\ st.terminal = "none"
    /\ ~st.cancel_requested
    /\ mailbox = {}
    /\ st.open

\* A denial is completed only while its own settlement is all that follows it.
DenialIsUnambiguous(st, mailbox) ==
    /\ Denied(st)
    /\ mailbox = {}
    /\ st.last \in {"denied", "sealed"}

SealDenial(st) ==
    IF st.last = "denied" THEN [Settle(st, "failed") EXCEPT !.last = "sealed"] ELSE st

\* One user_cancel_requested per control; against a terminal journal the
\* controls are only consumed.  Variant: the requests are not journaled.
DrainWithoutRecord(st, mailbox) == st
DrainControls(st, mailbox) ==
    IF mailbox = {} \/ st.terminal # "none" THEN st
    ELSE [st EXCEPT !.cancel_requested = TRUE,
                    !.cancel_operations = @ \cup mailbox,
                    !.last = "other"]

\* An owner observes a journaled request or a control that is still a file.
RemoteCancelRequested(st, mailbox) == st.cancel_requested \/ mailbox # {}

\* Interrupt preemption cuts the trailing run_canceled of the old writer.
\* Nothing can follow a run_canceled but a restart, so a canceled journal
\* always ends with the event that canceled it.
TruncateCanceled(st) ==
    IF st.terminal = "canceled"
    THEN [st EXCEPT !.terminal = "none", !.last = "other",
                    !.terminals = IF @ > 0 THEN @ - 1 ELSE 0]
    ELSE st
=============================================================================
