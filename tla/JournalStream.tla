----------------------------- MODULE JournalStream -----------------------------
(***************************************************************************)
(* The journal of one run as a stream of records: the durable file and the *)
(* observation (audit) file that share one sequence space, the writers     *)
(* that append to them, the repair of a torn tail, and the subscribers     *)
(* that replay the files and then follow live events.                      *)
(*                                                                         *)
(* Writers are the engine's long-lived JournalWriter, whose clones share   *)
(* one memory state, and the service, which folds the file afresh for      *)
(* every append.  Both hold the journal lock for the whole append, so an   *)
(* append is one action; a crash inside it is an outcome of that action.   *)
(* EventCursor::read returns batches; here a batch holds one record        *)
(* (EVENT_BATCH_COUNT = 1), so every step may meet a newer file.           *)
(***************************************************************************)
EXTENDS Naturals, Sequences, FiniteSets, FiniteSetsExt

CONSTANTS
    Subscribers,    \* clients that follow the event stream
    Settings,       \* the deployments under check, see StreamSettings
    Capacity,       \* live_event_channel_capacity
    MaxRecords,     \* bound: records ever appended
    MaxNotes,       \* AuditLimits.max_event_count
    MaxFaults       \* bound: process crashes

StreamSettings ==
    [mode : {"exclusive", "shared"},    \* RunStoreMode
     audit : BOOLEAN,                   \* AuditMode is not Off
     service : BOOLEAN,                 \* the service appends control events
     clock : {"wall", "active"},        \* ElapsedBudgetMode
     parallel : BOOLEAN,                \* the engine runs parallel branches
     resumes : BOOLEAN,                 \* an interrupted run is continued
     refusals : BOOLEAN,                \* a run may be refused before it executes
     bare : BOOLEAN,                    \* a crash may leave a line without its newline
     followers : SUBSET Subscribers]

ASSUME StreamAssumption ==
    /\ Settings \subseteq StreamSettings
    /\ Capacity \in Nat \ {0} /\ MaxRecords \in Nat
    /\ MaxNotes \in Nat /\ MaxFaults \in Nat

VARIABLES
    setting,        \* the deployment of this behaviour
    durable,        \* journal.jsonl: complete lines
    tail,           \* what follows its last newline
    audit,          \* audit.jsonl: complete lines
    auditTail,
    marker,         \* .clean_shutdown exists
    writer,         \* the engine's writer memory, or NoWriter
    unsent,         \* observations appended, journal lock dropped, not yet sent
    queue,          \* per subscriber: its broadcast receiver
    poller,         \* the shared journal poller of the run
    sub,            \* per subscriber: the stream it holds
    got,            \* per subscriber, history: seqs delivered to the client
    faults

streamVars == <<setting, durable, tail, audit, auditTail, marker, writer, unsent,
                queue, poller, sub, got, faults>>
fileVars == <<durable, tail, audit, auditTail, marker>>

StreamTerminal == {"sealed", "interrupted"}
StreamKinds == StreamTerminal \cup {"work", "resumed", "note", "degraded"}
Rec(n, k) == [seq |-> n, kind |-> k]
NoTail == [kind |-> "none"]         \* the file ends with a newline
TornTail == [kind |-> "torn"]       \* a fragment that does not parse
NoWriter == [open |-> FALSE]
NoPoller == [alive |-> FALSE]
NoQueue == [open |-> FALSE, items |-> <<>>, lagged |-> FALSE]

-----------------------------------------------------------------------------
(* The two files. *)

LastSeq(s) == IF s = <<>> THEN 0 ELSE s[Len(s)].seq
\* read_last_seq_from_file_tail: an unterminated line that parses counts.
TailSeq(s, t) == IF t \in {NoTail, TornTail} THEN LastSeq(s) ELSE t.seq

\* repair_tail_at: a clean shutdown refuses, a complete line gains its
\* newline, a fragment is cut.
Refuses(t) == t # NoTail /\ marker
Repaired(s, t) == IF t \in {NoTail, TornTail} THEN s ELSE Append(s, t)

\* RunState.terminal: the last terminal event not followed by a restart.
TerminalOf(s) ==
    LET marks == {i \in DOMAIN s : s[i].kind \in StreamTerminal \cup {"resumed"}}
    IN  IF marks = {} THEN "none"
        ELSE LET k == s[Max(marks)].kind IN IF k = "resumed" THEN "none" ELSE k
\* RunState::apply: a final run accepts only a restart.
Accepts(s, kind) == TerminalOf(s) = "sealed" => kind = "resumed"

Room == Len(durable) + Len(audit) < MaxRecords

-----------------------------------------------------------------------------
(* Broadcast: a bounded ring per receiver; overflow drops the oldest. *)

\* Variant: a ring without a limit.
PushUnbounded(q, e) == IF q.open THEN [q EXCEPT !.items = Append(@, e)] ELSE q
Push(q, e) ==
    IF ~q.open THEN q
    ELSE IF Len(q.items) < Capacity THEN [q EXCEPT !.items = Append(@, e)]
    ELSE [q EXCEPT !.items = Append(Tail(@), e), !.lagged = TRUE]
\* One append sends one record or two.
PushAll(q, es) == IF Len(es) = 1 THEN Push(q, es[1]) ELSE Push(Push(q, es[1]), es[2])
\* The engine's channel reaches the exclusive subscribers only.
Send(es) ==
    queue' = IF setting.mode = "exclusive"
             THEN [c \in Subscribers |-> PushAll(queue[c], es)]
             ELSE queue

-----------------------------------------------------------------------------
(* Process crashes: memory, channels and streams are gone, files stay. *)

Dead(c) == [phase |-> "closed", after |-> sub[c].after, through |-> 0,
            at |-> <<0, 0, 0>>, delivered |-> 0, settled |-> FALSE]
CrashMemory ==
    /\ faults < MaxFaults /\ faults' = faults + 1
    /\ writer' = NoWriter /\ unsent' = {} /\ poller' = NoPoller
    /\ queue' = [c \in Subscribers |-> NoQueue]
    /\ sub' = [c \in Subscribers |->
                  IF sub[c].phase = "new" THEN sub[c] ELSE Dead(c)]
    /\ UNCHANGED <<setting, got>>

\* Variant: the marker of a terminal event is written before its line.
CutShortMarked(s, r, before, after) ==
    durable' = s /\ tail' = TornTail /\ marker' = (r.kind \in StreamTerminal)
\* What an append leaves on disk when the process dies inside it: part of
\* the line, the line without its newline, or the line before the marker.
CutShort(s, r, before, after) ==
    \/ durable' = s /\ tail' = TornTail /\ marker' = before
    \/ setting.bare /\ durable' = s /\ tail' = r /\ marker' = before
    \/ durable' = Append(s, r) /\ tail' = NoTail /\ marker' = after

-----------------------------------------------------------------------------
(* The engine's writer. *)

\* create_with_policies: repair both files, fold, seed the counters.
OpenWriter ==
    /\ ~writer.open
    /\ TerminalOf(Repaired(durable, tail)) # "sealed"
    /\ TerminalOf(Repaired(durable, tail)) = "interrupted" => setting.resumes
    /\ ~Refuses(tail) /\ ~Refuses(auditTail)
    /\ durable' = Repaired(durable, tail) /\ tail' = NoTail
    /\ audit' = Repaired(audit, auditTail) /\ auditTail' = NoTail
    /\ writer' = [open |-> TRUE, last |-> LastSeq(durable'), audit |-> LastSeq(audit'),
                  degraded |-> FALSE]
    /\ UNCHANGED <<setting, marker, unsent, queue, poller, sub, got, faults>>

\* Resynchronised memory at the head of durable_event.
\* Variant: the writer trusts its memory.
ResyncFromMemory(s) == writer
Resync(s) == [writer EXCEPT !.last = Max({@, LastSeq(s)}),
                            !.audit = Max({@, TailSeq(audit, auditTail)})]
NextSeq(w) == Max({w.last, w.audit}) + 1

\* durable_event under the lock: repair, resync, check, append, persist,
\* marker, send.  The marker is touched after the append.  A failed write
\* leaves a fragment and a writer that lives on.  The engine task ends with
\* its terminal event; run_resumed is the first event of the next one.
DurableEvent(kind) ==
    /\ writer.open /\ Room /\ ~Refuses(tail)
    /\ unsent # {} => setting.parallel
    /\ kind = "resumed" <=> TerminalOf(Repaired(durable, tail)) = "interrupted"
    /\ LET s == Repaired(durable, tail)
           w == Resync(s)
           r == Rec(NextSeq(w), kind)
       IN  /\ Accepts(s, kind)
           /\ \/ /\ durable' = Append(s, r) /\ tail' = NoTail
                 /\ marker' = (kind \in StreamTerminal)
                 /\ writer' = IF kind \in StreamTerminal THEN NoWriter
                              ELSE [w EXCEPT !.last = r.seq]
                 /\ Send(<<r>>)
                 /\ UNCHANGED <<unsent, setting, poller, sub, got, faults>>
              \/ /\ CutShort(s, r, marker, marker)
                 /\ CrashMemory
              \/ /\ faults < MaxFaults /\ faults' = faults + 1
                 /\ durable' = s /\ tail' = TornTail /\ writer' = w
                 /\ UNCHANGED <<marker, unsent, setting, queue, poller, sub, got>>
    /\ UNCHANGED <<audit, auditTail>>

\* A run suspended on a prompt ends its task without a terminal event.
CloseWriter ==
    /\ writer.open /\ unsent = {}
    /\ writer' = NoWriter
    /\ UNCHANGED <<fileVars, setting, unsent, queue, poller, sub, got, faults>>

\* observation_event: the sequence number comes from memory, the journal
\* lock is dropped before the send.
MemorySeq == NextSeq(writer)
Observe ==
    /\ writer.open /\ setting.audit /\ ~writer.degraded /\ Room
    /\ unsent # {} => setting.parallel
    /\ ~Refuses(auditTail)
    /\ LET s == Repaired(audit, auditTail)
           r == Rec(MemorySeq, "note")
       IN  /\ Len(s) < MaxNotes
           /\ \/ /\ audit' = Append(s, r) /\ auditTail' = NoTail
                 /\ writer' = [writer EXCEPT !.audit = r.seq]
                 /\ unsent' = unsent \cup {r}
                 /\ UNCHANGED <<setting, queue, poller, sub, got, faults>>
              \/ /\ audit' = s /\ auditTail' \in {TornTail} \cup {x \in {r} : setting.bare}
                 /\ CrashMemory
    /\ UNCHANGED <<durable, tail, marker>>

\* The send of an observation, after the lock.
SendObservation(r) ==
    /\ r \in unsent
    /\ unsent' = unsent \ {r}
    /\ Send(<<r>>)
    /\ UNCHANGED <<fileVars, setting, writer, poller, sub, got, faults>>

\* The audit limit: persistence stops, one durable audit_degraded record,
\* and the observation is still sent, with the number it had been given.
Degrade ==
    /\ writer.open /\ setting.audit /\ ~writer.degraded /\ Room
    /\ unsent # {} => setting.parallel
    /\ ~Refuses(auditTail) /\ ~Refuses(tail)
    /\ Len(Repaired(audit, auditTail)) >= MaxNotes
    /\ audit' = Repaired(audit, auditTail) /\ auditTail' = NoTail
    /\ LET s == Repaired(durable, tail)
           w == Resync(s)
           r == Rec(NextSeq(w), "degraded")
       IN  /\ Accepts(s, "degraded")
           /\ durable' = Append(s, r) /\ tail' = NoTail /\ marker' = FALSE
           /\ writer' = [w EXCEPT !.last = r.seq, !.degraded = TRUE]
           /\ Send(<<r, Rec(MemorySeq, "note")>>)
    /\ UNCHANGED <<setting, unsent, poller, sub, got, faults>>

-----------------------------------------------------------------------------
(* The service: append_events_with. *)

\* One fold, consecutive numbers, the marker cleared before the first
\* append of a batch that does not seal the run.  A batch that ends the run
\* is written under the execution lease, with no engine writer.  An answer is
\* accepted as soon as its prompt is journaled, while siblings of the asking
\* branch, or the repair cycle it asked in, still write; under the active clock
\* settled_pending shows the prompt only once the engine's episode is closed.
ServiceAppend(kinds) ==
    /\ setting.service /\ ~Refuses(tail)
    /\ writer.open => setting.clock = "wall" /\ kinds = <<"work">>
    /\ Len(durable) + Len(audit) + Len(kinds) <= MaxRecords
    /\ TerminalOf(Repaired(durable, tail)) = "none"
    /\ LET s == Repaired(durable, tail)
           base == Max({LastSeq(s), TailSeq(audit, auditTail)})
           batch == [i \in DOMAIN kinds |-> Rec(base + i, kinds[i])]
           seals == kinds[Len(kinds)] \in StreamTerminal
       IN  \/ /\ durable' = s \o batch /\ tail' = NoTail
              /\ marker' = seals
              /\ Send(batch)
              /\ UNCHANGED <<setting, writer, unsent, poller, sub, got, faults>>
           \/ \E i \in DOMAIN kinds :
                 /\ CutShort(s \o SubSeq(batch, 1, i - 1), batch[i],
                             marker /\ seals, marker /\ seals)
                 /\ CrashMemory
    /\ \/ kinds # <<"interrupted">> /\ UNCHANGED <<audit, auditTail>>
       \/ \* settle_active_elapsed opens a writer first, which repairs audit.jsonl
          /\ kinds = <<"interrupted">> /\ ~Refuses(auditTail)
          /\ audit' = Repaired(audit, auditTail) /\ auditTail' = NoTail

\* A run that may not execute (its pinned package or its references do not
\* verify) is failed before the engine starts; the append has no sender.
RefuseExecution ==
    /\ setting.refusals /\ ~writer.open /\ Room /\ ~Refuses(tail)
    /\ TerminalOf(Repaired(durable, tail)) = "none"
    /\ LET s == Repaired(durable, tail)
       IN  durable' = Append(s, Rec(Max({LastSeq(s), TailSeq(audit, auditTail)}) + 1,
                                    "sealed"))
    /\ tail' = NoTail /\ marker' = TRUE
    /\ UNCHANGED <<audit, auditTail, setting, writer, unsent, queue, poller, sub, got, faults>>

Crash ==
    /\ CrashMemory
    /\ UNCHANGED fileVars

-----------------------------------------------------------------------------
(* Reading both files in sequence order: EventCursor::read.  A cursor is   *)
(* <<durable lines read, audit lines read, highest number returned>>.      *)

Head1(at) == at[1] < Len(durable)
Head2(at) == at[2] < Len(audit)
Exhausted(at) == ~Head1(at) /\ ~Head2(at)
ReadFails(at) == /\ Head1(at) /\ Head2(at)
                 /\ durable[at[1] + 1].seq = audit[at[2] + 1].seq
FromDurable(at) == /\ Head1(at)
                   /\ Head2(at) => durable[at[1] + 1].seq < audit[at[2] + 1].seq
ReadRec(at) == IF FromDurable(at) THEN durable[at[1] + 1] ELSE audit[at[2] + 1]
ReadCursor(at) ==
    LET top == Max({at[3], ReadRec(at).seq})
    IN  IF FromDurable(at) THEN <<at[1] + 1, at[2], top>> ELSE <<at[1], at[2] + 1, top>>
\* A record at or below the highest number returned is read over.
ReadIsNew(at) == ReadRec(at).seq > at[3]

-----------------------------------------------------------------------------
(* A subscriber: subscribe_with_cursor and replay_stream. *)

SetSub(c, v) == sub' = [sub EXCEPT ![c] = v]
FreshQueue == [open |-> TRUE, items |-> <<>>, lagged |-> FALSE]

\* The exclusive store attaches the live receiver before it reads history.
\* Variant: the receiver is attached only when the live tail starts.
AttachNothing(c) == UNCHANGED queue
AttachLive(c) == queue' = [queue EXCEPT ![c] =
                     IF setting.mode = "exclusive" THEN FreshQueue ELSE NoQueue]
Subscribe(c) ==
    /\ c \in setting.followers
    /\ sub[c].phase \in {"new", "closed"}
    /\ AttachLive(c)
    /\ SetSub(c, [sub[c] EXCEPT !.phase = "attached"])
    /\ UNCHANGED <<fileVars, setting, writer, unsent, poller, got, faults>>

\* prepare_replay, first read: the folded terminal state.
ReadSettled(c) ==
    /\ sub[c].phase = "attached"
    /\ SetSub(c, [sub[c] EXCEPT !.phase = "viewed",
                                !.settled = TerminalOf(durable) # "none"])
    /\ UNCHANGED <<fileVars, setting, writer, unsent, queue, poller, got, faults>>

\* prepare_replay, second read: the end of history.  A cursor beyond it
\* replays from the start.
ReadBoundary(c) ==
    /\ sub[c].phase = "viewed"
    /\ LET last == Max({TailSeq(durable, tail), TailSeq(audit, auditTail)})
       IN  SetSub(c, [sub[c] EXCEPT
              !.phase = IF sub[c].settled \/ setting.mode = "exclusive"
                        THEN "replay" ELSE "join",
              !.through = last, !.at = <<0, 0, 0>>, !.delivered = last,
              !.after = IF @ > last THEN 0 ELSE @])
    /\ queue' = [queue EXCEPT ![c] = IF sub[c].settled THEN NoQueue ELSE @]
    /\ UNCHANGED <<fileVars, setting, writer, unsent, poller, got, faults>>

\* shared_poll_receiver: reuse the run's poller or start one at the end of
\* this subscriber's history.
JoinPoller(c) ==
    /\ sub[c].phase = "join"
    /\ SetSub(c, [sub[c] EXCEPT !.phase = "replay"])
    /\ queue' = [queue EXCEPT ![c] = FreshQueue]
    /\ poller' = IF poller.alive THEN poller
                 ELSE [alive |-> TRUE, at |-> <<0, 0, 0>>, delivered |-> sub[c].through,
                       terminal |-> FALSE]
    /\ UNCHANGED <<fileVars, setting, writer, unsent, got, faults>>

\* The stream ends; the client keeps the last sequence number it saw.
EndStream(c) ==
    /\ SetSub(c, Dead(c))
    /\ queue' = [queue EXCEPT ![c] = NoQueue]

Replay(c) ==
    LET at == sub[c].at
        r == ReadRec(at)
        wanted == ReadIsNew(at) /\ r.seq > sub[c].after /\ r.seq <= sub[c].through
    IN  /\ sub[c].phase = "replay" /\ ~Exhausted(at) /\ ~ReadFails(at)
        /\ r.seq <= sub[c].through
        /\ SetSub(c, [sub[c] EXCEPT
              !.at = ReadCursor(at),
              !.after = IF wanted THEN r.seq ELSE @,
              !.settled = IF ~wanted THEN @
                          ELSE IF r.kind \in StreamTerminal THEN TRUE
                          ELSE IF r.kind = "resumed" THEN FALSE ELSE @])
        /\ got' = [got EXCEPT ![c] = IF wanted THEN @ \cup {r.seq} ELSE @]
        /\ UNCHANGED <<fileVars, setting, writer, unsent, queue, poller, faults>>

\* A read fails: the journal is damaged there, or the file cannot be read now.
FailedRead(at) == /\ faults' = IF ReadFails(at) THEN faults ELSE faults + 1
                  /\ faults' <= MaxFaults

\* A failed read: a stream_error marker, and the live tail is skipped.
ReplayError(c) ==
    /\ sub[c].phase = "replay" /\ ~Exhausted(sub[c].at) /\ FailedRead(sub[c].at)
    /\ EndStream(c)
    /\ UNCHANGED <<fileVars, setting, writer, unsent, poller, got>>

\* History is served: a settled run ends here, another follows live events.
ReplayDone(c) ==
    /\ sub[c].phase = "replay"
    /\ ~Exhausted(sub[c].at) =>
          ~ReadFails(sub[c].at) /\ ReadRec(sub[c].at).seq > sub[c].through
    /\ IF sub[c].settled
       THEN EndStream(c)
       ELSE SetSub(c, [sub[c] EXCEPT !.phase = "live"])
            /\ UNCHANGED queue
    /\ UNCHANGED <<fileVars, setting, writer, unsent, poller, got, faults>>

\* The live tail takes the next broadcast; what it already has is skipped.
Newer(c, r) == r.seq > sub[c].delivered
Live(c) ==
    /\ sub[c].phase = "live" /\ queue[c].items # <<>> /\ ~queue[c].lagged
    /\ LET r == Head(queue[c].items)
           rest == [queue EXCEPT ![c].items = Tail(@)]
       IN  IF ~Newer(c, r)
           THEN queue' = rest /\ UNCHANGED <<sub, got>>
           ELSE /\ got' = [got EXCEPT ![c] = @ \cup {r.seq}]
                /\ IF r.kind \in StreamTerminal
                   THEN /\ SetSub(c, [Dead(c) EXCEPT !.after = r.seq])
                        /\ queue' = [queue EXCEPT ![c] = NoQueue]
                   ELSE /\ SetSub(c, [sub[c] EXCEPT !.delivered = r.seq, !.after = r.seq])
                        /\ queue' = rest
    /\ UNCHANGED <<fileVars, setting, writer, unsent, poller, faults>>

\* A receiver that was overrun reports the last delivered position.
\* Variant: the marker carries the newest position instead.
LaggedAtNewest(c) == LastSeq(queue[c].items)
LaggedAt(c) == sub[c].delivered
Lagged(c) ==
    /\ sub[c].phase = "live" /\ queue[c].lagged
    /\ SetSub(c, [Dead(c) EXCEPT !.after = LaggedAt(c)])
    /\ queue' = [queue EXCEPT ![c] = NoQueue]
    /\ UNCHANGED <<fileVars, setting, writer, unsent, poller, got, faults>>

\* A closed channel (the poller ended) ends the stream once it is drained.
ChannelClosed(c) ==
    /\ sub[c].phase = "live" /\ setting.mode = "shared" /\ ~poller.alive
    /\ queue[c].items = <<>> /\ ~queue[c].lagged
    /\ EndStream(c)
    /\ UNCHANGED <<fileVars, setting, writer, unsent, poller, got, faults>>

-----------------------------------------------------------------------------
(* The shared poller: poll_journal_events and the task that forwards it. *)

Listeners == {c \in Subscribers : queue[c].open}
PollSkip ==
    /\ poller.alive /\ ~Exhausted(poller.at) /\ ~ReadFails(poller.at)
    /\ ~ReadIsNew(poller.at) \/ ReadRec(poller.at).seq <= poller.delivered
    /\ LET r == ReadRec(poller.at)
           term == IF ~ReadIsNew(poller.at) THEN poller.terminal
                   ELSE IF r.kind \in StreamTerminal THEN TRUE
                   ELSE IF r.kind = "resumed" THEN FALSE ELSE poller.terminal
       IN  poller' = IF term /\ Exhausted(ReadCursor(poller.at)) THEN NoPoller
                     ELSE [poller EXCEPT !.at = ReadCursor(@), !.terminal = term]
    /\ UNCHANGED <<fileVars, setting, writer, unsent, queue, sub, got, faults>>

PollSend ==
    /\ poller.alive /\ ~Exhausted(poller.at) /\ ~ReadFails(poller.at)
    /\ ReadIsNew(poller.at) /\ ReadRec(poller.at).seq > poller.delivered
    /\ LET r == ReadRec(poller.at)
       IN  /\ queue' = [c \in Subscribers |-> Push(queue[c], r)]
           /\ poller' = IF Listeners = {} \/ r.kind \in StreamTerminal THEN NoPoller
                        ELSE [poller EXCEPT !.at = ReadCursor(@), !.delivered = r.seq]
    /\ UNCHANGED <<fileVars, setting, writer, unsent, sub, got, faults>>

\* stream_error: the poller ends after a failed read.
PollError ==
    /\ poller.alive /\ FailedRead(poller.at)
    /\ poller' = NoPoller
    /\ UNCHANGED <<fileVars, setting, writer, unsent, queue, sub, got>>

-----------------------------------------------------------------------------
StreamInit ==
    /\ setting \in Settings
    /\ durable = <<Rec(1, "work")>> /\ audit = <<>>
    /\ tail = NoTail /\ auditTail = NoTail /\ marker = FALSE
    /\ writer = NoWriter /\ unsent = {} /\ poller = NoPoller
    /\ queue = [c \in Subscribers |-> NoQueue]
    /\ sub = [c \in Subscribers |->
                 [phase |-> "new", after |-> 0, through |-> 0, at |-> <<0, 0, 0>>,
                  delivered |-> 0, settled |-> FALSE]]
    /\ got = [c \in Subscribers |-> {}]
    /\ faults = 0

\* The batches the service writes: an accepted answer or cancel request, the
\* settlement of an interrupted run, the settlement of a denied confirmation.
ServiceBatches == {<<"work">>, <<"interrupted">>, <<"work", "sealed">>}

Follow(c) ==
    \/ Subscribe(c) \/ ReadSettled(c) \/ ReadBoundary(c) \/ JoinPoller(c)
    \/ Replay(c) \/ ReplayError(c) \/ ReplayDone(c)
    \/ Live(c) \/ Lagged(c) \/ ChannelClosed(c)
Poll == PollSkip \/ PollSend \/ PollError

StreamNext ==
    \/ OpenWriter \/ CloseWriter \/ Observe \/ Degrade \/ Crash \/ RefuseExecution
    \/ \E k \in {"work", "resumed", "interrupted", "sealed"} : DurableEvent(k)
    \/ \E r \in unsent : SendObservation(r)
    \/ \E b \in ServiceBatches : ServiceAppend(b)
    \/ \E c \in Subscribers : Follow(c)
    \/ Poll

StreamSpec == StreamInit /\ [][StreamNext]_streamVars

\* The tasks of a subscription and of the poller are scheduled by the async
\* runtime, and a client reconnects; nothing is assumed of the engine.
StreamFairness ==
    /\ WF_streamVars(Poll)
    /\ WF_streamVars(\E r \in unsent : SendObservation(r))
    /\ \A c \in Subscribers : WF_streamVars(Follow(c))

-----------------------------------------------------------------------------
(* Properties. *)

Records == [seq : Nat \ {0}, kind : StreamKinds]
Tails == {NoTail, TornTail} \cup Records
Writers == {NoWriter} \cup [open : {TRUE}, last : Nat, audit : Nat, degraded : BOOLEAN]
Cursors == Nat \X Nat \X Nat
Pollers == {NoPoller} \cup
           [alive : {TRUE}, at : Cursors, delivered : Nat, terminal : BOOLEAN]
Queues == [open : BOOLEAN, items : Seq(Records), lagged : BOOLEAN]
Phases == {"new", "attached", "viewed", "join", "replay", "live", "closed"}
Streams == [phase : Phases, after : Nat, through : Nat, at : Cursors, delivered : Nat,
            settled : BOOLEAN]

\* Besides the shapes: a receiver never holds more than its channel's
\* capacity, and an observation is in its file before it is sent.
StreamTypeOK ==
    /\ setting \in Settings
    /\ durable \in Seq(Records) /\ tail \in Tails
    /\ audit \in Seq(Records) /\ auditTail \in Tails
    /\ marker \in BOOLEAN /\ faults \in 0..MaxFaults
    /\ writer \in Writers /\ poller \in Pollers
    /\ unsent \subseteq Range(audit)
    /\ queue \in [Subscribers -> Queues]
    /\ \A c \in Subscribers : Len(queue[c].items) <= Capacity
    /\ sub \in [Subscribers -> Streams]
    /\ got \in [Subscribers -> SUBSET Nat]

\* Durable and observation records share one sequence space: no number is
\* given twice, and each file is strictly increasing.
OneSequence ==
    /\ \A i, j \in DOMAIN durable : i < j => durable[i].seq < durable[j].seq
    /\ \A i, j \in DOMAIN audit : i < j => audit[i].seq < audit[j].seq
    /\ \A i \in DOMAIN durable, j \in DOMAIN audit : durable[i].seq # audit[j].seq

\* A subscriber that has received an event has received every earlier one,
\* over replay, hand-over to live events, lag and reconnection.
NoEventSkipped ==
    \A c \in Subscribers, r \in Range(durable) \cup Range(audit) :
        got[c] # {} /\ r.seq < Max(got[c]) => r.seq \in got[c]

\* A crash inside an append never leaves the journal of a run that may go on
\* in a state that every later writer refuses to repair as tampering.
CrashRemnantIsRepairable ==
    TerminalOf(durable) # "sealed" => ~Refuses(tail) /\ ~Refuses(auditTail)

\* A client that follows the run, and reconnects when its stream ends, has
\* every record in the end: no stream waits for an event nobody will send.
FollowersCatchUp ==
    <>[](\A c \in setting.followers, r \in Range(durable) \cup Range(audit) :
            r.seq \in got[c])

=============================================================================
