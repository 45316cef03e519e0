----------------------- MODULE IdempotencyLedgerProofs -----------------------
(***************************************************************************)
(* The idempotency ledger for any number of requests and servers, any      *)
(* contents and any lifetimes of its records, with crashes, sweeps and a   *)
(* clock that may pass at every step.                                      *)
(*                                                                         *)
(* LedgerInv is the inductive invariant.  GateInv: the execution gate      *)
(* excludes, and from the claim to the commit the ready file is absent, so *)
(* no reap finds a record by which it could retire the holder's claim.     *)
(* PublishedInv: a record that was committed leaves the ready file only    *)
(* when it is expired, so the next commit is at least a lifetime younger   *)
(* (OneRunPerTtl).  MemoryInv: an entry of a server's table belongs to a   *)
(* request of that server that is between its registration and the end of  *)
(* its guard, so who waits for an entry waits for somebody.  KeptInv, for a*)
(* setting that is Patient: what is shown as committed was committed, and  *)
(* an accepted run is named by the claim or by a committed record.         *)
(***************************************************************************)
EXTENDS IdempotencyLedger, TLAPS

\* Where a request can stand; where it has its claim on disk; where it has the
\* gate; where an entry of the table may be its own.
Stages == Ended \union
    {"new", "wait", "disk", "scan", "gate", "claim", "register", "check", "execute",
     "sidecar", "store", "publish", "replay", "peer", "dropping"}
Holding == {"register", "check", "execute", "sidecar", "store"}
Gated == Holding \union {"claim", "publish"}
Owning == {"check", "execute", "sidecar", "store", "publish", "dropping"}

\* The records that could have been written up to time t.
Readies(t) == [kind : {"ready"}, digest : Digests, run : Requests,
               created : 0..t, gen : Nat]
Claims(t) == [kind : {"pending"}, digest : Digests, run : Requests,
              owner : Requests, created : 0..t, gen : Nat]
Locals(t) == [kind : {"pending"}, digest : Digests, owner : Requests,
              created : 0..t]
Holds(t) == [carried : Requests \union {NoRun},
             record : Readies(t) \union Locals(t) \union {Absent},
             run : Requests \union {NoRun}, gen : Nat]

FileTypes ==
    /\ content \in Contents /\ now \in Nat
    /\ pendingFile \in Claims(now) \union {Absent}
    /\ readyFile \in Readies(now) \union {Absent}
    /\ expiryIndex \subseteq Readies(now)
    /\ published \subseteq Readies(now)
    /\ sidecars \subseteq [run : Requests, digest : Digests, created : 0..now]
    /\ accepted \subseteq Requests

RequestTypes ==
    /\ gate \in Requests \union {Nobody}
    /\ stage \in [Requests -> Stages]
    /\ hold \in [Requests -> Holds(now)]
    /\ entries \in [Servers -> Readies(now) \union Locals(now) \union {Absent}]

\* What a request remembers, by where it stands.
RecordKinds ==
    \A r \in Requests :
        /\ stage[r] \in {"replay", "publish"} => hold[r].record \in Readies(now)
        /\ stage[r] = "wait" => hold[r].record \in Locals(now)
        /\ stage[r] \in Holding => hold[r].run \in Requests

LedgerTypes == FileTypes /\ RequestTypes /\ RecordKinds

\* The gate excludes, and its holder's claim stands alone on disk.
GateInv ==
    \A r \in Requests :
        /\ stage[r] \in Gated => gate = r
        /\ stage[r] \in Holding => /\ OwnClaim(r) /\ pendingFile.run = hold[r].run
                                   /\ readyFile = Absent

\* A committed record is on disk or expired.
PublishedInv ==
    \A rec \in published : readyFile = rec \/ ReadyExpired(rec)

\* A pending entry belongs to a request of its server that will remove it.
MemoryInv ==
    \A s \in Servers :
        entries[s].kind = "pending"
            => /\ ServerOf[entries[s].owner] = s
               /\ stage[entries[s].owner] \in Owning

LedgerInv == LedgerTypes /\ GateInv /\ PublishedInv /\ OneRunPerTtl /\ MemoryInv

-----------------------------------------------------------------------------
\* Every digest a request carries is one of Digests.
LEMMA ContentType ==
    ASSUME content \in Contents
    PROVE  \A r \in Requests : content[r] \in Digests
  BY DEF Digests

\* A record of the past is a record.
LEMMA LaterRecords ==
    ASSUME NEW t \in Nat
    PROVE  /\ Readies(t) \subseteq Readies(t + 1)
           /\ Claims(t) \subseteq Claims(t + 1)
           /\ Locals(t) \subseteq Locals(t + 1)
           /\ Holds(t) \subseteq Holds(t + 1)
  <1>1. 0..t \subseteq 0..(t + 1)
    OBVIOUS
  <1>2. /\ Readies(t) \subseteq Readies(t + 1)
        /\ Claims(t) \subseteq Claims(t + 1)
        /\ Locals(t) \subseteq Locals(t + 1)
    BY <1>1 DEF Readies, Claims, Locals
  <1> QED
    BY <1>2 DEF Holds

\* What moving a request does to its own locals, and that it leaves the other
\* requests alone.
LEMMA Moved ==
    ASSUME RequestTypes, NEW r \in Requests, NEW s \in Stages, NEW l \in Holds(now),
           Move(r, s, l), now' = now
    PROVE  /\ stage' \in [Requests -> Stages]
           /\ hold' \in [Requests -> Holds(now')]
           /\ stage'[r] = s
           /\ \A q \in Requests \ {r} : stage'[q] = stage[q] /\ hold'[q] = hold[q]
           /\ s \notin Ended => hold'[r].run = l.run /\ hold'[r].gen = l.gen
           /\ s \in {"replay", "wait", "publish"} => hold'[r].record = l.record
  <1>1. EmptyHold \in Holds(now)
    BY DEF EmptyHold, Holds
  <1>2. [l EXCEPT !.record = Absent] \in Holds(now)
    BY DEF Holds
  <1>3. hold'[r] = IF s \in Ended THEN EmptyHold
                   ELSE IF s \in {"replay", "wait", "publish"} THEN l
                   ELSE [l EXCEPT !.record = Absent]
    BY DEF Move, RequestTypes
  <1>4. hold'[r] \in Holds(now)
    BY <1>1, <1>2, <1>3
  <1>5. /\ stage' \in [Requests -> Stages]
        /\ stage'[r] = s
        /\ \A q \in Requests \ {r} : stage'[q] = stage[q] /\ hold'[q] = hold[q]
    BY DEF Move, RequestTypes
  <1>6. hold' \in [Requests -> Holds(now')]
    BY <1>4 DEF Move, RequestTypes
  <1>7. s \notin Ended => hold'[r].run = l.run /\ hold'[r].gen = l.gen
    BY <1>3 DEF Holds
  <1>8. s \in {"replay", "wait", "publish"} => hold'[r].record = l.record
    BY <1>3 DEF Ended
  <1> QED
    BY <1>5, <1>6, <1>7, <1>8

\* A request moves to s and the files and the table stay typed: so does all.
LEMMA MoveKeepsTypes ==
    ASSUME LedgerTypes, NEW r \in Requests, NEW s \in Stages, NEW l \in Holds(now),
           Move(r, s, l), UNCHANGED now, FileTypes',
           gate' \in Requests \union {Nobody},
           entries' \in [Servers -> Readies(now) \union Locals(now) \union {Absent}],
           s \in {"replay", "publish"} => l.record \in Readies(now),
           s = "wait" => l.record \in Locals(now),
           s \in Holding => l.run \in Requests
    PROVE  LedgerTypes'
  <1>0. RequestTypes /\ RecordKinds
    BY DEF LedgerTypes
  <1>1. /\ stage' \in [Requests -> Stages]
        /\ hold' \in [Requests -> Holds(now')]
        /\ stage'[r] = s
        /\ \A q \in Requests \ {r} : stage'[q] = stage[q] /\ hold'[q] = hold[q]
        /\ s \notin Ended => hold'[r].run = l.run
        /\ s \in {"replay", "wait", "publish"} => hold'[r].record = l.record
    BY <1>0, Moved
  <1>2. RequestTypes'
    BY <1>1 DEF RequestTypes
  <1>3. RecordKinds'
    <2> SUFFICES ASSUME NEW q \in Requests
                 PROVE  /\ stage'[q] \in {"replay", "publish"} => hold'[q].record \in Readies(now)
                        /\ stage'[q] = "wait" => hold'[q].record \in Locals(now)
                        /\ stage'[q] \in Holding => hold'[q].run \in Requests
      BY DEF RecordKinds
    <2>1. CASE q = r
      BY <1>1, <2>1 DEF Holding, Ended
    <2>2. CASE q # r
      BY <1>0, <1>1, <2>2 DEF RecordKinds
    <2> QED
      BY <2>1, <2>2
  <1> QED
    BY <1>2, <1>3 DEF LedgerTypes

\* The same for a plain Goto that starts no hold and remembers no record.
LEMMA GotoKeepsTypes ==
    ASSUME LedgerTypes, NEW r \in Requests,
           NEW s \in Stages \ (Holding \union {"replay", "publish", "wait"}),
           Goto(r, s), UNCHANGED now, FileTypes',
           gate' \in Requests \union {Nobody},
           entries' \in [Servers -> Readies(now) \union Locals(now) \union {Absent}]
    PROVE  LedgerTypes'
  <1>1. hold[r] \in Holds(now)
    BY DEF LedgerTypes, RequestTypes
  <1> QED
    BY <1>1, MoveKeepsTypes DEF Goto

\* The same for a request that will replay a committed record.
LEMMA ReplayKeepsTypes ==
    ASSUME LedgerTypes, NEW r \in Requests, NEW rec \in Readies(now),
           Replay(r, rec), UNCHANGED now, FileTypes',
           gate' \in Requests \union {Nobody},
           entries' \in [Servers -> Readies(now) \union Locals(now) \union {Absent}]
    PROVE  LedgerTypes'
  <1> DEFINE l == [hold[r] EXCEPT !.record = rec]
  <1>1. hold[r] \in Holds(now)
    BY DEF LedgerTypes, RequestTypes
  <1>2. l \in Holds(now) /\ l.record = rec
    BY <1>1 DEF Holds
  <1>3. Move(r, "replay", l) /\ "replay" \in Stages /\ "replay" \notin Holding
    BY DEF Replay, Stages, Holding
  <1> HIDE DEF l
  <1> QED
    BY <1>2, <1>3, MoveKeepsTypes

\* The same for a request that waits for an entry or is refused by it.
LEMMA WaitKeepsTypes ==
    ASSUME LedgerTypes, NEW r \in Requests, NEW e \in Locals(now),
           WaitFor(r, e), UNCHANGED now, FileTypes',
           gate' \in Requests \union {Nobody},
           entries' \in [Servers -> Readies(now) \union Locals(now) \union {Absent}]
    PROVE  LedgerTypes'
  <1> DEFINE l == [hold[r] EXCEPT !.record = e]
  <1>1. hold[r] \in Holds(now)
    BY DEF LedgerTypes, RequestTypes
  <1>2. l \in Holds(now) /\ l.record = e
    BY <1>1 DEF Holds
  <1>3. Goto(r, "conflict") \/ Move(r, "wait", l)
    BY DEF WaitFor
  <1>4. /\ "wait" \in Stages \ Holding
        /\ "conflict" \in Stages \ (Holding \union {"replay", "publish", "wait"})
    BY DEF Stages, Holding, Ended
  <1> HIDE DEF l
  <1>5. CASE Goto(r, "conflict")
    BY <1>4, <1>5, GotoKeepsTypes
  <1>6. CASE Move(r, "wait", l)
    BY <1>2, <1>4, <1>6, MoveKeepsTypes
  <1> QED
    BY <1>3, <1>5, <1>6

\* The same for a request that starts over and carries a run.
LEMMA CarryKeepsTypes ==
    ASSUME LedgerTypes, NEW r \in Requests, NEW run \in Requests,
           Carry(r, run), UNCHANGED now, FileTypes',
           gate' \in Requests \union {Nobody},
           entries' \in [Servers -> Readies(now) \union Locals(now) \union {Absent}]
    PROVE  LedgerTypes'
  <1> DEFINE l == [hold[r] EXCEPT !.carried = IF hold[r].carried = NoRun THEN run ELSE hold[r].carried]
  <1>1. hold[r] \in Holds(now)
    BY DEF LedgerTypes, RequestTypes
  <1>2. l \in Holds(now)
    BY <1>1 DEF Holds
  <1>3. Move(r, "new", l) /\ "new" \in Stages \ Holding
    BY DEF Carry, Stages, Holding
  <1> HIDE DEF l
  <1> QED
    BY <1>2, <1>3, MoveKeepsTypes

-----------------------------------------------------------------------------
(* Types, one lemma per group of actions. *)

\* The steps of the admission loop that only read the disk.
LEMMA AdmissionTypes ==
    ASSUME LedgerTypes, NEW r \in Requests, UNCHANGED content,
           LookMemory(r) \/ WakeWaiter(r) \/ ReadDisk(r) \/ FindOrphan(r) \/ PeerPoll(r)
    PROVE  LedgerTypes'
  <1> DEFINE Table == [Servers -> Readies(now) \union Locals(now) \union {Absent}]
             Calm == Stages \ (Holding \union {"replay", "publish", "wait"})
  <1>0. /\ hold[r] \in Holds(now)
        /\ MemoryOf(r) \in Readies(now) \union Locals(now) \union {Absent}
        /\ FileTypes /\ entries \in Table /\ gate \in Requests \union {Nobody}
    BY LedgerAssumption DEF LedgerTypes, RequestTypes, MemoryOf
  <1>a. {"new", "disk", "scan", "gate", "failed", "conflict", "busy"} \subseteq Calm
    BY DEF Stages, Holding, Ended
  <1>b. LoadReady # Absent => LoadReady \in Readies(now)
    BY <1>0 DEF LoadReady, FileTypes
  <1>1. CASE LookMemory(r)
    <2>1. PICK full \in BOOLEAN :
            LET e == Pruned(MemoryOf(r), full) IN
            /\ SetMemory(r, e)
            /\ \/ e.kind = "ready" /\ Replay(r, e)
               \/ e.kind = "pending" /\ WaitFor(r, e)
               \/ e.kind = "absent" /\ Goto(r, "disk")
      BY <1>1 DEF LookMemory
    <2> DEFINE e == Pruned(MemoryOf(r), full)
    <2>2. e \in {MemoryOf(r), Absent}
      BY DEF Pruned
    <2>3. entries' \in Table
      BY <2>1, <2>2, <1>0 DEF SetMemory
    <2> HIDE DEF e
    <2>4. FileTypes' /\ UNCHANGED <<now, gate>>
      BY <1>0, <1>1 DEF LookMemory, FileTypes
    <2>5. CASE e.kind = "ready" /\ Replay(r, e)
      <3>1. e \in Readies(now)
        BY <2>2, <2>5, <1>0 DEF Readies, Locals, Absent
      <3> QED
        BY <2>3, <2>4, <2>5, <3>1, <1>0, ReplayKeepsTypes
    <2>6. CASE e.kind = "pending" /\ WaitFor(r, e)
      <3>1. e \in Locals(now)
        BY <2>2, <2>6, <1>0 DEF Readies, Locals, Absent
      <3> QED
        BY <2>3, <2>4, <2>6, <3>1, <1>0, WaitKeepsTypes
    <2>7. CASE e.kind = "absent" /\ Goto(r, "disk")
      BY <2>3, <2>4, <2>7, <1>0, <1>a, GotoKeepsTypes
    <2> QED
      BY <2>1, <2>5, <2>6, <2>7 DEF e
  <1>2. CASE WakeWaiter(r)
    <2>1. FileTypes' /\ UNCHANGED <<now, gate, entries>> /\ Goto(r, "new")
      BY <1>0, <1>2 DEF WakeWaiter, FileTypes
    <2> QED
      BY <2>1, <1>0, <1>a, GotoKeepsTypes
  <1>3. CASE ReadDisk(r)
    <2>1. FileTypes' /\ UNCHANGED <<now, gate, entries>>
      BY <1>0, <1>3 DEF ReadDisk, FileTypes
    <2>2. \/ LoadReady # Absent /\ Replay(r, LoadReady)
          \/ \E s \in {"scan", "gate"} : Goto(r, s)
      BY <1>3 DEF ReadDisk
    <2>3. CASE LoadReady # Absent /\ Replay(r, LoadReady)
      BY <2>1, <2>3, <1>0, <1>b, ReplayKeepsTypes
    <2>4. CASE \E s \in {"scan", "gate"} : Goto(r, s)
      BY <2>1, <2>4, <1>0, <1>a, GotoKeepsTypes
    <2> QED
      BY <2>2, <2>3, <2>4
  <1>4. CASE FindOrphan(r)
    <2> DEFINE live == {x \in sidecars : now - x.created < ReadyTtl}
    <2>1. /\ sidecars' = live
          /\ \/ \E s \in {"gate", "failed", "conflict"} : Goto(r, s)
             \/ \E x \in live : Move(r, "gate", [hold[r] EXCEPT !.carried = x.run])
          /\ UNCHANGED <<now, pendingFile, readyFile, expiryIndex, gate, entries, accepted, published>>
      BY <1>4 DEF FindOrphan
    <2>2. FileTypes'
      BY <2>1, <1>0 DEF FileTypes
    <2>3. \A x \in live : [hold[r] EXCEPT !.carried = x.run] \in Holds(now)
      BY <1>0 DEF FileTypes, Holds
    <2> HIDE DEF live
    <2>4. CASE \E s \in {"gate", "failed", "conflict"} : Goto(r, s)
      BY <2>1, <2>2, <2>4, <1>0, <1>a, GotoKeepsTypes
    <2>5. ASSUME NEW x \in live, Move(r, "gate", [hold[r] EXCEPT !.carried = x.run])
          PROVE  LedgerTypes'
      BY <2>1, <2>2, <2>3, <2>5, <1>0, <1>a, MoveKeepsTypes
    <2> QED
      BY <2>1, <2>4, <2>5
  <1>5. CASE PeerPoll(r)
    <2>1. FileTypes' /\ UNCHANGED <<now, gate, entries>>
      BY <1>0, <1>5 DEF PeerPoll, FileTypes
    <2>2. \/ LoadReady # Absent /\ Replay(r, LoadReady)
          \/ pendingFile # Absent /\ Carry(r, pendingFile.run)
          \/ \E s \in {"new", "conflict", "busy"} : Goto(r, s)
      BY <1>5 DEF PeerPoll
    <2>3. CASE LoadReady # Absent /\ Replay(r, LoadReady)
      BY <2>1, <2>3, <1>0, <1>b, ReplayKeepsTypes
    <2>4. CASE pendingFile # Absent /\ Carry(r, pendingFile.run)
      <3>1. pendingFile.run \in Requests
        BY <2>4, <1>0 DEF FileTypes, Claims
      <3> QED
        BY <2>1, <2>4, <3>1, <1>0, CarryKeepsTypes
    <2>5. CASE \E s \in {"new", "conflict", "busy"} : Goto(r, s)
      BY <2>1, <2>5, <1>0, <1>a, GotoKeepsTypes
    <2> QED
      BY <2>2, <2>3, <2>4, <2>5
  <1> QED
    BY <1>1, <1>2, <1>3, <1>4, <1>5

\* The claim a request writes is typed, and so is what it remembers of it.
LEMMA ClaimWritesTypes ==
    ASSUME LedgerTypes, NEW r \in Requests, NEW s \in {"register", "failed"},
           UNCHANGED <<content, now, expiryIndex, sidecars, accepted, published, entries>>,
           readyFile' = Absent, gate' \in Requests \union {Nobody},
           ClaimWrites(r, s)
    PROVE  LedgerTypes'
  <1> DEFINE run == IF ReapedPending # Absent THEN ReapedPending.run
                    ELSE IF hold[r].carried # NoRun THEN hold[r].carried ELSE r
             l == [hold[r] EXCEPT !.run = run, !.gen = NextGeneration]
  <1>0. /\ FileTypes /\ hold[r] \in Holds(now)
        /\ entries \in [Servers -> Readies(now) \union Locals(now) \union {Absent}]
    BY DEF LedgerTypes, RequestTypes
  <1>1. ReapedPending \in Claims(now) \union {Absent}
    BY <1>0 DEF ReapedPending, Retired, FileTypes
  <1>2. run \in Requests
    BY <1>0, <1>1 DEF Claims, Holds
  <1>3. NextGeneration \in Nat
    BY <1>0, <1>1 DEF NextGeneration, FloorGeneration, FileTypes, Claims, Readies
  <1>4. l \in Holds(now) /\ l.run = run
    BY <1>0, <1>2, <1>3 DEF Holds
  <1>5. pendingFile' = Pending(content[r], run, r, NextGeneration) /\ Move(r, s, l)
    BY DEF ClaimWrites
  <1>6. pendingFile' \in Claims(now)
    BY <1>0, <1>2, <1>3, <1>5, ContentType DEF Pending, Claims, FileTypes
  <1>7. FileTypes'
    BY <1>0, <1>6 DEF FileTypes
  <1>8. s \in Stages /\ s \notin {"replay", "publish", "wait"}
    BY DEF Stages, Ended
  <1> HIDE DEF l, run
  <1> QED
    BY <1>0, <1>2, <1>4, <1>5, <1>7, <1>8, MoveKeepsTypes

\* The gate and the claim.
LEMMA ClaimTypes ==
    ASSUME LedgerTypes, NEW r \in Requests, UNCHANGED content,
           AcquireGate(r) \/ ClaimPending(r) \/ ClaimRefused(r)
    PROVE  LedgerTypes'
  <1> DEFINE Table == [Servers -> Readies(now) \union Locals(now) \union {Absent}]
             Calm == Stages \ (Holding \union {"replay", "publish", "wait"})
  <1>0. /\ FileTypes /\ entries \in Table /\ gate \in Requests \union {Nobody}
    BY DEF LedgerTypes, RequestTypes
  <1>a. {"claim", "peer", "conflict", "busy"} \subseteq Calm
    BY DEF Stages, Holding, Ended
  <1>b. /\ ReapedPending \in Claims(now) \union {Absent}
        /\ ReapedReady \in Readies(now) \union {Absent}
    BY <1>0 DEF ReapedPending, Retired, ReapedReady, LoadReady, FileTypes
  <1>1. CASE AcquireGate(r)
    <2>1. /\ FileTypes' /\ UNCHANGED <<now, entries>> /\ gate' \in Requests \union {Nobody}
          /\ \E s \in {"claim", "conflict", "busy"} : Goto(r, s)
      BY <1>0, <1>1 DEF AcquireGate, FileTypes
    <2> QED
      BY <2>1, <1>0, <1>a, GotoKeepsTypes
  <1>2. CASE ClaimPending(r)
    <2>0. /\ UNCHANGED <<now, entries, expiryIndex, sidecars, accepted, published>>
          /\ readyFile' = ReapedReady
          /\ gate' \in Requests \union {Nobody}
      BY <1>0, <1>2 DEF ClaimPending, DropGate
    <2>1. CASE ReapedReady = Absent /\ ClaimWrites(r, "register")
      BY <2>0, <2>1, ClaimWritesTypes
    <2>2. CASE /\ pendingFile' \in {pendingFile, ReapedPending}
               /\ \/ ReapedReady # Absent /\ Replay(r, ReapedReady)
                  \/ \E s \in {"conflict", "peer"} : Goto(r, s)
      <3>1. FileTypes'
        BY <1>0, <1>b, <2>0, <2>2 DEF FileTypes
      <3>2. CASE ReapedReady # Absent /\ Replay(r, ReapedReady)
        BY <1>0, <1>b, <2>0, <3>1, <3>2, ReplayKeepsTypes
      <3>3. CASE \E s \in {"conflict", "peer"} : Goto(r, s)
        BY <1>0, <1>a, <2>0, <3>1, <3>3, GotoKeepsTypes
      <3> QED
        BY <2>2, <3>2, <3>3
    <2> QED
      BY <1>2, <2>1, <2>2 DEF ClaimPending
  <1>3. CASE ClaimRefused(r)
    <2>0. /\ UNCHANGED <<now, entries, expiryIndex, sidecars, accepted, published>>
          /\ gate' \in Requests \union {Nobody}
      BY <1>0, <1>3 DEF ClaimRefused, DropGate
    <2>1. CASE Goto(r, "busy") /\ UNCHANGED <<pendingFile, readyFile>>
      <3>1. FileTypes'
        BY <1>0, <2>0, <2>1 DEF FileTypes
      <3> QED
        BY <1>0, <1>a, <2>0, <2>1, <3>1, GotoKeepsTypes
    <2>2. CASE readyFile' = Absent /\ ClaimWrites(r, "failed")
      BY <2>0, <2>2, ClaimWritesTypes
    <2> QED
      BY <1>3, <2>1, <2>2 DEF ClaimRefused
  <1> QED
    BY <1>1, <1>2, <1>3

\* From the registration in memory to the sidecar.
LEMMA ExecutionTypes ==
    ASSUME LedgerTypes, NEW r \in Requests, UNCHANGED content,
           RegisterOwner(r) \/ CheckOwner(r) \/ Execute(r) \/ WriteSidecar(r)
    PROVE  LedgerTypes'
  <1> DEFINE Table == [Servers -> Readies(now) \union Locals(now) \union {Absent}]
             Calm == Stages \ (Holding \union {"replay", "publish", "wait"})
  <1>0. /\ FileTypes /\ entries \in Table /\ gate \in Requests \union {Nobody}
        /\ hold[r] \in Holds(now) /\ MemoryOf(r) \in Readies(now) \union Locals(now) \union {Absent}
        /\ ServerOf[r] \in Servers
        /\ stage[r] \in Holding => hold[r].run \in Requests
    BY LedgerAssumption DEF LedgerTypes, RequestTypes, RecordKinds, MemoryOf
  <1>a. {"new", "failed", "busy"} \subseteq Calm /\ Holding \subseteq Stages
    BY DEF Stages, Holding, Ended
  <1>1. CASE RegisterOwner(r)
    <2>0. stage[r] \in Holding
      BY <1>1 DEF RegisterOwner, Holding
    <2>1. FileTypes' /\ UNCHANGED now /\ gate' \in Requests \union {Nobody}
      BY <1>0, <1>1 DEF RegisterOwner, FileTypes, ReleaseOwn, DropGate, WaitFor
    <2>2. CASE UNCHANGED entries /\ \E s \in {"new", "busy"} : Goto(r, s)
      BY <1>0, <1>a, <2>1, <2>2, GotoKeepsTypes
    <2>3. CASE UNCHANGED entries /\ MemoryOf(r).kind = "pending" /\ WaitFor(r, MemoryOf(r))
      <3>1. MemoryOf(r) \in Locals(now)
        BY <1>0, <2>3 DEF Readies, Locals, Absent
      <3> QED
        BY <1>0, <2>1, <2>3, <3>1, WaitKeepsTypes
    <2>4. CASE SetMemory(r, MemoryPending(r)) /\ Goto(r, "check")
      <3>1. MemoryPending(r) \in Locals(now)
        BY <1>0, ContentType DEF MemoryPending, Locals, FileTypes
      <3>2. entries' \in Table
        BY <1>0, <2>4, <3>1 DEF SetMemory
      <3> QED
        BY <1>0, <1>a, <2>0, <2>1, <2>4, <3>2, MoveKeepsTypes DEF Goto, Holding
    <2> QED
      BY <1>1, <2>2, <2>3, <2>4 DEF RegisterOwner
  <1>2. CASE CheckOwner(r)
    <2>0. stage[r] \in Holding
      BY <1>2 DEF CheckOwner, Holding
    <2>1. /\ FileTypes' /\ UNCHANGED now /\ gate' \in Requests \union {Nobody}
          /\ entries' \in Table
      BY <1>0, <1>2 DEF CheckOwner, FileTypes, DropGate, Withdraw
    <2>2. CASE Goto(r, "execute")
      BY <1>0, <1>a, <2>0, <2>1, <2>2, MoveKeepsTypes DEF Goto, Holding
    <2>3. CASE Carry(r, hold[r].run)
      BY <1>0, <2>0, <2>1, <2>3, CarryKeepsTypes
    <2> QED
      BY <1>2, <2>2, <2>3 DEF CheckOwner
  <1>3. CASE Execute(r)
    <2>0. stage[r] \in Holding
      BY <1>3 DEF Execute, Holding
    <2>1. /\ FileTypes' /\ UNCHANGED now /\ gate' \in Requests \union {Nobody}
          /\ entries' \in Table
      BY <1>0, <1>3, <2>0 DEF Execute, FileTypes, DropGate, Withdraw
    <2>2. CASE Goto(r, "sidecar")
      BY <1>0, <1>a, <2>0, <2>1, <2>2, MoveKeepsTypes DEF Goto, Holding
    <2>3. CASE Goto(r, "failed")
      BY <1>0, <1>a, <2>1, <2>3, GotoKeepsTypes
    <2> QED
      BY <1>3, <2>2, <2>3 DEF Execute
  <1>4. CASE WriteSidecar(r)
    <2>0. stage[r] \in Holding
      BY <1>4 DEF WriteSidecar, Holding
    <2>1. FileTypes' /\ UNCHANGED <<now, gate, entries>> /\ Goto(r, "store")
      BY <1>0, <1>4, <2>0, ContentType DEF WriteSidecar, FileTypes
    <2> QED
      BY <1>0, <1>a, <2>0, <2>1, MoveKeepsTypes DEF Goto, Holding
  <1> QED
    BY <1>1, <1>2, <1>3, <1>4

\* The commit, the replay and the cleanup.
LEMMA CommitTypes ==
    ASSUME LedgerTypes, NEW r \in Requests, UNCHANGED content,
           StoreReady(r) \/ StoreFails(r) \/ PublishMemory(r) \/ ReplayReady(r)
               \/ GuardWithdraw(r) \/ DropRequest(r)
    PROVE  LedgerTypes'
  <1> DEFINE Table == [Servers -> Readies(now) \union Locals(now) \union {Absent}]
             Calm == Stages \ (Holding \union {"replay", "publish", "wait"})
             rec == Ready(content[r], hold[r].run, hold[r].gen)
  <1>0. /\ FileTypes /\ entries \in Table /\ gate \in Requests \union {Nobody}
        /\ hold[r] \in Holds(now) /\ ServerOf[r] \in Servers
        /\ stage[r] \in Holding => hold[r].run \in Requests
        /\ stage[r] \in {"replay", "publish"} => hold[r].record \in Readies(now)
    BY LedgerAssumption DEF LedgerTypes, RequestTypes, RecordKinds
  <1>a. {"new", "failed", "answered", "conflict", "dropping", "dropped"} \subseteq Calm
    BY DEF Stages, Holding, Ended
  <1>b. stage[r] = "store" => rec \in Readies(now)
    BY <1>0, ContentType DEF Ready, Readies, Holding, Holds, FileTypes
  <1>1. CASE StoreReady(r)
    <2> DEFINE l == [hold[r] EXCEPT !.record = rec]
    <2>0. rec \in Readies(now)
      BY <1>1, <1>b DEF StoreReady
    <2> HIDE DEF rec
    <2>1. l \in Holds(now) /\ l.record = rec
      BY <1>0, <2>0 DEF Holds
    <2>2. /\ UNCHANGED <<now, gate, entries, sidecars, accepted>>
          /\ expiryIndex' = expiryIndex \union {rec} /\ readyFile' = rec
          /\ published' = published \union {rec}
          /\ pendingFile' \in {pendingFile, Absent}
          /\ Move(r, "publish", l)
      BY <1>1 DEF StoreReady, Retired, rec
    <2>3. FileTypes'
      BY <1>0, <2>0, <2>2 DEF FileTypes
    <2>4. "publish" \in Stages \ Holding
      BY DEF Stages, Holding
    <2> HIDE DEF l
    <2> QED
      BY <1>0, <2>0, <2>1, <2>2, <2>3, <2>4, MoveKeepsTypes
  <1>2. CASE StoreFails(r)
    <2>0. rec \in Readies(now)
      BY <1>2, <1>b DEF StoreFails
    <2>1. /\ UNCHANGED <<now, pendingFile, readyFile, sidecars, accepted, published>>
          /\ expiryIndex' \in {expiryIndex, expiryIndex \union {rec}}
          /\ Withdraw(r) /\ DropGate(r) /\ Goto(r, "failed")
      BY <1>2 DEF StoreFails
    <2> HIDE DEF rec
    <2>2. FileTypes' /\ gate' \in Requests \union {Nobody} /\ entries' \in Table
      BY <1>0, <2>0, <2>1 DEF FileTypes, Withdraw, DropGate
    <2> QED
      BY <1>a, <2>1, <2>2, GotoKeepsTypes
  <1>3. CASE PublishMemory(r)
    <2>1. /\ FileTypes' /\ UNCHANGED now /\ gate' \in Requests \union {Nobody}
          /\ Goto(r, "answered")
      BY <1>0, <1>3 DEF PublishMemory, FileTypes, ReleaseOwn, DropGate
    <2>2. entries' \in Table
      BY <1>0, <1>3 DEF PublishMemory, SetMemory
    <2> QED
      BY <1>a, <2>1, <2>2, GotoKeepsTypes
  <1>4. CASE ReplayReady(r)
    <2>1. /\ FileTypes' /\ UNCHANGED <<now, gate>>
          /\ \E s \in {"conflict", "answered", "failed", "new"} : Goto(r, s)
      BY <1>0, <1>4 DEF ReplayReady, FileTypes
    <2>2. entries' \in Table
      BY <1>0, <1>4 DEF ReplayReady, SetMemory
    <2> QED
      BY <1>0, <1>a, <2>1, <2>2, GotoKeepsTypes
  <1>5. CASE GuardWithdraw(r)
    <2>1. /\ FileTypes' /\ UNCHANGED <<now, gate>> /\ Goto(r, "dropped") /\ entries' \in Table
      BY <1>0, <1>5 DEF GuardWithdraw, FileTypes, Withdraw
    <2> QED
      BY <1>0, <1>a, <2>1, GotoKeepsTypes
  <1>6. CASE DropRequest(r)
    <2>1. /\ FileTypes' /\ UNCHANGED <<now, entries>> /\ gate' \in Requests \union {Nobody}
          /\ \E s \in {"dropping", "dropped"} : Goto(r, s)
      BY <1>0, <1>6 DEF DropRequest, FileTypes, DropGate
    <2> QED
      BY <1>0, <1>a, <2>1, GotoKeepsTypes
  <1> QED
    BY <1>1, <1>2, <1>3, <1>4, <1>5, <1>6

\* The sweep, a crash and the clock.
LEMMA FaultTypes ==
    ASSUME LedgerTypes, UNCHANGED content,
           (\E rec \in expiryIndex : Reap(rec)) \/ (\E s \in Servers : Crash(s)) \/ Tick
    PROVE  LedgerTypes'
  <1>0. FileTypes /\ RequestTypes /\ RecordKinds
    BY DEF LedgerTypes
  <1>1. ASSUME NEW rec \in expiryIndex, Reap(rec) PROVE LedgerTypes'
    <2>1. /\ UNCHANGED <<now, sidecars, gate, entries, stage, hold, accepted, published>>
          /\ readyFile' \in {readyFile, Absent} /\ pendingFile' \in {pendingFile, Absent}
          /\ expiryIndex' \subseteq expiryIndex
      BY <1>1 DEF Reap, Retired
    <2> QED
      BY <1>0, <2>1 DEF LedgerTypes, FileTypes, RequestTypes, RecordKinds
  <1>2. ASSUME NEW s \in Servers, Crash(s) PROVE LedgerTypes'
    <2> DEFINE lost == {r \in Requests : ServerOf[r] = s /\ stage[r] \notin Ended}
    <2>0. EmptyHold \in Holds(now) /\ "dropped" \in Stages
      BY DEF EmptyHold, Holds, Stages, Ended
    <2>1. /\ UNCHANGED <<now, pendingFile, readyFile, expiryIndex, sidecars, accepted, published>>
          /\ stage' = [r \in Requests |-> IF r \in lost THEN "dropped" ELSE stage[r]]
          /\ hold' = [r \in Requests |-> IF r \in lost THEN EmptyHold ELSE hold[r]]
          /\ gate' = IF gate \in lost THEN Nobody ELSE gate
          /\ entries' = [entries EXCEPT ![s] = Absent]
      BY <1>2 DEF Crash
    <2> HIDE DEF lost
    <2>2. FileTypes' /\ RequestTypes'
      BY <1>0, <2>0, <2>1 DEF FileTypes, RequestTypes
    <2>3. RecordKinds'
      BY <1>0, <2>1 DEF RecordKinds, Holding
    <2> QED
      BY <2>2, <2>3 DEF LedgerTypes
  <1>3. CASE Tick
    <2>1. /\ UNCHANGED <<pendingFile, readyFile, expiryIndex, sidecars, gate, entries,
                         stage, hold, accepted, published>>
          /\ now \in Nat /\ now' = now + 1
      BY <1>0, <1>3 DEF Tick, FileTypes
    <2>2. /\ Readies(now) \subseteq Readies(now') /\ Claims(now) \subseteq Claims(now')
          /\ Locals(now) \subseteq Locals(now') /\ Holds(now) \subseteq Holds(now')
          /\ 0..now \subseteq 0..now'
      BY <2>1, LaterRecords
    <2>3. FileTypes'
      BY <1>0, <2>1, <2>2 DEF FileTypes
    <2>4. RequestTypes'
      BY <1>0, <2>1, <2>2 DEF RequestTypes
    <2>5. RecordKinds'
      BY <1>0, <2>1, <2>2 DEF RecordKinds
    <2> QED
      BY <2>3, <2>4, <2>5 DEF LedgerTypes
  <1> QED
    BY <1>1, <1>2, <1>3

\* Every step keeps the types.
LEMMA LedgerTypesStep ==
    ASSUME LedgerTypes, LedgerNext
    PROVE  LedgerTypes'
  BY AdmissionTypes, ClaimTypes, ExecutionTypes, CommitTypes, FaultTypes
     DEF LedgerNext, RequestStep

-----------------------------------------------------------------------------
(* The gate. *)

\* A step of a request outside the gate changes nothing the gate protects.
LEMMA OutsideGate ==
    ASSUME LedgerTypes, GateInv, NEW r \in Requests, NEW s \in Stages \ Gated,
           NEW l \in Holds(now), Move(r, s, l), stage[r] \notin Gated,
           UNCHANGED <<content, now, gate, pendingFile, readyFile>>
    PROVE  GateInv'
  <1>1. /\ stage'[r] = s
        /\ \A q \in Requests \ {r} : stage'[q] = stage[q] /\ hold'[q] = hold[q]
    BY Moved DEF LedgerTypes
  <1> QED
    BY <1>1 DEF GateInv, OwnClaim, Gated, Holding

\* The holder of the gate is the only request inside: when it leaves, nobody
\* is left to protect.
LEMMA LeavesGate ==
    ASSUME LedgerTypes, GateInv, NEW r \in Requests, NEW s \in Stages \ Gated,
           NEW l \in Holds(now), Move(r, s, l), UNCHANGED now, stage[r] \in Gated
    PROVE  GateInv'
  <1>1. /\ stage'[r] = s
        /\ \A q \in Requests \ {r} : stage'[q] = stage[q]
    BY Moved DEF LedgerTypes
  <1>2. \A q \in Requests : stage'[q] \notin Gated
    BY <1>1 DEF GateInv
  <1> QED
    BY <1>2 DEF GateInv, Gated

\* The holder moves on inside the gate.
LEMMA StaysInGate ==
    ASSUME LedgerTypes, GateInv, NEW r \in Requests, NEW s \in Gated,
           NEW l \in Holds(now), Move(r, s, l), UNCHANGED <<content, now, gate>>,
           stage[r] \in Gated,
           s \in Holding => /\ OwnClaim(r)' /\ pendingFile'.run = l.run
                            /\ readyFile' = Absent
    PROVE  GateInv'
  <1>0. s \in Stages
    BY DEF Stages, Gated, Holding
  <1>1. /\ stage'[r] = s
        /\ \A q \in Requests \ {r} : stage'[q] = stage[q]
        /\ s \notin Ended => hold'[r].run = l.run
    BY <1>0, Moved DEF LedgerTypes
  <1>2. \A q \in Requests \ {r} : stage'[q] \notin Gated
    BY <1>1 DEF GateInv
  <1>3. gate' = r
    BY DEF GateInv
  <1>4. s \in Holding => s \notin Ended
    BY DEF Holding, Ended
  <1> QED
    BY <1>1, <1>2, <1>3, <1>4 DEF GateInv, Gated

\* A claim is written for its run, owner and generation.
LEMMA ClaimWritesOwns ==
    ASSUME LedgerTypes, NEW r \in Requests, ClaimWrites(r, "register"), UNCHANGED <<content, now>>
    PROVE  \E l \in Holds(now) :
              /\ Move(r, "register", l) /\ OwnClaim(r)' /\ pendingFile'.run = l.run
  <1> DEFINE run == IF ReapedPending # Absent THEN ReapedPending.run
                    ELSE IF hold[r].carried # NoRun THEN hold[r].carried ELSE r
             l == [hold[r] EXCEPT !.run = run, !.gen = NextGeneration]
  <1>0. /\ FileTypes /\ hold[r] \in Holds(now) /\ RequestTypes
    BY DEF LedgerTypes, RequestTypes
  <1>1. ReapedPending \in Claims(now) \union {Absent}
    BY <1>0 DEF ReapedPending, Retired, FileTypes
  <1>2. run \in Requests
    BY <1>0, <1>1 DEF Claims, Holds
  <1>3. NextGeneration \in Nat
    BY <1>0, <1>1 DEF NextGeneration, FloorGeneration, FileTypes, Claims, Readies
  <1>4. l \in Holds(now) /\ l.run = run /\ l.gen = NextGeneration
    BY <1>0, <1>2, <1>3 DEF Holds
  <1>5. pendingFile' = Pending(content[r], run, r, NextGeneration) /\ Move(r, "register", l)
    BY DEF ClaimWrites
  <1>6. pendingFile'.owner = r /\ pendingFile'.gen = NextGeneration
        /\ pendingFile'.digest = content[r] /\ pendingFile'.run = run /\ pendingFile' # Absent
    BY <1>5 DEF Pending, Absent
  <1> HIDE DEF l, run
  <1>7. hold'[r].gen = NextGeneration
    <2>1. "register" \in Stages \ Ended
      BY DEF Stages, Ended
    <2> QED
      BY <1>0, <1>4, <1>5, <2>1, Moved
  <1> QED
    BY <1>4, <1>5, <1>6, <1>7 DEF OwnClaim

\* A replay, a wait, a carried run or a plain Goto is a Move with typed locals.
LEMMA IsMove ==
    ASSUME LedgerTypes, NEW r \in Requests
    PROVE  /\ \A s : Goto(r, s) => \E l \in Holds(now) : Move(r, s, l) /\ l.run = hold[r].run
           /\ \A rec \in Readies(now) : Replay(r, rec) => \E l \in Holds(now) : Move(r, "replay", l)
           /\ \A e \in Locals(now) : WaitFor(r, e) =>
                  \E s \in {"wait", "conflict"} : \E l \in Holds(now) : Move(r, s, l)
           /\ \A run \in Requests : Carry(r, run) => \E l \in Holds(now) : Move(r, "new", l)
  <1>0. hold[r] \in Holds(now)
    BY DEF LedgerTypes, RequestTypes
  <1>1. \A rec \in Readies(now) : [hold[r] EXCEPT !.record = rec] \in Holds(now)
    BY <1>0 DEF Holds
  <1>2. \A e \in Locals(now) : [hold[r] EXCEPT !.record = e] \in Holds(now)
    BY <1>0 DEF Holds
  <1>3. \A run \in Requests :
           [hold[r] EXCEPT !.carried = IF hold[r].carried = NoRun THEN run ELSE hold[r].carried] \in Holds(now)
    BY <1>0 DEF Holds
  <1>4. \A s : Goto(r, s) => \E l \in Holds(now) : Move(r, s, l) /\ l.run = hold[r].run
    BY <1>0 DEF Goto
  <1>5. \A rec \in Readies(now) : Replay(r, rec) => \E l \in Holds(now) : Move(r, "replay", l)
    BY <1>1 DEF Replay
  <1>6. \A e \in Locals(now) : WaitFor(r, e) =>
                  \E s \in {"wait", "conflict"} : \E l \in Holds(now) : Move(r, s, l)
    BY <1>0, <1>2 DEF WaitFor, Goto
  <1>7. \A run \in Requests : Carry(r, run) => \E l \in Holds(now) : Move(r, "new", l)
    BY <1>3 DEF Carry
  <1> QED
    BY <1>4, <1>5, <1>6, <1>7

MovesTo(r, S) == \E s \in S : \E l \in Holds(now) : Move(r, s, l)

\* The steps outside the gate: where the request can go.
LEMMA OutsideMoves ==
    ASSUME LedgerTypes, NEW r \in Requests,
           \/ LookMemory(r) \/ WakeWaiter(r) \/ ReadDisk(r) \/ FindOrphan(r)
           \/ PeerPoll(r) \/ ReplayReady(r) \/ GuardWithdraw(r)
    PROVE  /\ MovesTo(r, Stages \ (Gated \union Owning))
           /\ stage[r] \notin Gated
           /\ UNCHANGED <<now, gate, pendingFile, readyFile, published>>
  <1> DEFINE Out == Stages \ (Gated \union Owning)
  <1>0. /\ MemoryOf(r) \in Readies(now) \union Locals(now) \union {Absent}
        /\ FileTypes /\ hold[r] \in Holds(now)
    BY LedgerAssumption DEF LedgerTypes, RequestTypes, MemoryOf
  <1>a. /\ \A s \in Out : Goto(r, s) => MovesTo(r, Out)
        /\ \A rec \in Readies(now) : Replay(r, rec) => MovesTo(r, Out)
        /\ \A e \in Locals(now) : WaitFor(r, e) => MovesTo(r, Out)
        /\ \A run \in Requests : Carry(r, run) => MovesTo(r, Out)
        /\ \A l \in Holds(now) : Move(r, "gate", l) => MovesTo(r, Out)
    <2>1. {"replay", "wait", "conflict", "new", "gate"} \subseteq Out
      BY DEF Stages, Gated, Holding, Owning, Ended
    <2> QED
      BY <2>1, IsMove DEF MovesTo
  <1>b. {"new", "disk", "scan", "gate", "conflict", "failed", "answered", "busy", "dropped"} \subseteq Out
    BY DEF Stages, Gated, Holding, Owning, Ended
  <1>c. LoadReady # Absent => LoadReady \in Readies(now)
    BY <1>0 DEF LoadReady, FileTypes
  <1> HIDE DEF Out
  <1>1. CASE LookMemory(r)
    <2>1. PICK full \in BOOLEAN :
            LET e == Pruned(MemoryOf(r), full) IN
               \/ e.kind = "ready" /\ Replay(r, e)
               \/ e.kind = "pending" /\ WaitFor(r, e)
               \/ e.kind = "absent" /\ Goto(r, "disk")
      BY <1>1 DEF LookMemory
    <2> DEFINE e == Pruned(MemoryOf(r), full)
    <2>2. e \in {MemoryOf(r), Absent}
      BY DEF Pruned
    <2>3. /\ e.kind = "ready" => e \in Readies(now)
          /\ e.kind = "pending" => e \in Locals(now)
      BY <1>0, <2>2 DEF Readies, Locals, Absent
    <2>4. MovesTo(r, Out)
      BY <1>a, <1>b, <2>1, <2>3
    <2> QED
      BY <1>1, <2>4 DEF LookMemory, Out, Gated, Holding
  <1>2. CASE WakeWaiter(r)
    BY <1>2, <1>a, <1>b DEF WakeWaiter, Out, Gated, Holding
  <1>3. CASE ReadDisk(r)
    BY <1>3, <1>a, <1>b, <1>c DEF ReadDisk, Out, Gated, Holding
  <1>4. CASE FindOrphan(r)
    <2>1. \A x \in sidecars : [hold[r] EXCEPT !.carried = x.run] \in Holds(now)
      BY <1>0 DEF FileTypes, Holds
    <2>2. \/ \E s \in {"gate", "failed", "conflict"} : Goto(r, s)
          \/ \E x \in sidecars : Move(r, "gate", [hold[r] EXCEPT !.carried = x.run])
      BY <1>4 DEF FindOrphan
    <2>3. MovesTo(r, Out)
      BY <1>a, <1>b, <2>1, <2>2
    <2> QED
      BY <1>4, <2>3 DEF FindOrphan, Out, Gated, Holding
  <1>5. CASE PeerPoll(r)
    <2>1. pendingFile # Absent => pendingFile.run \in Requests
      BY <1>0 DEF FileTypes, Claims
    <2>2. MovesTo(r, Out)
      BY <1>5, <1>a, <1>b, <1>c, <2>1 DEF PeerPoll
    <2> QED
      BY <1>5, <2>2 DEF PeerPoll, Out, Gated, Holding
  <1>6. CASE ReplayReady(r)
    <2>1. \E s \in {"conflict", "answered", "failed", "new"} : Goto(r, s)
      BY <1>6 DEF ReplayReady
    <2>2. MovesTo(r, Out)
      BY <1>a, <1>b, <2>1
    <2> QED
      BY <1>6, <2>2 DEF ReplayReady, Out, Gated, Holding
  <1>7. CASE GuardWithdraw(r)
    BY <1>7, <1>a, <1>b DEF GuardWithdraw, Out, Gated, Holding
  <1> QED
    BY <1>1, <1>2, <1>3, <1>4, <1>5, <1>6, <1>7 DEF Out

\* Every step keeps the gate's exclusion and the claim of its holder.
LEMMA GateStep ==
    ASSUME LedgerTypes, GateInv, LedgerNext
    PROVE  GateInv'
  <1>0. FileTypes /\ RequestTypes /\ RecordKinds
    BY DEF LedgerTypes
  <1> USE LedgerAssumption
  <1>1. ASSUME NEW r \in Requests, UNCHANGED content,
               \/ LookMemory(r) \/ WakeWaiter(r) \/ ReadDisk(r) \/ FindOrphan(r)
               \/ PeerPoll(r) \/ ReplayReady(r) \/ GuardWithdraw(r)
        PROVE  GateInv'
    BY <1>1, OutsideMoves, OutsideGate DEF MovesTo
  <1>2. ASSUME NEW r \in Requests, UNCHANGED content, AcquireGate(r) PROVE GateInv'
    <2>0. stage[r] \notin Gated /\ {"conflict", "busy"} \subseteq Stages \ Gated
      BY <1>2 DEF AcquireGate, Gated, Holding, Stages, Ended
    <2>1. CASE gate # Nobody
      <3>1. PICK s \in {"conflict", "busy"} : Goto(r, s)
        BY <1>2, <2>1 DEF AcquireGate
      <3>2. PICK l \in Holds(now) : Move(r, s, l)
        BY <3>1, IsMove
      <3> QED
        BY <1>2, <2>0, <2>1, <3>2, OutsideGate DEF AcquireGate
    <2>2. CASE gate = Nobody
      <3>1. \A q \in Requests : stage[q] \notin Gated
        BY <2>2, SentinelAssumption DEF GateInv
      <3>2. Goto(r, "claim") /\ gate' = r
        BY <1>2, <2>2 DEF AcquireGate
      <3>3. /\ stage'[r] = "claim"
            /\ \A q \in Requests \ {r} : stage'[q] = stage[q]
        BY <1>0, <3>2 DEF Goto, Move, RequestTypes
      <3> QED
        BY <3>1, <3>2, <3>3 DEF GateInv, Gated, Holding
    <2> QED
      BY <2>1, <2>2
  <1>3. ASSUME NEW r \in Requests, UNCHANGED content, ClaimPending(r) \/ ClaimRefused(r) PROVE GateInv'
    <2>0. stage[r] \in Gated /\ UNCHANGED now
      BY <1>3 DEF ClaimPending, ClaimRefused, Gated
    <2>1. CASE ReapedReady = Absent /\ readyFile' = Absent /\ ClaimWrites(r, "register") /\ UNCHANGED gate
      <3>1. PICK l \in Holds(now) : Move(r, "register", l) /\ OwnClaim(r)' /\ pendingFile'.run = l.run
        BY <1>3, <2>0, <2>1, ClaimWritesOwns
      <3>2. "register" \in Gated
        BY DEF Gated, Holding
      <3> QED
        BY <1>3, <2>0, <2>1, <3>1, <3>2, StaysInGate
    <2>2. CASE MovesTo(r, {"conflict", "replay", "peer", "busy", "failed"})
      <3>1. {"conflict", "replay", "peer", "busy", "failed"} \subseteq Stages \ Gated
        BY DEF Gated, Holding, Stages, Ended
      <3> QED
        BY <2>0, <2>2, <3>1, LeavesGate DEF MovesTo
    <2>3. CASE ClaimWrites(r, "failed")
      <3>1. stage' = [stage EXCEPT ![r] = "failed"]
        BY <2>3 DEF ClaimWrites, Move
      <3>2. \A q \in Requests : stage'[q] \notin Gated
        BY <1>0, <2>0, <3>1 DEF GateInv, RequestTypes, Gated, Holding
      <3> QED
        BY <3>2 DEF GateInv, Gated
    <2>4. CASE Replay(r, ReapedReady) /\ ReapedReady # Absent
      <3>1. ReapedReady \in Readies(now)
        BY <1>0, <2>4 DEF ReapedReady, LoadReady, FileTypes
      <3> QED
        BY <2>2, <2>4, <3>1, IsMove DEF MovesTo
    <2>5. CASE \E s \in {"conflict", "peer", "busy"} : Goto(r, s)
      BY <2>2, <2>5, IsMove DEF MovesTo
    <2> QED
      BY <1>3, <2>1, <2>3, <2>4, <2>5 DEF ClaimPending, ClaimRefused
  <1>4. ASSUME NEW r \in Requests, UNCHANGED content, RegisterOwner(r) PROVE GateInv'
    <2>0. stage[r] \in Holding /\ stage[r] \in Gated /\ UNCHANGED <<now, readyFile>>
      BY <1>4 DEF RegisterOwner, Gated, Holding
    <2>1. CASE \E s \in {"new", "busy"} : Goto(r, s)
      <3>1. {"new", "busy"} \subseteq Stages \ Gated
        BY DEF Gated, Holding, Stages, Ended
      <3> QED
        BY <2>0, <2>1, <3>1, IsMove, LeavesGate
    <2>2. CASE MemoryOf(r).kind = "pending" /\ WaitFor(r, MemoryOf(r))
      <3>1. MemoryOf(r) \in Locals(now)
        BY <1>0, <2>2 DEF RequestTypes, MemoryOf, Readies, Locals, Absent
      <3>2. {"wait", "conflict"} \subseteq Stages \ Gated
        BY DEF Gated, Holding, Stages, Ended
      <3> QED
        BY <2>0, <2>2, <3>1, <3>2, IsMove, LeavesGate
    <2>3. CASE UNCHANGED <<pendingFile, gate>> /\ Goto(r, "check")
      <3>1. "check" \in Gated /\ "check" \notin Ended /\ "check" \in Stages
        BY DEF Gated, Holding, Ended, Stages
      <3>2. PICK l \in Holds(now) : Move(r, "check", l) /\ l = hold[r]
        BY <1>0, <2>3 DEF Goto, RequestTypes
      <3>3. hold'[r].gen = hold[r].gen
        BY <1>0, <2>0, <3>1, <3>2, Moved
      <3>4. OwnClaim(r)' /\ pendingFile'.run = l.run /\ readyFile' = Absent
        BY <1>4, <2>0, <2>3, <3>2, <3>3 DEF GateInv, OwnClaim
      <3> QED
        BY <1>4, <2>0, <2>3, <3>1, <3>2, <3>4, StaysInGate
    <2> QED
      BY <1>4, <2>1, <2>2, <2>3 DEF RegisterOwner
  <1>5. ASSUME NEW r \in Requests, UNCHANGED content, NEW s \in {"execute", "sidecar", "store"},
               stage[r] \in Holding, Goto(r, s),
               UNCHANGED <<now, pendingFile, readyFile, gate>>
        PROVE  GateInv'
    <2>1. s \in Gated /\ s \notin Ended /\ s \in Stages /\ stage[r] \in Gated
      BY <1>5 DEF Gated, Holding, Ended, Stages
    <2>2. PICK l \in Holds(now) : Move(r, s, l) /\ l = hold[r]
      BY <1>0, <1>5 DEF Goto, RequestTypes
    <2>3. hold'[r].gen = hold[r].gen
      BY <1>0, <1>5, <2>1, <2>2, Moved
    <2>4. OwnClaim(r)' /\ pendingFile'.run = l.run /\ readyFile' = Absent
      BY <1>5, <2>2, <2>3 DEF GateInv, OwnClaim
    <2> QED
      BY <1>5, <2>1, <2>2, <2>4, StaysInGate
  <1>6. ASSUME NEW r \in Requests, UNCHANGED content, CheckOwner(r) PROVE GateInv'
    <2>0. stage[r] \in Holding
      BY <1>6 DEF CheckOwner, Holding
    <2>1. OwnClaim(r)
      BY <2>0 DEF GateInv
    <2> QED
      BY <1>5, <1>6, <2>0, <2>1 DEF CheckOwner
  <1>7. ASSUME NEW r \in Requests, UNCHANGED content, Execute(r) \/ StoreFails(r) \/ PublishMemory(r)
        PROVE GateInv'
    <2>0. stage[r] \in Gated /\ UNCHANGED now
      BY <1>7 DEF Execute, StoreFails, PublishMemory, Gated, Holding
    <2>1. CASE \E s \in {"failed", "answered"} : Goto(r, s)
      <3>1. {"failed", "answered"} \subseteq Stages \ Gated
        BY DEF Gated, Holding, Stages, Ended
      <3> QED
        BY <2>0, <2>1, <3>1, IsMove, LeavesGate
    <2>2. CASE Execute(r) /\ Goto(r, "sidecar") /\ UNCHANGED gate
      BY <1>5, <1>7, <2>2 DEF Execute, Holding
    <2> QED
      BY <1>7, <2>1, <2>2 DEF Execute, StoreFails, PublishMemory
  <1>8. ASSUME NEW r \in Requests, UNCHANGED content, WriteSidecar(r) PROVE GateInv'
    BY <1>5, <1>8 DEF WriteSidecar, Holding
  <1>9. ASSUME NEW r \in Requests, UNCHANGED content, StoreReady(r) PROVE GateInv'
    <2>0. stage[r] \in Gated /\ UNCHANGED now
      BY <1>9 DEF StoreReady, Gated, Holding
    <2>1. /\ stage' = [stage EXCEPT ![r] = "publish"] /\ UNCHANGED gate
      BY <1>9 DEF StoreReady, Move
    <2>2. stage'[r] = "publish" /\ \A q \in Requests \ {r} : stage'[q] = stage[q]
      BY <1>0, <2>1 DEF RequestTypes
    <2> QED
      BY <2>0, <2>1, <2>2 DEF GateInv, Gated, Holding
  <1>10. ASSUME NEW r \in Requests, UNCHANGED content, DropRequest(r) PROVE GateInv'
    <2>0. {"dropping", "dropped"} \subseteq Stages \ Gated /\ UNCHANGED now
      BY <1>10 DEF DropRequest, Gated, Holding, Stages, Ended
    <2>1. PICK s \in {"dropping", "dropped"} : Goto(r, s)
      BY <1>10 DEF DropRequest
    <2>2. PICK l \in Holds(now) : Move(r, s, l)
      BY <2>1, IsMove
    <2>3. CASE stage[r] \in Gated
      BY <2>0, <2>2, <2>3, LeavesGate
    <2>4. CASE stage[r] \notin Gated /\ gate # r
      BY <1>10, <2>0, <2>2, <2>4, OutsideGate DEF DropRequest, DropGate
    <2>5. CASE stage[r] \notin Gated /\ gate = r
      <3>1. \A q \in Requests : stage[q] \notin Gated
        BY <2>5 DEF GateInv
      <3>2. \A q \in Requests : stage'[q] \notin Gated
        BY <1>0, <2>0, <2>1, <3>1 DEF Goto, Move, RequestTypes
      <3> QED
        BY <3>2 DEF GateInv, Gated
    <2> QED
      BY <2>3, <2>4, <2>5
  <1>11. ASSUME NEW rec \in expiryIndex, UNCHANGED content, Reap(rec) PROVE GateInv'
    <2>1. readyFile = Absent => UNCHANGED <<readyFile, pendingFile>>
      <3>1. rec \in Readies(now)
        BY <1>0, <1>11 DEF FileTypes
      <3>2. rec # Absent
        BY <3>1 DEF Readies, Absent
      <3> QED
        BY <1>11, <3>2 DEF Reap
    <2> QED
      BY <1>11, <2>1 DEF GateInv, Reap, OwnClaim
  <1>12. ASSUME NEW s \in Servers, UNCHANGED content, Crash(s) PROVE GateInv'
    <2> DEFINE lost == {r \in Requests : ServerOf[r] = s /\ stage[r] \notin Ended}
    <2>1. /\ UNCHANGED <<pendingFile, readyFile>>
          /\ stage' = [r \in Requests |-> IF r \in lost THEN "dropped" ELSE stage[r]]
          /\ hold' = [r \in Requests |-> IF r \in lost THEN EmptyHold ELSE hold[r]]
          /\ gate' = IF gate \in lost THEN Nobody ELSE gate
      BY <1>12 DEF Crash
    <2> HIDE DEF lost
    <2> QED
      BY <1>12, <2>1 DEF GateInv, OwnClaim, Gated, Holding
  <1>13. CASE UNCHANGED content /\ Tick
    BY <1>13 DEF GateInv, Tick, OwnClaim
  <1> QED
    BY <1>1, <1>2, <1>3, <1>4, <1>6, <1>7, <1>8, <1>9, <1>10, <1>11, <1>12, <1>13
       DEF LedgerNext, RequestStep

-----------------------------------------------------------------------------
(* The committed records. *)

\* A record leaves the ready file only when its TTL has run out, so the next
\* one that is committed is at least a TTL younger.
LEMMA PublishedStep ==
    ASSUME LedgerTypes, PublishedInv, OneRunPerTtl, LedgerNext
    PROVE  PublishedInv' /\ OneRunPerTtl'
  <1>0. FileTypes /\ now \in Nat /\ published \subseteq Readies(now) /\ ReadyTtl \in Nat
    BY LedgerAssumption DEF LedgerTypes, FileTypes
  <1>1. CASE /\ UNCHANGED <<now, published>>
             /\ readyFile' = readyFile \/ readyFile = Absent \/ ReadyExpired(readyFile)
    <2>1. \A rec \in published : rec # Absent
      BY <1>0 DEF Readies, Absent
    <2> QED
      BY <1>1, <2>1 DEF PublishedInv, OneRunPerTtl, ReadyExpired
  <1>2. ASSUME NEW r \in Requests, RequestStep(r) \/ DropRequest(r), ~StoreReady(r)
        PROVE  /\ UNCHANGED <<now, published>>
               /\ readyFile' = readyFile \/ readyFile = Absent \/ ReadyExpired(readyFile)
    <2>1. ReapedReady = Absent => readyFile = Absent \/ ReadyExpired(readyFile)
      BY DEF ReapedReady, LoadReady
    <2>2. ReapedReady # Absent => ReapedReady = readyFile
      BY DEF ReapedReady, LoadReady
    <2>3. CASE ClaimPending(r) \/ ClaimRefused(r)
      BY <2>1, <2>2, <2>3 DEF ClaimPending, ClaimRefused
    <2>4. CASE AcquireGate(r) \/ RegisterOwner(r) \/ CheckOwner(r) \/ Execute(r) \/ WriteSidecar(r)
      BY <2>4 DEF AcquireGate, RegisterOwner, CheckOwner, Execute, WriteSidecar
    <2>5. CASE StoreFails(r) \/ PublishMemory(r) \/ DropRequest(r)
      BY <2>5 DEF StoreFails, PublishMemory, DropRequest
    <2> QED
      BY <1>2, <2>3, <2>4, <2>5, OutsideMoves DEF RequestStep
  <1>3. ASSUME NEW r \in Requests, UNCHANGED content, StoreReady(r)
        PROVE  PublishedInv' /\ OneRunPerTtl'
    <2>1. PICK rec : /\ rec.created = now
                     /\ readyFile' = rec /\ published' = published \union {rec}
                     /\ UNCHANGED now
                     /\ readyFile = Absent \/ ReadyExpired(readyFile)
      BY <1>3 DEF StoreReady, Ready, ReapedReady, LoadReady
    <2>2. \A old \in published : ReadyExpired(old) /\ old.created \in 0..now
      BY <1>0, <2>1 DEF PublishedInv, Readies, Absent
    <2>3. \A old \in published : now - old.created >= ReadyTtl
      BY <2>2 DEF ReadyExpired
    <2>4. PublishedInv'
      BY <2>1, <2>2 DEF PublishedInv, ReadyExpired
    <2>5. OneRunPerTtl'
      BY <1>0, <2>1, <2>3 DEF OneRunPerTtl
    <2> QED
      BY <2>4, <2>5
  <1>4. ASSUME NEW rec \in expiryIndex, Reap(rec)
        PROVE  /\ UNCHANGED <<now, published>>
               /\ readyFile' = readyFile \/ readyFile = Absent \/ ReadyExpired(readyFile)
    BY <1>4 DEF Reap
  <1>5. ASSUME NEW s \in Servers, Crash(s)
        PROVE  UNCHANGED <<now, published, readyFile>>
    BY <1>5 DEF Crash
  <1>6. CASE Tick
    <2>1. UNCHANGED <<published, readyFile>> /\ now' = now + 1
      BY <1>6 DEF Tick
    <2>2. \A rec \in published : rec.created \in Int
      BY <1>0 DEF Readies
    <2> QED
      BY <1>0, <2>1, <2>2 DEF PublishedInv, OneRunPerTtl, ReadyExpired
  <1> QED
    BY <1>1, <1>2, <1>3, <1>4, <1>5, <1>6 DEF LedgerNext, RequestStep

-----------------------------------------------------------------------------
(* The table in memory. *)

\* A request that moves keeps the table right if each entry is an old one, is
\* no pending one, or is the request's own and the request goes where owners are;
\* and if the request leaves no entry of its own behind elsewhere.
LEMMA MemoryMove ==
    ASSUME LedgerTypes, MemoryInv, NEW r \in Requests, NEW s \in Stages, NEW l \in Holds(now),
           Move(r, s, l), UNCHANGED now,
           \A z \in Servers :
               \/ entries'[z] = entries[z]
               \/ entries'[z].kind # "pending"
               \/ entries'[z].owner = r /\ ServerOf[r] = z /\ s \in Owning,
           s \in Owning \/ \A z \in Servers : entries'[z].kind = "pending" => entries'[z].owner # r
    PROVE  MemoryInv'
  <1>1. stage'[r] = s /\ \A q \in Requests \ {r} : stage'[q] = stage[q]
    BY Moved DEF LedgerTypes
  <1>2. \A z \in Servers : entries[z].kind = "pending" => entries[z].owner \in Requests
    BY DEF LedgerTypes, RequestTypes, Readies, Locals, Absent
  <1> QED
    BY <1>1, <1>2 DEF MemoryInv

\* Only an owner has an entry, and only in the table of its own server.
LEMMA OwnEntry ==
    ASSUME LedgerTypes, MemoryInv, NEW r \in Requests, NEW z \in Servers,
           entries[z].kind = "pending", entries[z].owner = r
    PROVE  stage[r] \in Owning /\ z = ServerOf[r] /\ OwnsMemory(r)
  BY DEF MemoryInv, OwnsMemory, MemoryOf

\* A guard that withdraws removes its own entry and no other.
LEMMA WithdrawOwn ==
    ASSUME LedgerTypes, MemoryInv, NEW r \in Requests, Withdraw(r)
    PROVE  \A z \in Servers :
              /\ entries'[z] = entries[z] \/ entries'[z].kind # "pending"
              /\ entries'[z].kind = "pending" => entries'[z].owner # r
  <1>0. ServerOf[r] \in Servers /\ entries \in [Servers -> Readies(now) \union Locals(now) \union {Absent}]
    BY LedgerAssumption DEF LedgerTypes, RequestTypes
  <1>1. Absent.kind # "pending"
    BY DEF Absent
  <1>2. CASE OwnsMemory(r)
    <2>1. entries' = [entries EXCEPT ![ServerOf[r]] = Absent]
      BY <1>2 DEF Withdraw
    <2> QED
      BY <1>0, <1>1, <2>1, OwnEntry
  <1>3. CASE ~OwnsMemory(r)
    <2>1. UNCHANGED entries
      BY <1>3 DEF Withdraw
    <2> QED
      BY <1>3, <2>1, OwnEntry
  <1> QED
    BY <1>2, <1>3

\* Every step leaves the table with entries of requests still at work only.
LEMMA MemoryStep ==
    ASSUME LedgerTypes, MemoryInv, LedgerNext
    PROVE  MemoryInv'
  <1> DEFINE Table == [Servers -> Readies(now) \union Locals(now) \union {Absent}]
  <1>0. FileTypes /\ RequestTypes /\ RecordKinds /\ entries \in Table
    BY DEF LedgerTypes, RequestTypes
  <1>a. Absent.kind = "absent" /\ \A rec \in Readies(now) : rec.kind = "ready"
    BY DEF Absent, Readies
  <1>1. ASSUME NEW r \in Requests,
               \/ LookMemory(r) \/ WakeWaiter(r) \/ ReadDisk(r) \/ FindOrphan(r)
               \/ PeerPoll(r) \/ ReplayReady(r) \/ GuardWithdraw(r)
        PROVE  MemoryInv'
    <2>0. ServerOf[r] \in Servers
      BY LedgerAssumption
    <2>1. PICK s \in Stages \ Owning, l \in Holds(now) : Move(r, s, l) /\ UNCHANGED now
      BY <1>1, OutsideMoves DEF MovesTo
    <2>2. \A z \in Servers : entries'[z] = entries[z] \/ entries'[z].kind # "pending"
      <3>1. CASE LookMemory(r)
        <4>1. PICK full \in BOOLEAN : SetMemory(r, Pruned(MemoryOf(r), full))
          BY <3>1 DEF LookMemory
        <4>2. Pruned(MemoryOf(r), full) \in {MemoryOf(r), Absent}
          BY DEF Pruned
        <4> QED
          BY <1>0, <1>a, <2>0, <4>1, <4>2 DEF SetMemory, MemoryOf
      <3>2. CASE WakeWaiter(r) \/ ReadDisk(r) \/ FindOrphan(r) \/ PeerPoll(r)
        BY <3>2 DEF WakeWaiter, ReadDisk, FindOrphan, PeerPoll
      <3>3. CASE ReplayReady(r)
        <4>1. hold[r].record \in Readies(now)
          BY <1>0, <3>3 DEF ReplayReady, RecordKinds
        <4> QED
          BY <1>0, <1>a, <2>0, <3>3, <4>1 DEF ReplayReady, SetMemory
      <3>4. CASE GuardWithdraw(r)
        BY <3>4, WithdrawOwn DEF GuardWithdraw
      <3> QED
        BY <1>1, <3>1, <3>2, <3>3, <3>4
    <2>3. \A z \in Servers : entries'[z].kind = "pending" => entries'[z].owner # r
      <3>1. CASE GuardWithdraw(r)
        BY <3>1, WithdrawOwn DEF GuardWithdraw
      <3>2. CASE ~GuardWithdraw(r)
        <4>1. stage[r] \notin Owning
          BY <1>1, <3>2 DEF LookMemory, WakeWaiter, ReadDisk, FindOrphan, PeerPoll, ReplayReady, Owning
        <4> QED
          BY <2>2, <4>1, OwnEntry
      <3> QED
        BY <3>1, <3>2
    <2> QED
      BY <2>1, <2>2, <2>3, MemoryMove
  <1>2. ASSUME NEW r \in Requests, AcquireGate(r) \/ ClaimPending(r) \/ ClaimRefused(r)
        PROVE  MemoryInv'
    <2>1. UNCHANGED <<entries, now>> /\ stage[r] \notin Owning
      BY <1>2 DEF AcquireGate, ClaimPending, ClaimRefused, Owning
    <2>2. \A q \in Requests \ {r} : stage'[q] = stage[q]
      <3>1. \E s : stage' = [stage EXCEPT ![r] = s]
        BY <1>2 DEF AcquireGate, ClaimPending, ClaimRefused, ClaimWrites, Goto, Replay, Move
      <3> QED
        BY <1>0, <3>1 DEF RequestTypes
    <2>3. \A z \in Servers : entries[z].kind = "pending" => entries[z].owner \in Requests \ {r}
      BY <1>0, <2>1, OwnEntry DEF Readies, Locals, Absent
    <2> QED
      BY <2>1, <2>2, <2>3 DEF MemoryInv
  <1>3. ASSUME NEW r \in Requests, RegisterOwner(r) PROVE MemoryInv'
    <2>0. UNCHANGED now /\ ServerOf[r] \in Servers /\ stage[r] \notin Owning
      BY <1>3, LedgerAssumption DEF RegisterOwner, Owning
    <2>1. CASE UNCHANGED entries /\ MovesTo(r, {"new", "wait", "conflict", "busy"})
      <3>1. {"new", "wait", "conflict", "busy"} \subseteq Stages
        BY DEF Stages, Ended
      <3>2. \A z \in Servers : entries'[z].kind = "pending" => entries'[z].owner # r
        BY <2>0, <2>1, OwnEntry
      <3> QED
        BY <2>0, <2>1, <3>1, <3>2, MemoryMove DEF MovesTo
    <2>2. CASE SetMemory(r, MemoryPending(r)) /\ Goto(r, "check")
      <3>1. PICK l \in Holds(now) : Move(r, "check", l)
        BY <2>2, IsMove
      <3>2. /\ entries'[ServerOf[r]].owner = r
            /\ \A z \in Servers \ {ServerOf[r]} : entries'[z] = entries[z]
        BY <1>0, <2>0, <2>2 DEF SetMemory, MemoryPending
      <3>3. "check" \in Stages \intersect Owning
        BY DEF Stages, Owning
      <3> QED
        BY <2>0, <3>1, <3>2, <3>3, MemoryMove
    <2>3. CASE UNCHANGED entries /\ \E s \in {"new", "busy"} : Goto(r, s)
      BY <2>1, <2>3, IsMove DEF MovesTo
    <2>4. CASE UNCHANGED entries /\ MemoryOf(r).kind = "pending" /\ WaitFor(r, MemoryOf(r))
      <3>1. MemoryOf(r) \in Locals(now)
        BY <1>0, <2>0, <2>4 DEF MemoryOf, Readies, Locals, Absent
      <3> QED
        BY <2>1, <2>4, <3>1, IsMove DEF MovesTo
    <2> QED
      BY <1>3, <2>2, <2>3, <2>4 DEF RegisterOwner
  <1>4. ASSUME NEW r \in Requests, CheckOwner(r) \/ Execute(r) \/ WriteSidecar(r) \/ StoreFails(r)
        PROVE  MemoryInv'
    <2>0. stage[r] \in Holding /\ UNCHANGED now
      BY <1>4 DEF CheckOwner, Execute, WriteSidecar, StoreFails, Holding
    <2>1. CASE UNCHANGED entries /\ \E s \in {"execute", "sidecar", "store"} : Goto(r, s)
      <3>1. {"execute", "sidecar", "store"} \subseteq Stages \intersect Owning
        BY DEF Stages, Owning
      <3> QED
        BY <2>0, <2>1, <3>1, IsMove, MemoryMove
    <2>2. CASE Withdraw(r) /\ \/ Goto(r, "failed")
                              \/ Carry(r, hold[r].run)
      <3>1. {"failed", "new"} \subseteq Stages
        BY DEF Stages, Ended
      <3>2. hold[r].run \in Requests
        BY <1>0, <2>0 DEF RecordKinds
      <3>3. PICK s \in {"failed", "new"}, l \in Holds(now) : Move(r, s, l)
        BY <2>2, <3>2, IsMove
      <3> QED
        BY <2>0, <2>2, <3>1, <3>3, WithdrawOwn, MemoryMove
    <2> QED
      BY <1>4, <2>1, <2>2 DEF CheckOwner, Execute, WriteSidecar, StoreFails
  <1>5. ASSUME NEW r \in Requests, StoreReady(r) PROVE MemoryInv'
    <2>1. UNCHANGED <<entries, now>> /\ stage' = [stage EXCEPT ![r] = "publish"]
      BY <1>5 DEF StoreReady, Move
    <2>2. \A q \in Requests : stage'[q] \in {stage[q], "publish"}
      BY <1>0, <2>1 DEF RequestTypes
    <2>3. \A z \in Servers : entries[z].kind = "pending" => entries[z].owner \in Requests
      BY <1>0 DEF Readies, Locals, Absent
    <2> QED
      BY <2>1, <2>2, <2>3 DEF MemoryInv, Owning
  <1>6. ASSUME NEW r \in Requests, PublishMemory(r) PROVE MemoryInv'
    <2>0. /\ UNCHANGED now /\ ServerOf[r] \in Servers /\ Goto(r, "answered")
          /\ SetMemory(r, hold[r].record) /\ hold[r].record \in Readies(now)
      BY <1>0, <1>6, LedgerAssumption DEF PublishMemory, RecordKinds
    <2>1. PICK l \in Holds(now) : Move(r, "answered", l)
      BY <2>0, IsMove
    <2>2. /\ entries'[ServerOf[r]].kind # "pending"
          /\ \A z \in Servers \ {ServerOf[r]} : entries'[z] = entries[z]
      BY <1>0, <1>a, <2>0 DEF SetMemory
    <2>3. \A z \in Servers : entries'[z].kind = "pending" => entries'[z].owner # r
      BY <2>2, OwnEntry
    <2>4. "answered" \in Stages
      BY DEF Stages, Ended
    <2> QED
      BY <2>0, <2>1, <2>2, <2>3, <2>4, MemoryMove
  <1>7. ASSUME NEW r \in Requests, DropRequest(r) PROVE MemoryInv'
    <2>0. UNCHANGED <<now, entries>> /\ {"dropping", "dropped"} \subseteq Stages /\ "dropping" \in Owning
      BY <1>7 DEF DropRequest, Stages, Ended, Owning
    <2>1. CASE OwnsMemory(r)
      <3>1. Goto(r, "dropping")
        BY <1>7, <2>1 DEF DropRequest
      <3> QED
        BY <2>0, <3>1, IsMove, MemoryMove
    <2>2. CASE ~OwnsMemory(r)
      <3>1. Goto(r, "dropped")
        BY <1>7, <2>2 DEF DropRequest
      <3> QED
        BY <2>0, <2>2, <3>1, IsMove, MemoryMove, OwnEntry
    <2> QED
      BY <2>1, <2>2
  <1>8. ASSUME NEW rec \in expiryIndex, Reap(rec) PROVE MemoryInv'
    BY <1>8 DEF Reap, MemoryInv
  <1>9. ASSUME NEW s \in Servers, Crash(s) PROVE MemoryInv'
    <2> DEFINE lost == {r \in Requests : ServerOf[r] = s /\ stage[r] \notin Ended}
    <2>1. /\ entries' = [entries EXCEPT ![s] = Absent]
          /\ stage' = [r \in Requests |-> IF r \in lost THEN "dropped" ELSE stage[r]]
      BY <1>9 DEF Crash
    <2>2. \A z \in Servers : entries[z].kind = "pending" => entries[z].owner \in Requests
      BY <1>0 DEF Readies, Locals, Absent
    <2>3. \A z \in Servers : entries'[z].kind = "pending" => z # s /\ entries'[z] = entries[z]
      BY <1>0, <1>a, <2>1
    <2> QED
      BY <2>1, <2>2, <2>3 DEF MemoryInv
  <1>10. CASE Tick
    BY <1>10 DEF MemoryInv, Tick
  <1> QED
    BY <1>1, <1>2, <1>3, <1>4, <1>5, <1>6, <1>7, <1>8, <1>9, <1>10 DEF LedgerNext, RequestStep

-----------------------------------------------------------------------------
(* The theorems. *)

\* An empty ledger satisfies the invariant, ...
LEMMA LedgerInvInit ==
    ASSUME LedgerInit
    PROVE  LedgerInv
  <1>1. EmptyHold \in Holds(now) /\ "new" \in Stages \ (Gated \union {"replay", "publish", "wait"})
    BY DEF LedgerInit, EmptyHold, Holds, Stages, Gated, Holding
  <1>2. FileTypes
    BY DEF LedgerInit, FileTypes
  <1>3. RequestTypes
    BY <1>1 DEF LedgerInit, RequestTypes
  <1>4. RecordKinds /\ GateInv
    BY <1>1 DEF LedgerInit, RecordKinds, GateInv, Holding, Gated
  <1>5. PublishedInv /\ OneRunPerTtl /\ MemoryInv
    BY DEF LedgerInit, PublishedInv, OneRunPerTtl, MemoryInv, Absent
  <1> QED
    BY <1>2, <1>3, <1>4, <1>5 DEF LedgerInv, LedgerTypes

\* ... every step keeps it, ...
LEMMA LedgerInvStep ==
    ASSUME LedgerInv, [LedgerNext]_ledgerVars
    PROVE  LedgerInv'
  <1>1. CASE LedgerNext
    BY <1>1, LedgerTypesStep, GateStep, PublishedStep, MemoryStep DEF LedgerInv
  <1>2. CASE UNCHANGED ledgerVars
    BY <1>2 DEF ledgerVars, LedgerInv, LedgerTypes, FileTypes, RequestTypes, RecordKinds,
                GateInv, OwnClaim, PublishedInv, ReadyExpired, OneRunPerTtl, MemoryInv
  <1> QED
    BY <1>1, <1>2

\* ... and so it always holds.
LEMMA LedgerInvariant == LedgerSpec => []LedgerInv
  BY LedgerInvInit, LedgerInvStep, PTL DEF LedgerSpec

\* The files, the table and the locals of the requests always hold well-formed
\* values, however requests, sweeps and crashes interleave.
THEOREM LedgerTypesCorrect == LedgerSpec => []LedgerTypeOK
  <1>1. LedgerInv => LedgerTypeOK
    BY DEF LedgerInv, LedgerTypes, FileTypes, RequestTypes, LedgerTypeOK, Readies, Claims, Locals
  <1> QED
    BY <1>1, LedgerInvariant, PTL

\* From its claim to its commit the holder of the execution gate owns the
\* claim on disk (claim_durable_pending_for_target_gated to
\* store_durable_ready_gated), for any number of requests and servers.
THEOREM GatedOwnerCorrect == LedgerSpec => []GatedOwnerIsCurrent
  <1>1. LedgerInv => GatedOwnerIsCurrent
    BY DEF LedgerInv, GateInv, GatedOwnerIsCurrent, Gated, Holding
  <1> QED
    BY <1>1, LedgerInvariant, PTL

\* Two records a key ever committed for different runs are a TTL apart
\* (store_durable_ready_gated replaces only an absent or expired record).
THEOREM OneRunPerTtlCorrect == LedgerSpec => []OneRunPerTtl
  <1>1. LedgerInv => OneRunPerTtl
    BY DEF LedgerInv
  <1> QED
    BY <1>1, LedgerInvariant, PTL

\* Whoever waits for an entry of the table waits for a request that is still
\* at work or whose guard has still to clean up (PendingIdempotencyGuard).
THEOREM WaiterHasOwnerCorrect == LedgerSpec => []WaiterHasOwner
  <1>1. ASSUME LedgerInv PROVE WaiterHasOwner
    <2> SUFFICES ASSUME NEW r \in Requests, stage[r] = "wait", MemoryOf(r) = hold[r].record
                 PROVE  stage[hold[r].record.owner] \notin Ended
      BY DEF WaiterHasOwner
    <2>1. hold[r].record.kind = "pending" /\ ServerOf[r] \in Servers
      BY <1>1, LedgerAssumption DEF LedgerInv, LedgerTypes, RecordKinds, Locals
    <2>2. stage[hold[r].record.owner] \in Owning
      BY <1>1, <2>1 DEF LedgerInv, MemoryInv, MemoryOf
    <2> QED
      BY <2>2 DEF Owning, Ended
  <1> QED
    BY <1>1, LedgerInvariant, PTL
-----------------------------------------------------------------------------
(* What was accepted.  Only a divergence between memory and disk makes an  *)
(* owner release a claim it adopted; a memory entry that could diverge     *)
(* belongs to a dropped request whose guard has not run.                   *)

\* A client that may disconnect shares its server with no other request.
Patient ==
    \A r \in Requests \intersect Impatient, q \in Requests : ServerOf[q] = ServerOf[r] => q = r

\* A claim or a committed record names the run.
Known(x) ==
    \/ pendingFile # Absent /\ pendingFile.run = x
    \/ \E rec \in published : rec.run = x

\* Whatever is shown as committed was committed, and what was accepted is known.
KeptInv ==
    /\ readyFile # Absent => readyFile \in published
    /\ \A s \in Servers : entries[s].kind = "ready" => entries[s] \in published
    /\ \A r \in Requests :
          /\ stage[r] \in {"replay", "publish"} => hold[r].record \in published
          /\ stage[r] = "publish" /\ pendingFile # Absent => pendingFile.run = hold[r].record.run
          /\ stage[r] = "dropping" => r \in Impatient
    /\ \A x \in accepted : Known(x)

\* One request moves: what has to be shown of the step.
LEMMA KeptMove ==
    ASSUME LedgerInv, KeptInv, NEW r \in Requests, NEW s, NEW l, Move(r, s, l),
           published \subseteq published',
           readyFile' # Absent => readyFile' \in published',
           \A z \in Servers : \/ entries'[z] = entries[z] \/ entries'[z].kind # "ready"
                              \/ entries'[z] \in published',
           s \in {"replay", "publish"} => l.record \in published',
           s = "publish" /\ pendingFile' # Absent => pendingFile'.run = l.record.run,
           s = "dropping" => r \in Impatient,
           pendingFile' = pendingFile \/ stage[r] \in Gated,
           \A x \in accepted' : Known(x)'
    PROVE  KeptInv'
  <1>1. /\ stage'[r] = s
        /\ \A q \in Requests \ {r} : stage'[q] = stage[q] /\ hold'[q] = hold[q]
        /\ s \in {"replay", "publish"} => hold'[r].record = l.record
    BY DEF Move, LedgerInv, LedgerTypes, RequestTypes, Ended
  <1>2. \A q \in Requests \ {r} : stage[q] = "publish" => pendingFile' = pendingFile
    BY DEF LedgerInv, GateInv, Gated
  <1> QED
    BY <1>1, <1>2 DEF KeptInv

\* The step leaves the files alone.
LEMMA KeptQuiet ==
    ASSUME LedgerInv, KeptInv, NEW r \in Requests, NEW s, NEW l, s \notin {"publish", "dropping"},
           Move(r, s, l), UNCHANGED <<pendingFile, readyFile, published, accepted>>,
           \A z \in Servers : \/ entries'[z] = entries[z] \/ entries'[z].kind # "ready"
                              \/ entries'[z] \in published,
           s = "replay" => l.record \in published
    PROVE  KeptInv'
  <1>1. \A x \in accepted' : Known(x)'
    BY DEF KeptInv, Known
  <1>2. readyFile' # Absent => readyFile' \in published'
    BY DEF KeptInv
  <1> QED
    BY <1>1, <1>2, KeptMove

\* Withdrawing and pruning show nothing new.
LEMMA TableKept ==
    ASSUME LedgerInv, KeptInv, NEW r \in Requests
    PROVE  /\ ServerOf[r] \in Servers
           /\ MemoryOf(r).kind = "ready" => MemoryOf(r) \in published
           /\ Absent.kind = "absent"
           /\ Withdraw(r) => \A z \in Servers : entries'[z] = entries[z] \/ entries'[z].kind # "ready"
           /\ \A e : SetMemory(r, e) => /\ entries'[ServerOf[r]] = e
                                        /\ \A z \in Servers \ {ServerOf[r]} : entries'[z] = entries[z]
           /\ LoadReady # Absent => LoadReady \in published
           /\ hold[r] \in Holds(now)
  <1>1. ServerOf[r] \in Servers /\ Absent.kind = "absent"
    BY LedgerAssumption DEF Absent
  <1>2. entries \in [Servers -> Readies(now) \union Locals(now) \union {Absent}] /\ hold[r] \in Holds(now)
    BY DEF LedgerInv, LedgerTypes, RequestTypes
  <1>3. MemoryOf(r).kind = "ready" => MemoryOf(r) \in published
    BY <1>1 DEF KeptInv, MemoryOf
  <1>4. ASSUME Withdraw(r)
        PROVE  \A z \in Servers : entries'[z] = entries[z] \/ entries'[z].kind # "ready"
    BY <1>1, <1>2, <1>4 DEF Withdraw
  <1>5. LoadReady # Absent => LoadReady \in published
    BY DEF LoadReady, KeptInv
  <1>6. ASSUME NEW e, SetMemory(r, e)
        PROVE  /\ entries'[ServerOf[r]] = e
               /\ \A z \in Servers \ {ServerOf[r]} : entries'[z] = entries[z]
    BY <1>1, <1>2, <1>6 DEF SetMemory
  <1> QED
    BY <1>1, <1>2, <1>3, <1>4, <1>5, <1>6

\* A record may be recalled once it was committed.
LEMMA Recalled ==
    ASSUME LedgerInv, NEW r \in Requests
    PROVE  \A rec : [hold[r] EXCEPT !.record = rec].record = rec
  BY DEF LedgerInv, LedgerTypes, RequestTypes, Holds

\* The steps outside the gate.
LEMMA OutsideKept ==
    ASSUME LedgerInv, KeptInv, NEW r \in Requests,
           \/ LookMemory(r) \/ WakeWaiter(r) \/ ReadDisk(r) \/ FindOrphan(r) \/ AcquireGate(r)
           \/ PeerPoll(r) \/ ReplayReady(r) \/ GuardWithdraw(r)
    PROVE  KeptInv'
  <1>a. UNCHANGED <<pendingFile, readyFile, published, accepted>>
    BY DEF LookMemory, WakeWaiter, ReadDisk, FindOrphan, AcquireGate, PeerPoll, ReplayReady, GuardWithdraw
  <1>b. \A e : e \in published /\ Replay(r, e) => \E l : Move(r, "replay", l) /\ l.record \in published
    BY Recalled DEF Replay
  <1>c. \A e : WaitFor(r, e) => \E s \in {"wait", "conflict"} : \E l : Move(r, s, l)
    BY DEF WaitFor, Goto
  <1>1. CASE LookMemory(r)
    <2>1. PICK full \in BOOLEAN :
            LET e == Pruned(MemoryOf(r), full) IN
            /\ SetMemory(r, e)
            /\ \/ e.kind = "ready" /\ Replay(r, e)
               \/ e.kind = "pending" /\ WaitFor(r, e)
               \/ e.kind = "absent" /\ Goto(r, "disk")
      BY <1>1 DEF LookMemory
    <2> DEFINE e == Pruned(MemoryOf(r), full)
    <2>2. e \in {MemoryOf(r), Absent}
      BY DEF Pruned
    <2> HIDE DEF e
    <2>3. e.kind = "ready" => e \in published
      BY <2>2, TableKept
    <2>4. \A z \in Servers : entries'[z] = entries[z] \/ entries'[z].kind # "ready" \/ entries'[z] \in published
      BY <2>1, <2>3, TableKept DEF e
    <2>5. \E s \in {"replay", "wait", "conflict", "disk"} : \E l :
             Move(r, s, l) /\ (s = "replay" => l.record \in published)
      BY <1>b, <1>c, <2>1, <2>3 DEF e, Goto
    <2> QED
      BY <1>a, <2>4, <2>5, KeptQuiet
  <1>2. CASE WakeWaiter(r)
    BY <1>2, <1>a, KeptQuiet DEF WakeWaiter, Goto
  <1>3. CASE ReadDisk(r)
    <2>1. \E s \in {"replay", "scan", "gate"} : \E l :
             Move(r, s, l) /\ (s = "replay" => l.record \in published)
      BY <1>3, <1>b, TableKept DEF ReadDisk, Goto
    <2> QED
      BY <1>3, <1>a, <2>1, KeptQuiet DEF ReadDisk
  <1>4. CASE FindOrphan(r)
    <2>1. \E s \in {"gate", "failed", "conflict"} : \E l : Move(r, s, l)
      BY <1>4 DEF FindOrphan, Goto
    <2> QED
      BY <1>4, <1>a, <2>1, KeptQuiet DEF FindOrphan
  <1>5. CASE AcquireGate(r)
    <2>1. \E s \in {"claim", "conflict", "busy"} : \E l : Move(r, s, l)
      BY <1>5 DEF AcquireGate, Goto
    <2> QED
      BY <1>5, <1>a, <2>1, KeptQuiet DEF AcquireGate
  <1>6. CASE PeerPoll(r)
    <2>1. \E s \in {"replay", "conflict", "new", "busy"} : \E l :
             Move(r, s, l) /\ (s = "replay" => l.record \in published)
      BY <1>6, <1>b, TableKept DEF PeerPoll, Goto, Carry
    <2> QED
      BY <1>6, <1>a, <2>1, KeptQuiet DEF PeerPoll
  <1>7. CASE ReplayReady(r)
    <2>1. \E s \in {"conflict", "answered", "failed", "new"} : \E l : Move(r, s, l)
      BY <1>7 DEF ReplayReady, Goto
    <2>2. hold[r].record \in published
      BY <1>7 DEF ReplayReady, KeptInv
    <2>3. entries' = entries \/ SetMemory(r, hold[r].record) \/ SetMemory(r, Absent)
      BY <1>7 DEF ReplayReady
    <2>4. \A z \in Servers : entries'[z] = entries[z] \/ entries'[z].kind # "ready" \/ entries'[z] \in published
      BY <2>2, <2>3, TableKept
    <2> QED
      BY <1>a, <2>1, <2>4, KeptQuiet
  <1>8. CASE GuardWithdraw(r)
    BY <1>8, <1>a, KeptQuiet, TableKept DEF GuardWithdraw, Goto
  <1> QED
    BY <1>1, <1>2, <1>3, <1>4, <1>5, <1>6, <1>7, <1>8

\* Reaping retires only a claim whose run was committed.
LEMMA ReapKeeps ==
    ASSUME LedgerInv, KeptInv, NEW rec \in published, NEW owner
    PROVE  /\ \A x \in accepted : (Retired(rec, pendingFile, owner) # Absent
                                     /\ Retired(rec, pendingFile, owner).run = x)
                                  \/ \E y \in published : y.run = x
           /\ Retired(rec, pendingFile, owner) \in {pendingFile, Absent}
  BY DEF Retired, Resolves, KeptInv, Known

\* What a claim, a commit and their refusals find on disk.
LEMMA ReapedKeeps ==
    ASSUME LedgerInv, KeptInv
    PROVE  /\ \A x \in accepted : (ReapedPending # Absent /\ ReapedPending.run = x)
                                  \/ \E y \in published : y.run = x
           /\ ReapedReady # Absent => ReapedReady \in published
  <1>1. ReapedReady # Absent => ReapedReady \in published
    BY DEF ReapedReady, LoadReady, KeptInv
  <1>2. CASE readyFile # Absent /\ ReadyExpired(readyFile)
    <2>1. readyFile \in published
      BY <1>2 DEF KeptInv
    <2> QED
      BY <1>1, <1>2, <2>1, ReapKeeps DEF ReapedPending
  <1>3. CASE ~(readyFile # Absent /\ ReadyExpired(readyFile))
    BY <1>1, <1>3 DEF ReapedPending, KeptInv, Known
  <1> QED
    BY <1>2, <1>3

\* A claim adopts what it finds.
LEMMA ClaimKeeps ==
    ASSUME LedgerInv, KeptInv, NEW r \in Requests, NEW s, ClaimWrites(r, s),
           UNCHANGED <<published, accepted>>
    PROVE  /\ \A x \in accepted' : Known(x)'
           /\ \E l : Move(r, s, l)
  <1>1. pendingFile' # Absent /\ (ReapedPending # Absent => pendingFile'.run = ReapedPending.run)
    BY DEF ClaimWrites, Pending, Absent
  <1>2. \E l : Move(r, s, l)
    BY DEF ClaimWrites
  <1> QED
    BY <1>1, <1>2, ReapedKeeps DEF Known

\* The claim.
LEMMA ClaimKept ==
    ASSUME LedgerInv, KeptInv, NEW r \in Requests, ClaimPending(r) \/ ClaimRefused(r)
    PROVE  KeptInv'
  <1>a. /\ UNCHANGED <<published, accepted, entries>> /\ stage[r] \in Gated
        /\ readyFile' \in {readyFile, ReapedReady, Absent}
    BY DEF ClaimPending, ClaimRefused, Gated
  <1>b. readyFile' # Absent => readyFile' \in published'
    BY <1>a, ReapedKeeps DEF KeptInv
  <1>1. ASSUME NEW s, ClaimWrites(r, s), s \in {"register", "failed"} PROVE KeptInv'
    BY <1>a, <1>b, <1>1, ClaimKeeps, KeptMove
  <1>2. ASSUME NEW s \in {"replay", "conflict", "peer", "busy"}, NEW l, Move(r, s, l),
               s = "replay" => l.record \in published,
               pendingFile' \in {pendingFile, ReapedPending}
        PROVE  KeptInv'
    <2>1. \A x \in accepted' : Known(x)'
      BY <1>a, <1>2, ReapedKeeps DEF KeptInv, Known
    <2> QED
      BY <1>a, <1>b, <1>2, <2>1, KeptMove
  <1>3. CASE ReapedReady # Absent /\ pendingFile' = pendingFile
               /\ (Goto(r, "conflict") \/ Replay(r, ReapedReady))
    BY <1>2, <1>3, ReapedKeeps, Recalled DEF Goto, Replay
  <1>4. CASE pendingFile' \in {pendingFile, ReapedPending} /\ \E s \in {"conflict", "peer", "busy"} : Goto(r, s)
    BY <1>2, <1>4 DEF Goto
  <1> QED
    BY <1>1, <1>3, <1>4 DEF ClaimPending, ClaimRefused

\* Nobody else of its server is in the way of a patient owner.
LEMMA NoDivergence ==
    ASSUME Patient, LedgerInv, KeptInv, NEW r \in Requests, stage[r] = "register"
    PROVE  /\ MemoryOf(r).kind # "pending"
           /\ MemoryOf(r).kind = "ready" => ReadyExpired(MemoryOf(r))
  <1>1. ServerOf[r] \in Servers /\ gate = r /\ readyFile = Absent
    BY LedgerAssumption DEF LedgerInv, GateInv, Gated, Holding
  <1>2. MemoryOf(r) \in Readies(now) \union Locals(now) \union {Absent}
    BY <1>1 DEF LedgerInv, LedgerTypes, RequestTypes, MemoryOf
  <1>3. MemoryOf(r).kind = "ready" => ReadyExpired(MemoryOf(r))
    <2>1. ASSUME MemoryOf(r).kind = "ready" PROVE MemoryOf(r) \in published /\ MemoryOf(r) # Absent
      BY <2>1, TableKept
    <2> QED
      BY <1>1, <2>1 DEF LedgerInv, PublishedInv
  <1>4. ASSUME MemoryOf(r).kind = "pending" PROVE FALSE
    <2> DEFINE q == MemoryOf(r).owner
    <2>1. q \in Requests /\ ServerOf[q] = ServerOf[r] /\ stage[q] \in Owning
      BY <1>1, <1>2, <1>4 DEF LedgerInv, MemoryInv, MemoryOf, Readies, Locals, Absent
    <2>2. stage[q] \in Gated \/ stage[q] = "dropping"
      BY <2>1 DEF Owning, Gated, Holding
    <2>3. stage[q] \in Gated => q = r
      BY <1>1, <2>1 DEF LedgerInv, GateInv
    <2>4. stage[q] = "dropping" => q = r
      BY <2>1 DEF KeptInv, Patient
    <2> QED
      BY <2>1, <2>2, <2>3, <2>4 DEF Owning
  <1> QED
    BY <1>3, <1>4

\* From the registration to the commit.
LEMMA HoldingKept ==
    ASSUME Patient, LedgerInv, KeptInv, NEW r \in Requests,
           RegisterOwner(r) \/ CheckOwner(r) \/ Execute(r) \/ WriteSidecar(r) \/ StoreFails(r)
    PROVE  KeptInv'
  <1>1. CASE RegisterOwner(r)
    <2>1. /\ UNCHANGED <<pendingFile, readyFile, published, accepted>>
          /\ SetMemory(r, MemoryPending(r)) \/ entries' = entries
          /\ \E s \in {"check", "busy"} : Goto(r, s)
      BY <1>1, NoDivergence DEF RegisterOwner
    <2>2. MemoryPending(r).kind # "ready"
      BY DEF MemoryPending
    <2>3. \A z \in Servers : entries'[z] = entries[z] \/ entries'[z].kind # "ready"
      BY <2>1, <2>2, TableKept
    <2> QED
      BY <2>1, <2>3, KeptQuiet DEF Goto
  <1>2. CASE CheckOwner(r)
    <2>1. /\ UNCHANGED <<pendingFile, readyFile, published, accepted>>
          /\ Withdraw(r) \/ entries' = entries
          /\ \E s \in {"execute", "new"} : \E l : Move(r, s, l)
      BY <1>2 DEF CheckOwner, Goto, Carry
    <2>2. \A z \in Servers : entries'[z] = entries[z] \/ entries'[z].kind # "ready"
      BY <2>1, TableKept
    <2> QED
      BY <2>1, <2>2, KeptQuiet
  <1>3. CASE Execute(r)
    <2>1. /\ UNCHANGED <<pendingFile, readyFile, published>>
          /\ accepted' \subseteq accepted \union {hold[r].run}
          /\ Withdraw(r) \/ entries' = entries
          /\ \E s \in {"sidecar", "failed"} : \E l : Move(r, s, l)
      BY <1>3 DEF Execute, Goto
    <2>2. pendingFile # Absent /\ pendingFile.run = hold[r].run
      BY <1>3 DEF Execute, LedgerInv, GateInv, Holding, OwnClaim
    <2>3. \A x \in accepted' : Known(x)'
      BY <2>1, <2>2 DEF KeptInv, Known
    <2>4. \A z \in Servers : entries'[z] = entries[z] \/ entries'[z].kind # "ready"
      BY <2>1, TableKept
    <2>5. readyFile' # Absent => readyFile' \in published'
      BY <2>1 DEF KeptInv
    <2> QED
      BY <2>1, <2>3, <2>4, <2>5, KeptMove
  <1>4. CASE WriteSidecar(r)
    BY <1>4, KeptQuiet DEF WriteSidecar, Goto
  <1>5. CASE StoreFails(r)
    BY <1>5, KeptQuiet, TableKept DEF StoreFails, Goto
  <1> QED
    BY <1>1, <1>2, <1>3, <1>4, <1>5

\* The commit and its publication.
LEMMA CommitKept ==
    ASSUME LedgerInv, KeptInv, NEW r \in Requests, StoreReady(r) \/ PublishMemory(r)
    PROVE  KeptInv'
  <1>1. CASE StoreReady(r)
    <2> DEFINE rec == Ready(content[r], hold[r].run, hold[r].gen)
               l == [hold[r] EXCEPT !.record = rec]
    <2>1. /\ UNCHANGED <<entries, accepted>> /\ readyFile' = rec
          /\ published' = published \union {rec} /\ Move(r, "publish", l)
          /\ pendingFile' \in {pendingFile, Retired(rec, pendingFile, r)}
          /\ pendingFile.run = hold[r].run
      BY <1>1 DEF StoreReady
    <2>2. rec.run = hold[r].run /\ l.record = rec
      BY Recalled DEF Ready
    <2> HIDE DEF rec, l
    <2>3. pendingFile' \in {pendingFile, Absent}
      BY <2>1 DEF Retired
    <2>4. \A x \in accepted' : Known(x)'
      BY <2>1, <2>2, <2>3 DEF KeptInv, Known
    <2>5. stage[r] \in Gated
      BY <1>1 DEF StoreReady, Gated, Holding
    <2> QED
      BY <2>1, <2>2, <2>3, <2>4, <2>5, KeptMove
  <1>2. CASE PublishMemory(r)
    <2>1. /\ UNCHANGED <<readyFile, published, accepted>> /\ stage[r] = "publish"
          /\ SetMemory(r, hold[r].record) /\ Goto(r, "answered")
          /\ pendingFile' \in {pendingFile, Absent}
      BY <1>2 DEF PublishMemory, ReleaseOwn
    <2>2. /\ hold[r].record \in published
          /\ pendingFile # Absent => pendingFile.run = hold[r].record.run
      BY <2>1 DEF KeptInv
    <2>3. \A x \in accepted' : Known(x)'
      BY <2>1, <2>2 DEF KeptInv, Known
    <2>4. \A z \in Servers : entries'[z] = entries[z] \/ entries'[z] \in published'
      BY <2>1, <2>2, TableKept
    <2>5. stage[r] \in Gated /\ (readyFile' # Absent => readyFile' \in published')
      BY <2>1 DEF Gated, KeptInv
    <2> QED
      BY <2>1, <2>3, <2>4, <2>5, KeptMove DEF Goto
  <1> QED
    BY <1>1, <1>2

\* Every step keeps what was accepted.
LEMMA KeptStep ==
    ASSUME Patient, LedgerInv, KeptInv, [LedgerNext]_ledgerVars
    PROVE  KeptInv'
  <1>1. ASSUME NEW r \in Requests, RequestStep(r) PROVE KeptInv'
    BY <1>1, OutsideKept, ClaimKept, HoldingKept, CommitKept DEF RequestStep
  <1>2. ASSUME NEW r \in Requests, DropRequest(r) PROVE KeptInv'
    <2>1. \E s \in {"dropping", "dropped"} : \E l : Move(r, s, l)
      BY <1>2 DEF DropRequest, Goto
    <2>2. r \in Impatient /\ UNCHANGED <<pendingFile, readyFile, entries, accepted, published>>
      BY <1>2 DEF DropRequest
    <2>3. \A x \in accepted' : Known(x)'
      BY <2>2 DEF KeptInv, Known
    <2>4. readyFile' # Absent => readyFile' \in published'
      BY <2>2 DEF KeptInv
    <2> QED
      BY <2>1, <2>2, <2>3, <2>4, KeptMove
  <1>3. ASSUME NEW rec \in expiryIndex, Reap(rec) PROVE KeptInv'
    <2>1. UNCHANGED <<entries, stage, hold, accepted, published>>
      BY <1>3 DEF Reap
    <2>2. CASE readyFile = rec
      <3>1. readyFile # Absent
        BY <2>2 DEF LedgerInv, LedgerTypes, FileTypes, Readies, Absent
      <3>2. rec \in published /\ pendingFile' = Retired(rec, pendingFile, Nobody) /\ readyFile' = Absent
        BY <1>3, <2>2, <3>1 DEF Reap, KeptInv
      <3> QED
        BY <2>1, <3>2, ReapKeeps DEF KeptInv, Known
    <2>3. CASE readyFile # rec
      BY <1>3, <2>1, <2>3 DEF Reap, KeptInv, Known
    <2> QED
      BY <2>2, <2>3
  <1>4. ASSUME NEW s \in Servers, Crash(s) PROVE KeptInv'
    <2>1. UNCHANGED <<pendingFile, readyFile, accepted, published>>
      BY <1>4 DEF Crash
    <2>2. \A z \in Servers : entries'[z] = entries[z] \/ entries'[z].kind # "ready"
      BY <1>4 DEF Crash, LedgerInv, LedgerTypes, RequestTypes, Absent
    <2>3. \A r \in Requests : stage'[r] = "dropped" \/ (stage'[r] = stage[r] /\ hold'[r] = hold[r])
      BY <1>4 DEF Crash
    <2> QED
      BY <2>1, <2>2, <2>3 DEF KeptInv, Known
  <1>5. CASE Tick \/ UNCHANGED ledgerVars
    BY <1>5 DEF Tick, ledgerVars, KeptInv, Known
  <1> QED
    BY <1>1, <1>2, <1>3, <1>4, <1>5 DEF LedgerNext

\* A run that the service has accepted for a key can be found by every retry,
\* through crashes, failing commits, sweeps, expired claims and their adoption,
\* as long as a disconnecting client has no neighbour with its key on its server.
THEOREM AcceptedCorrect == ASSUME Patient PROVE LedgerSpec => []AcceptedRunIsNotForgotten
  <1>1. LedgerInit => KeptInv
    BY DEF LedgerInit, KeptInv, Absent
  <1>2. LedgerInv /\ KeptInv /\ [LedgerNext]_ledgerVars => KeptInv'
    BY KeptStep
  <1>3. KeptInv => AcceptedRunIsNotForgotten
    BY DEF KeptInv, Known, AcceptedRunIsNotForgotten
  <1> QED
    BY <1>1, <1>2, <1>3, LedgerInvariant, PTL DEF LedgerSpec
=============================================================================
