-------------------------- MODULE JournalStreamProofs --------------------------
(***************************************************************************)
(* Proofs about JournalStream, for every capacity, every number of         *)
(* records, faults and subscribers: the types, the common sequence space   *)
(* of the two files, the delivery of every record to a follower, and the   *)
(* repairability of what a crash leaves.                                   *)
(*                                                                         *)
(* The files are considered as they read once repaired (Journal, Notes).   *)
(* The argument for the followers is that a number, once given, is above   *)
(* all numbers that any reader may have met: so a cursor that is correct   *)
(* for two files stays correct when they grow, and a receiver's queue      *)
(* that leaves nothing out stays so when the next record is pushed.        *)
(***************************************************************************)
EXTENDS JournalStream, SequenceTheorems, WellFoundedInduction, TLAPS

\* The settings in which an observation finds a number nobody else has:
\* where observations are recorded, the service does not append beside the engine.
Synced(s) == s.audit => ~(s.service /\ s.clock = "wall")

\* The settings in which a follower meets records in file order: no parallel
\* observations on one broadcast channel, one follower per poller, and no
\* complete line without its newline.
Followed(s) ==
    /\ Synced(s) /\ ~s.bare
    /\ s.mode = "exclusive" => ~(s.audit /\ s.parallel)
    /\ s.mode = "shared" => \A c, d \in s.followers : c = d

-----------------------------------------------------------------------------
(* The files. *)

Loose == {NoTail, TornTail}
Journal == Repaired(durable, tail)
Notes == Repaired(audit, auditTail)

Increasing(s) == \A i, j \in DOMAIN s : i < j => s[i].seq < s[j].seq
Disjoint(s, t) == \A i \in DOMAIN s, j \in DOMAIN t : s[i].seq # t[j].seq
Ordered(s, t) == Increasing(s) /\ Increasing(t) /\ Disjoint(s, t)
Below(s, n) == \A i \in DOMAIN s : s[i].seq < n

\* The sequence space is shared by the files as the next writer finds them.
SequenceInv == Synced(setting) => Ordered(Journal, Notes)

\* The engine's memory is ahead of both files whenever an observation may
\* take its number from it.
MemoryInv ==
    Synced(setting) /\ setting.audit /\ writer.open =>
        Below(Journal, NextSeq(writer)) /\ Below(Notes, NextSeq(writer))

\* An open writer has repaired the tails, and its run is not over.
OpenInv ==
    writer.open => /\ tail \in Loose /\ auditTail = NoTail
                   /\ TerminalOf(durable) # "sealed"
                   /\ ~setting.resumes => TerminalOf(durable) = "none"

\* The marker stands beside a settled journal without a torn tail.
MarkerInv ==
    marker /\ ~setting.resumes =>
        /\ tail = NoTail /\ TerminalOf(durable) # "none"
        /\ TerminalOf(durable) = "interrupted" => auditTail = NoTail

BareInv == ~setting.bare => tail \in Loose /\ auditTail \in Loose

FileInv ==
    /\ SequenceInv /\ MemoryInv /\ OpenInv /\ MarkerInv /\ BareInv
    /\ durable # <<>>

-----------------------------------------------------------------------------
(* The readers. *)

Lines(d, a) == Range(d) \cup Range(a)
Written == Lines(durable, audit)
Numbers(W) == {x.seq : x \in W}

\* A cursor has read exactly the records up to the number it remembers.
CursorOK(at, d, a) ==
    /\ at[1] \in 0..Len(d) /\ at[2] \in 0..Len(a)
    /\ at[3] \in Numbers(Lines(d, a)) \cup {0}
    /\ \A i \in DOMAIN d : i <= at[1] <=> d[i].seq <= at[3]
    /\ \A i \in DOMAIN a : i <= at[2] <=> a[i].seq <= at[3]

Has(q, n) == \E j \in DOMAIN q.items : q.items[j].seq = n
Known(q, W) == \A i \in DOMAIN q.items : q.items[i].seq \in Numbers(W)
\* Nothing beyond n is missing in front of an item of the queue.
InOrder(q, n, W) ==
    ~q.lagged => \A i \in DOMAIN q.items, x \in W :
                    n < x.seq /\ x.seq <= q.items[i].seq =>
                        \E j \in 1..i : q.items[j].seq = x.seq
\* Every record of W beyond n is in the queue.
Complete(q, n, W) == q.open /\ ~q.lagged => \A x \in W : n < x.seq => Has(q, x.seq)

Receiving(v) == v.phase \in {"replay", "live"}

\* What a client has is what was written up to its position.
ClientOK(v, g) ==
    /\ v.after \in Numbers(Written) \cup {0}
    /\ \A x \in Written : x.seq <= v.after => x.seq \in g
    /\ \A n \in g : n <= v.after
    /\ g # {} => v.after \in g

ReplayOK(v) ==
    /\ v.phase \in {"join", "replay"} =>
          /\ v.through \in Numbers(Written) /\ v.delivered = v.through
          /\ v.after <= v.through /\ v.at[3] <= v.after
          /\ CursorOK(v.at, durable, audit)
    /\ v.phase = "live" => v.after = v.delivered

QueueOK(c, v, q) ==
    /\ Known(q, Written)
    /\ Receiving(v) => InOrder(q, v.delivered, Written)
    /\ q.open /\ setting.mode = "shared" => c \in setting.followers /\ Receiving(v)
    /\ ~q.open => q.items = <<>>

\* What a live receiver has not been sent yet: on the engine's channel
\* nothing but an unsent observation, on the poller's what it has not read.
BacklogOK(v, q) ==
    /\ setting.mode = "exclusive" /\ Receiving(v) /\ TerminalOf(durable) # "sealed" =>
          Complete(q, v.delivered, Written \ unsent)
    /\ setting.mode = "shared" /\ Receiving(v) /\ poller.alive =>
          Complete(q, v.delivered, {x \in Written : x.seq <= poller.delivered})
    /\ v.phase = "join" =>
          setting.mode = "shared" /\ (poller.alive => poller.delivered <= v.through)

FollowerOK(c, v, q, g) ==
    /\ ClientOK(v, g) /\ ReplayOK(v) /\ QueueOK(c, v, q) /\ BacklogOK(v, q)
    /\ v.phase # "new" => c \in setting.followers

UnsentInv ==
    setting.mode = "exclusive" =>
        \A r \in unsent : /\ writer.open /\ setting.audit /\ unsent = {r}
                          /\ \A x \in Written : x.seq <= r.seq

PollerInv ==
    poller.alive => /\ setting.mode = "shared"
                    /\ CursorOK(poller.at, durable, audit)
                    /\ poller.at[3] <= poller.delivered
                    /\ poller.delivered \in Numbers(Written)

ReaderInv ==
    Followed(setting) =>
        /\ UnsentInv /\ PollerInv
        /\ \A c \in Subscribers : FollowerOK(c, sub[c], queue[c], got[c])

StreamInv == StreamTypeOK /\ FileInv /\ ReaderInv

-----------------------------------------------------------------------------
(* Operators. *)

\* The greater of two numbers.
LEMMA TwoMax ==
    ASSUME NEW a \in Nat, NEW b \in Nat
    PROVE  /\ Max({a, b}) \in Nat /\ Max({a, b}) >= a /\ Max({a, b}) >= b
           /\ Max({a, b}) \in {a, b}
  <1>1. \E x \in {a, b} : \A y \in {a, b} : x >= y
    OBVIOUS
  <1> QED
    BY <1>1 DEF Max

\* A set of positions of a sequence has a last one.
LEMMA LastPosition ==
    ASSUME NEW n \in Nat, NEW S, S \subseteq 1..n, S # {}
    PROVE  Max(S) \in S /\ \A y \in S : y <= Max(S)
  <1> DEFINE T == {n - x : x \in S}
  <1>1. T \subseteq Nat /\ T # {}
    <2>1. ASSUME NEW x \in S PROVE n - x \in Nat
      BY <2>1
    <2> QED
      BY <2>1
  <1>2. PICK m \in T : \A k \in T : <<k, m>> \notin OpToRel(<, Nat)
    BY <1>1, NatLessThanWellFounded, WFMin, Zenon
  <1>3. PICK x \in S : m = n - x
    BY <1>2
  <1>4. ASSUME NEW y \in S PROVE x >= y
    <2>1. n - y \in T /\ n - y \in Nat
      BY <1>1
    <2>2. ~(n - y < m)
      BY <1>1, <1>2, <2>1 DEF OpToRel
    <2> QED
      BY <1>3, <2>2
  <1> QED
    BY <1>3, <1>4 DEF Max

LEMMA RecordFacts ==
    ASSUME NEW r \in Records
    PROVE  r.seq \in Nat /\ r.seq >= 1 /\ r.kind \in StreamKinds
  BY DEF Records

LEMMA LineFacts ==
    ASSUME NEW s \in Seq(Records), NEW i \in DOMAIN s
    PROVE  s[i] \in Records /\ s[i].seq \in Nat /\ s[i].seq >= 1
  <1>1. s[i] \in Records
    OBVIOUS
  <1> QED
    BY <1>1, RecordFacts

\* A record is no empty and no torn tail.
LEMMA RecordIsNoTail ==
    ASSUME NEW r \in Records
    PROVE  r \notin Loose
  BY DEF Records, Loose, NoTail, TornTail, StreamKinds, StreamTerminal

\* repair_tail_at keeps the complete lines, and adds at most the last one.
LEMMA RepairedFile ==
    ASSUME NEW s \in Seq(Records), NEW t \in Tails
    PROVE  /\ Repaired(s, t) \in Seq(Records)
           /\ t \in Loose => Repaired(s, t) = s
           /\ t \in Records => Repaired(s, t) = Append(s, t)
  <1>1. t \in Loose \/ t \in Records
    BY DEF Tails, Loose
  <1>2. CASE t \in Loose
    BY <1>2, RecordIsNoTail DEF Repaired, Loose
  <1>3. CASE t \in Records
    BY <1>3, RecordIsNoTail, AppendProperties DEF Repaired, Loose
  <1> QED
    BY <1>1, <1>2, <1>3

LEMMA LastNumber ==
    ASSUME NEW s \in Seq(Records)
    PROVE  LastSeq(s) \in Nat
  <1>1. s # <<>> => Len(s) \in DOMAIN s
    OBVIOUS
  <1> QED
    BY <1>1, LineFacts DEF LastSeq

\* The last number of a file as the next writer finds it.
LEMMA TailNumber ==
    ASSUME NEW s \in Seq(Records), NEW t \in Tails
    PROVE  TailSeq(s, t) = LastSeq(Repaired(s, t)) /\ TailSeq(s, t) \in Nat
  <1>1. t \in Loose \/ t \in Records
    BY DEF Tails, Loose
  <1>2. ASSUME NEW u \in Seq(Records) PROVE LastSeq(u) \in Nat
    BY LastNumber
  <1>3. CASE t \in Loose
    BY <1>2, <1>3, RepairedFile DEF TailSeq, Loose
  <1>4. CASE t \in Records
    <2>1. Repaired(s, t) = Append(s, t) /\ t \notin Loose
      BY <1>4, RepairedFile, RecordIsNoTail
    <2>2. LastSeq(Append(s, t)) = t.seq
      BY <1>4, AppendProperties DEF LastSeq
    <2> QED
      BY <1>4, <2>1, <2>2 DEF TailSeq, Loose, Records
  <1> QED
    BY <1>1, <1>3, <1>4

\* A number beyond the last one of an increasing file is beyond all.
LEMMA BeyondLast ==
    ASSUME NEW s \in Seq(Records), Increasing(s), NEW n \in Nat, LastSeq(s) < n
    PROVE  Below(s, n)
  <1>1. ASSUME NEW i \in DOMAIN s PROVE s[i].seq < n
    <2>1. s # <<>> /\ Len(s) \in DOMAIN s /\ i <= Len(s)
      BY <1>1
    <2>2. s[i].seq \in Nat /\ s[Len(s)].seq \in Nat /\ s[Len(s)].seq < n
      BY <2>1, LineFacts DEF LastSeq
    <2>3. CASE i = Len(s)
      BY <2>2, <2>3
    <2>4. CASE i < Len(s)
      BY <2>1, <2>2, <2>4 DEF Increasing
    <2> QED
      BY <2>1, <2>3, <2>4
  <1> QED
    BY <1>1 DEF Below

\* A record with a new number keeps the sequence space.
LEMMA NextRecord ==
    ASSUME NEW s \in Seq(Records), NEW t \in Seq(Records), NEW r \in Records,
           Ordered(s, t), Below(s, r.seq), Below(t, r.seq)
    PROVE  /\ Ordered(Append(s, r), t) /\ Ordered(s, Append(t, r))
           /\ Below(Append(s, r), r.seq + 1) /\ Below(Append(t, r), r.seq + 1)
           /\ Below(s, r.seq + 1) /\ Below(t, r.seq + 1)
  <1> USE DEF Ordered, Increasing, Disjoint, Below
  <1>1. /\ \A i \in DOMAIN s : s[i].seq \in Nat
        /\ \A i \in DOMAIN t : t[i].seq \in Nat
        /\ r.seq \in Nat
    BY LineFacts, RecordFacts
  <1>2. ASSUME NEW u \in Seq(Records), Below(u, r.seq), Increasing(u)
        PROVE  Increasing(Append(u, r)) /\ Below(Append(u, r), r.seq + 1) /\ Below(u, r.seq + 1)
    <2>1. \A i \in DOMAIN u : u[i].seq \in Nat
      BY LineFacts
    <2>2. /\ DOMAIN Append(u, r) = 1..(Len(u) + 1) /\ DOMAIN u = 1..Len(u) /\ Len(u) \in Nat
          /\ \A i \in 1..Len(u) : Append(u, r)[i] = u[i]
          /\ Append(u, r)[Len(u) + 1] = r
      OBVIOUS
    <2>3. \A i \in DOMAIN Append(u, r) : i \in DOMAIN u \/ i = Len(u) + 1
      BY <2>2
    <2>4. \A i, j \in DOMAIN Append(u, r) : i < j => i \in DOMAIN u
      BY <2>2
    <2> QED
      BY <1>1, <1>2, <2>1, <2>2, <2>3, <2>4
  <1>3. ASSUME NEW u \in Seq(Records), NEW v \in Seq(Records), Below(v, r.seq), Disjoint(u, v)
        PROVE  Disjoint(Append(u, r), v) /\ Disjoint(v, Append(u, r))
    <2>1. \A i \in DOMAIN Append(u, r) : Append(u, r)[i] = r \/ (i \in DOMAIN u /\ Append(u, r)[i] = u[i])
      OBVIOUS
    <2>2. \A j \in DOMAIN v : v[j].seq # r.seq
      BY <1>1, <1>3 DEF Records
    <2> QED
      BY <1>3, <2>1, <2>2
  <1>4. Disjoint(t, s)
    OBVIOUS
  <1> QED
    BY <1>2, <1>3, <1>4

\* RunState.terminal after one more event.
Ends == {"none", "sealed", "interrupted"}
LEMMA TerminalAppend ==
    ASSUME NEW s \in Seq(Records), NEW r \in Records
    PROVE  /\ TerminalOf(s) \in Ends /\ TerminalOf(Append(s, r)) \in Ends
           /\ r.kind \in StreamTerminal => TerminalOf(Append(s, r)) = r.kind
           /\ r.kind = "resumed" => TerminalOf(Append(s, r)) = "none"
           /\ r.kind \notin StreamTerminal \cup {"resumed"} =>
                 TerminalOf(Append(s, r)) = TerminalOf(s)
  <1> DEFINE Marks(u) == {i \in DOMAIN u : u[i].kind \in StreamTerminal \cup {"resumed"}}
             t == Append(s, r)
             n == Len(s) + 1
  <1>1. /\ DOMAIN t = 1..n /\ DOMAIN s = 1..Len(s) /\ Len(s) \in Nat /\ t[n] = r
        /\ \A i \in DOMAIN s : t[i] = s[i]
        /\ \A i \in DOMAIN t : i \in DOMAIN s \/ i = n
        /\ \A i \in DOMAIN s : i \in DOMAIN t /\ i # n
    OBVIOUS
  <1>2. ASSUME NEW u \in Seq(Records)
        PROVE  TerminalOf(u) \in Ends
               /\ (Marks(u) # {} => Max(Marks(u)) \in Marks(u) /\ \A i \in Marks(u) : i <= Max(Marks(u)))
    <2>1. Marks(u) \subseteq 1..Len(u) /\ Len(u) \in Nat
      OBVIOUS
    <2>2. Marks(u) # {} => Max(Marks(u)) \in Marks(u) /\ \A i \in Marks(u) : i <= Max(Marks(u))
      BY <2>1, LastPosition
    <2> QED
      BY <2>2 DEF TerminalOf, Ends, StreamTerminal
  <1>3. t \in Seq(Records)
    OBVIOUS
  <1>4. CASE r.kind \in StreamTerminal \cup {"resumed"}
    <2>1. n \in Marks(t) /\ \A i \in Marks(t) : i <= n
      BY <1>1, <1>4
    <2>2. Max(Marks(t)) = n
      <3> HIDE DEF Marks, t, n
      <3>1. Max(Marks(t)) \in Marks(t) /\ n <= Max(Marks(t))
        BY <1>2, <1>3, <2>1
      <3>2. Max(Marks(t)) <= n
        BY <2>1, <3>1
      <3>3. Max(Marks(t)) \in Nat /\ n \in Nat
        BY <1>1, <3>1 DEF Marks, n
      <3> QED
        BY <3>1, <3>2, <3>3
    <2>3. TerminalOf(t) = IF r.kind = "resumed" THEN "none" ELSE r.kind
      BY <1>1, <2>1, <2>2 DEF TerminalOf
    <2> QED
      BY <1>2, <1>3, <1>4, <2>3 DEF StreamTerminal
  <1>5. CASE r.kind \notin StreamTerminal \cup {"resumed"}
    <2>1. Marks(t) = Marks(s)
      BY <1>1, <1>5
    <2>2. TerminalOf(t) = TerminalOf(s)
      BY <1>1, <1>2, <2>1 DEF TerminalOf
    <2> QED
      BY <1>2, <1>3, <1>5, <2>2
  <1> QED
    BY <1>4, <1>5

-----------------------------------------------------------------------------
(* Growing files, cursors and queues. *)

\* The files only gain lines, whose numbers are above all earlier ones.
Grows(d, a, d2, a2) ==
    /\ Len(d) <= Len(d2) /\ \A i \in DOMAIN d : d2[i] = d[i]
    /\ Len(a) <= Len(a2) /\ \A i \in DOMAIN a : a2[i] = a[i]
    /\ \A x \in Lines(d2, a2) : x \in Lines(d, a) \/ \A y \in Lines(d, a) : y.seq < x.seq
    /\ \A i \in DOMAIN d2 : i > Len(d) => \A y \in Lines(d, a) : y.seq < d2[i].seq
    /\ \A i \in DOMAIN a2 : i > Len(a) => \A y \in Lines(d, a) : y.seq < a2[i].seq

LEMMA LinesFacts ==
    ASSUME NEW d \in Seq(Records), NEW a \in Seq(Records)
    PROVE  /\ Lines(d, a) \subseteq Records
           /\ \A i \in DOMAIN d : d[i] \in Lines(d, a)
           /\ \A i \in DOMAIN a : a[i] \in Lines(d, a)
           /\ \A x \in Lines(d, a) : x.seq \in Nat /\ x.seq >= 1
           /\ \A x \in Lines(d, a) : (\E i \in DOMAIN d : x = d[i]) \/ (\E i \in DOMAIN a : x = a[i])
  BY LineFacts DEF Lines, Range

LEMMA RangeAppend ==
    ASSUME NEW s \in Seq(Records), NEW r \in Records
    PROVE  Range(Append(s, r)) = Range(s) \cup {r}
  <1>1. /\ DOMAIN Append(s, r) = 1..(Len(s) + 1) /\ DOMAIN s = 1..Len(s) /\ Len(s) \in Nat
        /\ \A i \in 1..Len(s) : Append(s, r)[i] = s[i]
        /\ Append(s, r)[Len(s) + 1] = r
    OBVIOUS
  <1>2. \A i \in DOMAIN Append(s, r) : i \in DOMAIN s \/ i = Len(s) + 1
    BY <1>1
  <1>3. \A i \in DOMAIN s : i \in DOMAIN Append(s, r)
    BY <1>1
  <1>4. Len(s) + 1 \in DOMAIN Append(s, r)
    BY <1>1
  <1> QED
    BY <1>1, <1>2, <1>3, <1>4 DEF Range

LEMMA LinesAppend ==
    ASSUME NEW d \in Seq(Records), NEW a \in Seq(Records), NEW r \in Records
    PROVE  /\ Lines(Append(d, r), a) = Lines(d, a) \cup {r}
           /\ Lines(d, Append(a, r)) = Lines(d, a) \cup {r}
  BY RangeAppend DEF Lines

\* A record above both files is above all their lines.
LEMMA AboveLines ==
    ASSUME NEW d \in Seq(Records), NEW a \in Seq(Records), NEW n, Below(d, n), Below(a, n)
    PROVE  \A y \in Lines(d, a) : y.seq < n
  BY LinesFacts DEF Below

LEMMA GrowsNot ==
    ASSUME NEW d \in Seq(Records), NEW a \in Seq(Records)
    PROVE  Grows(d, a, d, a)
  BY DEF Grows

LEMMA GrowsByRecord ==
    ASSUME NEW d \in Seq(Records), NEW a \in Seq(Records), NEW r \in Records,
           Below(d, r.seq), Below(a, r.seq)
    PROVE  Grows(d, a, Append(d, r), a) /\ Grows(d, a, d, Append(a, r))
  <1>1. \A y \in Lines(d, a) : y.seq < r.seq
    BY AboveLines
  <1>2. ASSUME NEW s \in Seq(Records)
        PROVE  /\ Len(s) <= Len(Append(s, r)) /\ \A i \in DOMAIN s : Append(s, r)[i] = s[i]
               /\ \A i \in DOMAIN Append(s, r) : i > Len(s) => Append(s, r)[i] = r
    OBVIOUS
  <1>3. ASSUME NEW s \in Seq(Records) PROVE \A i \in DOMAIN s : ~(i > Len(s))
    OBVIOUS
  <1> QED
    BY <1>1, <1>2, <1>3, LinesAppend DEF Grows

LEMMA GrowsByTwo ==
    ASSUME NEW d \in Seq(Records), NEW a \in Seq(Records), NEW r \in Records, NEW s \in Records,
           Below(d, r.seq), Below(a, r.seq), r.seq < s.seq
    PROVE  Grows(d, a, Append(Append(d, r), s), a)
  <1> DEFINE e == Append(d, r)
  <1>1. \A y \in Lines(d, a) : y.seq < r.seq /\ y.seq < s.seq
    BY AboveLines, LinesFacts, RecordFacts
  <1>2. e \in Seq(Records) /\ Lines(e, a) = Lines(d, a) \cup {r}
    BY LinesAppend
  <1>3. Lines(Append(e, s), a) = Lines(d, a) \cup {r, s}
    <2> HIDE DEF e
    <2>1. Lines(Append(e, s), a) = Lines(e, a) \cup {s}
      BY <1>2, LinesAppend
    <2> QED
      BY <1>2, <2>1
  <1>4. /\ Len(d) <= Len(Append(e, s)) /\ \A i \in DOMAIN d : Append(e, s)[i] = d[i]
        /\ \A i \in DOMAIN Append(e, s) : i > Len(d) => Append(e, s)[i] \in {r, s}
    OBVIOUS
  <1>5. \A i \in DOMAIN a : ~(i > Len(a))
    OBVIOUS
  <1> QED
    BY <1>1, <1>3, <1>4, <1>5 DEF Grows

LEMMA GrowsNumbers ==
    ASSUME NEW d \in Seq(Records), NEW a \in Seq(Records),
           NEW d2 \in Seq(Records), NEW a2 \in Seq(Records), Grows(d, a, d2, a2)
    PROVE  /\ Lines(d, a) \subseteq Lines(d2, a2)
           /\ Numbers(Lines(d, a)) \subseteq Numbers(Lines(d2, a2))
           /\ \A x \in Lines(d2, a2), n \in Numbers(Lines(d, a)) \cup {0} :
                 x \in Lines(d, a) \/ n < x.seq
  <1>1. \A i \in DOMAIN d : i \in DOMAIN d2 /\ d[i] = d2[i]
    BY DEF Grows
  <1>2. \A i \in DOMAIN a : i \in DOMAIN a2 /\ a[i] = a2[i]
    BY DEF Grows
  <1>3. Lines(d, a) \subseteq Lines(d2, a2)
    BY <1>1, <1>2, LinesFacts
  <1>4. ASSUME NEW x \in Lines(d2, a2), NEW n \in Numbers(Lines(d, a)) \cup {0}, x \notin Lines(d, a)
        PROVE  n < x.seq
    <2>1. \A y \in Lines(d, a) : y.seq < x.seq
      BY <1>4 DEF Grows
    <2>2. x.seq \in Nat /\ x.seq >= 1
      BY LinesFacts
    <2>3. n = 0 \/ \E y \in Lines(d, a) : n = y.seq
      BY DEF Numbers
    <2> QED
      BY <2>1, <2>2, <2>3
  <1> QED
    BY <1>3, <1>4 DEF Numbers

\* A cursor stays correct: what it has not read is beyond its number.
LEMMA CursorGrows ==
    ASSUME NEW d \in Seq(Records), NEW a \in Seq(Records),
           NEW d2 \in Seq(Records), NEW a2 \in Seq(Records), Grows(d, a, d2, a2),
           NEW at \in Cursors, CursorOK(at, d, a)
    PROVE  CursorOK(at, d2, a2)
  <1>1. at[1] \in Nat /\ at[2] \in Nat /\ at[3] \in Nat
    BY DEF Cursors
  <1>2. at[3] \in Numbers(Lines(d2, a2)) \cup {0}
    BY GrowsNumbers DEF CursorOK
  <1>3. at[1] \in 0..Len(d2) /\ at[2] \in 0..Len(a2)
    BY <1>1 DEF CursorOK, Grows
  <1>4. ASSUME NEW i \in DOMAIN d2 PROVE i <= at[1] <=> d2[i].seq <= at[3]
    <2>1. CASE i \in DOMAIN d
      BY <2>1 DEF CursorOK, Grows
    <2>2. CASE i \notin DOMAIN d
      <3>1. i > Len(d) /\ ~(i <= at[1])
        BY <1>1, <2>2 DEF CursorOK
      <3>2. \A y \in Lines(d, a) : y.seq < d2[i].seq
        BY <3>1 DEF Grows
      <3>3. d2[i].seq \in Nat /\ d2[i].seq >= 1
        BY LineFacts
      <3>4. at[3] = 0 \/ \E y \in Lines(d, a) : at[3] = y.seq
        BY DEF CursorOK, Numbers
      <3>5. at[3] < d2[i].seq
        BY <3>2, <3>3, <3>4
      <3> QED
        BY <1>1, <3>1, <3>3, <3>5
    <2> QED
      BY <2>1, <2>2
  <1>5. ASSUME NEW i \in DOMAIN a2 PROVE i <= at[2] <=> a2[i].seq <= at[3]
    <2>1. CASE i \in DOMAIN a
      BY <2>1 DEF CursorOK, Grows
    <2>2. CASE i \notin DOMAIN a
      <3>1. i > Len(a) /\ ~(i <= at[2])
        BY <1>1, <2>2 DEF CursorOK
      <3>2. \A y \in Lines(d, a) : y.seq < a2[i].seq
        BY <3>1 DEF Grows
      <3>3. a2[i].seq \in Nat /\ a2[i].seq >= 1
        BY LineFacts
      <3>4. at[3] = 0 \/ \E y \in Lines(d, a) : at[3] = y.seq
        BY DEF CursorOK, Numbers
      <3>5. at[3] < a2[i].seq
        BY <3>2, <3>3, <3>4
      <3> QED
        BY <1>1, <3>1, <3>3, <3>5
    <2> QED
      BY <2>1, <2>2
  <1> QED
    BY <1>2, <1>3, <1>4, <1>5 DEF CursorOK

\* A cursor at the start of two files.
LEMMA CursorStart ==
    ASSUME NEW d \in Seq(Records), NEW a \in Seq(Records)
    PROVE  <<0, 0, 0>> \in Cursors /\ CursorOK(<<0, 0, 0>>, d, a)
  <1>1. \A i \in DOMAIN d : ~(i <= 0) /\ ~(d[i].seq <= 0)
    BY LineFacts
  <1>2. \A i \in DOMAIN a : ~(i <= 0) /\ ~(a[i].seq <= 0)
    BY LineFacts
  <1>3. Len(d) \in Nat /\ Len(a) \in Nat
    OBVIOUS
  <1> QED
    BY <1>1, <1>2, <1>3 DEF CursorOK, Cursors

-----------------------------------------------------------------------------
(* Receivers. *)

LEMMA PushFacts ==
    ASSUME NEW q \in Queues, NEW e \in Records
    PROVE  /\ Push(q, e) \in Queues /\ Push(q, e).open = q.open
           /\ ~q.open => Push(q, e) = q
           /\ Len(q.items) <= Capacity => Len(Push(q, e).items) <= Capacity
           /\ ~Push(q, e).lagged => ~q.lagged
           /\ \A j \in DOMAIN Push(q, e).items :
                 \/ Push(q, e).items[j] = e
                 \/ \E i \in DOMAIN q.items : Push(q, e).items[j] = q.items[i]
           /\ q.open /\ ~Push(q, e).lagged => Push(q, e).items = Append(q.items, e)
  <1> DEFINE s == q.items
  <1>1. s \in Seq(Records) /\ Len(s) \in Nat /\ Capacity \in Nat /\ Capacity >= 1
    BY StreamAssumption DEF Queues
  <1>2. CASE ~q.open
    BY <1>2 DEF Push
  <1>3. CASE q.open /\ Len(s) < Capacity
    <2>1. Push(q, e) = [q EXCEPT !.items = Append(s, e)]
      BY <1>3 DEF Push
    <2>2. /\ Append(s, e) \in Seq(Records) /\ Len(Append(s, e)) <= Capacity
          /\ \A j \in DOMAIN Append(s, e) :
                Append(s, e)[j] = e \/ \E i \in DOMAIN s : Append(s, e)[j] = s[i]
      <3>1. Append(s, e) \in Seq(Records) /\ Len(Append(s, e)) = Len(s) + 1
        BY <1>1
      <3>2. ASSUME NEW j \in DOMAIN Append(s, e)
            PROVE  Append(s, e)[j] = e \/ \E i \in DOMAIN s : Append(s, e)[j] = s[i]
        BY <1>1
      <3> QED
        BY <1>1, <1>3, <3>1, <3>2
    <2>3. /\ Push(q, e).items = Append(s, e) /\ Push(q, e).open = q.open
          /\ Push(q, e).lagged = q.lagged /\ Push(q, e) \in Queues
      BY <2>1, <2>2 DEF Queues
    <2> QED
      BY <1>3, <2>2, <2>3
  <1>4. CASE q.open /\ ~(Len(s) < Capacity)
    <2>1. Push(q, e) = [q EXCEPT !.items = Append(Tail(s), e), !.lagged = TRUE]
      BY <1>4 DEF Push
    <2>2. s # <<>> /\ Tail(s) \in Seq(Records) /\ Len(Tail(s)) = Len(s) - 1
          /\ \A i \in DOMAIN Tail(s) : i + 1 \in DOMAIN s /\ Tail(s)[i] = s[i + 1]
      BY <1>1, <1>4
    <2>3. Append(Tail(s), e) \in Seq(Records) /\ Len(Append(Tail(s), e)) = Len(s)
      BY <1>1, <2>2
    <2>4. \A j \in DOMAIN Append(Tail(s), e) :
             Append(Tail(s), e)[j] = e \/ \E i \in DOMAIN Tail(s) : Append(Tail(s), e)[j] = Tail(s)[i]
      BY <2>2
    <2>5. \A j \in DOMAIN Append(Tail(s), e) :
             Append(Tail(s), e)[j] = e \/ \E i \in DOMAIN s : Append(Tail(s), e)[j] = s[i]
      BY <2>2, <2>4
    <2>6. /\ Push(q, e).items = Append(Tail(s), e) /\ Push(q, e).open = q.open
          /\ Push(q, e).lagged = TRUE /\ Push(q, e) \in Queues
      BY <2>1, <2>3 DEF Queues
    <2> QED
      BY <1>4, <2>3, <2>5, <2>6
  <1> QED
    BY <1>2, <1>3, <1>4

\* Records that are written and not sent leave the order as it is.
LEMMA OrderGrows ==
    ASSUME NEW q \in Queues, NEW n \in Nat,
           NEW W, NEW W2, W2 \subseteq Records, W \subseteq W2, Known(q, W),
           \A x \in W2 : x \in W \/ \A y \in W : y.seq < x.seq
    PROVE  Known(q, W2) /\ (InOrder(q, n, W) => InOrder(q, n, W2))
  <1>1. \A x \in W2 : x.seq \in Nat
    BY RecordFacts
  <1>2. ASSUME NEW i \in DOMAIN q.items, NEW x \in W2, x.seq <= q.items[i].seq PROVE x \in W
    <2>1. PICK y \in W : y.seq = q.items[i].seq
      BY DEF Known, Numbers
    <2> QED
      BY <1>1, <1>2, <2>1
  <1> QED
    BY <1>2 DEF Known, Numbers, InOrder

\* The next record on a queue: the queue has all of V, and whatever was
\* written before e is in V.
LEMMA PushNext ==
    ASSUME NEW q \in Queues, NEW e \in Records, NEW n \in Nat, NEW V, NEW V2, NEW W,
           W \subseteq Records, V2 \subseteq W, Known(q, W), e.seq \in Numbers(W),
           \A x \in W : x.seq < e.seq => x \in V,
           \A x \in V2 : x \in V \/ x.seq = e.seq
    PROVE  /\ Known(Push(q, e), W)
           /\ InOrder(q, n, W) /\ Complete(q, n, V) /\ q.open =>
                 InOrder(Push(q, e), n, W) /\ Complete(Push(q, e), n, V2)
           /\ q.items = <<>> /\ ~q.open =>
                 InOrder(Push(q, e), n, W) /\ Complete(Push(q, e), n, V2)
  <1> DEFINE p == Push(q, e)
  <1>0. /\ p \in Queues /\ p.open = q.open /\ (~q.open => p = q) /\ (~p.lagged => ~q.lagged)
        /\ \A j \in DOMAIN p.items : p.items[j] = e \/ \E i \in DOMAIN q.items : p.items[j] = q.items[i]
        /\ q.open /\ ~p.lagged => p.items = Append(q.items, e)
    BY PushFacts
  <1> HIDE DEF p
  <1>1. Known(p, W)
    BY <1>0 DEF Known, Numbers
  <1>2. e.seq \in Nat /\ \A x \in W : x.seq \in Nat
    BY RecordFacts
  <1>3. ASSUME InOrder(q, n, W), Complete(q, n, V), q.open, ~p.lagged
        PROVE  /\ \A i \in DOMAIN p.items, x \in W : n < x.seq /\ x.seq <= p.items[i].seq =>
                     \E j \in 1..i : p.items[j].seq = x.seq
               /\ \A x \in V2 : n < x.seq => Has(p, x.seq)
    <2> DEFINE m == Len(q.items)
    <2>1. /\ p.items = Append(q.items, e) /\ q.items \in Seq(Records) /\ m \in Nat
          /\ DOMAIN q.items = 1..m /\ DOMAIN p.items = 1..(m + 1)
          /\ \A i \in 1..m : p.items[i] = q.items[i]
      BY <1>0, <1>3 DEF Queues
    <2>2. p.items[m + 1] = e
      BY <1>0, <1>3 DEF Queues
    <2>3. ASSUME NEW x \in V, n < x.seq PROVE \E j \in 1..m : q.items[j].seq = x.seq
      BY <1>0, <1>3, <2>1, <2>3 DEF Complete, Has
    <2>4. ASSUME NEW i \in DOMAIN p.items, NEW x \in W, n < x.seq, x.seq <= p.items[i].seq
          PROVE  \E j \in 1..i : p.items[j].seq = x.seq
      <3>1. CASE i = m + 1
        <4>1. CASE x.seq = e.seq
          BY <2>1, <2>2, <3>1, <4>1
        <4>2. CASE x \in V
          BY <2>1, <2>3, <2>4, <3>1, <4>2
        <4> QED
          BY <1>2, <2>2, <2>4, <3>1, <4>1, <4>2
      <3>2. CASE i \in 1..m
        <4>1. p.items[i] = q.items[i] /\ i \in DOMAIN q.items
          BY <2>1, <3>2
        <4>2. PICK j \in 1..i : q.items[j].seq = x.seq
          BY <1>0, <1>3, <2>4, <4>1 DEF InOrder
        <4>3. j \in 1..m /\ p.items[j] = q.items[j]
          BY <2>1, <3>2, <4>2
        <4> QED
          BY <4>2, <4>3
      <3> QED
        BY <2>1, <3>1, <3>2
    <2>5. ASSUME NEW x \in V2, n < x.seq PROVE Has(p, x.seq)
      <3>1. CASE x.seq = e.seq
        BY <2>1, <2>2, <3>1 DEF Has
      <3>2. CASE x \in V
        <4>1. PICK j \in 1..m : q.items[j].seq = x.seq
          BY <2>3, <2>5, <3>2
        <4>2. j \in DOMAIN p.items /\ p.items[j] = q.items[j]
          BY <2>1
        <4> QED
          BY <4>1, <4>2 DEF Has
      <3> QED
        BY <3>1, <3>2
    <2> QED
      BY <2>4, <2>5
  <1>4. InOrder(q, n, W) /\ Complete(q, n, V) /\ q.open => InOrder(p, n, W) /\ Complete(p, n, V2)
    BY <1>3 DEF InOrder, Complete
  <1>5. q.items = <<>> /\ ~q.open => InOrder(p, n, W) /\ Complete(p, n, V2)
    BY <1>0 DEF InOrder, Complete
  <1> QED
    BY <1>1, <1>4, <1>5 DEF p

\* The same while the files grow from W to W2, of which only e is not in V.
LEMMA PushKeeps ==
    ASSUME NEW q \in Queues, NEW e \in Records, NEW n \in Nat,
           NEW V, NEW W, NEW W2, W2 \subseteq Records, W \subseteq W2, V \subseteq W,
           Known(q, W), e.seq \in Numbers(W2),
           \A x \in W2 : x \in W \/ \A y \in W : y.seq < x.seq,
           \A x \in W2 : x \in V \/ x.seq = e.seq
    PROVE  /\ Known(Push(q, e), W2)
           /\ InOrder(q, n, W) /\ Complete(q, n, V) /\ q.open =>
                 InOrder(Push(q, e), n, W2) /\ Complete(Push(q, e), n, W2)
           /\ q.items = <<>> /\ ~q.open =>
                 InOrder(Push(q, e), n, W2) /\ Complete(Push(q, e), n, W2)
  <1>1. Known(q, W2) /\ (InOrder(q, n, W) => InOrder(q, n, W2))
    BY OrderGrows
  <1>2. \A x \in W2 : x.seq < e.seq => x \in V
    BY RecordFacts
  <1> QED
    BY <1>1, <1>2, PushNext

\* The head of a queue is taken.
LEMMA TakeHead ==
    ASSUME NEW q \in Queues, q.items # <<>>, NEW n \in Nat, NEW m \in Nat, NEW W,
           NEW p \in Queues, p.open = q.open, p.lagged = q.lagged, p.items = Tail(q.items),
           n <= m, q.items[1].seq <= m, W \subseteq Records, Known(q, W), InOrder(q, n, W)
    PROVE  /\ Known(p, W) /\ InOrder(p, m, W)
           /\ \A V \in SUBSET W : Complete(q, n, V) => Complete(p, m, V)
  <1>1. q.items \in Seq(Records) /\ Len(q.items) \in Nat /\ Len(q.items) >= 1
    BY DEF Queues
  <1>2. p.open = q.open /\ p.lagged = q.lagged /\ p.items = Tail(q.items)
    OBVIOUS
  <1>3. /\ Len(p.items) = Len(q.items) - 1
        /\ \A i \in DOMAIN p.items : i + 1 \in DOMAIN q.items /\ p.items[i] = q.items[i + 1]
    BY <1>1, <1>2
  <1>4. /\ \A i \in DOMAIN q.items : i = 1 \/ (i - 1 \in DOMAIN p.items /\ p.items[i - 1] = q.items[i])
        /\ DOMAIN q.items \subseteq Nat
    BY <1>1, <1>2
  <1>5. Known(p, W)
    BY <1>3 DEF Known
  <1>6. \A x \in W : x.seq \in Nat
    BY RecordFacts
  <1>7. q.items[1].seq \in Nat
    BY <1>1, LineFacts
  <1>8. ASSUME ~p.lagged, NEW i \in DOMAIN p.items, NEW x \in W, m < x.seq, x.seq <= p.items[i].seq
        PROVE  \E j \in 1..i : p.items[j].seq = x.seq
    <2>1. i \in Nat /\ i >= 1 /\ n < x.seq /\ x.seq <= q.items[i + 1].seq /\ i + 1 \in DOMAIN q.items
      BY <1>2, <1>3, <1>6, <1>8
    <2>2. PICK j \in 1..(i + 1) : q.items[j].seq = x.seq
      BY <1>2, <1>8, <2>1 DEF InOrder
    <2>3. j # 1
      BY <1>6, <1>7, <1>8, <2>2
    <2>4. j \in DOMAIN q.items /\ j - 1 \in 1..i
      BY <1>1, <2>1, <2>2, <2>3
    <2> QED
      BY <1>4, <2>2, <2>3, <2>4
  <1>9. ASSUME NEW V \in SUBSET W, Complete(q, n, V), p.open, ~p.lagged, NEW x \in V, m < x.seq
        PROVE  Has(p, x.seq)
    <2>1. PICK j \in DOMAIN q.items : q.items[j].seq = x.seq
      BY <1>2, <1>6, <1>9 DEF Complete, Has
    <2>2. j # 1
      BY <1>6, <1>7, <1>9, <2>1
    <2> QED
      BY <1>4, <2>1, <2>2 DEF Has
  <1>10. InOrder(p, m, W) /\ \A V \in SUBSET W : Complete(q, n, V) => Complete(p, m, V)
    BY <1>8, <1>9 DEF InOrder, Complete
  <1> QED
    BY <1>5, <1>10

-----------------------------------------------------------------------------
(* State facts. *)

\* A record whose number is above both files.
Fresh(r) ==
    r \in Records /\ (Synced(setting) => Below(Journal, r.seq) /\ Below(Notes, r.seq))

LEMMA FileFacts ==
    ASSUME StreamTypeOK
    PROVE  /\ durable \in Seq(Records) /\ audit \in Seq(Records)
           /\ tail \in Tails /\ auditTail \in Tails
           /\ Journal \in Seq(Records) /\ Notes \in Seq(Records)
           /\ LastSeq(Journal) \in Nat /\ LastSeq(Notes) \in Nat
           /\ TailSeq(durable, tail) = LastSeq(Journal)
           /\ TailSeq(audit, auditTail) = LastSeq(Notes)
           /\ tail \in Loose => Journal = durable
           /\ auditTail \in Loose => Notes = audit
  BY RepairedFile, TailNumber, LastNumber DEF StreamTypeOK, Journal, Notes

LEMMA WrittenFacts ==
    ASSUME StreamTypeOK
    PROVE  /\ Written \subseteq Records /\ \A x \in Written : x.seq \in Nat /\ x.seq >= 1
           /\ \A i \in DOMAIN durable : durable[i] \in Written
           /\ \A i \in DOMAIN audit : audit[i] \in Written
           /\ unsent \subseteq Written
  <1>1. durable \in Seq(Records) /\ audit \in Seq(Records)
    BY DEF StreamTypeOK
  <1> QED
    BY <1>1, LinesFacts DEF StreamTypeOK, Written, Lines

\* In a followed setting the files end with complete lines, or a fragment.
LEMMA FollowedFiles ==
    ASSUME StreamTypeOK, BareInv, Followed(setting)
    PROVE  /\ Journal = durable /\ Notes = audit
           /\ tail \in Loose /\ auditTail \in Loose /\ Synced(setting)
  BY FileFacts DEF BareInv, Followed

LEMMA NumberAbove ==
    ASSUME StreamTypeOK, SequenceInv, NEW n \in Nat, NEW k \in StreamKinds,
           LastSeq(Journal) < n, LastSeq(Notes) < n
    PROVE  /\ Fresh(Rec(n, k)) /\ Rec(n, k).seq = n /\ Rec(n, k).kind = k
  <1>1. n \in Nat \ {0}
    BY FileFacts
  <1>2. Rec(n, k) \in Records /\ Rec(n, k).seq = n /\ Rec(n, k).kind = k
    BY <1>1 DEF Rec, Records
  <1>3. Synced(setting) => Below(Journal, n) /\ Below(Notes, n)
    BY FileFacts, BeyondLast DEF SequenceInv, Ordered
  <1> QED
    BY <1>2, <1>3 DEF Fresh

LEMMA WriterFacts ==
    ASSUME StreamTypeOK, writer.open
    PROVE  /\ writer \in [open : {TRUE}, last : Nat, audit : Nat, degraded : BOOLEAN]
           /\ writer.last \in Nat /\ writer.audit \in Nat /\ writer.degraded \in BOOLEAN
           /\ NextSeq(writer) \in Nat /\ NextSeq(writer) >= 1
           /\ writer.last < NextSeq(writer) /\ writer.audit < NextSeq(writer)
  <1>1. /\ writer \in [open : {TRUE}, last : Nat, audit : Nat, degraded : BOOLEAN]
        /\ writer.last \in Nat /\ writer.audit \in Nat /\ writer.degraded \in BOOLEAN
    <2>1. writer \in Writers /\ writer # NoWriter
      BY DEF StreamTypeOK, NoWriter
    <2> QED
      BY <2>1 DEF Writers
  <1> DEFINE m == Max({writer.last, writer.audit})
  <1>2. m \in Nat /\ m >= writer.last /\ m >= writer.audit
    BY <1>1, TwoMax
  <1>3. NextSeq(writer) = m + 1
    BY DEF NextSeq
  <1>4. writer.last \in Nat /\ writer.audit \in Nat
    BY <1>1
  <1> HIDE DEF m
  <1>5. /\ NextSeq(writer) \in Nat /\ NextSeq(writer) >= 1
        /\ writer.last < NextSeq(writer) /\ writer.audit < NextSeq(writer)
    BY <1>2, <1>3, <1>4
  <1> QED
    BY <1>1, <1>5

LEMMA PollerFacts ==
    ASSUME StreamTypeOK, poller.alive
    PROVE  /\ poller \in [alive : {TRUE}, at : Cursors, delivered : Nat, terminal : BOOLEAN]
           /\ poller.at \in Cursors /\ poller.delivered \in Nat /\ poller.terminal \in BOOLEAN
  <1>1. poller \in Pollers /\ poller # NoPoller
    BY DEF StreamTypeOK, NoPoller
  <1> QED
    BY <1>1 DEF Pollers

\* durable_event's resynchronised memory: its next number is above both
\* files, and the number an observation would take where the two may meet.
LEMMA ResyncFacts ==
    ASSUME StreamTypeOK, SequenceInv, MemoryInv, writer.open, NEW w, w = Resync(Journal)
    PROVE  /\ w \in [open : {TRUE}, last : Nat, audit : Nat, degraded : BOOLEAN]
           /\ w.degraded = writer.degraded
           /\ NextSeq(w) \in Nat /\ NextSeq(w) >= 1 /\ w.last < NextSeq(w) /\ w.audit < NextSeq(w)
           /\ LastSeq(Journal) < NextSeq(w) /\ LastSeq(Notes) < NextSeq(w)
           /\ Synced(setting) /\ setting.audit => NextSeq(w) = NextSeq(writer)
  <1> DEFINE l == Max({writer.last, LastSeq(Journal)})
             b == Max({writer.audit, LastSeq(Notes)})
  <1>1. w = [writer EXCEPT !.last = l, !.audit = b]
    BY FileFacts DEF Resync
  <1>2. /\ l \in Nat /\ l >= writer.last /\ l >= LastSeq(Journal) /\ l \in {writer.last, LastSeq(Journal)}
    BY WriterFacts, FileFacts, TwoMax
  <1>3. /\ b \in Nat /\ b >= writer.audit /\ b >= LastSeq(Notes) /\ b \in {writer.audit, LastSeq(Notes)}
    BY WriterFacts, FileFacts, TwoMax
  <1> HIDE DEF l, b
  <1>4. /\ w \in [open : {TRUE}, last : Nat, audit : Nat, degraded : BOOLEAN]
        /\ w.last = l /\ w.audit = b /\ w.degraded = writer.degraded
    BY <1>1, <1>2, <1>3, WriterFacts
  <1>5. NextSeq(w) = Max({l, b}) + 1
    BY <1>4 DEF NextSeq
  <1>6. /\ Max({l, b}) \in Nat /\ Max({l, b}) >= l /\ Max({l, b}) >= b /\ Max({l, b}) \in {l, b}
    BY <1>2, <1>3, TwoMax
  <1>7. /\ NextSeq(w) \in Nat /\ NextSeq(w) >= 1 /\ w.last < NextSeq(w) /\ w.audit < NextSeq(w)
        /\ LastSeq(Journal) < NextSeq(w) /\ LastSeq(Notes) < NextSeq(w)
    BY <1>2, <1>3, <1>4, <1>5, <1>6, FileFacts
  <1>8. ASSUME Synced(setting), setting.audit PROVE NextSeq(w) = NextSeq(writer)
    <2>1. Below(Journal, NextSeq(writer)) /\ Below(Notes, NextSeq(writer))
      BY <1>8 DEF MemoryInv
    <2>2. ASSUME NEW s \in Seq(Records), NEW n \in Nat, n >= 1, Below(s, n) PROVE LastSeq(s) < n
      <3>1. s # <<>> => Len(s) \in DOMAIN s
        OBVIOUS
      <3> QED
        BY <2>2, <3>1 DEF LastSeq, Below
    <2>3. LastSeq(Journal) < NextSeq(writer) /\ LastSeq(Notes) < NextSeq(writer)
      BY <2>1, <2>2, FileFacts, WriterFacts
    <2>4. NextSeq(writer) = Max({writer.last, writer.audit}) + 1
      BY DEF NextSeq
    <2>5. /\ Max({writer.last, writer.audit}) \in Nat
          /\ Max({writer.last, writer.audit}) >= writer.last
          /\ Max({writer.last, writer.audit}) >= writer.audit
          /\ Max({writer.last, writer.audit}) \in {writer.last, writer.audit}
      BY WriterFacts, TwoMax
    <2> QED
      BY <1>2, <1>3, <1>5, <1>6, <2>3, <2>4, <2>5, FileFacts, WriterFacts
  <1> QED
    BY <1>4, <1>7, <1>8

-----------------------------------------------------------------------------
(* Steps that the readers only watch. *)

\* The receivers get nothing: an append of a shared store, an observation
\* before its send, an append without a sender.
LEMMA ReadersRest ==
    ASSUME StreamInv, Followed(setting), durable' \in Seq(Records), audit' \in Seq(Records),
           Grows(durable, audit, durable', audit'), setting' = setting, sub' = sub,
           got' = got, queue' = queue, poller' = poller, UnsentInv',
           setting.mode = "exclusive" /\ TerminalOf(durable') # "sealed" =>
              TerminalOf(durable) # "sealed" /\ Written' \ unsent' \subseteq Written \ unsent
    PROVE  ReaderInv'
  <1> DEFINE W2 == Lines(durable', audit')
  <1>1. /\ durable \in Seq(Records) /\ audit \in Seq(Records) /\ Written \subseteq Records
        /\ Written' = W2 /\ W2 \subseteq Records /\ Written \subseteq W2
        /\ Numbers(Written) \subseteq Numbers(W2)
        /\ \A x \in W2, n \in Numbers(Written) \cup {0} : x \in Written \/ n < x.seq
        /\ \A x \in W2 : x \in Written \/ \A y \in Written : y.seq < x.seq
    BY FileFacts, GrowsNumbers, LinesFacts DEF StreamInv, Written, Grows
  <1>2. UnsentInv /\ PollerInv /\ \A c \in Subscribers : FollowerOK(c, sub[c], queue[c], got[c])
    BY DEF StreamInv, ReaderInv
  <1>3. \A x \in W2 : x.seq \in Nat
    BY <1>1, RecordFacts
  <1> HIDE DEF W2
  <1>4. PollerInv'
    <2>1. ASSUME poller.alive
          PROVE  poller.at \in Cursors /\ CursorOK(poller.at, durable, audit)
      BY <1>2, <2>1, PollerFacts DEF StreamInv, PollerInv
    <2>2. poller.alive => CursorOK(poller.at, durable', audit')
      BY <1>1, <2>1, CursorGrows
    <2> QED
      BY <1>1, <1>2, <2>2 DEF PollerInv
  <1>5. ASSUME NEW c \in Subscribers PROVE FollowerOK(c, sub[c], queue[c], got[c])'
    <2>1. sub[c] \in Streams /\ queue[c] \in Queues /\ got[c] \in SUBSET Nat
      BY DEF StreamInv, StreamTypeOK
    <2>2. sub[c].after \in Nat /\ sub[c].delivered \in Nat /\ sub[c].at \in Cursors
      BY <2>1 DEF Streams
    <2>3. ClientOK(sub[c], got[c]) /\ ReplayOK(sub[c]) /\ QueueOK(c, sub[c], queue[c]) /\ BacklogOK(sub[c], queue[c])
          /\ (sub[c].phase # "new" => c \in setting.followers)
      BY <1>2 DEF FollowerOK
    <2>4. ClientOK(sub[c], got[c])'
      <3>1. \A x \in W2 : x.seq <= sub[c].after => x \in Written
        <4>1. sub[c].after \in Numbers(Written) \cup {0}
          BY <2>3 DEF ClientOK
        <4>2. ASSUME NEW x \in W2, x.seq <= sub[c].after PROVE x \in Written
          <5>1. ~(sub[c].after < x.seq)
            BY <1>3, <2>2, <4>2
          <5> QED
            BY <1>1, <4>1, <5>1
        <4> QED
          BY <4>2
      <3> QED
        BY <1>1, <2>3, <3>1 DEF ClientOK
    <2>5. ReplayOK(sub[c])'
      <3>1. CursorOK(sub[c].at, durable, audit) => CursorOK(sub[c].at, durable', audit')
        BY <1>1, <2>2, CursorGrows
      <3> QED
        BY <1>1, <2>3, <3>1 DEF ReplayOK
    <2>6. QueueOK(c, sub[c], queue[c])'
      <3>1. Known(queue[c], W2)
            /\ (InOrder(queue[c], sub[c].delivered, Written) => InOrder(queue[c], sub[c].delivered, W2))
        BY <1>1, <2>1, <2>2, <2>3, OrderGrows DEF QueueOK
      <3> QED
        BY <1>1, <2>3, <3>1 DEF QueueOK
    <2>7. BacklogOK(sub[c], queue[c])'
      <3>1. ASSUME setting.mode = "exclusive", Receiving(sub[c]), TerminalOf(durable') # "sealed"
            PROVE  Complete(queue[c], sub[c].delivered, Written' \ unsent')
        BY <2>3, <3>1 DEF BacklogOK, Complete
      <3>2. ASSUME setting.mode = "shared", Receiving(sub[c]), poller.alive
            PROVE  Complete(queue[c], sub[c].delivered, {x \in W2 : x.seq <= poller.delivered})
        <4>1. poller.delivered \in Numbers(Written) /\ poller.delivered \in Nat
          BY <1>2, <3>2, PollerFacts DEF PollerInv, StreamInv
        <4>2. {x \in W2 : x.seq <= poller.delivered} \subseteq {x \in Written : x.seq <= poller.delivered}
          BY <1>1, <1>3, <4>1
        <4> QED
          BY <2>3, <3>2, <4>2 DEF BacklogOK, Complete
      <3> QED
        BY <1>1, <2>3, <3>1, <3>2 DEF BacklogOK
    <2> QED
      BY <2>3, <2>4, <2>5, <2>6, <2>7 DEF FollowerOK
  <1> QED
    BY <1>4, <1>5 DEF ReaderInv

\* The engine's channel carries what was appended.
LEMMA ReadersPush ==
    ASSUME StreamInv, Followed(setting), durable' \in Seq(Records), audit' \in Seq(Records),
           Grows(durable, audit, durable', audit'), setting' = setting, sub' = sub,
           got' = got, poller' = poller, unsent' = {}, setting.mode = "exclusive",
           \A c \in Subscribers :
              /\ Known(queue'[c], Written') /\ queue'[c].open = queue[c].open
              /\ ~queue[c].open => queue'[c] = queue[c]
              /\ Receiving(sub[c]) => /\ InOrder(queue'[c], sub[c].delivered, Written')
                                      /\ Complete(queue'[c], sub[c].delivered, Written')
    PROVE  ReaderInv'
  <1> DEFINE W2 == Lines(durable', audit')
  <1>1. /\ durable \in Seq(Records) /\ audit \in Seq(Records)
        /\ Written' = W2 /\ Written \subseteq W2 /\ W2 \subseteq Records
        /\ Numbers(Written) \subseteq Numbers(W2)
        /\ \A x \in W2, n \in Numbers(Written) \cup {0} : x \in Written \/ n < x.seq
    BY FileFacts, GrowsNumbers, LinesFacts DEF StreamInv, Written, Grows
  <1>2. UnsentInv /\ PollerInv /\ \A c \in Subscribers : FollowerOK(c, sub[c], queue[c], got[c])
    BY DEF StreamInv, ReaderInv
  <1>3. \A x \in W2 : x.seq \in Nat
    BY <1>1, RecordFacts
  <1> HIDE DEF W2
  <1>4. PollerInv' /\ UnsentInv'
    BY <1>2 DEF PollerInv, UnsentInv
  <1>5. ASSUME NEW c \in Subscribers PROVE FollowerOK(c, sub[c], queue[c], got[c])'
    <2>1. sub[c] \in Streams /\ got[c] \in SUBSET Nat
      BY DEF StreamInv, StreamTypeOK
    <2>2. sub[c].after \in Nat /\ sub[c].delivered \in Nat /\ sub[c].at \in Cursors
      BY <2>1 DEF Streams
    <2>3. ClientOK(sub[c], got[c]) /\ ReplayOK(sub[c]) /\ QueueOK(c, sub[c], queue[c]) /\ BacklogOK(sub[c], queue[c])
          /\ (sub[c].phase # "new" => c \in setting.followers)
      BY <1>2 DEF FollowerOK
    <2>4. ClientOK(sub[c], got[c])'
      <3>1. \A x \in W2 : x.seq <= sub[c].after => x \in Written
        <4>1. sub[c].after \in Numbers(Written) \cup {0}
          BY <2>3 DEF ClientOK
        <4>2. ASSUME NEW x \in W2, x.seq <= sub[c].after PROVE x \in Written
          <5>1. ~(sub[c].after < x.seq)
            BY <1>3, <2>2, <4>2
          <5> QED
            BY <1>1, <4>1, <5>1
        <4> QED
          BY <4>2
      <3> QED
        BY <1>1, <2>3, <3>1 DEF ClientOK
    <2>5. ReplayOK(sub[c])'
      <3>1. CursorOK(sub[c].at, durable, audit) => CursorOK(sub[c].at, durable', audit')
        BY <1>1, <2>2, CursorGrows
      <3> QED
        BY <1>1, <2>3, <3>1 DEF ReplayOK
    <2>6. QueueOK(c, sub[c], queue[c])'
      BY <2>3 DEF QueueOK
    <2>7. BacklogOK(sub[c], queue[c])'
      BY <2>3 DEF BacklogOK, Complete
    <2> QED
      BY <2>3, <2>4, <2>5, <2>6, <2>7 DEF FollowerOK
  <1> QED
    BY <1>4, <1>5 DEF ReaderInv

\* A crash: the streams are gone, the clients keep what they have.
LEMMA CrashStep ==
    ASSUME StreamInv, CrashMemory, durable' \in Seq(Records), tail' \in Tails,
           audit' \in Seq(Records), auditTail' \in Tails, marker' \in BOOLEAN,
           SequenceInv', MarkerInv', BareInv', durable' # <<>>,
           Followed(setting) => Grows(durable, audit, durable', audit')
    PROVE  StreamInv'
  <1>1. StreamTypeOK
    BY DEF StreamInv
  <1>2. /\ setting' = setting /\ got' = got /\ writer' = NoWriter /\ unsent' = {}
        /\ poller' = NoPoller /\ queue' = [c \in Subscribers |-> NoQueue]
        /\ faults' = faults + 1 /\ faults < MaxFaults
        /\ sub' = [c \in Subscribers |-> IF sub[c].phase = "new" THEN sub[c] ELSE Dead(c)]
    BY DEF CrashMemory
  <1>3. ASSUME NEW c \in Subscribers
        PROVE  /\ sub[c] \in Streams /\ sub'[c] \in Streams /\ sub'[c].after = sub[c].after
               /\ sub'[c].phase \in {"new", "closed"}
               /\ sub'[c].phase = "new" => sub[c].phase = "new"
               /\ sub[c].phase = "new" => sub'[c].phase = "new"
    <2>1. sub[c] \in Streams
      BY <1>1 DEF StreamTypeOK
    <2>2. sub[c].after \in Nat
      BY <2>1 DEF Streams
    <2>3. Dead(c) \in Streams /\ Dead(c).after = sub[c].after /\ Dead(c).phase = "closed"
      BY <2>2 DEF Dead, Streams, Cursors, Phases
    <2> QED
      BY <1>2, <2>1, <2>3
  <1>4. StreamTypeOK'
    <2>1. NoQueue \in Queues /\ Len(NoQueue.items) <= Capacity
      BY StreamAssumption DEF NoQueue, Queues
    <2>2. sub' \in [Subscribers -> Streams]
      BY <1>2, <1>3
    <2>3. queue' \in [Subscribers -> Queues] /\ \A c \in Subscribers : Len(queue'[c].items) <= Capacity
      BY <1>2, <2>1
    <2>4. faults' \in 0..MaxFaults
      BY <1>1, <1>2, StreamAssumption DEF StreamTypeOK
    <2> QED
      BY <1>1, <1>2, <2>2, <2>3, <2>4 DEF StreamTypeOK, Writers, Pollers
  <1>5. FileInv'
    BY <1>2 DEF FileInv, MemoryInv, OpenInv, NoWriter
  <1>6. ASSUME Followed(setting) PROVE ReaderInv'
    <2> DEFINE W2 == Lines(durable', audit')
    <2>1. /\ Written' = W2 /\ Written \subseteq W2 /\ W2 \subseteq Records
          /\ Numbers(Written) \subseteq Numbers(W2)
          /\ \A x \in W2, n \in Numbers(Written) \cup {0} : x \in Written \/ n < x.seq
      BY <1>1, <1>6, FileFacts, GrowsNumbers, LinesFacts DEF Written
    <2>2. \A x \in W2 : x.seq \in Nat
      BY <2>1, RecordFacts
    <2> HIDE DEF W2
    <2>3. ASSUME NEW c \in Subscribers PROVE FollowerOK(c, sub[c], queue[c], got[c])'
      <3>1. FollowerOK(c, sub[c], queue[c], got[c])
        BY <1>6 DEF StreamInv, ReaderInv
      <3>2. sub[c].after \in Nat
        BY <1>3 DEF Streams
      <3>3. ClientOK(sub[c], got[c])'
        <4>1. \A x \in W2 : x.seq <= sub[c].after => x \in Written
          BY <2>1, <2>2, <3>1, <3>2 DEF FollowerOK, ClientOK
        <4> QED
          BY <1>2, <1>3, <2>1, <3>1, <4>1 DEF FollowerOK, ClientOK
      <3>4. /\ ~Receiving(sub'[c]) /\ sub'[c].phase \notin {"join", "replay", "live"}
        BY <1>3 DEF Receiving
      <3>5. queue'[c] = NoQueue
        BY <1>2
      <3>6. NoQueue.items = <<>> /\ NoQueue.open = FALSE /\ \A W : Known(NoQueue, W)
        BY DEF NoQueue, Known
      <3> QED
        BY <1>2, <1>3, <3>1, <3>3, <3>4, <3>5, <3>6 DEF FollowerOK, ReplayOK, QueueOK, BacklogOK
    <2> QED
      BY <1>2, <2>3 DEF ReaderInv, UnsentInv, PollerInv, NoPoller
  <1> QED
    BY <1>2, <1>4, <1>5, <1>6 DEF StreamInv, ReaderInv

-----------------------------------------------------------------------------
(* What the writers' steps share. *)

LEMMA ModeFacts ==
    ASSUME StreamTypeOK
    PROVE  setting \in StreamSettings /\ setting.mode \in {"exclusive", "shared"}
  BY StreamAssumption DEF StreamTypeOK, StreamSettings

\* A receiver of the engine's channel that holds all of V, where W is written.
Served(c, q, V, W) ==
    /\ q \in Queues /\ Known(q, W) /\ q.open = queue[c].open
    /\ ~q.open => q = queue[c] /\ q.items = <<>>
    /\ Receiving(sub[c]) => /\ InOrder(q, sub[c].delivered, W)
                            /\ Complete(q, sub[c].delivered, V)

LEMMA ServedNow ==
    ASSUME StreamInv, Followed(setting), setting.mode = "exclusive",
           TerminalOf(durable) # "sealed", NEW c \in Subscribers
    PROVE  Served(c, queue[c], Written \ unsent, Written)
  <1>1. FollowerOK(c, sub[c], queue[c], got[c]) /\ queue[c] \in Queues
    BY DEF StreamInv, ReaderInv, StreamTypeOK
  <1> QED
    BY <1>1 DEF FollowerOK, QueueOK, BacklogOK, Served

LEMMA ServedPush ==
    ASSUME StreamInv, NEW c \in Subscribers, NEW q, NEW V, NEW W, NEW W2, NEW e \in Records,
           Served(c, q, V, W), V \subseteq W, W \subseteq W2, W2 \subseteq Records,
           e.seq \in Numbers(W2), \A x \in W2 : x \in W \/ \A y \in W : y.seq < x.seq,
           \A x \in W2 : x \in V \/ x.seq = e.seq
    PROVE  Served(c, Push(q, e), W2, W2)
  <1>1. sub[c].delivered \in Nat
    BY DEF StreamInv, StreamTypeOK, Streams
  <1>2. q \in Queues /\ Known(q, W)
    BY DEF Served
  <1>3. /\ Push(q, e) \in Queues /\ Push(q, e).open = q.open /\ (~q.open => Push(q, e) = q)
    BY <1>2, PushFacts
  <1>4. /\ Known(Push(q, e), W2)
        /\ InOrder(q, sub[c].delivered, W) /\ Complete(q, sub[c].delivered, V) /\ q.open =>
              InOrder(Push(q, e), sub[c].delivered, W2) /\ Complete(Push(q, e), sub[c].delivered, W2)
        /\ InOrder(q, sub[c].delivered, W) /\ q.items = <<>> /\ ~q.open =>
              InOrder(Push(q, e), sub[c].delivered, W2) /\ Complete(Push(q, e), sub[c].delivered, W2)
    BY <1>1, <1>2, PushKeeps
  <1> QED
    BY <1>3, <1>4 DEF Served

\* ReadersPush in these terms.
LEMMA ReadersServed ==
    ASSUME StreamInv, Followed(setting), durable' \in Seq(Records), audit' \in Seq(Records),
           Grows(durable, audit, durable', audit'), setting' = setting, sub' = sub,
           got' = got, poller' = poller, unsent' = {}, setting.mode = "exclusive",
           \A c \in Subscribers : Served(c, queue'[c], Written', Written')
    PROVE  ReaderInv'
  BY ReadersPush DEF Served

LEMMA SendOne ==
    ASSUME StreamTypeOK, NEW r \in Records, Send(<<r>>)
    PROVE  /\ queue' \in [Subscribers -> Queues]
           /\ \A c \in Subscribers : Len(queue'[c].items) <= Capacity
           /\ setting.mode = "exclusive" => \A c \in Subscribers : queue'[c] = Push(queue[c], r)
           /\ setting.mode # "exclusive" => queue' = queue
  <1>1. \A q : PushAll(q, <<r>>) = Push(q, r)
    BY DEF PushAll
  <1>2. \A c \in Subscribers : queue[c] \in Queues /\ Len(queue[c].items) <= Capacity
    BY DEF StreamTypeOK
  <1>3. \A c \in Subscribers : Push(queue[c], r) \in Queues /\ Len(Push(queue[c], r).items) <= Capacity
    BY <1>2, PushFacts
  <1> QED
    BY <1>1, <1>2, <1>3 DEF Send, StreamTypeOK

LEMMA SendTwo ==
    ASSUME StreamTypeOK, NEW r \in Records, NEW s \in Records, Send(<<r, s>>)
    PROVE  /\ queue' \in [Subscribers -> Queues]
           /\ \A c \in Subscribers : Len(queue'[c].items) <= Capacity
           /\ setting.mode = "exclusive" =>
                 \A c \in Subscribers : queue'[c] = Push(Push(queue[c], r), s)
           /\ setting.mode # "exclusive" => queue' = queue
  <1>1. \A q : PushAll(q, <<r, s>>) = Push(Push(q, r), s)
    BY DEF PushAll
  <1>2. \A c \in Subscribers : queue[c] \in Queues /\ Len(queue[c].items) <= Capacity
    BY DEF StreamTypeOK
  <1>3. \A c \in Subscribers : Push(queue[c], r) \in Queues /\ Len(Push(queue[c], r).items) <= Capacity
    BY <1>2, PushFacts
  <1>4. \A c \in Subscribers :
           /\ Push(Push(queue[c], r), s) \in Queues
           /\ Len(Push(Push(queue[c], r), s).items) <= Capacity
    BY <1>3, PushFacts
  <1> QED
    BY <1>1, <1>2, <1>4 DEF Send, StreamTypeOK

LEMMA NotesKept ==
    ASSUME StreamTypeOK
    PROVE  Range(audit) \subseteq Range(Notes)
  <1>1. ASSUME NEW i \in DOMAIN audit PROVE i \in DOMAIN Notes /\ Notes[i] = audit[i]
    <2>1. auditTail \in Loose \/ auditTail \in Records
      BY DEF StreamTypeOK, Tails, Loose
    <2>2. CASE auditTail \in Loose
      BY <2>2, FileFacts
    <2>3. CASE auditTail \in Records
      <3>1. Notes = Append(audit, auditTail) /\ audit \in Seq(Records)
        BY <2>3, RepairedFile, FileFacts DEF Notes
      <3> QED
        BY <2>3, <3>1
    <2> QED
      BY <2>1, <2>2, <2>3
  <1> QED
    BY <1>1 DEF Range

\* One more line of the journal, with or without a repair before it.
LEMMA JournalGrows ==
    ASSUME StreamInv, NEW r, Fresh(r), setting' = setting,
           durable' = Append(Journal, r), tail' = NoTail,
           \/ audit' = audit /\ auditTail' = auditTail
           \/ audit' = Notes /\ auditTail' = NoTail
    PROVE  /\ durable' \in Seq(Records) /\ durable' # <<>> /\ audit' \in Seq(Records)
           /\ Journal' = Append(Journal, r) /\ Notes' = Notes
           /\ SequenceInv'
           /\ Synced(setting) => Below(Journal', r.seq + 1) /\ Below(Notes', r.seq + 1)
           /\ Followed(setting) => /\ Grows(durable, audit, durable', audit')
                                   /\ Written' = Written \cup {r} /\ Written' \subseteq Records
                                   /\ \A y \in Written : y.seq < r.seq
           /\ Range(audit) \subseteq Range(audit')
  <1>1. StreamTypeOK /\ SequenceInv /\ BareInv /\ r \in Records
    BY DEF StreamInv, FileInv, Fresh
  <1>2. durable' \in Seq(Records) /\ durable' # <<>> /\ Journal' = durable'
    BY <1>1, FileFacts DEF Journal, Repaired
  <1>3. audit' \in Seq(Records) /\ Notes' = Notes
    BY <1>1, FileFacts DEF Notes, Repaired
  <1>4. ASSUME Synced(setting)
        PROVE  Ordered(Journal, Notes) /\ Below(Journal, r.seq) /\ Below(Notes, r.seq)
    BY <1>1, <1>4 DEF Fresh, SequenceInv
  <1>5. Synced(setting) => /\ Ordered(Append(Journal, r), Notes)
                           /\ Below(Append(Journal, r), r.seq + 1) /\ Below(Notes, r.seq + 1)
    BY <1>1, <1>4, FileFacts, NextRecord
  <1>6. ASSUME Followed(setting)
        PROVE  /\ Grows(durable, audit, durable', audit')
               /\ Written' = Written \cup {r} /\ Written' \subseteq Records
               /\ \A y \in Written : y.seq < r.seq
    <2>1. Journal = durable /\ Notes = audit /\ Synced(setting)
      BY <1>1, <1>6, FollowedFiles
    <2>2. durable' = Append(durable, r) /\ audit' = audit
      BY <2>1
    <2>3. durable \in Seq(Records) /\ audit \in Seq(Records) /\ Below(durable, r.seq) /\ Below(audit, r.seq)
      BY <1>1, <1>4, <2>1, FileFacts
    <2> QED
      BY <1>1, <2>2, <2>3, GrowsByRecord, LinesAppend, AboveLines, WrittenFacts DEF Written
  <1>7. Range(audit) \subseteq Range(audit')
    BY <1>1, NotesKept
  <1> QED
    BY <1>2, <1>3, <1>5, <1>6, <1>7 DEF SequenceInv

\* An append that is broadcast.
LEMMA ReadersAppend ==
    ASSUME StreamInv, Followed(setting), NEW r, Fresh(r), UNCHANGED <<setting, poller, sub, got, unsent>>,
           durable' = Append(Journal, r), tail' = NoTail,
           \/ audit' = audit /\ auditTail' = auditTail
           \/ audit' = Notes /\ auditTail' = NoTail,
           Send(<<r>>), TerminalOf(durable) # "sealed",
           setting.mode = "exclusive" => unsent = {}
    PROVE  ReaderInv'
  <1>1. StreamTypeOK /\ r \in Records
    BY DEF StreamInv, Fresh
  <1>2. /\ durable' \in Seq(Records) /\ audit' \in Seq(Records)
        /\ Grows(durable, audit, durable', audit')
        /\ Written' = Written \cup {r} /\ Written' \subseteq Records
        /\ \A y \in Written : y.seq < r.seq
    BY JournalGrows
  <1>3. /\ setting.mode = "exclusive" => \A c \in Subscribers : queue'[c] = Push(queue[c], r)
        /\ setting.mode # "exclusive" => queue' = queue
    BY <1>1, SendOne
  <1>4. CASE setting.mode = "exclusive"
    <2>1. ASSUME NEW c \in Subscribers PROVE Served(c, queue'[c], Written', Written')
      <3>1. Served(c, queue[c], Written, Written)
        BY <1>4, ServedNow
      <3>2. r.seq \in Numbers(Written')
        BY <1>2 DEF Numbers
      <3>3. Served(c, Push(queue[c], r), Written', Written')
        BY <1>1, <1>2, <3>1, <3>2, ServedPush
      <3> QED
        BY <1>3, <1>4, <3>3
    <2> QED
      BY <1>2, <1>4, <2>1, ReadersServed
  <1>5. CASE setting.mode # "exclusive"
    BY <1>2, <1>3, <1>5, ReadersRest DEF UnsentInv
  <1> QED
    BY <1>4, <1>5

\* An append that a crash cuts short, or that is complete but not announced.
LEMMA CutShortStep ==
    ASSUME StreamInv, NEW s \in Seq(Records), s # <<>>, NEW r \in Records,
           NEW b, b \in BOOLEAN, ~setting.resumes => ~b,
           CutShort(s, r, b, b), CrashMemory,
           Synced(setting) => Ordered(s, Notes) /\ Ordered(Append(s, r), Notes),
           Followed(setting) => /\ Grows(durable, audit, s, audit)
                                /\ Grows(durable, audit, Append(s, r), audit),
           \/ audit' = audit /\ auditTail' = auditTail
           \/ audit' = Notes /\ auditTail' = NoTail
    PROVE  StreamInv'
  <1>1. StreamTypeOK /\ BareInv /\ setting' = setting
    BY DEF StreamInv, FileInv, CrashMemory
  <1>2. Append(s, r) \in Seq(Records) /\ Append(s, r) # <<>>
    OBVIOUS
  <1>3. /\ durable' \in {s, Append(s, r)} /\ tail' \in Tails /\ marker' = b
        /\ ~setting.bare => tail' \in Loose
        /\ Journal' \in {s, Append(s, r)}
    <2>1. CASE durable' = s /\ tail' = TornTail /\ marker' = b
      BY <2>1 DEF Tails, Loose, Journal, Repaired
    <2>2. CASE setting.bare /\ durable' = s /\ tail' = r /\ marker' = b
      <3>1. Repaired(s, r) = Append(s, r)
        BY RecordIsNoTail DEF Repaired, Loose
      <3> QED
        BY <2>2, <3>1 DEF Tails, Journal
    <2>3. CASE durable' = Append(s, r) /\ tail' = NoTail /\ marker' = b
      BY <2>3 DEF Tails, Loose, Journal, Repaired
    <2> QED
      BY <2>1, <2>2, <2>3 DEF CutShort
  <1>4. audit' \in Seq(Records) /\ auditTail' \in Tails /\ Notes' = Notes
    BY <1>1, FileFacts DEF Notes, Repaired, Tails
  <1>5. SequenceInv'
    BY <1>1, <1>3, <1>4 DEF SequenceInv
  <1>6. MarkerInv'
    BY <1>1, <1>3 DEF MarkerInv
  <1>7. BareInv'
    BY <1>1, <1>3 DEF BareInv, Loose
  <1>8. Followed(setting) => Grows(durable, audit, durable', audit')
    BY <1>1, <1>3, FollowedFiles
  <1>9. durable' \in Seq(Records) /\ durable' # <<>> /\ marker' \in BOOLEAN
    BY <1>2, <1>3
  <1> QED
    BY <1>3, <1>4, <1>5, <1>6, <1>7, <1>8, <1>9, CrashStep

-----------------------------------------------------------------------------
(* The engine's writer. *)

LEMMA OpenWriterStep ==
    ASSUME StreamInv, OpenWriter
    PROVE  StreamInv'
  <1>1. StreamTypeOK /\ FileInv
    BY DEF StreamInv
  <1>2. /\ ~writer.open /\ TerminalOf(Journal) # "sealed"
        /\ TerminalOf(Journal) = "interrupted" => setting.resumes
        /\ durable' = Journal /\ tail' = NoTail /\ audit' = Notes /\ auditTail' = NoTail
        /\ writer' = [open |-> TRUE, last |-> LastSeq(Journal), audit |-> LastSeq(Notes),
                      degraded |-> FALSE]
        /\ UNCHANGED <<setting, marker, unsent, queue, poller, sub, got, faults>>
    BY DEF OpenWriter, Journal, Notes
  <1>3. Journal' = Journal /\ Notes' = Notes
    BY <1>2 DEF Journal, Notes, Repaired
  <1>4. StreamTypeOK'
    <2>1. unsent' \subseteq Range(audit')
      BY <1>1, <1>2, NotesKept DEF StreamTypeOK
    <2>2. writer' \in Writers
      BY <1>1, <1>2, FileFacts DEF Writers
    <2> QED
      BY <1>1, <1>2, <2>1, <2>2, FileFacts DEF StreamTypeOK, Tails
  <1>5. TerminalOf(Journal) \in Ends /\ Journal # <<>>
    <2>1. Journal \in Seq(Records) /\ durable # <<>> /\ durable \in Seq(Records)
      BY <1>1, FileFacts DEF FileInv
    <2>2. tail \in Loose \/ tail \in Records
      BY <1>1 DEF StreamTypeOK, Tails, Loose
    <2>3. Journal # <<>>
      BY <2>1, <2>2, RepairedFile, FileFacts, <1>1 DEF Journal
    <2>4. PICK r : r \in Records
      BY <2>1, LineFacts
    <2> QED
      BY <2>1, <2>3, <2>4, TerminalAppend
  <1>6. MemoryInv'
    <2>1. NextSeq(writer') \in Nat /\ LastSeq(Journal) < NextSeq(writer') /\ LastSeq(Notes) < NextSeq(writer')
      <3> DEFINE m == Max({LastSeq(Journal), LastSeq(Notes)})
      <3>1. m \in Nat /\ m >= LastSeq(Journal) /\ m >= LastSeq(Notes)
        BY <1>1, FileFacts, TwoMax
      <3>2. NextSeq(writer') = m + 1
        BY <1>2 DEF NextSeq
      <3> HIDE DEF m
      <3> QED
        BY <1>1, <3>1, <3>2, FileFacts
    <2>2. Synced(setting) => Below(Journal, NextSeq(writer')) /\ Below(Notes, NextSeq(writer'))
      BY <1>1, <2>1, FileFacts, BeyondLast DEF FileInv, SequenceInv, Ordered
    <2> QED
      BY <1>2, <1>3, <2>2 DEF MemoryInv
  <1>7. OpenInv'
    BY <1>2, <1>5 DEF OpenInv, Ends, Loose
  <1>8. MarkerInv'
    <2>1. marker /\ ~setting.resumes => FALSE
      <3>1. marker /\ ~setting.resumes => Journal = durable /\ TerminalOf(durable) # "none"
        BY <1>1, FileFacts DEF FileInv, MarkerInv, Loose
      <3> QED
        BY <1>2, <1>5, <3>1 DEF Ends
    <2> QED
      BY <1>2, <2>1 DEF MarkerInv
  <1>9. FileInv'
    BY <1>1, <1>2, <1>3, <1>5, <1>6, <1>7, <1>8 DEF FileInv, SequenceInv, BareInv, Loose
  <1>10. ASSUME Followed(setting) PROVE ReaderInv'
    <2>1. durable' = durable /\ audit' = audit
      BY <1>1, <1>2, <1>10, FollowedFiles DEF FileInv
    <2>2. Grows(durable, audit, durable', audit') /\ Written' = Written
      BY <1>1, <2>1, GrowsNot, FileFacts DEF Written
    <2>3. UnsentInv'
      BY <1>2, <1>10 DEF StreamInv, ReaderInv, UnsentInv
    <2> QED
      BY <1>1, <1>2, <1>10, <2>1, <2>2, <2>3, FileFacts, ReadersRest
  <1> QED
    BY <1>2, <1>4, <1>9, <1>10 DEF StreamInv, ReaderInv

LEMMA CloseWriterStep ==
    ASSUME StreamInv, CloseWriter
    PROVE  StreamInv'
  <1>1. StreamTypeOK /\ FileInv
    BY DEF StreamInv
  <1>2. /\ unsent = {} /\ writer' = NoWriter
        /\ UNCHANGED <<durable, tail, audit, auditTail, marker, setting, unsent, queue, poller, sub, got, faults>>
    BY DEF CloseWriter, fileVars
  <1>3. StreamTypeOK'
    BY <1>1, <1>2 DEF StreamTypeOK, Writers
  <1>4. Journal' = Journal /\ Notes' = Notes /\ Written' = Written
    BY <1>2 DEF Journal, Notes, Repaired, Written
  <1>5. FileInv'
    BY <1>1, <1>2, <1>4 DEF FileInv, SequenceInv, MemoryInv, OpenInv, MarkerInv, BareInv, NoWriter
  <1>6. ASSUME Followed(setting) PROVE ReaderInv'
    BY <1>1, <1>2, <1>4, <1>6, GrowsNot, FileFacts, ReadersRest DEF UnsentInv
  <1> QED
    BY <1>2, <1>3, <1>5, <1>6 DEF StreamInv, ReaderInv

\* The memory of a writer that has just appended r.
LEMMA MemoryAhead ==
    ASSUME NEW w \in [open : {TRUE}, last : Nat, audit : Nat, degraded : BOOLEAN],
           NEW n \in Nat, w.last <= n, w.audit <= n, n \in {w.last, w.audit}
    PROVE  NextSeq(w) = n + 1
  <1>1. w.last \in Nat /\ w.audit \in Nat
    OBVIOUS
  <1>2. Max({w.last, w.audit}) = n
    BY <1>1, TwoMax
  <1> QED
    BY <1>2 DEF NextSeq

EventKinds == {"work", "resumed", "interrupted", "sealed"}

\* The fixed part of a durable append by an open writer.
LEMMA OpenFacts ==
    ASSUME StreamInv, writer.open
    PROVE  /\ tail \in Loose /\ auditTail = NoTail /\ Journal = durable /\ Notes = audit
           /\ TerminalOf(durable) # "sealed" /\ TerminalOf(durable) \in Ends
           /\ ~setting.resumes => TerminalOf(durable) = "none" /\ ~marker
           /\ Fresh(Rec(NextSeq(Resync(Journal)), "note"))
  <1>1. StreamTypeOK /\ FileInv
    BY DEF StreamInv
  <1>2. /\ tail \in Loose /\ auditTail = NoTail /\ TerminalOf(durable) # "sealed"
        /\ ~setting.resumes => TerminalOf(durable) = "none"
    BY <1>1 DEF FileInv, OpenInv
  <1>3. Journal = durable /\ Notes = audit
    BY <1>1, <1>2, FileFacts DEF Loose
  <1>4. ~setting.resumes => ~marker
    BY <1>1, <1>2 DEF FileInv, MarkerInv
  <1> DEFINE n == NextSeq(Resync(Journal))
  <1>5. n \in Nat /\ LastSeq(Journal) < n /\ LastSeq(Notes) < n
    BY <1>1, ResyncFacts DEF FileInv
  <1>6. Fresh(Rec(n, "note"))
    <2> HIDE DEF n
    <2> QED
      BY <1>1, <1>5, NumberAbove DEF FileInv, StreamKinds
  <1>7. TerminalOf(durable) \in Ends
    BY <1>1, <1>6, FileFacts, TerminalAppend DEF Fresh
  <1> QED
    BY <1>2, <1>3, <1>4, <1>6, <1>7

LEMMA FreshKind ==
    ASSUME StreamInv, writer.open, NEW k \in StreamKinds, NEW w, w = Resync(Journal),
           NEW r, r = Rec(NextSeq(w), k)
    PROVE  /\ Fresh(r) /\ r \in Records /\ r.seq = NextSeq(w) /\ r.kind = k
           /\ w \in [open : {TRUE}, last : Nat, audit : Nat, degraded : BOOLEAN]
           /\ w.last < r.seq /\ w.audit < r.seq /\ r.seq \in Nat /\ r.seq >= 1
           /\ Synced(setting) /\ setting.audit => r.seq = NextSeq(writer)
  <1>1. StreamTypeOK /\ SequenceInv /\ MemoryInv
    BY DEF StreamInv, FileInv
  <1>2. /\ w \in [open : {TRUE}, last : Nat, audit : Nat, degraded : BOOLEAN]
        /\ NextSeq(w) \in Nat /\ NextSeq(w) >= 1 /\ w.last < NextSeq(w) /\ w.audit < NextSeq(w)
        /\ LastSeq(Journal) < NextSeq(w) /\ LastSeq(Notes) < NextSeq(w)
        /\ Synced(setting) /\ setting.audit => NextSeq(w) = NextSeq(writer)
    BY <1>1, ResyncFacts
  <1>3. Fresh(r) /\ r.seq = NextSeq(w) /\ r.kind = k
    BY <1>1, <1>2, NumberAbove
  <1> QED
    BY <1>2, <1>3 DEF Fresh

\* Nothing is unsent when a writer of one channel appends.
LEMMA NothingUnsent ==
    ASSUME StreamInv, Followed(setting), setting.mode = "exclusive",
           ~writer.open \/ (unsent # {} => setting.parallel)
    PROVE  unsent = {}
  BY DEF StreamInv, ReaderInv, UnsentInv, Followed

LEMMA DurableEventStep ==
    ASSUME StreamInv, NEW k \in EventKinds, DurableEvent(k)
    PROVE  StreamInv'
  <1> DEFINE w == Resync(Journal)
             r == Rec(NextSeq(w), k)
  <1>1. StreamTypeOK /\ FileInv /\ writer.open /\ k \in StreamKinds
    BY DEF StreamInv, DurableEvent, EventKinds, StreamKinds, StreamTerminal
  <1>2. /\ unsent # {} => setting.parallel
        /\ (k = "resumed" <=> TerminalOf(Journal) = "interrupted")
        /\ UNCHANGED <<audit, auditTail>>
    BY DEF DurableEvent, Journal
  <1>3. \/ /\ durable' = Append(Journal, r) /\ tail' = NoTail
           /\ marker' = (k \in StreamTerminal)
           /\ writer' = IF k \in StreamTerminal THEN NoWriter ELSE [w EXCEPT !.last = r.seq]
           /\ Send(<<r>>)
           /\ UNCHANGED <<unsent, setting, poller, sub, got, faults>>
        \/ CutShort(Journal, r, marker, marker) /\ CrashMemory
        \/ /\ faults < MaxFaults /\ faults' = faults + 1
           /\ durable' = Journal /\ tail' = TornTail /\ writer' = w
           /\ UNCHANGED <<marker, unsent, setting, queue, poller, sub, got>>
    BY DEF DurableEvent, Journal
  <1>4. /\ Fresh(r) /\ r \in Records /\ r.seq = NextSeq(w) /\ r.kind = k
        /\ w \in [open : {TRUE}, last : Nat, audit : Nat, degraded : BOOLEAN]
        /\ w.last < r.seq /\ w.audit < r.seq /\ r.seq \in Nat /\ r.seq >= 1
        /\ Synced(setting) /\ setting.audit => r.seq = NextSeq(writer)
    <2>1. w = Resync(Journal) /\ r = Rec(NextSeq(w), k)
      OBVIOUS
    <2> HIDE DEF r, w
    <2>2. writer.open /\ k \in StreamKinds
      BY <1>1
    <2>3. Fresh(r) /\ r \in Records
      BY <2>1, <2>2, FreshKind
    <2>4. r.seq = NextSeq(w) /\ r.kind = k
      BY <2>1 DEF Rec
    <2>5. w \in [open : {TRUE}, last : Nat, audit : Nat, degraded : BOOLEAN]
      BY <2>1, <2>2, FreshKind
    <2>6. w.last < r.seq /\ w.audit < r.seq /\ r.seq \in Nat /\ r.seq >= 1
      BY <2>1, <2>2, FreshKind
    <2>7. Synced(setting) /\ setting.audit => r.seq = NextSeq(writer)
      BY <1>1, <2>1, <2>4, ResyncFacts DEF FileInv
    <2> QED
      BY <2>3, <2>4, <2>5, <2>6, <2>7
  <1>5. /\ tail \in Loose /\ auditTail = NoTail /\ Journal = durable /\ Notes = audit
        /\ TerminalOf(durable) # "sealed" /\ TerminalOf(durable) \in Ends
        /\ ~setting.resumes => TerminalOf(durable) = "none" /\ ~marker
    BY <1>1, OpenFacts
  <1> HIDE DEF r, w
  <1>6. CASE /\ durable' = Append(Journal, r) /\ tail' = NoTail
             /\ marker' = (k \in StreamTerminal)
             /\ writer' = IF k \in StreamTerminal THEN NoWriter ELSE [w EXCEPT !.last = r.seq]
             /\ Send(<<r>>)
             /\ UNCHANGED <<unsent, setting, poller, sub, got, faults>>
    <2>1. /\ durable' \in Seq(Records) /\ durable' # <<>> /\ Journal' = Append(Journal, r) /\ Notes' = Notes
          /\ SequenceInv'
          /\ Synced(setting) => Below(Journal', r.seq + 1) /\ Below(Notes', r.seq + 1)
      BY <1>2, <1>4, <1>6, JournalGrows
    <2>2. /\ k \in StreamTerminal => writer' = NoWriter
          /\ k \notin StreamTerminal =>
                /\ writer' \in [open : {TRUE}, last : Nat, audit : Nat, degraded : BOOLEAN]
                /\ writer'.last = r.seq /\ writer'.audit = w.audit
      BY <1>4, <1>6
    <2>3. StreamTypeOK'
      <3>1. writer' \in Writers
        BY <2>2 DEF Writers
      <3>2. queue' \in [Subscribers -> Queues] /\ \A c \in Subscribers : Len(queue'[c].items) <= Capacity
        BY <1>1, <1>4, <1>6, SendOne
      <3> QED
        BY <1>1, <1>2, <1>6, <2>1, <3>1, <3>2 DEF StreamTypeOK, Tails
    <2>4. MemoryInv'
      <3>1. k \notin StreamTerminal => NextSeq(writer') = r.seq + 1
        <4>1. w.audit <= r.seq /\ w.audit \in Nat
          BY <1>4
        <4>2. k \notin StreamTerminal =>
                 writer'.last <= r.seq /\ writer'.audit <= r.seq /\ r.seq \in {writer'.last, writer'.audit}
          BY <1>4, <2>2, <4>1
        <4> QED
          BY <1>4, <2>2, <4>2, MemoryAhead
      <3> QED
        BY <1>6, <2>1, <2>2, <3>1 DEF MemoryInv, NoWriter
    <2>5. /\ k \in StreamTerminal => TerminalOf(durable') = k
          /\ k = "resumed" => TerminalOf(durable') = "none"
          /\ k = "work" => TerminalOf(durable') = TerminalOf(durable)
      BY <1>1, <1>4, <1>5, <1>6, FileFacts, TerminalAppend DEF StreamTerminal
    <2>6. OpenInv'
      BY <1>2, <1>5, <1>6, <2>2, <2>5 DEF OpenInv, NoWriter, EventKinds, StreamTerminal, Loose
    <2>7. MarkerInv'
      BY <1>2, <1>5, <1>6, <2>5 DEF MarkerInv, EventKinds, StreamTerminal
    <2>8. FileInv'
      BY <1>1, <1>2, <1>6, <2>1, <2>4, <2>6, <2>7 DEF FileInv, BareInv, Loose
    <2>9. ASSUME Followed(setting) PROVE ReaderInv'
      <3>1. setting.mode = "exclusive" => unsent = {}
        BY <1>2, <2>9, NothingUnsent
      <3> QED
        BY <1>2, <1>4, <1>5, <1>6, <2>9, <3>1, ReadersAppend
    <2> QED
      BY <1>6, <2>3, <2>8, <2>9 DEF StreamInv, ReaderInv
  <1>7. CASE CutShort(Journal, r, marker, marker) /\ CrashMemory
    <2>1. marker \in BOOLEAN /\ Journal \in Seq(Records) /\ Notes \in Seq(Records) /\ Journal # <<>>
      BY <1>1, <1>5, FileFacts DEF StreamTypeOK, FileInv
    <2>2. Synced(setting) => Ordered(Journal, Notes) /\ Ordered(Append(Journal, r), Notes)
      BY <1>1, <1>4, <2>1, NextRecord DEF FileInv, SequenceInv, Fresh
    <2>3. Followed(setting) => Grows(durable, audit, Journal, audit) /\ Grows(durable, audit, Append(Journal, r), audit)
      BY <1>4, <1>5, <2>1, GrowsNot, GrowsByRecord DEF Fresh, Followed
    <2> QED
      BY <1>2, <1>4, <1>5, <1>7, <2>1, <2>2, <2>3, CutShortStep
  <1>8. CASE /\ faults < MaxFaults /\ faults' = faults + 1
             /\ durable' = Journal /\ tail' = TornTail /\ writer' = w
             /\ UNCHANGED <<marker, unsent, setting, queue, poller, sub, got>>
    <2>1. Journal' = Journal /\ Notes' = Notes /\ durable' = durable /\ Written' = Written
      BY <1>2, <1>5, <1>8 DEF Journal, Notes, Repaired, Written
    <2>2. StreamTypeOK'
      <3>1. faults' \in 0..MaxFaults
        BY <1>1, <1>8, StreamAssumption DEF StreamTypeOK
      <3>2. writer' \in Writers
        BY <1>4, <1>8 DEF Writers
      <3> QED
        BY <1>1, <1>2, <1>8, <2>1, <3>1, <3>2 DEF StreamTypeOK, Tails
    <2>3. MemoryInv'
      <3>1. Synced(setting) /\ setting.audit => NextSeq(writer') = NextSeq(writer)
        BY <1>4, <1>8
      <3> QED
        BY <1>1, <1>8, <2>1, <3>1 DEF FileInv, MemoryInv
    <2>4. FileInv'
      <3>1. OpenInv' /\ MarkerInv' /\ BareInv'
        BY <1>1, <1>2, <1>5, <1>8, <2>1 DEF OpenInv, MarkerInv, BareInv, Loose, FileInv
      <3> QED
        BY <1>1, <1>8, <2>1, <2>3, <3>1 DEF FileInv, SequenceInv
    <2>5. ASSUME Followed(setting) PROVE ReaderInv'
      <3>1. UnsentInv'
        <4>1. writer'.open
          BY <1>4, <1>8
        <4> QED
          BY <1>8, <2>1, <2>5, <4>1 DEF StreamInv, ReaderInv, UnsentInv
      <3> QED
        BY <1>1, <1>2, <1>8, <2>1, <2>5, <3>1, GrowsNot, FileFacts, ReadersRest
    <2> QED
      BY <1>8, <2>2, <2>4, <2>5 DEF StreamInv, ReaderInv
  <1> QED
    BY <1>3, <1>6, <1>7, <1>8

\* An observation: one more line of audit.jsonl, announced later.
LEMMA ObserveStep ==
    ASSUME StreamInv, Observe
    PROVE  StreamInv'
  <1> DEFINE r == Rec(NextSeq(writer), "note")
  <1>1. StreamTypeOK /\ FileInv /\ writer.open /\ setting.audit /\ (unsent # {} => setting.parallel)
    BY DEF StreamInv, Observe
  <1>2. \/ /\ audit' = Append(Notes, r) /\ auditTail' = NoTail
           /\ writer' = [writer EXCEPT !.audit = r.seq]
           /\ unsent' = unsent \cup {r}
           /\ UNCHANGED <<setting, queue, poller, sub, got, faults>>
        \/ /\ audit' = Notes /\ auditTail' \in {TornTail} \cup {x \in {r} : setting.bare}
           /\ CrashMemory
    BY DEF Observe, Notes, MemorySeq
  <1>3. UNCHANGED <<durable, tail, marker>>
    BY DEF Observe
  <1>4. /\ tail \in Loose /\ auditTail = NoTail /\ Journal = durable /\ Notes = audit
        /\ TerminalOf(durable) # "sealed"
        /\ ~setting.resumes => TerminalOf(durable) = "none" /\ ~marker
    BY <1>1, OpenFacts
  <1>5. /\ r \in Records /\ r.seq = NextSeq(writer) /\ r.seq \in Nat /\ r.seq >= 1
    BY <1>1, WriterFacts DEF Rec, Records, StreamKinds
  <1>6. Synced(setting) => Below(Journal, r.seq) /\ Below(Notes, r.seq)
    BY <1>1, <1>5 DEF FileInv, MemoryInv
  <1> HIDE DEF r
  <1>7. /\ audit \in Seq(Records) /\ durable \in Seq(Records) /\ Append(audit, r) \in Seq(Records)
    BY <1>1, <1>5, FileFacts
  <1>8. Synced(setting) => /\ Ordered(durable, audit) /\ Ordered(durable, Append(audit, r))
                           /\ Below(durable, r.seq + 1) /\ Below(Append(audit, r), r.seq + 1)
    BY <1>1, <1>4, <1>5, <1>6, <1>7, NextRecord DEF FileInv, SequenceInv
  <1>9. CASE /\ audit' = Append(Notes, r) /\ auditTail' = NoTail
             /\ writer' = [writer EXCEPT !.audit = r.seq]
             /\ unsent' = unsent \cup {r}
             /\ UNCHANGED <<setting, queue, poller, sub, got, faults>>
    <2>1. Journal' = durable /\ Notes' = Append(audit, r) /\ audit' = Append(audit, r)
      BY <1>3, <1>4, <1>9 DEF Journal, Notes, Repaired, Loose
    <2>2. /\ writer' \in [open : {TRUE}, last : Nat, audit : Nat, degraded : BOOLEAN]
          /\ writer'.last = writer.last /\ writer'.audit = r.seq
      BY <1>1, <1>5, <1>9, WriterFacts
    <2>3. StreamTypeOK'
      <3>1. Range(Append(audit, r)) = Range(audit) \cup {r}
        BY <1>5, <1>7, RangeAppend
      <3>2. unsent' \subseteq Range(audit')
        BY <1>1, <1>9, <2>1, <3>1 DEF StreamTypeOK
      <3>3. writer' \in Writers
        BY <2>2 DEF Writers
      <3> QED
        BY <1>1, <1>3, <1>7, <1>9, <2>1, <3>2, <3>3 DEF StreamTypeOK, Tails
    <2>4. MemoryInv'
      <3>1. NextSeq(writer') = r.seq + 1
        <4>1. writer.last <= r.seq
          BY <1>1, <1>5, WriterFacts
        <4>2. writer'.last <= r.seq /\ writer'.audit <= r.seq /\ r.seq \in {writer'.last, writer'.audit}
          BY <1>5, <2>2, <4>1
        <4> QED
          BY <1>5, <2>2, <4>2, MemoryAhead
      <3> QED
        BY <1>8, <1>9, <2>1, <3>1 DEF MemoryInv
    <2>5. FileInv'
      BY <1>1, <1>3, <1>4, <1>8, <1>9, <2>1, <2>4
         DEF FileInv, SequenceInv, OpenInv, MarkerInv, BareInv, Loose
    <2>6. ASSUME Followed(setting) PROVE ReaderInv'
      <3>1. Grows(durable, audit, durable', audit') /\ Written' = Written \cup {r}
            /\ \A y \in Written : y.seq < r.seq
        BY <1>3, <1>4, <1>5, <1>6, <1>7, <2>1, <2>6, GrowsByRecord, LinesAppend, AboveLines
           DEF Written, Followed
      <3>2. UnsentInv'
        <4>1. setting.mode = "exclusive" => unsent = {}
          BY <1>1, <2>6, NothingUnsent
        <4>2. \A y \in Written : y.seq \in Nat
          BY <1>1, WrittenFacts
        <4> QED
          BY <1>1, <1>5, <1>9, <2>2, <3>1, <4>1, <4>2 DEF UnsentInv
      <3> QED
        BY <1>3, <1>4, <1>7, <1>9, <2>1, <2>6, <3>1, <3>2, ReadersRest
    <2> QED
      BY <1>9, <2>3, <2>5, <2>6 DEF StreamInv, ReaderInv
  <1>10. CASE /\ audit' = Notes /\ auditTail' \in {TornTail} \cup {x \in {r} : setting.bare}
              /\ CrashMemory
    <2>1. setting' = setting /\ audit' = audit
      BY <1>4, <1>10 DEF CrashMemory
    <2>2. auditTail' \in Tails /\ (~setting.bare => auditTail' \in Loose)
      BY <1>5, <1>10 DEF Tails, Loose
    <2>3. Journal' = durable /\ Notes' \in {audit, Append(audit, r)}
      <3>1. Repaired(audit, r) = Append(audit, r)
        BY <1>5, <1>7, RepairedFile DEF Tails
      <3>2. Repaired(audit, TornTail) = audit
        BY DEF Repaired
      <3> QED
        BY <1>3, <1>4, <1>10, <2>1, <3>1, <3>2 DEF Journal, Notes
    <2>4. SequenceInv'
      BY <1>8, <2>1, <2>3 DEF SequenceInv
    <2>5. MarkerInv' /\ BareInv'
      BY <1>1, <1>3, <1>4, <2>1, <2>2 DEF MarkerInv, BareInv, Loose
    <2> QED
      BY <1>1, <1>3, <1>7, <1>10, <2>1, <2>2, <2>4, <2>5, GrowsNot, CrashStep DEF StreamTypeOK, FileInv
  <1> QED
    BY <1>2, <1>9, <1>10

\* The send of an observation, the newest record there is.
LEMMA SendObservationStep ==
    ASSUME StreamInv, NEW r \in unsent, SendObservation(r)
    PROVE  StreamInv'
  <1>1. StreamTypeOK /\ FileInv /\ r \in Written /\ r \in Records
    BY WrittenFacts DEF StreamInv
  <1>2. /\ unsent' = unsent \ {r} /\ Send(<<r>>)
        /\ UNCHANGED <<durable, tail, audit, auditTail, marker, setting, writer, poller, sub, got, faults>>
    BY DEF SendObservation, fileVars
  <1>3. StreamTypeOK'
    BY <1>1, <1>2, SendOne DEF StreamTypeOK
  <1>4. Journal' = Journal /\ Notes' = Notes /\ Written' = Written
    BY <1>2 DEF Journal, Notes, Repaired, Written
  <1>5. FileInv'
    BY <1>1, <1>2, <1>4 DEF FileInv, SequenceInv, MemoryInv, OpenInv, MarkerInv, BareInv
  <1>6. ASSUME Followed(setting) PROVE ReaderInv'
    <2>1. durable' \in Seq(Records) /\ audit' \in Seq(Records) /\ Grows(durable, audit, durable', audit')
      BY <1>1, <1>2, GrowsNot, FileFacts
    <2>2. CASE setting.mode = "exclusive"
      <3>1. writer.open /\ unsent = {r}
        BY <1>6, <2>2 DEF StreamInv, ReaderInv, UnsentInv
      <3>2. TerminalOf(durable) # "sealed"
        BY <3>1, OpenFacts
      <3>3. ASSUME NEW c \in Subscribers PROVE Served(c, queue'[c], Written', Written')
        <4>1. Served(c, queue[c], Written \ unsent, Written)
          BY <1>6, <2>2, <3>2, ServedNow
        <4>2. r.seq \in Numbers(Written) /\ Written \subseteq Records
          BY <1>1, WrittenFacts DEF Numbers
        <4>3. \A x \in Written : x \in Written \ unsent \/ x.seq = r.seq
          BY <3>1
        <4>4. Served(c, Push(queue[c], r), Written, Written)
          BY <1>1, <4>1, <4>2, <4>3, ServedPush
        <4>5. queue'[c] = Push(queue[c], r)
          BY <1>1, <1>2, <2>2, SendOne
        <4> QED
          BY <1>4, <4>4, <4>5
      <3> QED
        BY <1>2, <1>6, <2>1, <2>2, <3>1, <3>3, ReadersServed
    <2>3. CASE setting.mode # "exclusive"
      <3>1. queue' = queue
        BY <1>1, <1>2, <2>3, SendOne
      <3> QED
        BY <1>2, <1>6, <2>1, <2>3, <3>1, ReadersRest DEF UnsentInv
    <2> QED
      BY <2>2, <2>3
  <1> QED
    BY <1>2, <1>3, <1>5, <1>6 DEF StreamInv, ReaderInv

\* The audit limit: a durable record, and an observation with its number.
LEMMA DegradeStep ==
    ASSUME StreamInv, Degrade
    PROVE  StreamInv'
  <1> DEFINE w == Resync(Journal)
             r == Rec(NextSeq(w), "degraded")
             note == Rec(NextSeq(writer), "note")
  <1>1. StreamTypeOK /\ FileInv /\ writer.open /\ setting.audit /\ "degraded" \in StreamKinds
    BY DEF StreamInv, Degrade, StreamKinds
  <1>2. /\ unsent # {} => setting.parallel
        /\ audit' = Notes /\ auditTail' = NoTail
        /\ durable' = Append(Journal, r) /\ tail' = NoTail /\ marker' = FALSE
        /\ writer' = [w EXCEPT !.last = r.seq, !.degraded = TRUE]
        /\ Send(<<r, note>>)
        /\ UNCHANGED <<setting, unsent, poller, sub, got, faults>>
    BY DEF Degrade, Journal, Notes, MemorySeq
  <1>3. w = Resync(Journal) /\ r = Rec(NextSeq(w), "degraded") /\ note = Rec(NextSeq(writer), "note")
    OBVIOUS
  <1>4. note \in Records /\ note.seq = NextSeq(writer)
    BY <1>1, WriterFacts DEF Rec, Records, StreamKinds
  <1> HIDE DEF w, r, note
  <1>5. Fresh(r) /\ r \in Records
    BY <1>1, <1>3, FreshKind
  <1>6. r.seq = NextSeq(w) /\ r.kind = "degraded"
    BY <1>3 DEF Rec
  <1>7. w \in [open : {TRUE}, last : Nat, audit : Nat, degraded : BOOLEAN]
    BY <1>1, <1>3, FreshKind
  <1>8. w.last < r.seq /\ w.audit < r.seq /\ r.seq \in Nat /\ r.seq >= 1
    BY <1>1, <1>3, FreshKind
  <1>9. Synced(setting) => r.seq = note.seq
    BY <1>1, <1>3, <1>4, <1>6, ResyncFacts DEF FileInv
  <1>10. /\ tail \in Loose /\ auditTail = NoTail /\ Journal = durable /\ Notes = audit
         /\ TerminalOf(durable) # "sealed" /\ (~setting.resumes => TerminalOf(durable) = "none")
    BY <1>1, OpenFacts
  <1>11. /\ durable' \in Seq(Records) /\ durable' # <<>> /\ audit' \in Seq(Records)
         /\ Journal' = Append(Journal, r) /\ Notes' = Notes /\ SequenceInv'
         /\ Synced(setting) => Below(Journal', r.seq + 1) /\ Below(Notes', r.seq + 1)
         /\ Followed(setting) => /\ Grows(durable, audit, durable', audit')
                                 /\ Written' = Written \cup {r} /\ Written' \subseteq Records
                                 /\ \A y \in Written : y.seq < r.seq
         /\ Range(audit) \subseteq Range(audit')
    BY <1>2, <1>5, JournalGrows
  <1>12. /\ writer' \in [open : {TRUE}, last : Nat, audit : Nat, degraded : BOOLEAN]
         /\ writer'.last = r.seq /\ writer'.audit = w.audit
    BY <1>2, <1>7, <1>8
  <1>13. /\ queue' \in [Subscribers -> Queues]
         /\ \A c \in Subscribers : Len(queue'[c].items) <= Capacity
         /\ setting.mode = "exclusive" =>
               \A c \in Subscribers : queue'[c] = Push(Push(queue[c], r), note)
         /\ setting.mode # "exclusive" => queue' = queue
    BY <1>1, <1>2, <1>4, <1>5, SendTwo
  <1>14. StreamTypeOK'
    <2>1. writer' \in Writers
      BY <1>12 DEF Writers
    <2> QED
      BY <1>1, <1>2, <1>11, <1>13, <2>1 DEF StreamTypeOK, Tails
  <1>15. MemoryInv'
    <2>1. writer'.last <= r.seq /\ writer'.audit <= r.seq /\ r.seq \in {writer'.last, writer'.audit}
      BY <1>7, <1>8, <1>12
    <2>2. NextSeq(writer') = r.seq + 1
      BY <1>8, <1>12, <2>1, MemoryAhead
    <2> QED
      BY <1>2, <1>11, <2>2 DEF MemoryInv
  <1>16. TerminalOf(durable') = TerminalOf(durable)
    BY <1>1, <1>2, <1>5, <1>6, <1>10, FileFacts, TerminalAppend DEF StreamTerminal
  <1>17. FileInv'
    BY <1>2, <1>10, <1>11, <1>15, <1>16 DEF FileInv, OpenInv, MarkerInv, BareInv, Loose
  <1>18. ASSUME Followed(setting) PROVE ReaderInv'
    <2>1. CASE setting.mode = "exclusive"
      <3>1. unsent = {}
        BY <1>2, <1>18, <2>1, NothingUnsent
      <3>2. ASSUME NEW c \in Subscribers PROVE Served(c, queue'[c], Written', Written')
        <4>1. Served(c, queue[c], Written, Written)
          BY <1>10, <1>18, <2>1, <3>1, ServedNow
        <4>2. r.seq \in Numbers(Written') /\ note.seq \in Numbers(Written')
          BY <1>9, <1>11, <1>18 DEF Numbers, Followed
        <4>3. Served(c, Push(queue[c], r), Written', Written')
          BY <1>5, <1>11, <1>18, <4>1, <4>2, ServedPush
        <4>4. Served(c, Push(Push(queue[c], r), note), Written', Written')
          BY <1>4, <1>11, <1>18, <4>2, <4>3, ServedPush
        <4> QED
          BY <1>13, <2>1, <4>4
      <3> QED
        BY <1>2, <1>11, <1>18, <2>1, <3>1, <3>2, ReadersServed
    <2>2. CASE setting.mode # "exclusive"
      BY <1>2, <1>11, <1>13, <1>18, <2>2, ReadersRest DEF UnsentInv
    <2> QED
      BY <2>1, <2>2
  <1> QED
    BY <1>2, <1>14, <1>17, <1>18 DEF StreamInv, ReaderInv

-----------------------------------------------------------------------------
(* The service, and crashes between steps. *)

LEMMA CrashAlone ==
    ASSUME StreamInv, Crash
    PROVE  StreamInv'
  <1>1. StreamTypeOK /\ FileInv
    BY DEF StreamInv
  <1>2. CrashMemory /\ UNCHANGED <<durable, tail, audit, auditTail, marker>> /\ setting' = setting
    BY DEF Crash, fileVars, CrashMemory
  <1>3. Journal' = Journal /\ Notes' = Notes
    BY <1>2 DEF Journal, Notes, Repaired
  <1>4. SequenceInv' /\ MarkerInv' /\ BareInv'
    BY <1>1, <1>2, <1>3 DEF FileInv, SequenceInv, MarkerInv, BareInv
  <1> QED
    BY <1>1, <1>2, <1>4, GrowsNot, CrashStep DEF StreamTypeOK, FileInv

\* append_events_with: the first number of a batch.
LEMMA ServiceNumber ==
    ASSUME StreamTypeOK, NEW b, b = Max({LastSeq(Journal), TailSeq(audit, auditTail)})
    PROVE  b \in Nat /\ LastSeq(Journal) <= b /\ LastSeq(Notes) <= b
  BY FileFacts, TwoMax

LEMMA JournalFacts ==
    ASSUME StreamInv
    PROVE  /\ Journal \in Seq(Records) /\ Notes \in Seq(Records) /\ Journal # <<>>
           /\ TerminalOf(Journal) \in Ends
           /\ TerminalOf(Journal) = "none" /\ ~setting.resumes => ~marker
  <1>1. StreamTypeOK /\ FileInv
    BY DEF StreamInv
  <1>2. Journal \in Seq(Records) /\ Notes \in Seq(Records) /\ durable # <<>> /\ durable \in Seq(Records)
    BY <1>1, FileFacts DEF FileInv
  <1>3. tail \in Loose \/ tail \in Records
    BY <1>1 DEF StreamTypeOK, Tails, Loose
  <1>4. Journal # <<>>
    BY <1>1, <1>2, <1>3, RepairedFile, FileFacts DEF Journal
  <1>5. PICK r : r \in Records
    BY <1>2, LineFacts
  <1>6. TerminalOf(Journal) \in Ends
    BY <1>2, <1>5, TerminalAppend
  <1>7. TerminalOf(Journal) = "none" /\ ~setting.resumes => ~marker
    BY <1>1, FileFacts DEF FileInv, MarkerInv, Loose
  <1> QED
    BY <1>2, <1>4, <1>6, <1>7

LEMMA RefuseStep ==
    ASSUME StreamInv, RefuseExecution
    PROVE  StreamInv'
  <1> DEFINE b == Max({LastSeq(Journal), TailSeq(audit, auditTail)})
             r == Rec(b + 1, "sealed")
  <1>1. StreamTypeOK /\ FileInv /\ ~writer.open
    BY DEF StreamInv, RefuseExecution
  <1>2. /\ durable' = Append(Journal, r) /\ tail' = NoTail /\ marker' = TRUE
        /\ UNCHANGED <<audit, auditTail, setting, writer, unsent, queue, poller, sub, got, faults>>
    BY DEF RefuseExecution, Journal
  <1>3. b \in Nat /\ LastSeq(Journal) <= b /\ LastSeq(Notes) <= b
    BY <1>1, ServiceNumber
  <1> HIDE DEF b
  <1>4. Fresh(r) /\ r.kind = "sealed" /\ r \in Records
    <2>1. b + 1 \in Nat /\ LastSeq(Journal) < b + 1 /\ LastSeq(Notes) < b + 1 /\ "sealed" \in StreamKinds
      BY <1>1, <1>3, FileFacts DEF StreamKinds, StreamTerminal
    <2> QED
      BY <1>1, <2>1, NumberAbove DEF FileInv, Fresh
  <1> HIDE DEF r
  <1>5. /\ durable' \in Seq(Records) /\ durable' # <<>> /\ audit' \in Seq(Records)
        /\ Journal' = Append(Journal, r) /\ Notes' = Notes /\ SequenceInv'
        /\ Followed(setting) => Grows(durable, audit, durable', audit')
    BY <1>2, <1>4, JournalGrows
  <1>6. TerminalOf(durable') = "sealed"
    BY <1>1, <1>2, <1>4, FileFacts, TerminalAppend DEF StreamTerminal
  <1>7. StreamTypeOK'
    BY <1>1, <1>2, <1>5 DEF StreamTypeOK, Tails
  <1>8. FileInv'
    BY <1>1, <1>2, <1>5, <1>6 DEF FileInv, MemoryInv, OpenInv, MarkerInv, BareInv, Loose
  <1>9. ASSUME Followed(setting) PROVE ReaderInv'
    <2>1. UnsentInv'
      BY <1>1, <1>2, <1>9, NothingUnsent DEF UnsentInv
    <2> QED
      BY <1>2, <1>5, <1>6, <1>9, <2>1, ReadersRest
  <1> QED
    BY <1>2, <1>7, <1>8, <1>9 DEF StreamInv, ReaderInv

\* The batches of the service as appends.
LEMMA TwoRecordBatch ==
    ASSUME NEW s \in Seq(Records), NEW r \in Records, NEW t \in Records
    PROVE  /\ s \o <<r, t>> = Append(Append(s, r), t)
           /\ s \o SubSeq(<<r, t>>, 1, 0) = s
           /\ s \o SubSeq(<<r, t>>, 1, 1) = Append(s, r)
           /\ s \o SubSeq(<<r>>, 1, 0) = s
           /\ s \o <<r>> = Append(s, r)
  <1>1. s \o <<r>> = Append(s, r)
    BY AppendIsConcat
  <1>2. Append(s, r) \in Seq(Records) /\ <<r>> \in Seq(Records) /\ <<t>> \in Seq(Records)
    OBVIOUS
  <1>3. Append(Append(s, r), t) = (s \o <<r>>) \o <<t>>
    BY <1>1, <1>2, AppendIsConcat
  <1>4. (s \o <<r>>) \o <<t>> = s \o (<<r>> \o <<t>>)
    BY <1>2, ConcatAssociative
  <1>5. <<r>> \o <<t>> = <<r, t>>
    <2>1. <<r>> \o <<t>> = Append(<<r>>, t)
      BY <1>2, AppendIsConcat
    <2>2. /\ <<r, t>> \in Seq(Records) /\ Append(<<r>>, t) \in Seq(Records)
          /\ Len(Append(<<r>>, t)) = 2 /\ Len(<<r, t>>) = 2
          /\ Append(<<r>>, t)[1] = r /\ Append(<<r>>, t)[2] = t
          /\ <<r, t>>[1] = r /\ <<r, t>>[2] = t
      OBVIOUS
    <2>3. \A i \in 1..2 : Append(<<r>>, t)[i] = <<r, t>>[i]
      <3>1. \A i \in 1..2 : i = 1 \/ i = 2
        OBVIOUS
      <3> QED
        BY <2>2, <3>1
    <2>4. Append(<<r>>, t) = <<r, t>>
      BY <2>2, <2>3, SeqEqual
    <2> QED
      BY <2>1, <2>4
  <1>6. SubSeq(<<r, t>>, 1, 0) = <<>> /\ SubSeq(<<r>>, 1, 0) = <<>>
    BY SubSeqEmpty
  <1>7. s \o <<>> = s
    BY ConcatEmptySeq
  <1>8. SubSeq(<<r, t>>, 1, 1) = <<r>>
    <2>1. <<r, t>> \in Seq(Records) /\ Len(<<r, t>>) = 2 /\ <<r, t>>[1] = r
      OBVIOUS
    <2>2. /\ SubSeq(<<r, t>>, 1, 1) \in Seq(Records) /\ Len(SubSeq(<<r, t>>, 1, 1)) = 1
          /\ SubSeq(<<r, t>>, 1, 1)[1] = r
      BY <2>1, SubSeqProperties
    <2>3. \A i \in 1..1 : SubSeq(<<r, t>>, 1, 1)[i] = <<r>>[i]
      BY <2>2
    <2> QED
      BY <1>2, <2>2, <2>3, SeqEqual
  <1> QED
    BY <1>1, <1>3, <1>4, <1>5, <1>6, <1>7, <1>8

\* What every append of the service starts from.
LEMMA ServiceStart ==
    ASSUME StreamInv, NEW kinds, ServiceAppend(kinds)
    PROVE  /\ TerminalOf(Journal) = "none" /\ (~setting.resumes => ~marker)
           /\ writer.open => kinds = <<"work">> /\ ~(Synced(setting) /\ setting.audit)
           /\ Followed(setting) => /\ TerminalOf(durable) # "sealed"
                                   /\ setting.mode = "exclusive" => unsent = {}
           /\ setting' = setting
           /\ \/ kinds # <<"interrupted">> /\ UNCHANGED <<audit, auditTail>>
              \/ kinds = <<"interrupted">> /\ audit' = Notes /\ auditTail' = NoTail
           /\ \/ audit' = audit /\ auditTail' = auditTail
              \/ audit' = Notes /\ auditTail' = NoTail
  <1>1. TerminalOf(Journal) = "none" /\ setting.service
        /\ (writer.open => setting.clock = "wall" /\ kinds = <<"work">>)
    BY DEF ServiceAppend, Journal
  <1>2. setting' = setting
    BY DEF ServiceAppend, CrashMemory
  <1>3. \/ kinds # <<"interrupted">> /\ UNCHANGED <<audit, auditTail>>
        \/ kinds = <<"interrupted">> /\ audit' = Notes /\ auditTail' = NoTail
    BY DEF ServiceAppend, Notes
  <1>4. ASSUME Followed(setting)
        PROVE  TerminalOf(durable) # "sealed" /\ (setting.mode = "exclusive" => unsent = {})
    <2>1. Journal = durable
      BY <1>4, FollowedFiles DEF StreamInv, FileInv
    <2>2. \A r \in unsent : setting.mode = "exclusive" => writer.open /\ setting.audit
      BY <1>4 DEF StreamInv, ReaderInv, UnsentInv
    <2>3. setting.mode = "exclusive" => unsent = {}
      BY <1>1, <1>4, <2>2 DEF Followed, Synced
    <2> QED
      BY <1>1, <2>1, <2>3
  <1> QED
    BY <1>1, <1>2, <1>3, <1>4, JournalFacts DEF Synced

ServiceKinds == {"work", "interrupted"}

\* A batch of one: an answer or a cancel request, or a settlement.
LEMMA ServiceOneStep ==
    ASSUME StreamInv, NEW k \in ServiceKinds, ServiceAppend(<<k>>)
    PROVE  StreamInv'
  <1> DEFINE b == Max({LastSeq(Journal), TailSeq(audit, auditTail)})
             r == Rec(b + 1, k)
             seals == k \in StreamTerminal
  <1>1. StreamTypeOK /\ FileInv
    BY DEF StreamInv
  <1>2. b \in Nat /\ LastSeq(Journal) <= b /\ LastSeq(Notes) <= b
    BY <1>1, ServiceNumber
  <1>3. [i \in DOMAIN <<k>> |-> Rec(b + i, <<k>>[i])] = <<r>> /\ <<k>>[Len(<<k>>)] = k /\ DOMAIN <<k>> = {1}
    <2> HIDE DEF b
    <2> QED
      OBVIOUS
  <1>4. \/ /\ durable' = Journal \o <<r>> /\ tail' = NoTail /\ marker' = seals /\ Send(<<r>>)
           /\ UNCHANGED <<setting, writer, unsent, poller, sub, got, faults>>
        \/ /\ CutShort(Journal \o SubSeq(<<r>>, 1, 1 - 1), <<r>>[1], marker /\ seals, marker /\ seals)
           /\ CrashMemory
    <2> HIDE DEF r
    <2> QED
      BY <1>3 DEF ServiceAppend, Journal
  <1>5. Fresh(r) /\ r.kind = k /\ r \in Records
    <2> HIDE DEF b
    <2>1. b + 1 \in Nat /\ LastSeq(Journal) < b + 1 /\ LastSeq(Notes) < b + 1 /\ k \in StreamKinds
      BY <1>1, <1>2, FileFacts DEF StreamKinds, StreamTerminal, ServiceKinds
    <2> QED
      BY <1>1, <2>1, NumberAbove DEF FileInv, Fresh
  <1> HIDE DEF b, r
  <1>6. /\ Journal \in Seq(Records) /\ Notes \in Seq(Records) /\ Journal # <<>>
    BY JournalFacts
  <1>7. /\ TerminalOf(Journal) = "none" /\ (~setting.resumes => ~marker)
        /\ writer.open => <<k>> = <<"work">> /\ ~(Synced(setting) /\ setting.audit)
        /\ Followed(setting) => /\ TerminalOf(durable) # "sealed"
                                /\ setting.mode = "exclusive" => unsent = {}
        /\ setting' = setting
        /\ \/ <<k>> # <<"interrupted">> /\ UNCHANGED <<audit, auditTail>>
           \/ <<k>> = <<"interrupted">> /\ audit' = Notes /\ auditTail' = NoTail
        /\ \/ audit' = audit /\ auditTail' = auditTail
           \/ audit' = Notes /\ auditTail' = NoTail
    BY ServiceStart
  <1>8. /\ writer.open => k = "work"
        /\ k = "interrupted" => auditTail' = NoTail
        /\ k = "work" => auditTail' = auditTail /\ audit' = audit
    BY <1>7
  <1>9. CASE /\ durable' = Journal \o <<r>> /\ tail' = NoTail /\ marker' = seals /\ Send(<<r>>)
             /\ UNCHANGED <<setting, writer, unsent, poller, sub, got, faults>>
    <2>1. durable' = Append(Journal, r)
      BY <1>5, <1>6, <1>9, TwoRecordBatch
    <2>2. /\ durable' \in Seq(Records) /\ durable' # <<>> /\ audit' \in Seq(Records)
          /\ Journal' = Append(Journal, r) /\ Notes' = Notes /\ SequenceInv'
          /\ Range(audit) \subseteq Range(audit')
      BY <1>5, <1>7, <1>9, <2>1, JournalGrows
    <2>3. StreamTypeOK'
      <3>1. queue' \in [Subscribers -> Queues] /\ \A c \in Subscribers : Len(queue'[c].items) <= Capacity
        BY <1>1, <1>5, <1>9, SendOne
      <3>2. auditTail' \in Tails /\ unsent' \subseteq Range(audit')
        BY <1>1, <1>7, <1>9, <2>2 DEF StreamTypeOK, Tails
      <3> QED
        BY <1>1, <1>9, <2>2, <3>1, <3>2 DEF StreamTypeOK, Tails
    <2>4. /\ k = "work" => TerminalOf(durable') = "none" /\ ~marker'
          /\ k = "interrupted" => TerminalOf(durable') = "interrupted"
      <3>1. /\ r.kind \in StreamTerminal => TerminalOf(Append(Journal, r)) = r.kind
            /\ r.kind \notin StreamTerminal \cup {"resumed"} =>
                  TerminalOf(Append(Journal, r)) = TerminalOf(Journal)
        BY <1>5, <1>6, TerminalAppend
      <3>2. CASE k = "work"
        <4>1. r.kind \notin StreamTerminal \cup {"resumed"} /\ ~seals
          BY <1>5, <3>2 DEF StreamTerminal
        <4>2. TerminalOf(durable') = "none"
          BY <1>7, <2>1, <3>1, <4>1
        <4>3. ~marker'
          BY <1>9, <4>1
        <4> QED
          BY <3>2, <4>2, <4>3
      <3>3. CASE k = "interrupted"
        BY <1>5, <1>7, <1>9, <2>1, <3>1, <3>3 DEF StreamTerminal
      <3> QED
        BY <3>2, <3>3 DEF ServiceKinds
    <2>5. MemoryInv'
      BY <1>7, <1>9 DEF MemoryInv
    <2>6. OpenInv'
      <3>1. writer.open => auditTail = NoTail
        BY <1>1 DEF FileInv, OpenInv
      <3> QED
        BY <1>8, <1>9, <2>4, <3>1 DEF OpenInv, Loose
    <2>7. MarkerInv'
      BY <1>8, <1>9, <2>4 DEF MarkerInv, ServiceKinds
    <2>8. BareInv'
      BY <1>1, <1>7, <1>9 DEF FileInv, BareInv, Loose
    <2>9. ASSUME Followed(setting) PROVE ReaderInv'
      BY <1>5, <1>7, <1>9, <2>1, <2>9, ReadersAppend
    <2> QED
      BY <1>9, <2>2, <2>3, <2>5, <2>6, <2>7, <2>8, <2>9 DEF StreamInv, FileInv, ReaderInv
  <1>10. CASE /\ CutShort(Journal \o SubSeq(<<r>>, 1, 1 - 1), <<r>>[1], marker /\ seals, marker /\ seals)
              /\ CrashMemory
    <2>1. Journal \o SubSeq(<<r>>, 1, 1 - 1) = Journal /\ <<r>>[1] = r
      BY <1>5, <1>6, TwoRecordBatch
    <2>2. CutShort(Journal, r, marker /\ seals, marker /\ seals) /\ (marker /\ seals) \in BOOLEAN
      BY <1>1, <1>10, <2>1 DEF StreamTypeOK
    <2>3. Synced(setting) => Ordered(Journal, Notes) /\ Ordered(Append(Journal, r), Notes)
      BY <1>1, <1>5, <1>6, NextRecord DEF FileInv, SequenceInv, Fresh
    <2>4. ASSUME Followed(setting)
          PROVE  Grows(durable, audit, Journal, audit) /\ Grows(durable, audit, Append(Journal, r), audit)
      <3>1. Journal = durable /\ Notes = audit /\ Synced(setting)
        BY <1>1, <2>4, FollowedFiles DEF FileInv
      <3> QED
        BY <1>5, <1>6, <3>1, GrowsNot, GrowsByRecord DEF Fresh
    <2> QED
      BY <1>5, <1>6, <1>7, <1>10, <2>2, <2>3, <2>4, CutShortStep
  <1> QED
    BY <1>4, <1>9, <1>10

\* The settlement of a denied confirmation: two records, one batch.
LEMMA ServiceTwoStep ==
    ASSUME StreamInv, ServiceAppend(<<"work", "sealed">>)
    PROVE  StreamInv'
  <1> DEFINE b == Max({LastSeq(Journal), TailSeq(audit, auditTail)})
             r == Rec(b + 1, "work")
             t == Rec(b + 2, "sealed")
             kinds == <<"work", "sealed">>
  <1>1. StreamTypeOK /\ FileInv
    BY DEF StreamInv
  <1>2. b \in Nat /\ LastSeq(Journal) <= b /\ LastSeq(Notes) <= b
    BY <1>1, ServiceNumber
  <1>3. [i \in DOMAIN kinds |-> Rec(b + i, kinds[i])] = <<r, t>> /\ kinds[Len(kinds)] = "sealed" /\ DOMAIN kinds = {1, 2}
    <2> HIDE DEF b
    <2> QED
      OBVIOUS
  <1>4. \/ /\ durable' = Journal \o <<r, t>> /\ tail' = NoTail /\ marker' = TRUE /\ Send(<<r, t>>)
           /\ UNCHANGED <<setting, writer, unsent, poller, sub, got, faults>>
        \/ \E i \in {1, 2} :
              /\ CutShort(Journal \o SubSeq(<<r, t>>, 1, i - 1), <<r, t>>[i], marker, marker)
              /\ CrashMemory
    <2>1. marker \in BOOLEAN
      BY <1>1 DEF StreamTypeOK
    <2> HIDE DEF r, t
    <2> QED
      BY <1>3, <2>1 DEF ServiceAppend, Journal, StreamTerminal
  <1>5. /\ Fresh(r) /\ r.kind = "work" /\ r \in Records /\ Fresh(t) /\ t.kind = "sealed" /\ t \in Records
        /\ r.seq = b + 1 /\ t.seq = b + 2
    <2> HIDE DEF b
    <2>1. /\ b + 1 \in Nat /\ LastSeq(Journal) < b + 1 /\ LastSeq(Notes) < b + 1 /\ "work" \in StreamKinds
          /\ b + 2 \in Nat /\ LastSeq(Journal) < b + 2 /\ LastSeq(Notes) < b + 2 /\ "sealed" \in StreamKinds
      BY <1>1, <1>2, FileFacts DEF StreamKinds, StreamTerminal
    <2> QED
      BY <1>1, <2>1, NumberAbove DEF FileInv, Fresh
  <1>6. r.seq < t.seq /\ r.seq \in Nat /\ t.seq \in Nat /\ r.seq + 1 <= t.seq
    <2> HIDE DEF b, r, t
    <2> QED
      BY <1>2, <1>5
  <1> HIDE DEF b, r, t
  <1>7. /\ Journal \in Seq(Records) /\ Notes \in Seq(Records) /\ Journal # <<>>
        /\ Append(Journal, r) \in Seq(Records) /\ Append(Journal, r) # <<>>
    BY <1>5, JournalFacts
  <1>8. /\ TerminalOf(Journal) = "none" /\ (~setting.resumes => ~marker) /\ ~writer.open
        /\ Followed(setting) => /\ TerminalOf(durable) # "sealed"
                                /\ setting.mode = "exclusive" => unsent = {}
        /\ setting' = setting /\ UNCHANGED <<audit, auditTail>>
    BY ServiceStart
  <1>9. ASSUME Synced(setting)
        PROVE  /\ Ordered(Journal, Notes) /\ Ordered(Append(Journal, r), Notes)
               /\ Ordered(Append(Append(Journal, r), t), Notes)
    <2>1. Ordered(Journal, Notes) /\ Below(Journal, r.seq) /\ Below(Notes, r.seq) /\ Below(Notes, t.seq)
      BY <1>1, <1>5, <1>9 DEF FileInv, SequenceInv, Fresh
    <2>2. Ordered(Append(Journal, r), Notes) /\ Below(Append(Journal, r), r.seq + 1)
      BY <1>5, <1>7, <2>1, NextRecord
    <2>3. Below(Append(Journal, r), t.seq)
      <3>1. t.seq = r.seq + 1
        BY <1>2, <1>5
      <3> QED
        BY <2>2, <3>1
    <2>4. Ordered(Append(Append(Journal, r), t), Notes)
      BY <1>5, <1>7, <2>1, <2>2, <2>3, NextRecord
    <2> QED
      BY <2>1, <2>2, <2>4
  <1>10. ASSUME Followed(setting)
         PROVE  /\ Journal = durable /\ Notes = audit
                /\ Grows(durable, audit, Journal, audit) /\ Grows(durable, audit, Append(Journal, r), audit)
                /\ Grows(durable, audit, Append(Append(Journal, r), t), audit)
                /\ \A y \in Written : y.seq < r.seq
                /\ Lines(Append(Append(Journal, r), t), audit) = (Written \cup {r}) \cup {t}
    <2>1. Journal = durable /\ Notes = audit /\ Synced(setting)
      BY <1>1, <1>10, FollowedFiles DEF FileInv
    <2>2. Below(durable, r.seq) /\ Below(audit, r.seq)
      BY <1>5, <2>1 DEF Fresh
    <2>3. Lines(Append(Append(Journal, r), t), audit) = Lines(Append(Journal, r), audit) \cup {t}
      <3> DEFINE e == Append(Journal, r)
      <3>1. e \in Seq(Records) /\ audit \in Seq(Records) /\ t \in Records
        BY <1>5, <1>7, <2>1
      <3> HIDE DEF e
      <3>2. Lines(Append(e, t), audit) = Lines(e, audit) \cup {t}
        BY <3>1, LinesAppend
      <3> QED
        BY <3>2 DEF e
    <2>4. Lines(Append(Journal, r), audit) = Written \cup {r}
      BY <1>5, <1>7, <2>1, LinesAppend DEF Written
    <2> QED
      BY <1>5, <1>6, <1>7, <2>1, <2>2, <2>3, <2>4, GrowsNot, GrowsByRecord, GrowsByTwo, AboveLines
         DEF Written
  <1>11. CASE /\ durable' = Journal \o <<r, t>> /\ tail' = NoTail /\ marker' = TRUE /\ Send(<<r, t>>)
              /\ UNCHANGED <<setting, writer, unsent, poller, sub, got, faults>>
    <2>1. durable' = Append(Append(Journal, r), t)
      BY <1>5, <1>7, <1>11, TwoRecordBatch
    <2>2. durable' \in Seq(Records) /\ durable' # <<>> /\ Journal' = durable' /\ Notes' = Notes
      BY <1>5, <1>7, <1>8, <1>11, <2>1 DEF Journal, Notes, Repaired
    <2>3. /\ queue' \in [Subscribers -> Queues]
          /\ \A c \in Subscribers : Len(queue'[c].items) <= Capacity
          /\ setting.mode = "exclusive" => \A c \in Subscribers : queue'[c] = Push(Push(queue[c], r), t)
          /\ setting.mode # "exclusive" => queue' = queue
      BY <1>1, <1>5, <1>11, SendTwo
    <2>4. StreamTypeOK'
      BY <1>1, <1>8, <1>11, <2>2, <2>3 DEF StreamTypeOK, Tails
    <2>5. TerminalOf(durable') = "sealed"
      BY <1>5, <1>7, <2>1, TerminalAppend DEF StreamTerminal
    <2>6. FileInv'
      BY <1>1, <1>8, <1>9, <1>11, <2>1, <2>2, <2>5
         DEF FileInv, SequenceInv, MemoryInv, OpenInv, MarkerInv, BareInv, Loose
    <2>7. ASSUME Followed(setting) PROVE ReaderInv'
      <3>1. Grows(durable, audit, durable', audit') /\ audit' \in Seq(Records)
            /\ Written' = (Written \cup {r}) \cup {t} /\ Written' \subseteq Records
            /\ \A y \in Written : y.seq < r.seq
        BY <1>1, <1>5, <1>8, <1>10, <2>1, <2>7, WrittenFacts, FileFacts DEF Written
      <3>2. CASE setting.mode = "exclusive"
        <4>1. ASSUME NEW c \in Subscribers PROVE Served(c, queue'[c], Written', Written')
          <5> DEFINE W1 == Written \cup {r}
          <5>1. Served(c, queue[c], Written, Written)
            BY <1>8, <2>7, <3>2, ServedNow
          <5>2. r.seq \in Numbers(W1) /\ t.seq \in Numbers(Written') /\ W1 \subseteq Written' /\ W1 \subseteq Records
            BY <3>1 DEF Numbers
          <5>3. Served(c, Push(queue[c], r), W1, W1)
            BY <1>5, <3>1, <5>1, <5>2, ServedPush
          <5>4. \A x \in Written' : x \in W1 \/ \A y \in W1 : y.seq < x.seq
            <6>1. \A y \in Written : y.seq \in Nat
              BY <1>1, WrittenFacts
            <6> QED
              BY <1>6, <3>1, <6>1
          <5>5. \A x \in Written' : x \in W1 \/ x.seq = t.seq
            BY <3>1
          <5> HIDE DEF W1
          <5>6. Served(c, Push(Push(queue[c], r), t), Written', Written')
            BY <1>5, <3>1, <5>2, <5>3, <5>4, <5>5, ServedPush
          <5> QED
            BY <2>3, <3>2, <5>6
        <4> QED
          BY <1>8, <1>11, <2>2, <2>7, <3>1, <3>2, <4>1, ReadersServed
      <3>3. CASE setting.mode # "exclusive"
        BY <1>11, <2>2, <2>3, <2>7, <3>1, <3>3, ReadersRest DEF UnsentInv
      <3> QED
        BY <3>2, <3>3
    <2> QED
      BY <1>8, <2>4, <2>6, <2>7 DEF StreamInv, ReaderInv
  <1>12. CASE \E i \in {1, 2} :
                /\ CutShort(Journal \o SubSeq(<<r, t>>, 1, i - 1), <<r, t>>[i], marker, marker)
                /\ CrashMemory
    <2>1. marker \in BOOLEAN
      BY <1>1 DEF StreamTypeOK
    <2>2. CASE /\ CutShort(Journal \o SubSeq(<<r, t>>, 1, 1 - 1), <<r, t>>[1], marker, marker)
               /\ CrashMemory
      <3>1. Journal \o SubSeq(<<r, t>>, 1, 1 - 1) = Journal /\ <<r, t>>[1] = r
        BY <1>5, <1>7, TwoRecordBatch
      <3>2. CutShort(Journal, r, marker, marker)
        BY <2>2, <3>1
      <3> QED
        BY <1>5, <1>7, <1>8, <1>9, <1>10, <2>1, <2>2, <3>2, CutShortStep
    <2>3. CASE /\ CutShort(Journal \o SubSeq(<<r, t>>, 1, 2 - 1), <<r, t>>[2], marker, marker)
               /\ CrashMemory
      <3>1. Journal \o SubSeq(<<r, t>>, 1, 2 - 1) = Append(Journal, r) /\ <<r, t>>[2] = t
        BY <1>5, <1>7, TwoRecordBatch
      <3>2. CutShort(Append(Journal, r), t, marker, marker)
        BY <2>3, <3>1
      <3> QED
        BY <1>5, <1>7, <1>8, <1>9, <1>10, <2>1, <2>3, <3>2, CutShortStep
    <2> QED
      BY <1>12, <2>2, <2>3
  <1> QED
    BY <1>4, <1>11, <1>12

-----------------------------------------------------------------------------
(* The readers' own steps. *)

\* The files, the writer and its pending sends are left alone.
Steady == UNCHANGED <<fileVars, setting, writer, unsent>>

LEMMA FilesQuiet ==
    ASSUME FileInv, Steady
    PROVE  FileInv' /\ Written' = Written
  <1>1. /\ durable' = durable /\ tail' = tail /\ audit' = audit /\ auditTail' = auditTail
        /\ marker' = marker /\ setting' = setting /\ writer' = writer
    BY DEF Steady, fileVars
  <1>2. Journal' = Journal /\ Notes' = Notes /\ Written' = Written
    BY <1>1 DEF Journal, Notes, Repaired, Written
  <1> QED
    BY <1>1, <1>2 DEF FileInv, SequenceInv, MemoryInv, OpenInv, MarkerInv, BareInv

\* One subscriber moves; the others and the poller keep what they have.
LEMMA ReaderStep ==
    ASSUME StreamInv, Steady, poller' = poller, NEW c \in Subscribers,
           NEW v \in Streams, NEW q \in Queues, Len(q.items) <= Capacity, NEW g \in SUBSET Nat,
           sub' = [sub EXCEPT ![c] = v], queue' = [queue EXCEPT ![c] = q],
           got' = [got EXCEPT ![c] = g], faults' \in 0..MaxFaults,
           Followed(setting) => FollowerOK(c, v, q, g)
    PROVE  StreamInv'
  <1>1. StreamTypeOK /\ FileInv
    BY DEF StreamInv
  <1>2. /\ durable' = durable /\ tail' = tail /\ audit' = audit /\ auditTail' = auditTail
        /\ marker' = marker /\ setting' = setting /\ writer' = writer /\ unsent' = unsent
    BY DEF Steady, fileVars
  <1>3. FileInv' /\ Written' = Written
    BY <1>1, FilesQuiet
  <1>4. /\ sub' \in [Subscribers -> Streams] /\ queue' \in [Subscribers -> Queues]
        /\ got' \in [Subscribers -> SUBSET Nat]
        /\ sub'[c] = v /\ queue'[c] = q /\ got'[c] = g
        /\ \A d \in Subscribers : d # c => sub'[d] = sub[d] /\ queue'[d] = queue[d] /\ got'[d] = got[d]
    BY <1>1 DEF StreamTypeOK
  <1>5. \A d \in Subscribers : Len(queue'[d].items) <= Capacity
    BY <1>1, <1>4 DEF StreamTypeOK
  <1>6. StreamTypeOK'
    BY <1>1, <1>2, <1>4, <1>5 DEF StreamTypeOK
  <1>7. ASSUME Followed(setting) PROVE ReaderInv'
    <2>1. UnsentInv' /\ PollerInv'
      BY <1>2, <1>3, <1>7 DEF StreamInv, ReaderInv, UnsentInv, PollerInv
    <2>2. ASSUME NEW d \in Subscribers, NEW u, NEW p, NEW h, FollowerOK(d, u, p, h),
                 u = sub'[d], p = queue'[d], h = got'[d]
          PROVE  FollowerOK(d, sub[d], queue[d], got[d])'
      BY <1>2, <1>3, <2>2 DEF FollowerOK, ClientOK, ReplayOK, QueueOK, BacklogOK
    <2>3. ASSUME NEW d \in Subscribers PROVE FollowerOK(d, sub[d], queue[d], got[d])'
      <3>1. FollowerOK(d, sub[d], queue[d], got[d]) /\ FollowerOK(c, v, q, g)
        BY <1>7 DEF StreamInv, ReaderInv
      <3>2. FollowerOK(d, sub'[d], queue'[d], got'[d])
        BY <1>4, <3>1
      <3> QED
        BY <2>2, <3>2
    <2> QED
      BY <1>2, <2>1, <2>3 DEF ReaderInv
  <1> QED
    BY <1>2, <1>3, <1>6, <1>7 DEF StreamInv, ReaderInv

\* What is known of a subscriber before its step.
LEMMA SubscriberFacts ==
    ASSUME StreamInv, NEW c \in Subscribers
    PROVE  /\ sub[c] \in Streams /\ queue[c] \in Queues /\ got[c] \in SUBSET Nat
           /\ Len(queue[c].items) <= Capacity
           /\ sub[c].after \in Nat /\ sub[c].through \in Nat /\ sub[c].at \in Cursors
           /\ sub[c].delivered \in Nat /\ sub[c].settled \in BOOLEAN /\ sub[c].phase \in Phases
           /\ sub = [sub EXCEPT ![c] = sub[c]] /\ queue = [queue EXCEPT ![c] = queue[c]]
           /\ got = [got EXCEPT ![c] = got[c]]
           /\ faults \in 0..MaxFaults
           /\ Followed(setting) => FollowerOK(c, sub[c], queue[c], got[c])
  <1>1. StreamTypeOK
    BY DEF StreamInv
  <1>2. sub[c] \in Streams /\ queue[c] \in Queues /\ got[c] \in SUBSET Nat
    BY <1>1 DEF StreamTypeOK
  <1>3. /\ sub[c].after \in Nat /\ sub[c].through \in Nat /\ sub[c].at \in Cursors
        /\ sub[c].delivered \in Nat /\ sub[c].settled \in BOOLEAN /\ sub[c].phase \in Phases
    BY <1>2 DEF Streams
  <1> QED
    BY <1>1, <1>2, <1>3 DEF StreamTypeOK, StreamInv, ReaderInv

LEMMA EmptyQueues ==
    /\ NoQueue \in Queues /\ FreshQueue \in Queues
    /\ Len(NoQueue.items) <= Capacity /\ Len(FreshQueue.items) <= Capacity
    /\ NoQueue.items = <<>> /\ ~NoQueue.open /\ FreshQueue.items = <<>>
    /\ ~NoQueue.lagged /\ ~FreshQueue.lagged /\ FreshQueue.open
  <1>1. <<>> \in Seq(Records) /\ Len(<<>>) = 0 /\ Capacity \in Nat
    BY StreamAssumption
  <1> QED
    BY <1>1 DEF NoQueue, FreshQueue, Queues

\* An empty receiver leaves nothing out of what it holds.
LEMMA EmptyOrder ==
    ASSUME NEW q, q.items = <<>>
    PROVE  /\ \A W : Known(q, W)
           /\ \A n, W : InOrder(q, n, W)
           /\ ~q.open => \A n, W : Complete(q, n, W)
  BY DEF Known, InOrder, Complete

\* A subscriber whose stream is not being served is sent nothing.
LEMMA IdleFollower ==
    ASSUME NEW c \in Subscribers, NEW v, NEW q, NEW g, ClientOK(v, g),
           v.phase \in {"new", "attached", "viewed", "closed"}, q.items = <<>>,
           q.open => setting.mode = "exclusive",
           v.phase # "new" => c \in setting.followers
    PROVE  FollowerOK(c, v, q, g)
  BY EmptyOrder DEF FollowerOK, ReplayOK, QueueOK, BacklogOK, Receiving

LEMMA EndStreamStep ==
    ASSUME StreamInv, Steady, poller' = poller, NEW c \in Subscribers, EndStream(c),
           got' = got, faults' \in 0..MaxFaults, sub[c].phase # "new"
    PROVE  StreamInv'
  <1>1. Dead(c) \in Streams /\ Dead(c).phase = "closed" /\ Dead(c).after = sub[c].after
    BY SubscriberFacts DEF Dead, Streams, Phases, Cursors
  <1>2. sub' = [sub EXCEPT ![c] = Dead(c)] /\ queue' = [queue EXCEPT ![c] = NoQueue]
    BY DEF EndStream, SetSub
  <1>3. ASSUME Followed(setting) PROVE FollowerOK(c, Dead(c), NoQueue, got[c])
    <2>1. ClientOK(Dead(c), got[c]) /\ c \in setting.followers
      BY <1>1, <1>3, SubscriberFacts DEF FollowerOK, ClientOK
    <2> QED
      BY <1>1, <2>1, EmptyQueues, IdleFollower
  <1> QED
    BY <1>1, <1>2, <1>3, EmptyQueues, SubscriberFacts, ReaderStep

-----------------------------------------------------------------------------
(* The merge of the two files. *)

\* The smaller head of two increasing files: p and q lines are read, which
\* are those with a number up to m.
LEMMA SmallerHead ==
    ASSUME NEW s \in Seq(Records), NEW t \in Seq(Records), Increasing(s), Increasing(t),
           NEW p \in Nat, NEW q \in Nat, NEW m \in Nat, p < Len(s), q <= Len(t),
           \A i \in DOMAIN s : i <= p <=> s[i].seq <= m,
           \A i \in DOMAIN t : i <= q <=> t[i].seq <= m,
           q < Len(t) => s[p + 1].seq < t[q + 1].seq
    PROVE  /\ s[p + 1].seq \in Nat /\ m < s[p + 1].seq /\ p + 1 \in DOMAIN s
           /\ \A i \in DOMAIN s : /\ i <= p + 1 <=> s[i].seq <= s[p + 1].seq
                                  /\ s[i].seq < s[p + 1].seq => s[i].seq <= m
           /\ \A i \in DOMAIN t : /\ i <= q <=> t[i].seq <= s[p + 1].seq
                                  /\ t[i].seq < s[p + 1].seq => t[i].seq <= m
  <1> DEFINE n == s[p + 1].seq
  <1>1. p + 1 \in DOMAIN s /\ ~(p + 1 <= p) /\ Len(s) \in Nat /\ Len(t) \in Nat
    OBVIOUS
  <1>2. n \in Nat /\ m < n
    <2>1. n \in Nat
      BY <1>1, LineFacts
    <2>2. ~(n <= m)
      BY <1>1
    <2> QED
      BY <2>1, <2>2
  <1>3. ASSUME NEW i \in DOMAIN s
        PROVE  (i <= p + 1 <=> s[i].seq <= n) /\ (s[i].seq < n => s[i].seq <= m)
    <2>1. i \in Nat /\ s[i].seq \in Nat
      BY LineFacts
    <2>2. CASE i <= p
      BY <1>2, <2>1, <2>2
    <2>3. CASE i = p + 1
      BY <1>2, <2>1, <2>3
    <2>4. CASE i > p + 1
      <3>1. n < s[i].seq
        BY <1>1, <2>4 DEF Increasing
      <3> QED
        BY <1>2, <2>1, <2>4, <3>1
    <2> QED
      BY <2>1, <2>2, <2>3, <2>4
  <1>4. ASSUME NEW i \in DOMAIN t
        PROVE  (i <= q <=> t[i].seq <= n) /\ (t[i].seq < n => t[i].seq <= m)
    <2>1. i \in Nat /\ t[i].seq \in Nat
      BY LineFacts
    <2>2. CASE i <= q
      BY <1>2, <2>1, <2>2
    <2>3. CASE i > q
      <3>1. q < Len(t) /\ q + 1 \in DOMAIN t /\ i >= q + 1
        BY <1>1, <2>1, <2>3
      <3>2. n < t[q + 1].seq /\ t[q + 1].seq \in Nat
        BY <3>1, LineFacts
      <3>3. t[q + 1].seq <= t[i].seq
        <4>1. CASE i = q + 1
          BY <2>1, <4>1
        <4>2. CASE q + 1 < i
          BY <2>1, <3>1, <3>2, <4>2 DEF Increasing
        <4> QED
          BY <2>1, <3>1, <4>1, <4>2
      <3>4. n < t[i].seq
        BY <1>2, <2>1, <3>2, <3>3
      <3> QED
        BY <1>2, <2>1, <2>3, <3>4
    <2> QED
      BY <2>1, <2>2, <2>3
  <1> QED
    BY <1>1, <1>2, <1>3, <1>4

\* EventCursor::read: the next record is the first one beyond the cursor.
LEMMA ReadNext ==
    ASSUME StreamTypeOK, Ordered(durable, audit), NEW at \in Cursors,
           CursorOK(at, durable, audit), ~Exhausted(at), NEW r, r = ReadRec(at)
    PROVE  /\ r \in Written /\ r \in Records /\ r.seq \in Nat /\ at[3] < r.seq
           /\ \A x \in Written : x.seq < r.seq => x.seq <= at[3]
           /\ ~ReadFails(at) /\ ReadIsNew(at)
           /\ ReadCursor(at) \in Cursors /\ CursorOK(ReadCursor(at), durable, audit)
           /\ ReadCursor(at)[3] = r.seq
  <1>1. /\ at[1] \in Nat /\ at[2] \in Nat /\ at[3] \in Nat
        /\ durable \in Seq(Records) /\ audit \in Seq(Records)
        /\ Len(durable) \in Nat /\ Len(audit) \in Nat
    BY FileFacts DEF Cursors
  <1>2. /\ at[1] <= Len(durable) /\ at[2] <= Len(audit)
        /\ \A i \in DOMAIN durable : i <= at[1] <=> durable[i].seq <= at[3]
        /\ \A i \in DOMAIN audit : i <= at[2] <=> audit[i].seq <= at[3]
    BY <1>1 DEF CursorOK
  <1> DEFINE p == at[1]
             q == at[2]
             m == at[3]
  <1>3. Increasing(durable) /\ Increasing(audit) /\ Disjoint(durable, audit)
    BY DEF Ordered
  <1>4. /\ at[1] < Len(durable) => at[1] + 1 \in DOMAIN durable
        /\ at[2] < Len(audit) => at[2] + 1 \in DOMAIN audit
    BY <1>1
  <1>5. ~ReadFails(at)
    BY <1>3, <1>4 DEF ReadFails, Head1, Head2, Disjoint
  <1>6. ASSUME NEW x \in Written
        PROVE  (\E i \in DOMAIN durable : x = durable[i]) \/ (\E i \in DOMAIN audit : x = audit[i])
    BY <1>1, <1>6, LinesFacts DEF Written
  <1>7. CASE FromDurable(at)
    <2>1. r = durable[at[1] + 1] /\ at[1] < Len(durable)
          /\ (at[2] < Len(audit) => durable[at[1] + 1].seq < audit[at[2] + 1].seq)
      BY <1>7 DEF ReadRec, FromDurable, Head1, Head2
    <2>2. /\ r.seq \in Nat /\ at[3] < r.seq /\ at[1] + 1 \in DOMAIN durable
          /\ \A i \in DOMAIN durable : /\ i <= at[1] + 1 <=> durable[i].seq <= r.seq
                                       /\ durable[i].seq < r.seq => durable[i].seq <= at[3]
          /\ \A i \in DOMAIN audit : /\ i <= at[2] <=> audit[i].seq <= r.seq
                                     /\ audit[i].seq < r.seq => audit[i].seq <= at[3]
      <3>1. /\ p \in Nat /\ q \in Nat /\ m \in Nat /\ p < Len(durable) /\ q <= Len(audit)
            /\ \A i \in DOMAIN durable : i <= p <=> durable[i].seq <= m
            /\ \A i \in DOMAIN audit : i <= q <=> audit[i].seq <= m
            /\ q < Len(audit) => durable[p + 1].seq < audit[q + 1].seq
            /\ r.seq = durable[p + 1].seq
        BY <1>1, <1>2, <2>1
      <3> HIDE DEF p, q, m
      <3>2. /\ durable[p + 1].seq \in Nat /\ m < durable[p + 1].seq /\ p + 1 \in DOMAIN durable
            /\ \A i \in DOMAIN durable : /\ i <= p + 1 <=> durable[i].seq <= durable[p + 1].seq
                                         /\ durable[i].seq < durable[p + 1].seq => durable[i].seq <= m
            /\ \A i \in DOMAIN audit : /\ i <= q <=> audit[i].seq <= durable[p + 1].seq
                                       /\ audit[i].seq < durable[p + 1].seq => audit[i].seq <= m
        BY <1>1, <1>3, <3>1, SmallerHead
      <3> QED
        BY <3>1, <3>2 DEF p, q, m
    <2>3. r \in Written /\ r \in Records /\ r.seq \in Numbers(Written)
      BY <2>1, <2>2, WrittenFacts DEF Numbers
    <2>4. \A x \in Written : x.seq < r.seq => x.seq <= at[3]
      BY <1>6, <2>2
    <2>5. Max({at[3], ReadRec(at).seq}) = r.seq
      BY <1>1, <2>2, TwoMax
    <2>6. ReadCursor(at) = <<at[1] + 1, at[2], r.seq>>
      BY <1>7, <2>5 DEF ReadCursor
    <2> DEFINE b == ReadCursor(at)
    <2>7. b \in Cursors /\ b[1] = at[1] + 1 /\ b[2] = at[2] /\ b[3] = r.seq
      BY <1>1, <2>2, <2>6 DEF Cursors
    <2> HIDE DEF b
    <2>8. CursorOK(b, durable, audit)
      <3>1. b[1] \in 0..Len(durable) /\ b[2] \in 0..Len(audit)
        BY <1>1, <1>2, <2>1, <2>7
      <3> QED
        BY <2>2, <2>3, <2>7, <3>1 DEF CursorOK, Written
    <2> QED
      BY <1>5, <2>2, <2>3, <2>4, <2>7, <2>8 DEF ReadIsNew, b
  <1>8. CASE ~FromDurable(at)
    <2>1. at[2] < Len(audit) /\ r = audit[at[2] + 1]
      BY <1>8 DEF ReadRec, FromDurable, Head1, Head2, Exhausted
    <2>2. at[1] < Len(durable) => audit[at[2] + 1].seq < durable[at[1] + 1].seq
      <3>1. ASSUME at[1] < Len(durable)
            PROVE  /\ durable[at[1] + 1].seq \in Nat /\ audit[at[2] + 1].seq \in Nat
                   /\ durable[at[1] + 1].seq # audit[at[2] + 1].seq
        BY <1>1, <1>3, <1>4, <2>1, <3>1, LineFacts DEF Disjoint
      <3>2. at[1] < Len(durable) => ~(durable[at[1] + 1].seq < audit[at[2] + 1].seq)
        BY <1>8, <2>1 DEF FromDurable, Head1, Head2
      <3> QED
        BY <3>1, <3>2
    <2>3. /\ r.seq \in Nat /\ at[3] < r.seq /\ at[2] + 1 \in DOMAIN audit
          /\ \A i \in DOMAIN audit : /\ i <= at[2] + 1 <=> audit[i].seq <= r.seq
                                     /\ audit[i].seq < r.seq => audit[i].seq <= at[3]
          /\ \A i \in DOMAIN durable : /\ i <= at[1] <=> durable[i].seq <= r.seq
                                       /\ durable[i].seq < r.seq => durable[i].seq <= at[3]
      <3>1. /\ p \in Nat /\ q \in Nat /\ m \in Nat /\ q < Len(audit) /\ p <= Len(durable)
            /\ \A i \in DOMAIN durable : i <= p <=> durable[i].seq <= m
            /\ \A i \in DOMAIN audit : i <= q <=> audit[i].seq <= m
            /\ p < Len(durable) => audit[q + 1].seq < durable[p + 1].seq
            /\ r.seq = audit[q + 1].seq
        BY <1>1, <1>2, <2>1, <2>2
      <3> HIDE DEF p, q, m
      <3>2. /\ audit[q + 1].seq \in Nat /\ m < audit[q + 1].seq /\ q + 1 \in DOMAIN audit
            /\ \A i \in DOMAIN audit : /\ i <= q + 1 <=> audit[i].seq <= audit[q + 1].seq
                                       /\ audit[i].seq < audit[q + 1].seq => audit[i].seq <= m
            /\ \A i \in DOMAIN durable : /\ i <= p <=> durable[i].seq <= audit[q + 1].seq
                                         /\ durable[i].seq < audit[q + 1].seq => durable[i].seq <= m
        BY <1>1, <1>3, <3>1, SmallerHead
      <3> QED
        BY <3>1, <3>2 DEF p, q, m
    <2>4. r \in Written /\ r \in Records /\ r.seq \in Numbers(Written)
      BY <2>1, <2>3, WrittenFacts DEF Numbers
    <2>5. \A x \in Written : x.seq < r.seq => x.seq <= at[3]
      BY <1>6, <2>3
    <2>6. Max({at[3], ReadRec(at).seq}) = r.seq
      <3>1. r.seq \in Nat /\ at[3] \in Nat /\ at[3] < r.seq
        BY <1>1, <2>3
      <3> QED
        BY <3>1, TwoMax
    <2>7. ReadCursor(at) = <<at[1], at[2] + 1, r.seq>>
      BY <1>8, <2>6 DEF ReadCursor
    <2> DEFINE b == ReadCursor(at)
    <2>8. b \in Cursors /\ b[1] = at[1] /\ b[2] = at[2] + 1 /\ b[3] = r.seq
      BY <1>1, <2>3, <2>7 DEF Cursors
    <2> HIDE DEF b
    <2>9. CursorOK(b, durable, audit)
      <3>1. b[1] \in 0..Len(durable) /\ b[2] \in 0..Len(audit)
        BY <1>1, <1>2, <2>1, <2>8
      <3> QED
        BY <2>3, <2>4, <2>8, <3>1 DEF CursorOK, Written
    <2> QED
      BY <1>5, <2>3, <2>4, <2>5, <2>8, <2>9 DEF ReadIsNew, b
  <1> QED
    BY <1>7, <1>8

\* A cursor that has nothing left has read every record.
LEMMA ReadAll ==
    ASSUME StreamTypeOK, NEW at \in Cursors, CursorOK(at, durable, audit), Exhausted(at)
    PROVE  \A x \in Written : x.seq <= at[3]
  <1>1. /\ at[1] \in Nat /\ at[2] \in Nat
        /\ durable \in Seq(Records) /\ audit \in Seq(Records)
    BY FileFacts DEF Cursors
  <1>2. (\A i \in DOMAIN durable : i <= at[1]) /\ (\A i \in DOMAIN audit : i <= at[2])
    BY <1>1 DEF Exhausted, Head1, Head2
  <1> QED
    BY <1>1, <1>2, LinesFacts DEF CursorOK, Written

\* prepare_replay's boundary: the last number of the files.
LEMMA BoundaryFacts ==
    ASSUME StreamInv, NEW m, m = Max({TailSeq(durable, tail), TailSeq(audit, auditTail)})
    PROVE  /\ m \in Nat
           /\ Followed(setting) => m \in Numbers(Written) /\ \A x \in Written : x.seq <= m
  <1>1. StreamTypeOK /\ FileInv
    BY DEF StreamInv
  <1>2. /\ TailSeq(durable, tail) = LastSeq(Journal) /\ TailSeq(audit, auditTail) = LastSeq(Notes)
        /\ LastSeq(Journal) \in Nat /\ LastSeq(Notes) \in Nat
        /\ durable \in Seq(Records) /\ audit \in Seq(Records)
    BY <1>1, FileFacts
  <1>3. m \in Nat /\ LastSeq(Journal) <= m /\ LastSeq(Notes) <= m /\ m \in {LastSeq(Journal), LastSeq(Notes)}
    BY <1>2, TwoMax
  <1>4. ASSUME Followed(setting) PROVE m \in Numbers(Written) /\ \A x \in Written : x.seq <= m
    <2>1. Journal = durable /\ Notes = audit /\ Synced(setting)
      BY <1>1, <1>4, FollowedFiles DEF FileInv
    <2>2. Increasing(durable) /\ Increasing(audit) /\ durable # <<>>
      BY <1>1, <2>1 DEF FileInv, SequenceInv, Ordered
    <2>3. LastSeq(durable) \in Numbers(Written) /\ LastSeq(durable) >= 1
      <3>1. Len(durable) \in DOMAIN durable
        BY <1>2, <2>2
      <3>2. durable[Len(durable)] \in Written /\ durable[Len(durable)].seq >= 1
        BY <1>1, <1>2, <3>1, WrittenFacts, LineFacts
      <3> QED
        BY <2>2, <3>2 DEF LastSeq, Numbers
    <2>4. audit # <<>> => LastSeq(audit) \in Numbers(Written)
      <3>1. audit # <<>> => Len(audit) \in DOMAIN audit
        BY <1>2
      <3> QED
        BY <1>1, <3>1, WrittenFacts DEF LastSeq, Numbers
    <2>5. audit = <<>> => LastSeq(audit) = 0
      BY DEF LastSeq
    <2>6. m \in Numbers(Written)
      BY <1>2, <1>3, <2>1, <2>3, <2>4, <2>5
    <2>7. Below(durable, m + 1) /\ Below(audit, m + 1)
      <3>1. m + 1 \in Nat /\ LastSeq(durable) < m + 1 /\ LastSeq(audit) < m + 1
        BY <1>2, <1>3, <2>1
      <3> QED
        BY <1>2, <2>2, <3>1, BeyondLast
    <2>8. \A x \in Written : x.seq < m + 1 /\ x.seq \in Nat
      BY <1>1, <1>2, <2>7, AboveLines, WrittenFacts DEF Written
    <2> QED
      BY <1>3, <2>6, <2>8
  <1> QED
    BY <1>3, <1>4

-----------------------------------------------------------------------------
(* One lemma per step of a subscriber. *)

LEMMA SubscribeStep ==
    ASSUME StreamInv, NEW c \in Subscribers, Subscribe(c)
    PROVE  StreamInv'
  <1> DEFINE v == [sub[c] EXCEPT !.phase = "attached"]
             q == IF setting.mode = "exclusive" THEN FreshQueue ELSE NoQueue
  <1>1. /\ Steady /\ poller' = poller /\ got' = got /\ faults' = faults
        /\ c \in setting.followers /\ sub' = [sub EXCEPT ![c] = v] /\ queue' = [queue EXCEPT ![c] = q]
    BY DEF Subscribe, Steady, AttachLive, SetSub
  <1>2. v \in Streams /\ v.phase = "attached" /\ v.after = sub[c].after
    BY SubscriberFacts DEF Streams, Phases
  <1>3. /\ q \in Queues /\ Len(q.items) <= Capacity /\ q.items = <<>>
        /\ q.open => setting.mode = "exclusive"
    BY EmptyQueues
  <1> HIDE DEF v, q
  <1>4. ASSUME Followed(setting) PROVE FollowerOK(c, v, q, got[c])
    <2>1. ClientOK(v, got[c])
      BY <1>2, <1>4, SubscriberFacts DEF FollowerOK, ClientOK
    <2> QED
      BY <1>1, <1>2, <1>3, <2>1, IdleFollower
  <1> QED
    BY <1>1, <1>2, <1>3, <1>4, SubscriberFacts, ReaderStep

LEMMA ReadSettledStep ==
    ASSUME StreamInv, NEW c \in Subscribers, ReadSettled(c)
    PROVE  StreamInv'
  <1> DEFINE v == [sub[c] EXCEPT !.phase = "viewed", !.settled = TerminalOf(durable) # "none"]
  <1>1. /\ Steady /\ poller' = poller /\ got' = got /\ faults' = faults /\ queue' = queue
        /\ sub[c].phase = "attached" /\ sub' = [sub EXCEPT ![c] = v]
    BY DEF ReadSettled, Steady, SetSub
  <1>2. v \in Streams /\ v.phase = "viewed" /\ v.after = sub[c].after
    <2>1. (TerminalOf(durable) # "none") \in BOOLEAN
      OBVIOUS
    <2> HIDE DEF TerminalOf
    <2> QED
      BY <2>1, SubscriberFacts DEF Streams, Phases
  <1> HIDE DEF v
  <1>3. ASSUME Followed(setting) PROVE FollowerOK(c, v, queue[c], got[c])
    <2>1. FollowerOK(c, sub[c], queue[c], got[c])
      BY <1>3, SubscriberFacts
    <2> QED
      BY <1>1, <1>2, <2>1 DEF FollowerOK, ClientOK, ReplayOK, QueueOK, BacklogOK, Receiving
  <1> QED
    BY <1>1, <1>2, <1>3, SubscriberFacts, ReaderStep

LEMMA ReadBoundaryStep ==
    ASSUME StreamInv, NEW c \in Subscribers, ReadBoundary(c)
    PROVE  StreamInv'
  <1> DEFINE m == Max({TailSeq(durable, tail), TailSeq(audit, auditTail)})
             joins == ~(sub[c].settled \/ setting.mode = "exclusive")
             v == [sub[c] EXCEPT !.phase = IF sub[c].settled \/ setting.mode = "exclusive"
                                           THEN "replay" ELSE "join",
                                 !.through = m, !.at = <<0, 0, 0>>, !.delivered = m,
                                 !.after = IF @ > m THEN 0 ELSE @]
             q == IF sub[c].settled THEN NoQueue ELSE queue[c]
  <1>1. /\ Steady /\ poller' = poller /\ got' = got /\ faults' = faults
        /\ sub[c].phase = "viewed" /\ sub' = [sub EXCEPT ![c] = v]
        /\ queue' = [queue EXCEPT ![c] = q]
    BY DEF ReadBoundary, Steady, SetSub
  <1>2. /\ m \in Nat
        /\ Followed(setting) => m \in Numbers(Written) /\ \A x \in Written : x.seq <= m
    BY BoundaryFacts
  <1>3. StreamTypeOK /\ durable \in Seq(Records) /\ audit \in Seq(Records)
    BY FileFacts DEF StreamInv
  <1>4. <<0, 0, 0>> \in Cursors /\ CursorOK(<<0, 0, 0>>, durable, audit)
    BY <1>3, CursorStart
  <1>5. /\ sub[c] \in Streams /\ sub[c].after \in Nat /\ sub[c].settled \in BOOLEAN
        /\ queue[c] \in Queues /\ Len(queue[c].items) <= Capacity
        /\ Followed(setting) => FollowerOK(c, sub[c], queue[c], got[c])
    BY SubscriberFacts
  <1>6. /\ v \in Streams /\ v.through = m /\ v.at = <<0, 0, 0>> /\ v.delivered = m
        /\ v.after = (IF sub[c].after > m THEN 0 ELSE sub[c].after)
        /\ v.phase = (IF sub[c].settled \/ setting.mode = "exclusive" THEN "replay" ELSE "join")
    <2> HIDE DEF m
    <2> QED
      BY <1>2, <1>4, <1>5 DEF Streams, Phases
  <1>7. q \in Queues /\ Len(q.items) <= Capacity /\ (q.open => q = queue[c] /\ ~sub[c].settled)
    BY <1>5, EmptyQueues
  <1>8. q = queue[c] \/ q = NoQueue
    OBVIOUS
  <1> HIDE DEF m, v, q
  <1>9. ASSUME Followed(setting) PROVE FollowerOK(c, v, q, got[c])
    <2>1. FollowerOK(c, sub[c], queue[c], got[c]) /\ c \in setting.followers
      BY <1>1, <1>5, <1>9 DEF FollowerOK
    <2>2. \A x \in Written : x.seq \in Nat /\ x.seq >= 1 /\ x.seq <= m
      BY <1>2, <1>3, <1>9, WrittenFacts
    <2>3. sub[c].after \in Numbers(Written) \cup {0}
      BY <2>1 DEF FollowerOK, ClientOK
    <2>4. sub[c].after <= m /\ v.after = sub[c].after
      <3>1. sub[c].after = 0 \/ \E x \in Written : sub[c].after = x.seq
        BY <2>3 DEF Numbers
      <3>2. sub[c].after <= m
        BY <1>2, <2>2, <3>1
      <3> QED
        BY <1>2, <1>5, <1>6, <3>2
    <2>5. ClientOK(v, got[c])
      BY <2>1, <2>4 DEF FollowerOK, ClientOK
    <2>6. ReplayOK(v)
      <3>1. v.at[3] <= v.after
        BY <1>5, <1>6, <2>4
      <3> QED
        BY <1>2, <1>4, <1>6, <1>9, <2>4, <3>1 DEF ReplayOK
    <2>7. /\ Known(q, Written) /\ (~q.open => q.items = <<>>)
      BY <1>8, <2>1, EmptyQueues, EmptyOrder DEF FollowerOK, QueueOK
    <2>8. \A x \in Written : ~(m < x.seq)
      BY <1>2, <2>2
    <2>9. InOrder(q, v.delivered, Written) /\ \A V \in SUBSET Written : Complete(q, v.delivered, V)
      BY <1>6, <2>8 DEF InOrder, Complete
    <2>10. q.open /\ setting.mode = "shared" => Receiving(v)
      BY <1>1, <1>7, <2>1 DEF FollowerOK, QueueOK, Receiving
    <2>11. v.phase = "join" => setting.mode = "shared"
      BY <1>3, <1>6, ModeFacts
    <2>12. poller.alive => poller.delivered <= m
      <3>1. poller.alive => poller.delivered \in Numbers(Written)
        BY <1>9 DEF StreamInv, ReaderInv, PollerInv
      <3> QED
        BY <2>2, <3>1 DEF Numbers
    <2>13. BacklogOK(v, q)
      <3>1. Written \ unsent \in SUBSET Written /\ {x \in Written : x.seq <= poller.delivered} \in SUBSET Written
        OBVIOUS
      <3> QED
        BY <1>6, <2>9, <2>11, <2>12, <3>1 DEF BacklogOK
    <2> QED
      BY <2>1, <2>5, <2>6, <2>7, <2>9, <2>10, <2>13 DEF FollowerOK, QueueOK
  <1> QED
    BY <1>1, <1>6, <1>7, <1>9, SubscriberFacts, ReaderStep

LEMMA ReplayErrorStep ==
    ASSUME StreamInv, NEW c \in Subscribers, ReplayError(c)
    PROVE  StreamInv'
  <1>1. /\ Steady /\ poller' = poller /\ got' = got /\ EndStream(c) /\ sub[c].phase # "new"
        /\ FailedRead(sub[c].at)
    BY DEF ReplayError, Steady
  <1>2. faults' \in 0..MaxFaults
    <2>1. faults \in 0..MaxFaults /\ MaxFaults \in Nat
      BY SubscriberFacts, StreamAssumption
    <2> QED
      BY <1>1, <2>1 DEF FailedRead
  <1> QED
    BY <1>1, <1>2, EndStreamStep

LEMMA ChannelClosedStep ==
    ASSUME StreamInv, NEW c \in Subscribers, ChannelClosed(c)
    PROVE  StreamInv'
  <1>1. /\ Steady /\ poller' = poller /\ got' = got /\ EndStream(c) /\ sub[c].phase # "new"
        /\ faults' = faults
    BY DEF ChannelClosed, Steady
  <1> QED
    BY <1>1, SubscriberFacts, EndStreamStep

\* The shape of what a cursor reads.
LEMMA ReadTypes ==
    ASSUME StreamTypeOK, NEW at \in Cursors, ~Exhausted(at)
    PROVE  ReadRec(at) \in Records /\ ReadRec(at).seq \in Nat /\ ReadCursor(at) \in Cursors
  <1>1. /\ at[1] \in Nat /\ at[2] \in Nat /\ at[3] \in Nat
        /\ durable \in Seq(Records) /\ audit \in Seq(Records)
    BY FileFacts DEF Cursors
  <1>2. FromDurable(at) => at[1] + 1 \in DOMAIN durable
    BY <1>1 DEF FromDurable, Head1
  <1>3. ~FromDurable(at) => at[2] + 1 \in DOMAIN audit
    BY <1>1 DEF FromDurable, Exhausted, Head1, Head2
  <1>4. ReadRec(at) \in Records
    BY <1>1, <1>2, <1>3, LineFacts DEF ReadRec
  <1>5. ReadRec(at).seq \in Nat
    BY <1>4, RecordFacts
  <1>6. Max({at[3], ReadRec(at).seq}) \in Nat
    BY <1>1, <1>5, TwoMax
  <1> QED
    BY <1>1, <1>4, <1>5, <1>6 DEF ReadCursor, Cursors

\* What a followed setting says of the files as they are read.
LEMMA ReadableFiles ==
    ASSUME StreamInv, Followed(setting)
    PROVE  StreamTypeOK /\ Ordered(durable, audit) /\ Written \subseteq Records
           /\ \A x \in Written : x.seq \in Nat /\ x.seq >= 1
  <1>1. StreamTypeOK /\ FileInv
    BY DEF StreamInv
  <1>2. Journal = durable /\ Notes = audit /\ Synced(setting)
    BY <1>1, FollowedFiles DEF FileInv
  <1> QED
    BY <1>1, <1>2, WrittenFacts DEF FileInv, SequenceInv

\* History is read up to its end, and every record is handed over once.
LEMMA ReplayStep ==
    ASSUME StreamInv, NEW c \in Subscribers, Replay(c)
    PROVE  StreamInv'
  <1> DEFINE at == sub[c].at
             r == ReadRec(at)
             b == ReadCursor(at)
             wanted == ReadIsNew(at) /\ r.seq > sub[c].after /\ r.seq <= sub[c].through
             settles == IF ~wanted THEN sub[c].settled
                        ELSE IF r.kind \in StreamTerminal THEN TRUE
                        ELSE IF r.kind = "resumed" THEN FALSE ELSE sub[c].settled
             v == [sub[c] EXCEPT !.at = b, !.after = IF wanted THEN r.seq ELSE @,
                                 !.settled = settles]
             g == IF wanted THEN got[c] \cup {r.seq} ELSE got[c]
  <1>1. /\ Steady /\ poller' = poller /\ faults' = faults /\ queue' = queue
        /\ sub[c].phase = "replay" /\ ~Exhausted(at) /\ r.seq <= sub[c].through
        /\ sub' = [sub EXCEPT ![c] = v] /\ got' = [got EXCEPT ![c] = g]
    BY DEF Replay, Steady, SetSub
  <1>2. StreamTypeOK /\ at \in Cursors
    BY SubscriberFacts DEF StreamInv
  <1>3. r \in Records /\ r.seq \in Nat /\ b \in Cursors
    BY <1>1, <1>2, ReadTypes
  <1>4. wanted \in BOOLEAN /\ settles \in BOOLEAN
    BY SubscriberFacts
  <1>5. /\ v \in Streams /\ v.at = b /\ v.after = (IF wanted THEN r.seq ELSE sub[c].after)
        /\ v.phase = sub[c].phase /\ v.through = sub[c].through /\ v.delivered = sub[c].delivered
    <2> HIDE DEF r, b, wanted, settles
    <2> QED
      BY <1>3, <1>4, SubscriberFacts DEF Streams
  <1>6. g \in SUBSET Nat
    <2> HIDE DEF r, wanted
    <2> QED
      BY <1>3, SubscriberFacts
  <1>7. ASSUME Followed(setting) PROVE FollowerOK(c, v, queue[c], g)
    <2>1. /\ ClientOK(sub[c], got[c]) /\ ReplayOK(sub[c]) /\ QueueOK(c, sub[c], queue[c])
          /\ BacklogOK(sub[c], queue[c]) /\ c \in setting.followers
      BY <1>1, <1>7, SubscriberFacts DEF FollowerOK
    <2>2. /\ sub[c].through \in Numbers(Written) /\ sub[c].delivered = sub[c].through
          /\ sub[c].after <= sub[c].through /\ at[3] <= sub[c].after
          /\ CursorOK(at, durable, audit)
      BY <1>1, <2>1 DEF ReplayOK
    <2>3. /\ r \in Written /\ at[3] < r.seq
          /\ \A x \in Written : x.seq < r.seq => x.seq <= at[3]
          /\ ReadIsNew(at) /\ CursorOK(b, durable, audit) /\ b[3] = r.seq
      BY <1>1, <1>2, <1>7, <2>2, ReadableFiles, ReadNext
    <2>4. wanted <=> r.seq > sub[c].after
      BY <1>1, <2>3
    <2>5. /\ at[3] \in Nat /\ sub[c].after \in Nat /\ sub[c].through \in Nat
          /\ \A x \in Written : x.seq \in Nat
          /\ \A n \in got[c] : n \in Nat
      BY <1>2, <1>7, SubscriberFacts, ReadableFiles DEF Cursors
    <2>6. wanted => v.after = r.seq /\ g = got[c] \cup {r.seq} /\ r.seq > sub[c].after
      BY <1>5, <2>4
    <2>7. ~wanted => v.after = sub[c].after /\ g = got[c] /\ r.seq <= sub[c].after
      BY <1>3, <1>5, <2>4, <2>5
    <2> HIDE DEF at, r, b, wanted, settles, v, g
    <2>8. ClientOK(v, g)
      <3>1. CASE wanted
        <4>1. v.after \in Numbers(Written)
          BY <2>3, <2>6, <3>1 DEF Numbers
        <4>2. \A x \in Written : x.seq <= r.seq => x.seq \in g
          <5>1. \A x \in Written : x.seq < r.seq => x.seq \in got[c]
            BY <2>1, <2>2, <2>3, <2>5 DEF ClientOK
          <5> QED
            BY <1>3, <2>5, <2>6, <3>1, <5>1
        <4>3. \A n \in g : n <= r.seq
          BY <1>3, <2>1, <2>5, <2>6, <3>1 DEF ClientOK
        <4> QED
          BY <2>6, <3>1, <4>1, <4>2, <4>3 DEF ClientOK
      <3>2. CASE ~wanted
        BY <2>1, <2>7, <3>2 DEF ClientOK
      <3> QED
        BY <3>1, <3>2
    <2>9. ReplayOK(v)
      <3>1. v.after <= v.through /\ v.at[3] <= v.after
        BY <1>1, <1>3, <1>5, <2>2, <2>3, <2>5, <2>6, <2>7
      <3> QED
        BY <1>1, <1>5, <2>2, <2>3, <3>1 DEF ReplayOK
    <2>10. QueueOK(c, v, queue[c]) /\ BacklogOK(v, queue[c])
      BY <1>5, <2>1 DEF QueueOK, BacklogOK, Receiving
    <2> QED
      BY <2>1, <2>8, <2>9, <2>10 DEF FollowerOK
  <1> HIDE DEF at, r, b, wanted, settles, v, g
  <1> QED
    BY <1>1, <1>5, <1>6, <1>7, SubscriberFacts, ReaderStep

\* The hand-over: the replay has reached the end of history.
LEMMA ReplayDoneStep ==
    ASSUME StreamInv, NEW c \in Subscribers, ReplayDone(c)
    PROVE  StreamInv'
  <1> DEFINE at == sub[c].at
             v == [sub[c] EXCEPT !.phase = "live"]
  <1>1. /\ Steady /\ poller' = poller /\ faults' = faults /\ got' = got
        /\ sub[c].phase = "replay"
        /\ ~Exhausted(at) => ReadRec(at).seq > sub[c].through
        /\ \/ EndStream(c)
           \/ sub' = [sub EXCEPT ![c] = v] /\ queue' = queue
    BY DEF ReplayDone, Steady, SetSub
  <1>2. CASE EndStream(c)
    BY <1>1, <1>2, SubscriberFacts, EndStreamStep
  <1>3. CASE sub' = [sub EXCEPT ![c] = v] /\ queue' = queue
    <2>1. /\ v \in Streams /\ v.phase = "live" /\ v.after = sub[c].after
          /\ v.delivered = sub[c].delivered
      BY SubscriberFacts DEF Streams, Phases
    <2>2. StreamTypeOK /\ at \in Cursors /\ at[3] \in Nat
      BY SubscriberFacts DEF StreamInv, Cursors
    <2>3. ASSUME Followed(setting) PROVE FollowerOK(c, v, queue[c], got[c])
      <3>1. /\ ClientOK(sub[c], got[c]) /\ ReplayOK(sub[c]) /\ QueueOK(c, sub[c], queue[c])
            /\ BacklogOK(sub[c], queue[c]) /\ c \in setting.followers
        BY <1>1, <2>3, SubscriberFacts DEF FollowerOK
      <3>2. /\ sub[c].through \in Numbers(Written) /\ sub[c].delivered = sub[c].through
            /\ sub[c].after <= sub[c].through /\ at[3] <= sub[c].after
            /\ CursorOK(at, durable, audit)
        BY <1>1, <3>1 DEF ReplayOK
      <3>3. PICK x \in Written : x.seq = sub[c].through
        BY <3>2 DEF Numbers
      <3> HIDE DEF at, v
      <3>4. x.seq <= at[3]
        <4>1. CASE Exhausted(at)
          BY <2>2, <3>2, <4>1, ReadAll
        <4>2. CASE ~Exhausted(at)
          <5>1. \A y \in Written : y.seq < ReadRec(at).seq => y.seq <= at[3]
            BY <2>2, <2>3, <3>2, <4>2, ReadableFiles, ReadNext
          <5>2. ReadRec(at).seq \in Nat /\ x.seq \in Nat /\ ReadRec(at).seq > x.seq
            BY <1>1, <2>2, <2>3, <3>2, <3>3, <4>2, ReadableFiles, ReadNext
          <5> QED
            BY <5>1, <5>2
        <4> QED
          BY <4>1, <4>2
      <3>5. sub[c].after \in Nat /\ sub[c].through \in Nat
        BY SubscriberFacts
      <3>6. v.after = v.delivered
        BY <2>1, <2>2, <3>2, <3>3, <3>4, <3>5
      <3>7. ClientOK(v, got[c]) /\ ReplayOK(v)
        BY <2>1, <3>1, <3>6 DEF ClientOK, ReplayOK
      <3>8. QueueOK(c, v, queue[c]) /\ BacklogOK(v, queue[c])
        BY <1>1, <2>1, <3>1 DEF QueueOK, BacklogOK, Receiving
      <3> QED
        BY <3>1, <3>7, <3>8 DEF FollowerOK
    <2> HIDE DEF v
    <2> QED
      BY <1>1, <1>3, <2>1, <2>3, SubscriberFacts, ReaderStep
  <1> QED
    BY <1>1, <1>2, <1>3

\* A receiver's next event: nothing was left out before it.
LEMMA LiveStep ==
    ASSUME StreamInv, NEW c \in Subscribers, Live(c)
    PROVE  StreamInv'
  <1> DEFINE r == Head(queue[c].items)
             n == sub[c].delivered
             p == [queue[c] EXCEPT !.items = Tail(@)]
             v == [sub[c] EXCEPT !.delivered = r.seq, !.after = r.seq]
             w == [Dead(c) EXCEPT !.after = r.seq]
             g == got[c] \cup {r.seq}
  <1>1. /\ Steady /\ poller' = poller /\ faults' = faults
        /\ sub[c].phase = "live" /\ queue[c].items # <<>> /\ ~queue[c].lagged
    BY DEF Live, Steady
  <1>2. \/ /\ ~(r.seq > n) /\ queue' = [queue EXCEPT ![c] = p] /\ sub' = sub /\ got' = got
        \/ /\ r.seq > n /\ got' = [got EXCEPT ![c] = g]
           /\ sub' = [sub EXCEPT ![c] = w] /\ queue' = [queue EXCEPT ![c] = NoQueue]
        \/ /\ r.seq > n /\ got' = [got EXCEPT ![c] = g]
           /\ sub' = [sub EXCEPT ![c] = v] /\ queue' = [queue EXCEPT ![c] = p]
    BY DEF Live, Newer, SetSub
  <1>3. /\ queue[c] \in Queues /\ Len(queue[c].items) <= Capacity /\ queue[c].items \in Seq(Records)
        /\ n \in Nat /\ sub[c].after \in Nat /\ got[c] \in SUBSET Nat
    BY SubscriberFacts DEF Queues
  <1>4. r = queue[c].items[1] /\ r \in Records /\ r.seq \in Nat /\ 1 \in DOMAIN queue[c].items
    BY <1>1, <1>3, LineFacts
  <1>5. /\ p \in Queues /\ Len(p.items) <= Capacity /\ p.items = Tail(queue[c].items)
        /\ p.open = queue[c].open /\ p.lagged = queue[c].lagged
    <2>1. /\ Tail(queue[c].items) \in Seq(Records)
          /\ Len(Tail(queue[c].items)) = Len(queue[c].items) - 1 /\ Len(queue[c].items) \in Nat
          /\ Capacity \in Nat
      BY <1>1, <1>3, StreamAssumption
    <2>2. /\ p.items = Tail(queue[c].items) /\ p \in Queues
          /\ p.open = queue[c].open /\ p.lagged = queue[c].lagged
      BY <1>3, <2>1 DEF Queues
    <2> QED
      BY <1>3, <2>1, <2>2
  <1>6. /\ v \in Streams /\ v.phase = "live" /\ v.after = r.seq /\ v.delivered = r.seq
        /\ w \in Streams /\ w.phase = "closed" /\ w.after = r.seq
        /\ g \in SUBSET Nat
    <2> HIDE DEF r
    <2> QED
      BY <1>1, <1>3, <1>4, SubscriberFacts DEF Dead, Streams, Phases, Cursors
  <1> HIDE DEF r, n, p, v, w, g
  <1>7. ASSUME Followed(setting)
        PROVE  /\ ClientOK(sub[c], got[c]) /\ sub[c].after = n /\ c \in setting.followers
               /\ Known(queue[c], Written) /\ InOrder(queue[c], n, Written)
               /\ QueueOK(c, sub[c], queue[c]) /\ BacklogOK(sub[c], queue[c])
               /\ Written \subseteq Records /\ \A x \in Written : x.seq \in Nat
    BY <1>1, <1>7, SubscriberFacts, ReadableFiles
       DEF FollowerOK, ReplayOK, QueueOK, Receiving, n
  <1>8. ASSUME Followed(setting), NEW m \in Nat, n <= m, r.seq <= m,
               NEW u, u.phase = "live", u.delivered = m
        PROVE  QueueOK(c, u, p) /\ BacklogOK(u, p)
    <2>1. /\ p.open = queue[c].open /\ p.lagged = queue[c].lagged
          /\ Known(p, Written) /\ InOrder(p, m, Written)
          /\ \A V \in SUBSET Written : Complete(queue[c], n, V) => Complete(p, m, V)
      <3>1. queue[c].items[1].seq <= m /\ Known(queue[c], Written) /\ InOrder(queue[c], n, Written)
            /\ Written \subseteq Records
        BY <1>4, <1>7, <1>8
      <3>2. queue[c].items # <<>> /\ n <= m
        BY <1>1, <1>8
      <3> QED
        BY <1>3, <1>5, <3>1, <3>2, TakeHead
    <2>2. queue[c].open
      BY <1>1, <1>7, <1>8 DEF QueueOK
    <2>3. QueueOK(c, u, p)
      BY <1>7, <1>8, <2>1, <2>2 DEF QueueOK, Receiving
    <2>4. Written \ unsent \in SUBSET Written /\ {x \in Written : x.seq <= poller.delivered} \in SUBSET Written
      OBVIOUS
    <2>5. BacklogOK(u, p)
      BY <1>1, <1>7, <1>8, <2>1, <2>4 DEF BacklogOK, Receiving, n
    <2> QED
      BY <2>3, <2>5
  <1>9. ASSUME Followed(setting), r.seq > n, NEW u, u.after = r.seq
         PROVE  ClientOK(u, g)
    <2>1. r.seq \in Numbers(Written)
      BY <1>4, <1>7, <1>9 DEF Known
    <2>2. ASSUME NEW x \in Written, x.seq <= r.seq PROVE x.seq \in g
      <3>1. CASE x.seq <= n
        BY <1>7, <1>9, <3>1 DEF ClientOK, g
      <3>2. CASE n < x.seq
        <4>1. \E j \in 1..1 : queue[c].items[j].seq = x.seq
          BY <1>1, <1>4, <1>7, <1>9, <2>2, <3>2 DEF InOrder
        <4>2. x.seq = r.seq
          BY <1>4, <4>1
        <4> QED
          BY <4>2 DEF g
      <3> QED
        BY <1>3, <1>7, <1>9, <3>1, <3>2
    <2>3. \A k \in g : k <= r.seq
      <3>1. \A k \in got[c] : k \in Nat /\ k <= n
        BY <1>3, <1>7, <1>9 DEF ClientOK
      <3> QED
        BY <1>3, <1>4, <1>9, <3>1 DEF g
    <2> QED
      BY <1>9, <2>1, <2>2, <2>3 DEF ClientOK, g
  <1>10. CASE ~(r.seq > n) /\ queue' = [queue EXCEPT ![c] = p] /\ sub' = sub /\ got' = got
    <2>1. ASSUME Followed(setting) PROVE FollowerOK(c, sub[c], p, got[c])
      <3>1. n <= n /\ r.seq <= n
        BY <1>3, <1>4, <1>10
      <3>2. QueueOK(c, sub[c], p) /\ BacklogOK(sub[c], p)
        BY <1>1, <1>3, <1>8, <2>1, <3>1 DEF n
      <3> QED
        BY <1>7, <2>1, <3>2, SubscriberFacts DEF FollowerOK
    <2> QED
      BY <1>1, <1>5, <1>10, <2>1, SubscriberFacts, ReaderStep
  <1>11. CASE /\ r.seq > n /\ got' = [got EXCEPT ![c] = g]
              /\ sub' = [sub EXCEPT ![c] = w] /\ queue' = [queue EXCEPT ![c] = NoQueue]
    <2>1. ASSUME Followed(setting) PROVE FollowerOK(c, w, NoQueue, g)
      BY <1>6, <1>7, <1>9, <1>11, <2>1, EmptyQueues, IdleFollower
    <2> QED
      BY <1>1, <1>6, <1>11, <2>1, EmptyQueues, SubscriberFacts, ReaderStep
  <1>12. CASE /\ r.seq > n /\ got' = [got EXCEPT ![c] = g]
              /\ sub' = [sub EXCEPT ![c] = v] /\ queue' = [queue EXCEPT ![c] = p]
    <2>1. ASSUME Followed(setting) PROVE FollowerOK(c, v, p, g)
      <3>1. n <= r.seq /\ r.seq <= r.seq
        BY <1>3, <1>4, <1>12
      <3>2. QueueOK(c, v, p) /\ BacklogOK(v, p)
        BY <1>4, <1>6, <1>8, <2>1, <3>1
      <3>3. ClientOK(v, g)
        BY <1>6, <1>9, <1>12, <2>1
      <3>4. ReplayOK(v)
        BY <1>6 DEF ReplayOK
      <3> QED
        BY <1>7, <2>1, <3>2, <3>3, <3>4 DEF FollowerOK
    <2> QED
      BY <1>1, <1>5, <1>6, <1>12, <2>1, SubscriberFacts, ReaderStep
  <1> QED
    BY <1>2, <1>10, <1>11, <1>12

\* A receiver that was overrun ends where it was: what it lost is read again.
LEMMA LaggedStep ==
    ASSUME StreamInv, NEW c \in Subscribers, Lagged(c)
    PROVE  StreamInv'
  <1> DEFINE w == [Dead(c) EXCEPT !.after = sub[c].delivered]
  <1>1. /\ Steady /\ poller' = poller /\ faults' = faults /\ got' = got /\ sub[c].phase = "live"
        /\ sub' = [sub EXCEPT ![c] = w] /\ queue' = [queue EXCEPT ![c] = NoQueue]
    BY DEF Lagged, Steady, SetSub, LaggedAt
  <1>2. w \in Streams /\ w.phase = "closed" /\ w.after = sub[c].delivered
    BY SubscriberFacts DEF Dead, Streams, Phases, Cursors
  <1> HIDE DEF w
  <1>3. ASSUME Followed(setting) PROVE FollowerOK(c, w, NoQueue, got[c])
    <2>1. ClientOK(w, got[c]) /\ c \in setting.followers
      BY <1>1, <1>2, <1>3, SubscriberFacts DEF FollowerOK, ClientOK, ReplayOK
    <2> QED
      BY <1>2, <2>1, EmptyQueues, IdleFollower
  <1> QED
    BY <1>1, <1>2, <1>3, EmptyQueues, SubscriberFacts, ReaderStep

-----------------------------------------------------------------------------
(* The shared poller. *)

\* What a live poller has behind it, and what it owes its receivers.
PollerOK(p) ==
    p.alive => /\ setting.mode = "shared" /\ CursorOK(p.at, durable, audit)
               /\ p.at[3] <= p.delivered /\ p.delivered \in Numbers(Written)
Owed(p, v, q) ==
    p.alive => /\ Receiving(v) =>
                     Complete(q, v.delivered, {x \in Written : x.seq <= p.delivered})
               /\ v.phase = "join" => p.delivered <= v.through

\* The poller moves; the subscribers keep their streams.
LEMMA PollerStep ==
    ASSUME StreamInv, Steady, sub' = sub, got' = got, faults' \in 0..MaxFaults,
           queue' \in [Subscribers -> Queues],
           \A c \in Subscribers : Len(queue'[c].items) <= Capacity,
           NEW p \in Pollers, poller' = p,
           Followed(setting) =>
              /\ setting.mode = "shared" /\ PollerOK(p)
              /\ \A c \in Subscribers : QueueOK(c, sub[c], queue'[c]) /\ Owed(p, sub[c], queue'[c])
    PROVE  StreamInv'
  <1>1. StreamTypeOK /\ FileInv
    BY DEF StreamInv
  <1>2. /\ durable' = durable /\ tail' = tail /\ audit' = audit /\ auditTail' = auditTail
        /\ marker' = marker /\ setting' = setting /\ writer' = writer /\ unsent' = unsent
    BY DEF Steady, fileVars
  <1>3. FileInv' /\ Written' = Written
    BY <1>1, FilesQuiet
  <1>4. StreamTypeOK'
    BY <1>1, <1>2 DEF StreamTypeOK
  <1>5. ASSUME Followed(setting) PROVE ReaderInv'
    <2>1. UnsentInv' /\ PollerInv'
      BY <1>2, <1>3, <1>5 DEF StreamInv, ReaderInv, UnsentInv, PollerInv, PollerOK
    <2>2. ASSUME NEW c \in Subscribers PROVE FollowerOK(c, sub[c], queue[c], got[c])'
      <3>1. /\ FollowerOK(c, sub[c], queue[c], got[c]) /\ QueueOK(c, sub[c], queue'[c])
            /\ Owed(p, sub[c], queue'[c])
        BY <1>5 DEF StreamInv, ReaderInv
      <3>2. QueueOK(c, sub[c], queue[c])' /\ ClientOK(sub[c], got[c])' /\ ReplayOK(sub[c])'
        BY <1>2, <1>3, <3>1 DEF FollowerOK, QueueOK, ClientOK, ReplayOK
      <3>3. BacklogOK(sub[c], queue[c])'
        BY <1>2, <1>3, <1>5, <3>1 DEF FollowerOK, BacklogOK, Owed
      <3> QED
        BY <1>2, <3>1, <3>2, <3>3 DEF FollowerOK
    <2> QED
      BY <1>2, <2>1, <2>2 DEF ReaderInv
  <1> QED
    BY <1>2, <1>3, <1>4, <1>5 DEF StreamInv, ReaderInv

\* A live poller before its step.
LEMMA PollerNow ==
    ASSUME StreamInv, poller.alive, Followed(setting)
    PROVE  /\ setting.mode = "shared" /\ PollerOK(poller)
           /\ \A c \in Subscribers : /\ QueueOK(c, sub[c], queue[c])
                                     /\ Owed(poller, sub[c], queue[c])
                                     /\ sub[c].phase # "new" => c \in setting.followers
  <1>1. setting.mode = "shared" /\ PollerOK(poller)
    BY DEF StreamInv, ReaderInv, PollerInv, PollerOK
  <1> QED
    BY <1>1 DEF StreamInv, ReaderInv, FollowerOK, BacklogOK, Owed

LEMMA NoPollerOK ==
    /\ NoPoller \in Pollers /\ PollerOK(NoPoller)
    /\ \A v, q : Owed(NoPoller, v, q)
  BY DEF NoPoller, Pollers, PollerOK, Owed

LEMMA PollErrorStep ==
    ASSUME StreamInv, PollError
    PROVE  StreamInv'
  <1>1. /\ Steady /\ sub' = sub /\ got' = got /\ queue' = queue /\ poller' = NoPoller
        /\ poller.alive /\ FailedRead(poller.at)
    BY DEF PollError, Steady
  <1>2. StreamTypeOK
    BY DEF StreamInv
  <1>3. faults' \in 0..MaxFaults
    <2>1. faults \in 0..MaxFaults /\ MaxFaults \in Nat
      BY <1>2, StreamAssumption DEF StreamTypeOK
    <2> QED
      BY <1>1, <2>1 DEF FailedRead
  <1>4. queue' \in [Subscribers -> Queues] /\ \A c \in Subscribers : Len(queue'[c].items) <= Capacity
    BY <1>1, <1>2 DEF StreamTypeOK
  <1>5. Followed(setting) =>
           /\ setting.mode = "shared" /\ PollerOK(NoPoller)
           /\ \A c \in Subscribers : QueueOK(c, sub[c], queue'[c]) /\ Owed(NoPoller, sub[c], queue'[c])
    BY <1>1, PollerNow, NoPollerOK
  <1> QED
    BY <1>1, <1>3, <1>4, <1>5, NoPollerOK, PollerStep

LEMMA PollSkipStep ==
    ASSUME StreamInv, PollSkip
    PROVE  StreamInv'
  <1> DEFINE at == poller.at
             r == ReadRec(at)
             b == ReadCursor(at)
             term == IF ~ReadIsNew(at) THEN poller.terminal
                     ELSE IF r.kind \in StreamTerminal THEN TRUE
                     ELSE IF r.kind = "resumed" THEN FALSE ELSE poller.terminal
             p == [poller EXCEPT !.at = b, !.terminal = term]
  <1>1. /\ Steady /\ sub' = sub /\ got' = got /\ queue' = queue /\ faults' = faults
        /\ poller.alive /\ ~Exhausted(at) /\ (~ReadIsNew(at) \/ r.seq <= poller.delivered)
        /\ poller' = NoPoller \/ poller' = p
    BY DEF PollSkip, Steady
  <1>2. StreamTypeOK
    BY DEF StreamInv
  <1>3. /\ poller \in [alive : {TRUE}, at : Cursors, delivered : Nat, terminal : BOOLEAN]
        /\ at \in Cursors /\ poller.delivered \in Nat /\ poller.terminal \in BOOLEAN
    BY <1>1, <1>2, PollerFacts
  <1>4. r \in Records /\ r.seq \in Nat /\ b \in Cursors
    BY <1>1, <1>2, <1>3, ReadTypes
  <1>5. p \in Pollers /\ p.at = b /\ p.delivered = poller.delivered
    <2>1. term \in BOOLEAN
      BY <1>3
    <2> HIDE DEF b, term
    <2> QED
      BY <1>3, <1>4, <2>1 DEF Pollers
  <1>6. /\ queue' \in [Subscribers -> Queues] /\ faults' \in 0..MaxFaults
        /\ \A c \in Subscribers : Len(queue'[c].items) <= Capacity
    BY <1>1, <1>2 DEF StreamTypeOK
  <1>7. ASSUME Followed(setting) PROVE PollerOK(p)
    <2>1. PollerOK(poller) /\ setting.mode = "shared" /\ CursorOK(at, durable, audit)
      BY <1>1, <1>7, PollerNow DEF PollerOK
    <2>2. ReadIsNew(at) /\ CursorOK(b, durable, audit) /\ b[3] = r.seq
      BY <1>1, <1>2, <1>3, <1>7, <2>1, ReadableFiles, ReadNext
    <2> HIDE DEF p, b, r, at
    <2> QED
      BY <1>1, <1>5, <2>1, <2>2 DEF PollerOK
  <1>8. \A v, q : Owed(poller, v, q) => Owed(p, v, q)
    <2> HIDE DEF p
    <2> QED
      BY <1>1, <1>5 DEF Owed
  <1> HIDE DEF p, at, r, b, term
  <1>9. Followed(setting) =>
           /\ setting.mode = "shared" /\ PollerOK(p)
           /\ \A c \in Subscribers : QueueOK(c, sub[c], queue'[c]) /\ Owed(p, sub[c], queue'[c])
    BY <1>1, <1>7, <1>8, PollerNow
  <1>10. Followed(setting) =>
           /\ setting.mode = "shared" /\ PollerOK(NoPoller)
           /\ \A c \in Subscribers : QueueOK(c, sub[c], queue'[c]) /\ Owed(NoPoller, sub[c], queue'[c])
    BY <1>1, PollerNow, NoPollerOK
  <1>11. CASE poller' = p
    BY <1>1, <1>5, <1>6, <1>9, <1>11, PollerStep
  <1>12. CASE poller' = NoPoller
    BY <1>1, <1>6, <1>10, <1>12, NoPollerOK, PollerStep
  <1> QED
    BY <1>1, <1>11, <1>12

\* A record nobody has been sent yet: everything before it was sent.
LEMMA PollSendStep ==
    ASSUME StreamInv, PollSend
    PROVE  StreamInv'
  <1> DEFINE at == poller.at
             r == ReadRec(at)
             b == ReadCursor(at)
             p == [poller EXCEPT !.at = b, !.delivered = r.seq]
  <1>1. /\ Steady /\ sub' = sub /\ got' = got /\ faults' = faults
        /\ queue' = [c \in Subscribers |-> Push(queue[c], r)]
        /\ poller.alive /\ ~Exhausted(at) /\ r.seq > poller.delivered
        /\ poller' = NoPoller \/ (poller' = p /\ Listeners # {})
    BY DEF PollSend, Steady
  <1>2. StreamTypeOK
    BY DEF StreamInv
  <1>3. /\ poller \in [alive : {TRUE}, at : Cursors, delivered : Nat, terminal : BOOLEAN]
        /\ at \in Cursors /\ at[3] \in Nat /\ poller.delivered \in Nat
    BY <1>1, <1>2, PollerFacts DEF Cursors
  <1>4. r \in Records /\ r.seq \in Nat /\ b \in Cursors
    BY <1>1, <1>2, <1>3, ReadTypes
  <1>5. p \in Pollers /\ p.at = b /\ p.delivered = r.seq
    <2> HIDE DEF b, r
    <2> QED
      BY <1>3, <1>4 DEF Pollers
  <1>6. ASSUME NEW c \in Subscribers
        PROVE  /\ queue[c] \in Queues /\ queue'[c] = Push(queue[c], r) /\ queue'[c] \in Queues
               /\ Len(queue'[c].items) <= Capacity /\ queue'[c].open = queue[c].open
               /\ ~queue[c].open => queue'[c] = queue[c]
    <2> HIDE DEF r
    <2>1. queue[c] \in Queues /\ Len(queue[c].items) <= Capacity
      BY <1>2 DEF StreamTypeOK
    <2>2. queue'[c] = Push(queue[c], r)
      BY <1>1
    <2> QED
      BY <1>4, <2>1, <2>2, PushFacts
  <1>7. queue' \in [Subscribers -> Queues] /\ faults' \in 0..MaxFaults
    <2> HIDE DEF r
    <2> QED
      BY <1>1, <1>2, <1>6 DEF StreamTypeOK
  <1>8. ASSUME Followed(setting)
        PROVE  /\ PollerOK(p) /\ setting.mode = "shared"
               /\ \A c \in Subscribers : /\ QueueOK(c, sub[c], queue'[c])
                                         /\ Listeners # {} => Owed(p, sub[c], queue'[c])
    <2>1. /\ setting.mode = "shared" /\ CursorOK(at, durable, audit)
          /\ at[3] <= poller.delivered /\ poller.delivered \in Numbers(Written)
      BY <1>1, <1>8, PollerNow DEF PollerOK
    <2>2. /\ r \in Written /\ CursorOK(b, durable, audit) /\ b[3] = r.seq
          /\ \A x \in Written : x.seq < r.seq => x.seq <= at[3]
      BY <1>1, <1>2, <1>3, <1>8, <2>1, ReadableFiles, ReadNext
    <2>3. Written \subseteq Records /\ \A x \in Written : x.seq \in Nat
      BY <1>8, ReadableFiles
    <2> HIDE DEF at, r, b, p
    <2>4. r.seq \in Numbers(Written)
      BY <2>2 DEF Numbers
    <2>5. PollerOK(p)
      BY <1>4, <1>5, <2>1, <2>2, <2>4 DEF PollerOK
    <2> DEFINE V == {x \in Written : x.seq <= poller.delivered}
               V2 == {x \in Written : x.seq <= r.seq}
    <2>6. /\ V2 \subseteq Written
          /\ \A x \in Written : x.seq < r.seq => x \in V
          /\ \A x \in V2 : x \in V \/ x.seq = r.seq
      <3>1. \A x \in Written : x.seq < r.seq => x.seq <= poller.delivered
        BY <1>3, <2>1, <2>2, <2>3
      <3> QED
        BY <1>4, <2>3, <3>1
    <2>7. ASSUME NEW c \in Subscribers
          PROVE  QueueOK(c, sub[c], queue'[c]) /\ (Listeners # {} => Owed(p, sub[c], queue'[c]))
      <3>1. /\ QueueOK(c, sub[c], queue[c]) /\ Owed(poller, sub[c], queue[c])
            /\ (sub[c].phase # "new" => c \in setting.followers) /\ sub[c].delivered \in Nat
        BY <1>1, <1>8, PollerNow, SubscriberFacts
      <3>2. Receiving(sub[c]) => Complete(queue[c], sub[c].delivered, V)
        BY <1>1, <3>1 DEF Owed
      <3> HIDE DEF V, V2
      <3>3. /\ Known(queue'[c], Written)
            /\ InOrder(queue[c], sub[c].delivered, Written)
               /\ Complete(queue[c], sub[c].delivered, V) /\ queue[c].open =>
                  InOrder(queue'[c], sub[c].delivered, Written)
                  /\ Complete(queue'[c], sub[c].delivered, V2)
            /\ queue[c].items = <<>> /\ ~queue[c].open =>
                  InOrder(queue'[c], sub[c].delivered, Written)
                  /\ Complete(queue'[c], sub[c].delivered, V2)
        <4>1. Known(queue[c], Written)
          BY <3>1 DEF QueueOK
        <4> QED
          BY <1>4, <1>6, <2>3, <2>4, <2>6, <3>1, <4>1, PushNext
      <3>4. QueueOK(c, sub[c], queue'[c])
        BY <1>6, <3>1, <3>2, <3>3 DEF QueueOK
      <3>5. Receiving(sub[c]) => Complete(queue'[c], sub[c].delivered, V2)
        BY <3>1, <3>2, <3>3 DEF QueueOK
      <3>6. Listeners # {} => sub[c].phase # "join"
        <4>1. SUFFICES ASSUME NEW d \in Subscribers, queue[d].open, sub[c].phase = "join" PROVE FALSE
          BY DEF Listeners
        <4>2. d \in setting.followers /\ Receiving(sub[d])
          BY <1>1, <1>8, <2>1, <4>1, PollerNow DEF QueueOK
        <4>3. c = d
          BY <1>8, <2>1, <3>1, <4>1, <4>2 DEF Followed
        <4> QED
          BY <4>1, <4>2, <4>3 DEF Receiving
      <3> QED
        BY <1>5, <3>4, <3>5, <3>6 DEF Owed, V2
    <2> QED
      BY <2>1, <2>5, <2>7
  <1> HIDE DEF p, r, at
  <1>9. CASE poller' = p /\ Listeners # {}
    BY <1>1, <1>5, <1>6, <1>7, <1>8, <1>9, PollerStep
  <1>10. CASE poller' = NoPoller
    BY <1>1, <1>6, <1>7, <1>8, <1>10, NoPollerOK, PollerStep
  <1> QED
    BY <1>1, <1>9, <1>10

\* shared_poll_receiver: the receiver starts at the end of the subscriber's
\* history, and the poller is not beyond it.
LEMMA JoinPollerStep ==
    ASSUME StreamInv, NEW c \in Subscribers, JoinPoller(c)
    PROVE  StreamInv'
  <1> DEFINE v == [sub[c] EXCEPT !.phase = "replay"]
             p == [alive |-> TRUE, at |-> <<0, 0, 0>>, delivered |-> sub[c].through, terminal |-> FALSE]
  <1>1. /\ Steady /\ got' = got /\ faults' = faults /\ sub[c].phase = "join"
        /\ sub' = [sub EXCEPT ![c] = v] /\ queue' = [queue EXCEPT ![c] = FreshQueue]
        /\ poller' = IF poller.alive THEN poller ELSE p
    BY DEF JoinPoller, Steady, SetSub
  <1>2. StreamTypeOK /\ FileInv
    BY DEF StreamInv
  <1>3. /\ durable' = durable /\ tail' = tail /\ audit' = audit /\ auditTail' = auditTail
        /\ marker' = marker /\ setting' = setting /\ writer' = writer /\ unsent' = unsent
    BY <1>1 DEF Steady, fileVars
  <1>4. FileInv' /\ Written' = Written
    BY <1>1, <1>2, FilesQuiet
  <1>5. /\ v \in Streams /\ v.phase = "replay" /\ v.after = sub[c].after /\ v.at = sub[c].at
        /\ v.through = sub[c].through /\ v.delivered = sub[c].delivered
    BY SubscriberFacts DEF Streams, Phases
  <1>6. p \in Pollers /\ p.alive /\ p.at = <<0, 0, 0>> /\ p.delivered = sub[c].through
    BY SubscriberFacts DEF Pollers, Cursors
  <1>7. poller' \in Pollers
    BY <1>1, <1>2, <1>6 DEF StreamTypeOK
  <1> HIDE DEF v, p
  <1>8. /\ sub' \in [Subscribers -> Streams] /\ queue' \in [Subscribers -> Queues]
        /\ sub'[c] = v /\ queue'[c] = FreshQueue
        /\ \A d \in Subscribers : d # c => sub'[d] = sub[d] /\ queue'[d] = queue[d]
    BY <1>1, <1>2, <1>5, EmptyQueues DEF StreamTypeOK
  <1>9. \A d \in Subscribers : Len(queue'[d].items) <= Capacity
    BY <1>2, <1>8, EmptyQueues DEF StreamTypeOK
  <1>10. StreamTypeOK'
    BY <1>1, <1>2, <1>3, <1>7, <1>8, <1>9 DEF StreamTypeOK
  <1>11. ASSUME Followed(setting) PROVE ReaderInv'
    <2>1. /\ ClientOK(sub[c], got[c]) /\ ReplayOK(sub[c]) /\ c \in setting.followers
          /\ setting.mode = "shared" /\ (poller.alive => poller.delivered <= sub[c].through)
      BY <1>1, <1>11, SubscriberFacts DEF FollowerOK, BacklogOK
    <2>2. PollerInv'
      <3>1. durable \in Seq(Records) /\ audit \in Seq(Records)
        BY <1>2, FileFacts
      <3>2. CASE poller.alive
        BY <1>1, <1>3, <1>4, <1>11, <3>2 DEF StreamInv, ReaderInv, PollerInv
      <3>3. CASE ~poller.alive
        <4>1. poller' = p /\ CursorOK(p.at, durable, audit) /\ p.delivered \in Numbers(Written)
          BY <1>1, <1>6, <2>1, <3>1, <3>3, CursorStart DEF ReplayOK
        <4>2. p.at[3] <= p.delivered
          BY <1>6, SubscriberFacts
        <4> QED
          BY <1>3, <1>4, <2>1, <4>1, <4>2 DEF PollerInv
      <3> QED
        BY <3>2, <3>3
    <2>3. poller'.alive /\ poller'.delivered <= sub[c].through /\ poller'.delivered \in Nat
      <3>1. CASE poller.alive
        BY <1>1, <1>2, <2>1, <3>1, PollerFacts
      <3>2. CASE ~poller.alive
        BY <1>1, <1>6, <3>2, SubscriberFacts
      <3> QED
        BY <3>1, <3>2
    <2>4. UnsentInv'
      BY <1>3, <1>4, <1>11 DEF StreamInv, ReaderInv, UnsentInv
    <2>5. FollowerOK(c, sub[c], queue[c], got[c])'
      <3>1. ClientOK(sub[c], got[c])' /\ ReplayOK(sub[c])'
        BY <1>1, <1>3, <1>4, <1>5, <1>8, <2>1 DEF ClientOK, ReplayOK
      <3>2. QueueOK(c, sub[c], queue[c])'
        BY <1>3, <1>5, <1>8, <2>1, EmptyQueues, EmptyOrder DEF QueueOK, Receiving
      <3>3. \A x \in Written : x.seq <= poller'.delivered => ~(sub[c].delivered < x.seq)
        <4>1. sub[c].delivered = sub[c].through /\ sub[c].through \in Nat
          BY <1>1, <2>1, SubscriberFacts DEF ReplayOK
        <4>2. \A x \in Written : x.seq \in Nat
          BY <1>11, ReadableFiles
        <4> QED
          BY <2>3, <4>1, <4>2
      <3>4. BacklogOK(sub[c], queue[c])'
        BY <1>3, <1>4, <1>5, <1>8, <2>1, <3>3 DEF BacklogOK, Complete
      <3> QED
        BY <1>3, <2>1, <3>1, <3>2, <3>4 DEF FollowerOK
    <2>6. ASSUME NEW d \in Subscribers, d # c PROVE FollowerOK(d, sub[d], queue[d], got[d])'
      <3>1. FollowerOK(d, sub[d], queue[d], got[d]) /\ sub[d].phase = "new"
        <4>1. d \notin setting.followers
          BY <1>11, <2>1, <2>6 DEF Followed
        <4> QED
          BY <1>11, <4>1, SubscriberFacts DEF FollowerOK
      <3>2. sub'[d] = sub[d] /\ queue'[d] = queue[d] /\ got'[d] = got[d]
        BY <1>1, <1>8, <2>6
      <3> QED
        BY <1>3, <1>4, <3>1, <3>2
           DEF FollowerOK, ClientOK, ReplayOK, QueueOK, BacklogOK, Receiving
    <2> QED
      BY <1>3, <2>2, <2>4, <2>5, <2>6 DEF ReaderInv
  <1> QED
    BY <1>3, <1>4, <1>10, <1>11 DEF StreamInv, ReaderInv

-----------------------------------------------------------------------------
(* The inductive invariant. *)

LEMMA StreamStart ==
    ASSUME StreamInit
    PROVE  StreamInv
  <1> DEFINE r == Rec(1, "work")
  <1>1. r \in Records /\ r.seq = 1 /\ r.kind = "work"
    BY DEF Rec, Records, StreamKinds
  <1>2. /\ durable = <<r>> /\ audit = <<>> /\ tail = NoTail /\ auditTail = NoTail /\ ~marker
        /\ marker = FALSE /\ writer = NoWriter /\ ~writer.open /\ unsent = {}
        /\ poller = NoPoller /\ ~poller.alive /\ setting \in Settings /\ faults = 0
    BY DEF StreamInit, NoWriter, NoPoller
  <1> HIDE DEF r
  <1>3. ASSUME NEW c \in Subscribers
        PROVE  /\ queue[c] = NoQueue /\ got[c] = {} /\ sub[c].phase = "new" /\ sub[c].after = 0
               /\ sub[c] \in Streams
    BY <1>3 DEF StreamInit, Streams, Phases, Cursors
  <1>4. queue \in [Subscribers -> Queues] /\ got \in [Subscribers -> SUBSET Nat]
    BY EmptyQueues DEF StreamInit
  <1>5. sub \in [Subscribers -> Streams]
    BY <1>3 DEF StreamInit
  <1>6. durable \in Seq(Records) /\ audit \in Seq(Records) /\ durable # <<>>
    BY <1>1, <1>2
  <1>7. StreamTypeOK
    <2>1. \A c \in Subscribers : Len(queue[c].items) <= Capacity
      BY <1>3, EmptyQueues
    <2>2. faults \in 0..MaxFaults
      BY <1>2, StreamAssumption
    <2> QED
      BY <1>2, <1>4, <1>5, <1>6, <2>1, <2>2 DEF StreamTypeOK, Tails, Writers, Pollers
  <1>8. Journal = durable /\ Notes = audit
    BY <1>2 DEF Journal, Notes, Repaired
  <1>9. Ordered(durable, audit)
    <2>1. DOMAIN durable = {1} /\ DOMAIN audit = {}
      BY <1>2
    <2> QED
      BY <2>1 DEF Ordered, Increasing, Disjoint
  <1>10. FileInv
    BY <1>2, <1>6, <1>8, <1>9
       DEF FileInv, SequenceInv, MemoryInv, OpenInv, MarkerInv, BareInv, Loose
  <1>11. ASSUME NEW c \in Subscribers PROVE FollowerOK(c, sub[c], queue[c], got[c])
    <2>1. ClientOK(sub[c], got[c])
      <3>1. \A x \in Written : ~(x.seq <= 0)
        BY <1>7, WrittenFacts
      <3> QED
        BY <1>3, <3>1 DEF ClientOK
    <2> QED
      BY <1>3, <2>1, EmptyQueues, IdleFollower
  <1> QED
    BY <1>2, <1>7, <1>10, <1>11 DEF StreamInv, ReaderInv, UnsentInv, PollerInv

LEMMA StreamStutter ==
    ASSUME StreamInv, UNCHANGED streamVars
    PROVE  StreamInv'
  <1>1. Steady /\ sub' = sub /\ got' = got /\ queue' = queue /\ poller' = poller /\ faults' = faults
    BY DEF streamVars, Steady, fileVars
  <1>2. /\ durable' = durable /\ tail' = tail /\ audit' = audit /\ auditTail' = auditTail
        /\ marker' = marker /\ setting' = setting /\ writer' = writer /\ unsent' = unsent
    BY <1>1 DEF Steady, fileVars
  <1>3. FileInv' /\ Written' = Written
    BY <1>1, FilesQuiet DEF StreamInv
  <1>4. StreamTypeOK'
    BY <1>1, <1>2 DEF StreamInv, StreamTypeOK
  <1>5. ReaderInv'
    BY <1>1, <1>2, <1>3
       DEF StreamInv, ReaderInv, UnsentInv, PollerInv, FollowerOK, ClientOK, ReplayOK, QueueOK,
           BacklogOK
  <1> QED
    BY <1>3, <1>4, <1>5 DEF StreamInv

LEMMA FollowStep ==
    ASSUME StreamInv, NEW c \in Subscribers, Follow(c)
    PROVE  StreamInv'
  BY SubscribeStep, ReadSettledStep, ReadBoundaryStep, JoinPollerStep, ReplayStep,
     ReplayErrorStep, ReplayDoneStep, LiveStep, LaggedStep, ChannelClosedStep DEF Follow

LEMMA PollStep ==
    ASSUME StreamInv, Poll
    PROVE  StreamInv'
  BY PollSkipStep, PollSendStep, PollErrorStep DEF Poll

LEMMA StreamStep ==
    ASSUME StreamInv, [StreamNext]_streamVars
    PROVE  StreamInv'
  <1>1. CASE OpenWriter
    BY <1>1, OpenWriterStep
  <1>2. CASE CloseWriter
    BY <1>2, CloseWriterStep
  <1>3. CASE Observe
    BY <1>3, ObserveStep
  <1>4. CASE Degrade
    BY <1>4, DegradeStep
  <1>5. CASE Crash
    BY <1>5, CrashAlone
  <1>6. CASE RefuseExecution
    BY <1>6, RefuseStep
  <1>7. ASSUME NEW k \in {"work", "resumed", "interrupted", "sealed"}, DurableEvent(k)
        PROVE  StreamInv'
    BY <1>7, DurableEventStep DEF EventKinds
  <1>8. ASSUME NEW r \in unsent, SendObservation(r) PROVE StreamInv'
    BY <1>8, SendObservationStep
  <1>9. ASSUME NEW b \in ServiceBatches, ServiceAppend(b) PROVE StreamInv'
    <2>1. CASE b = <<"work">>
      BY <1>9, <2>1, ServiceOneStep DEF ServiceKinds
    <2>2. CASE b = <<"interrupted">>
      BY <1>9, <2>2, ServiceOneStep DEF ServiceKinds
    <2>3. CASE b = <<"work", "sealed">>
      BY <1>9, <2>3, ServiceTwoStep
    <2> QED
      BY <2>1, <2>2, <2>3 DEF ServiceBatches
  <1>10. ASSUME NEW c \in Subscribers, Follow(c) PROVE StreamInv'
    BY <1>10, FollowStep
  <1>11. CASE Poll
    BY <1>11, PollStep
  <1>12. CASE UNCHANGED streamVars
    BY <1>12, StreamStutter
  <1> QED
    BY <1>1, <1>2, <1>3, <1>4, <1>5, <1>6, <1>7, <1>8, <1>9, <1>10, <1>11, <1>12 DEF StreamNext

\* A repair adds to a file and changes nothing of it.
LEMMA RepairedPrefix ==
    ASSUME NEW s \in Seq(Records), NEW t \in Tails
    PROVE  \A i \in DOMAIN s : i \in DOMAIN Repaired(s, t) /\ Repaired(s, t)[i] = s[i]
  <1>1. t \in Loose \/ t \in Records
    BY DEF Tails, Loose
  <1>2. CASE t \in Loose
    BY <1>2, RepairedFile
  <1>3. CASE t \in Records
    <2>1. \A i \in DOMAIN s : i \in DOMAIN Append(s, t) /\ Append(s, t)[i] = s[i]
      BY <1>3
    <2> QED
      BY <1>3, <2>1, RepairedFile
  <1> QED
    BY <1>1, <1>2, <1>3

\* The inductive invariant: what the files, the writer, the receivers and the
\* clients know of each other in every reachable state.
THEOREM StreamInvariant == StreamSpec => []StreamInv
  <1>1. StreamInit => StreamInv
    BY StreamStart
  <1>2. StreamInv /\ [StreamNext]_streamVars => StreamInv'
    BY StreamStep
  <1> QED
    BY <1>1, <1>2, PTL DEF StreamSpec

\* The shapes of the state; a receiver holds at most its channel's capacity,
\* and an observation is in its file before it is sent.
THEOREM StreamTypes == StreamSpec => []StreamTypeOK
  <1>1. StreamInv => StreamTypeOK
    BY DEF StreamInv
  <1> QED
    BY <1>1, StreamInvariant, PTL

\* Durable and observation records share one sequence space: through torn
\* tails, repairs, crashes, failed writes and the service's own appends, no
\* number is given twice.
THEOREM NumbersAreUnique == StreamSpec => [](Synced(setting) => OneSequence)
  <1>1. ASSUME StreamInv, Synced(setting) PROVE OneSequence
    <2>1. Ordered(Journal, Notes) /\ StreamTypeOK
      BY <1>1 DEF StreamInv, FileInv, SequenceInv
    <2>2. /\ \A i \in DOMAIN durable : i \in DOMAIN Journal /\ Journal[i] = durable[i]
          /\ \A i \in DOMAIN audit : i \in DOMAIN Notes /\ Notes[i] = audit[i]
      BY <2>1, RepairedPrefix DEF StreamTypeOK, Journal, Notes
    <2> QED
      BY <2>1, <2>2 DEF OneSequence, Ordered, Increasing, Disjoint
  <1>2. StreamInv => (Synced(setting) => OneSequence)
    BY <1>1
  <1> QED
    BY <1>2, StreamInvariant, PTL

\* A subscriber that has received an event has received every earlier one,
\* however often its stream lagged, failed, ended or was cut by a crash.
THEOREM FollowersMissNothing == StreamSpec => [](Followed(setting) => NoEventSkipped)
  <1>1. ASSUME StreamInv, Followed(setting) PROVE NoEventSkipped
    <2>1. ASSUME NEW c \in Subscribers, NEW r \in Written, got[c] # {}, r.seq < Max(got[c])
          PROVE  r.seq \in got[c]
      <3>1. ClientOK(sub[c], got[c]) /\ got[c] \in SUBSET Nat /\ sub[c].after \in Nat
        BY <1>1, SubscriberFacts DEF FollowerOK
      <3>2. sub[c].after \in got[c] /\ \A n \in got[c] : n \in Nat /\ n <= sub[c].after
        BY <2>1, <3>1 DEF ClientOK
      <3>3. Max(got[c]) \in got[c] /\ Max(got[c]) >= sub[c].after
        <4>1. \E x \in got[c] : \A y \in got[c] : x >= y
          BY <3>1, <3>2
        <4> QED
          BY <3>2, <4>1 DEF Max
      <3>4. r.seq \in Nat
        BY <1>1, ReadableFiles
      <3>5. r.seq <= sub[c].after
        BY <2>1, <3>1, <3>2, <3>3, <3>4
      <3> QED
        BY <3>1, <3>5 DEF ClientOK
    <2> QED
      BY <2>1 DEF NoEventSkipped, Written, Lines
  <1>2. StreamInv => (Followed(setting) => NoEventSkipped)
    BY <1>1
  <1> QED
    BY <1>2, StreamInvariant, PTL

\* A crash inside an append never leaves the marker of a clean shutdown
\* beside a torn tail of a run that may go on.
THEOREM RemnantsAreRepaired == StreamSpec => [](~setting.resumes => CrashRemnantIsRepairable)
  <1>1. ASSUME StreamInv, ~setting.resumes PROVE CrashRemnantIsRepairable
    <2>1. MarkerInv /\ StreamTypeOK
      BY <1>1 DEF StreamInv, FileInv
    <2>2. TerminalOf(durable) \in Ends
      <3>1. durable \in Seq(Records) /\ durable # <<>>
        BY <1>1, <2>1, FileFacts DEF StreamInv, FileInv
      <3>2. PICK r : r \in Records
        BY <3>1, LineFacts
      <3> QED
        BY <3>1, <3>2, TerminalAppend
    <2> QED
      BY <1>1, <2>1, <2>2 DEF MarkerInv, CrashRemnantIsRepairable, Refuses, Ends
  <1>2. StreamInv => (~setting.resumes => CrashRemnantIsRepairable)
    BY <1>1
  <1> QED
    BY <1>2, StreamInvariant, PTL

=============================================================================
