------------------------ MODULE PackageInstallProofs ------------------------
(***************************************************************************)
(* Install and uninstall for every catalog, every number of commands and   *)
(* processes, any interruptions, power losses and foreign files.           *)
(*                                                                         *)
(* Three layers.  LocalInv: what a command remembers and which locks it    *)
(* has, by the step it is at; the lock file of an id excludes.  PlaceInv:  *)
(* what a command in the middle of a move or a removal may rely on in the  *)
(* directory as it is; other commands cannot disturb it, because they      *)
(* change a target or a backup only under the lock of its id.  DirInv:     *)
(* what holds of the directory and of every state a power loss may leave.  *)
(* New states come from the present one by a single change, so PlaceInv    *)
(* at the moment of the change is all that DirInv needs.                   *)
(***************************************************************************)
EXTENDS PackageInstall, FiniteSetTheorems, WellFoundedInduction, TLAPS

Packages == DOMAIN Catalog
BackupRecords == [slot : Slots, id : Ids, phase : Phases]
Continuations == {"", "recover", "sweep", "clear", "unlist", "pending", "commit", "rollback"}
Frames == [pkg : Packages, kind : {"root", "stage", "reuse"}, left : SUBSET Ids]
ReadyItems == [pkg : Packages, replace : BOOLEAN]
Jobs(c) == [held : SUBSET (Locks(c, Ids, TRUE) \cup Locks(c, Ids, FALSE)),
            want : SUBSET (Locks(c, Ids, TRUE) \cup Locks(c, Ids, FALSE)),
            ids : SUBSET Ids, recs : SUBSET BackupRecords, rec : BackupRecords \cup {NoRecord},
            then : Continuations, bad : BOOLEAN, stack : Seq(Frames), chosen : SUBSET Packages,
            plan : Seq(Packages), ready : Seq(ReadyItems)]

\* Steps that work on the backup record of the job.
RecordSteps == {"restore", "restoreMove", "remove", "erase", "dropSidecar", "dropped"}
Replacing(c) == \/ at[c] \in {"move", "own"}
                \/ at[c] \in {"publish", "published"} /\ Now(c).replace

\* Who has the lock file of an id, and who is past the locking of its ids.
Locked(c, i) == Lock(4, "", i, FALSE) \in job[c].held
InCommit(c) ==
    \/ at[c] \in {"commit", "pending", "clear", "mark", "move", "own", "publish", "published"}
    \/ at[c] \in RecordSteps /\ job[c].then \in {"clear", "pending", "commit", "rollback"}
InRemoval(c) ==
    \/ at[c] \in {"unlist", "eraseTarget", "gone"}
    \/ at[c] \in RecordSteps /\ job[c].then = "unlist"
InUpkeep(c) ==
    \/ at[c] \in {"recover", "sweep"}
    \/ at[c] \in RecordSteps /\ job[c].then \in {"recover", "sweep"}
MyIds(c) == IF Work(c).kind = "install" THEN {Id(p) : p \in Staged(c)} ELSE {Work(c).id}

-----------------------------------------------------------------------------
(* The command by itself. *)

Kinds(c) ==
    /\ at[c] \notin Ended => c \in DOMAIN setting.work
    /\ at[c] \in {"plan", "walk"} \/ InCommit(c) \/ InUpkeep(c) => Work(c).kind = "install"
    /\ InRemoval(c) => Work(c).kind = "uninstall"
    /\ at[c] \in RecordSteps => job[c].then # ""

\* The locks a command has where it is.
Held(c) ==
    /\ at[c] \in {"recover", "sweep", "plan", "walk"} => job[c].held = {}
    /\ at[c] = "lock" => \A i \in MyIds(c) : Lock(4, "", i, FALSE) \in job[c].held \cup job[c].want
    /\ at[c] = "check" \/ InCommit(c) \/ InRemoval(c) => \A i \in MyIds(c) : Locked(c, i)
    /\ at[c] \in RecordSteps => Locked(c, job[c].rec.id)

\* The record it works on.
Record(c) ==
    /\ at[c] \in RecordSteps \/ Replacing(c) => job[c].rec \in BackupRecords /\ job[c].rec.slot <= drawn
    /\ InCommit(c) /\ at[c] # "commit" => job[c].ready # <<>>
    /\ Replacing(c) => job[c].rec.id = NowId(c) /\ job[c].rec.phase = "owned"
    /\ at[c] = "restore" => job[c].rec.phase = "owned"
    /\ at[c] \in RecordSteps /\ job[c].then = "clear" => job[c].rec.id = NowId(c)
    /\ at[c] \in RecordSteps /\ job[c].then = "unlist" => job[c].rec.id = Work(c).id
    /\ at[c] = "clear" \/ (at[c] \in RecordSteps /\ job[c].then = "clear") =>
          \A r \in job[c].recs : r.id = NowId(c)
    /\ at[c] = "unlist" \/ (at[c] \in RecordSteps /\ job[c].then = "unlist") =>
          \A r \in job[c].recs : r.id = Work(c).id
    /\ \A r \in job[c].recs : r.slot <= drawn

Local(c) == Kinds(c) /\ Held(c) /\ Record(c)

LocalInv == /\ at \in [Commands -> Steps \cup Ended]
            /\ job \in [Commands -> UNION {Jobs(c) : c \in Commands}]
            /\ \A c \in Commands : job[c] \in Jobs(c)
            /\ \A c \in Commands : at[c] \in Ended \cup {"idle"} => job[c] = NoJob
            /\ \A c \in Commands : Local(c)

\* The lock file of an id excludes.
Exclusive == \A c, o \in Commands, i \in Ids : Locked(c, i) /\ Locked(o, i) => c = o

-----------------------------------------------------------------------------
(* The command and the directory. *)

\* The removal of a recovery copy of i costs nothing.
Spare(i) == i \in wanted => Verified(dir.target[i], i)
SidecarIs(r, phase) == dir.sidecar[r.slot] = [id |-> r.id, phase |-> phase]

Place(c) ==
    LET r == job[c].rec
        x == dir.backup[r.slot]
    IN
    /\ at[c] = "restoreMove" => /\ SidecarIs(r, "restoring") /\ r.id \notin removed
                                /\ x.own /\ Verified(x, r.id)
    /\ at[c] = "remove" => Spare(r.id)
    /\ at[c] = "erase" => SidecarIs(r, "cleaning") /\ x.own /\ IsDir(x) /\ Spare(r.id)
    /\ at[c] = "dropSidecar" => /\ dir.sidecar[r.slot].id = r.id
                                /\ dir.sidecar[r.slot].phase \notin {"none", "owned"}
                                /\ ~(x.own /\ x.is = "package")
    /\ at[c] = "dropped" => dir.sidecar[r.slot] = NoSidecar
    /\ at[c] = "move" => SidecarIs(r, "prepared") /\ IsDir(dir.target[r.id])
    /\ at[c] = "own" => SidecarIs(r, "prepared") /\ x.own /\ IsDir(x) /\ r.id \notin removed
    /\ at[c] = "published" => Verified(dir.target[NowId(c)], NowId(c))
    /\ at[c] = "clear" \/ (at[c] \in RecordSteps /\ job[c].then = "clear") => Spare(NowId(c))
    /\ at[c] = "unlist" \/ (at[c] \in RecordSteps /\ job[c].then = "unlist") =>
          /\ Spare(Work(c).id)
          /\ \A s \in Slots : dir.sidecar[s] = [id |-> Work(c).id, phase |-> "owned"]
                                => \E q \in job[c].recs : q.slot = s
    /\ at[c] \in {"eraseTarget", "gone"} =>
          \A s \in Slots : dir.sidecar[s] # [id |-> Work(c).id, phase |-> "owned"]
PlaceInv == \A c \in Commands : Place(c)

-----------------------------------------------------------------------------
(* The directory, now and after a power loss. *)

Shape(d) ==
    /\ d \in Directories
    /\ \A s \in Slots : d.backup[s].is = "none" => d.backup[s].own
    /\ \A s \in Slots : d.sidecar[s].phase = "none" \/ d.sidecar[s].id \in Ids
    /\ \A s \in Slots : s > drawn => d.sidecar[s] = NoSidecar /\ d.backup[s] = Vacant
    /\ \A i \in Ids : d.target[i].is = "package" =>
          d.target[i].pkg \in Packages /\ Id(d.target[i].pkg) = i
    /\ \A s \in Slots : d.backup[s].is = "package" => d.backup[s].pkg \in Packages
Proves(d) ==
    \A s \in Slots : d.sidecar[s].phase = "owned" => d.backup[s].own /\ IsDir(d.backup[s])
Keeps(d) ==
    \A i \in wanted :
       /\ d.target[i].is # "corrupt"
       /\ \/ Verified(d.target[i], i)
          \/ \E s \in Slots : /\ d.sidecar[s].id = i
                              /\ d.backup[s].own /\ Verified(d.backup[s], i)
Forgets(d) ==
    \A i \in removed :
       /\ d.target[i].is = "none"
       /\ \A s \in Slots : d.sidecar[s] # [id |-> i, phase |-> "owned"]
Good(d) == Shape(d) /\ Proves(d) /\ Keeps(d) /\ Forgets(d)

DirInv == /\ setting \in Settings
          /\ drawn \in {0} \cup Slots
          /\ wanted \subseteq Ids /\ removed \subseteq Ids
          /\ dir \in unsynced /\ \A d \in unsynced : Good(d)

InstallInv == LocalInv /\ Exclusive /\ PlaceInv /\ DirInv

-----------------------------------------------------------------------------
(* Locks and jobs. *)

LEMMA LockFileOf ==
    ASSUME NEW c, NEW S, NEW shared, NEW i
    PROVE  Lock(4, "", i, FALSE) \in Locks(c, S, shared) <=> i \in S
  <1>1. ASSUME NEW sc, NEW n, NEW sh
        PROVE  /\ Lock(4, "", i, FALSE) # Lock(1, sc, n, sh)
               /\ Lock(4, "", i, FALSE) # Lock(2, sc, n, sh)
               /\ Lock(4, "", i, FALSE) # Lock(3, sc, n, sh)
    <2> DEFINE a == [stage |-> 4, scope |-> "", n |-> i, shared |-> FALSE]
               b(m) == [stage |-> m, scope |-> sc, n |-> n, shared |-> sh]
    <2>1. a.stage = 4 /\ \A m : b(m).stage = m
      OBVIOUS
    <2> HIDE DEF a, b
    <2>2. a # b(1) /\ a # b(2) /\ a # b(3)
      BY <2>1
    <2> QED
      BY <2>2 DEF a, b, Lock
  <1>2. ASSUME NEW k, Lock(4, "", i, FALSE) = Lock(4, "", k, FALSE)
        PROVE  i = k
    <2>1. Lock(4, "", i, FALSE).n = i /\ Lock(4, "", k, FALSE).n = k
      BY DEF Lock
    <2> QED
      BY <1>2, <2>1
  <1> QED
    BY <1>1, <1>2 DEF Locks

LEMMA LocksType ==
    ASSUME NEW c, NEW S \in SUBSET Ids, NEW shared \in BOOLEAN
    PROVE  Locks(c, S, shared) \subseteq Locks(c, Ids, TRUE) \cup Locks(c, Ids, FALSE)
  BY DEF Locks

LEMMA NoJobType ==
    ASSUME NEW c
    PROVE  /\ NoJob \in Jobs(c) /\ NoJob.held = {} /\ NoJob.want = {} /\ NoJob.recs = {}
           /\ NoJob.ready = <<>>
  BY DEF NoJob, Jobs, Continuations

\* A command goes on to its next step; the others stay where they are.
LEMMA Moved ==
    ASSUME LocalInv, NEW c \in Commands, NEW step \in Steps \cup Ended, NEW j \in Jobs(c),
           Goto(c, step, j), UNCHANGED setting
    PROVE  /\ at' \in [Commands -> Steps \cup Ended]
           /\ job' \in [Commands -> UNION {Jobs(o) : o \in Commands}]
           /\ \A o \in Commands : (job[o] \in Jobs(o))'
           /\ at'[c] = step /\ job'[c] = j
           /\ \A o \in Commands \ {c} : at'[o] = at[o] /\ job'[o] = job[o]
  <1>1. \A o : Jobs(o)' = Jobs(o)
    <2>1. ASSUME NEW o
          PROVE  Locks(o, Ids, TRUE)' = Locks(o, Ids, TRUE) /\ Locks(o, Ids, FALSE)' = Locks(o, Ids, FALSE)
      BY DEF Locks, Work
    <2> QED
      BY <2>1 DEF Jobs
  <1> DEFINE J == UNION {Jobs(o) : o \in Commands}
  <1>2. job \in [Commands -> J] /\ j \in J
    BY DEF LocalInv
  <1>3. job' = [job EXCEPT ![c] = j] /\ at' = [at EXCEPT ![c] = step]
    BY DEF Goto
  <1> HIDE DEF J
  <1>4. job' \in [Commands -> J] /\ job'[c] = j /\ \A o \in Commands \ {c} : job'[o] = job[o]
    BY <1>2, <1>3
  <1>5. /\ at' \in [Commands -> Steps \cup Ended] /\ at'[c] = step
        /\ \A o \in Commands \ {c} : at'[o] = at[o]
    BY <1>3 DEF LocalInv
  <1>6. \A o \in Commands : job'[o] \in Jobs(o)
    BY <1>4 DEF LocalInv
  <1> QED
    BY <1>1, <1>4, <1>5, <1>6 DEF J

\* What a step of c may change of the directory and of the history.
Touches(c) ==
    /\ setting' = setting /\ drawn \in Int /\ drawn' \in Int /\ drawn <= drawn'
    /\ \A i \in Ids : dir'.target[i] = dir.target[i] \/ Locked(c, i)
    /\ \A s \in Slots :
          s <= drawn =>
             \/ dir'.sidecar[s] = dir.sidecar[s] /\ dir'.backup[s] = dir.backup[s]
             \/ dir.sidecar[s].phase # "none" /\ Locked(c, dir.sidecar[s].id)
    /\ \A s \in Slots : \/ dir'.sidecar[s] = dir.sidecar[s] \/ dir'.sidecar[s].phase = "none"
                        \/ Locked(c, dir'.sidecar[s].id)
    /\ \A i \in Ids : i \in wanted' => i \in wanted \/ Locked(c, i)
    /\ \A i \in Ids : i \in removed' => i \in removed \/ Locked(c, i)

LEMMA OtherLocal ==
    ASSUME NEW o \in Commands, Local(o), at'[o] = at[o], job'[o] = job[o], setting' = setting,
           job[o] \in Jobs(o), drawn \in Int, drawn' \in Int, drawn <= drawn', Slots \subseteq Int
    PROVE  Local(o)'
  <1>1. Kinds(o)'
    BY DEF Local, Kinds, InCommit, InRemoval, InUpkeep, Work
  <1>2. Held(o)'
    BY DEF Local, Held, InCommit, InRemoval, Locked, MyIds, Work, Staged
  <1>3. Record(o)'
    <2>1. Replacing(o)' <=> Replacing(o)
      BY DEF Replacing, Now
    <2>2. NowId(o)' = NowId(o) /\ Work(o)' = Work(o) /\ (InCommit(o)' <=> InCommit(o))
      BY DEF NowId, Now, Work, InCommit
    <2>3. \A r \in job[o].recs : r.slot \in Int
      BY DEF Jobs, BackupRecords
    <2>4. job[o].rec \in BackupRecords => job[o].rec.slot \in Int
      BY DEF BackupRecords
    <2> QED
      BY <2>1, <2>2, <2>3, <2>4 DEF Local, Record
  <1> QED
    BY <1>1, <1>2, <1>3 DEF Local

\* What a command relies on is out of the others' reach.
LEMMA OtherPlace ==
    ASSUME LocalInv, Exclusive, DirInv, NEW c \in Commands, NEW o \in Commands \ {c},
           at'[o] = at[o], job'[o] = job[o], Touches(c), Place(o)
    PROVE  Place(o)'
  <1> DEFINE r == job[o].rec
  <1>0. /\ Local(o) /\ job[o] \in Jobs(o) /\ job'[o].rec = r
        /\ \A i \in Ids : Locked(o, i) => ~Locked(c, i)
    BY DEF LocalInv, Exclusive
  <1>1. /\ Work(o)' = Work(o) /\ NowId(o)' = NowId(o)
    BY DEF Work, NowId, Now, Touches
  <1>2. ASSUME NEW i \in Ids, Locked(o, i)
        PROVE  /\ dir'.target[i] = dir.target[i]
               /\ i \in wanted' => i \in wanted
               /\ i \in removed' => i \in removed
               /\ Spare(i) => Spare(i)'
               /\ \A s \in Slots : /\ dir'.sidecar[s].phase # "none" /\ dir'.sidecar[s].id = i
                                   => dir'.sidecar[s] = dir.sidecar[s]
    BY <1>0, <1>2 DEF Touches, Spare, Verified
  <1>3. at[o] \in RecordSteps \/ at[o] \in {"move", "own"}
        => r \in BackupRecords /\ r.slot <= drawn /\ Locked(o, r.id)
    <2>1. at[o] \in RecordSteps \/ at[o] \in {"move", "own"} => r \in BackupRecords /\ r.slot <= drawn
      BY <1>0 DEF Local, Record, Replacing
    <2>2. at[o] \in RecordSteps => Locked(o, r.id)
      BY <1>0 DEF Local, Held
    <2>3. ASSUME at[o] \in {"move", "own"} PROVE Locked(o, r.id)
      <3>1. InCommit(o) /\ Work(o).kind = "install" /\ job[o].ready # <<>> /\ r.id = NowId(o)
        BY <1>0, <2>3 DEF Local, Kinds, Record, InCommit, Replacing
      <3>2. job[o].ready \in Seq(ReadyItems)
        BY <1>0 DEF Jobs
      <3>3. 1 \in DOMAIN job[o].ready /\ Head(job[o].ready) = job[o].ready[1]
        BY <3>1, <3>2
      <3>4. NowId(o) \in MyIds(o)
        BY <3>1, <3>3 DEF MyIds, Staged, NowId, Now
      <3> QED
        BY <1>0, <3>1, <3>4 DEF Local, Held
    <2> QED
      BY <2>1, <2>2, <2>3
  <1>4. InCommit(o) /\ at[o] # "commit" => NowId(o) \in Ids /\ Locked(o, NowId(o))
    <2> SUFFICES ASSUME InCommit(o), at[o] # "commit" PROVE NowId(o) \in Ids /\ Locked(o, NowId(o))
      OBVIOUS
    <2>1. Work(o).kind = "install" /\ job[o].ready # <<>>
      BY <1>0 DEF Local, Kinds, Record
    <2>2. job[o].ready \in Seq(ReadyItems)
      BY <1>0 DEF Jobs
    <2>3. 1 \in DOMAIN job[o].ready /\ Head(job[o].ready) = job[o].ready[1]
          /\ job[o].ready[1] \in ReadyItems
      BY <2>1, <2>2
    <2>4. NowId(o) \in MyIds(o) /\ NowId(o) \in Ids
      BY <2>1, <2>3, InstallAssumption DEF MyIds, Staged, NowId, Now, ReadyItems, Id, Packages
    <2> QED
      BY <1>0, <2>4 DEF Local, Held
  <1>5. InRemoval(o) => Work(o).id \in Ids /\ Locked(o, Work(o).id)
    <2> SUFFICES ASSUME InRemoval(o) PROVE Work(o).id \in Ids /\ Locked(o, Work(o).id)
      OBVIOUS
    <2>1. Work(o).kind = "uninstall" /\ at[o] \notin Ended
      BY <1>0 DEF Local, Kinds, InRemoval, RecordSteps, Ended
    <2>2. o \in DOMAIN setting.work
      BY <1>0, <2>1 DEF Local, Kinds
    <2>3. Work(o).id \in Ids
      BY <2>2, SettingAssumption DEF DirInv, Work
    <2>4. Work(o).id \in MyIds(o)
      BY <2>1 DEF MyIds
    <2> QED
      BY <1>0, <2>3, <2>4 DEF Local, Held
  \* the slot of its record, where the sidecar is the record's
  <1>6. ASSUME r \in BackupRecords, r.slot <= drawn, Locked(o, r.id),
               dir.sidecar[r.slot].phase = "none" \/ dir.sidecar[r.slot].id = r.id
        PROVE  dir'.sidecar[r.slot] = dir.sidecar[r.slot] /\ dir'.backup[r.slot] = dir.backup[r.slot]
    BY <1>0, <1>6 DEF Touches, BackupRecords
  <1>7. r.id \in Ids \/ r \notin BackupRecords
    BY DEF BackupRecords
  <1>8. NoSidecar.phase = "none" /\ \A p : [id |-> r.id, phase |-> p].id = r.id
    BY DEF NoSidecar
  <1>9. at[o] = "restoreMove" =>
           /\ SidecarIs(r, "restoring")' /\ r.id \notin removed'
           /\ dir'.backup[r.slot].own /\ Verified(dir'.backup[r.slot], r.id)
    BY <1>2, <1>3, <1>6, <1>7, <1>8 DEF Place, SidecarIs, RecordSteps, Verified
  <1>10. at[o] = "remove" => Spare(r.id)'
    BY <1>2, <1>3, <1>7 DEF Place, RecordSteps
  <1>11. at[o] = "erase" => /\ SidecarIs(r, "cleaning")' /\ Spare(r.id)'
                           /\ dir'.backup[r.slot].own /\ IsDir(dir'.backup[r.slot])
    BY <1>2, <1>3, <1>6, <1>7, <1>8 DEF Place, SidecarIs, RecordSteps, IsDir
  <1>12. at[o] = "dropSidecar" =>
            /\ dir'.sidecar[r.slot].id = r.id /\ dir'.sidecar[r.slot].phase \notin {"none", "owned"}
            /\ ~(dir'.backup[r.slot].own /\ dir'.backup[r.slot].is = "package")
    BY <1>3, <1>6, <1>7 DEF Place, RecordSteps
  <1>13. at[o] = "dropped" => dir'.sidecar[r.slot] = NoSidecar
    BY <1>3, <1>6, <1>7, <1>8 DEF Place, RecordSteps
  <1>14. at[o] = "move" => SidecarIs(r, "prepared")' /\ IsDir(dir'.target[r.id])
    BY <1>2, <1>3, <1>6, <1>7, <1>8 DEF Place, SidecarIs, IsDir
  <1>15. at[o] = "own" => /\ SidecarIs(r, "prepared")' /\ r.id \notin removed'
                          /\ dir'.backup[r.slot].own /\ IsDir(dir'.backup[r.slot])
    BY <1>2, <1>3, <1>6, <1>7, <1>8 DEF Place, SidecarIs, IsDir
  <1>16. at[o] = "published" => Verified(dir'.target[NowId(o)], NowId(o))
    BY <1>2, <1>4 DEF Place, InCommit, Verified
  <1>17. at[o] = "clear" \/ (at[o] \in RecordSteps /\ job[o].then = "clear") => Spare(NowId(o))'
    BY <1>1, <1>2, <1>4 DEF Place, InCommit, RecordSteps, Spare
  <1>18. at[o] = "unlist" \/ (at[o] \in RecordSteps /\ job[o].then = "unlist") =>
            /\ Spare(Work(o).id)'
            /\ \A s \in Slots : dir'.sidecar[s] = [id |-> Work(o).id, phase |-> "owned"]
                                  => \E q \in job[o].recs : q.slot = s
    BY <1>1, <1>2, <1>5 DEF Place, InRemoval, Spare
  <1>19. at[o] \in {"eraseTarget", "gone"} =>
            \A s \in Slots : dir'.sidecar[s] # [id |-> Work(o).id, phase |-> "owned"]
    BY <1>2, <1>5 DEF Place, InRemoval
  <1> QED
    BY <1>0, <1>1, <1>9, <1>10, <1>11, <1>12, <1>13, <1>14, <1>15, <1>16, <1>17, <1>18, <1>19 DEF Place


-----------------------------------------------------------------------------
(* What a step has to establish. *)

LEMMA SlotFacts ==
    ASSUME DirInv
    PROVE  /\ Slots \subseteq Nat \ {0} /\ Slots \subseteq Int /\ drawn \in Nat
           /\ \A s \in Slots : s <= drawn \/ s > drawn
  <1>1. Cardinality(Slots) \in Nat
    BY InstallAssumption, FS_CardinalityType
  <1>2. Slots \subseteq Nat \ {0}
    BY <1>1, InstallAssumption
  <1> QED
    BY <1>2 DEF DirInv

LEMMA StepKeeps ==
    ASSUME InstallInv, NEW c \in Commands, NEW step \in Steps \cup Ended, NEW j \in Jobs(c),
           Goto(c, step, j), Touches(c), DirInv',
           \A i \in Ids : Lock(4, "", i, FALSE) \in j.held
                             => Locked(c, i) \/ ~Blocked(c, Lock(4, "", i, FALSE)),
           step \in Ended \cup {"idle"} => j = NoJob,
           Local(c)', Place(c)'
    PROVE  InstallInv'
  <1>0. LocalInv /\ Exclusive /\ PlaceInv /\ DirInv
    BY DEF InstallInv
  <1>1. /\ at' \in [Commands -> Steps \cup Ended]
        /\ job' \in [Commands -> UNION {Jobs(o) : o \in Commands}]
        /\ \A o \in Commands : (job[o] \in Jobs(o))'
        /\ at'[c] = step /\ job'[c] = j
        /\ \A o \in Commands \ {c} : at'[o] = at[o] /\ job'[o] = job[o]
    BY <1>0, Moved DEF Touches
  <1>2. UNION {Jobs(o) : o \in Commands} = (UNION {Jobs(o) : o \in Commands})'
    <2>1. \A o : Locks(o, Ids, TRUE)' = Locks(o, Ids, TRUE) /\ Locks(o, Ids, FALSE)' = Locks(o, Ids, FALSE)
      BY DEF Locks, Work, Touches
    <2>2. \A o : Jobs(o)' = Jobs(o)
      BY <2>1 DEF Jobs
    <2> QED
      BY <2>2
  <1>3. \A o \in Commands : Local(o)'
    <2>1. ASSUME NEW o \in Commands \ {c} PROVE Local(o)'
      <3>0. Slots \subseteq Int
        BY <1>0, SlotFacts, Zenon
      <3>1. Slots \subseteq Int /\ drawn \in Int /\ drawn' \in Int /\ drawn <= drawn'
        BY <3>0 DEF Touches
      <3> QED
        BY <1>0, <1>1, <3>1, OtherLocal DEF LocalInv, Touches
    <2> QED
      BY <2>1
  <1>4. \A o \in Commands : (at[o] \in Ended \cup {"idle"} => job[o] = NoJob)'
    BY <1>0, <1>1 DEF LocalInv
  <1>5. LocalInv'
    BY <1>1, <1>2, <1>3, <1>4 DEF LocalInv
  <1>6. PlaceInv'
    <2>1. ASSUME NEW o \in Commands \ {c} PROVE Place(o)'
      BY <1>0, <1>1, OtherPlace DEF PlaceInv
    <2> QED
      BY <2>1 DEF PlaceInv
  <1>7. Exclusive'
    <2>1. ASSUME NEW o \in Commands \ {c}, NEW i \in Ids PROVE ~(Locked(c, i)' /\ Locked(o, i)')
      <3>1. Locked(o, i)' => Locked(o, i)
        BY <1>1 DEF Locked
      <3>2. Locked(c, i)' => Locked(c, i) \/ ~Blocked(c, Lock(4, "", i, FALSE))
        BY <1>1 DEF Locked
      <3>3. Lock(4, "", i, FALSE).shared = FALSE
        BY DEF Lock
      <3>4. Locked(o, i) => Blocked(c, Lock(4, "", i, FALSE))
        BY <3>3 DEF Locked, Blocked, Same
      <3> QED
        BY <1>0, <3>1, <3>2, <3>4 DEF Exclusive
    <2>2. ASSUME NEW o \in Commands \ {c}, NEW p \in Commands \ {c}, NEW i \in Ids,
                 Locked(o, i)', Locked(p, i)'
          PROVE  o = p
      BY <1>0, <1>1, <2>2 DEF Exclusive, Locked
    <2> QED
      BY <2>1, <2>2 DEF Exclusive
  <1> QED
    BY <1>5, <1>6, <1>7 DEF InstallInv

\* A step that leaves the directory as it is, whether or not it syncs it.
Stays == /\ dir' = dir /\ unsynced' \in {unsynced, {dir}}
         /\ UNCHANGED <<setting, drawn, wanted, removed>>

LEMMA StaysKeeps ==
    ASSUME InstallInv, NEW c \in Commands, Stays
    PROVE  Touches(c) /\ DirInv'
  <1>0. DirInv
    BY DEF InstallInv
  <1>1. Touches(c)
    BY <1>0, SlotFacts DEF Touches, Stays
  <1>2. \A d \in unsynced : Good(d)'
    BY <1>0 DEF DirInv, Good, Shape, Proves, Keeps, Forgets, Stays
  <1>3. unsynced' \subseteq unsynced /\ dir' \in unsynced'
    BY <1>0 DEF Stays, DirInv
  <1>4. DirInv'
    BY <1>0, <1>2, <1>3 DEF DirInv, Stays
  <1> QED
    BY <1>1, <1>4

\* The command ends, and its locks go.
LEMMA EndKeeps ==
    ASSUME InstallInv, NEW c \in Commands, NEW how \in Ended, End(c, how), Touches(c), DirInv'
    PROVE  InstallInv'
  <1>1. /\ NoJob \in Jobs(c) /\ NoJob.held = {} /\ NoJob.recs = {}
    BY NoJobType
  <1>2. Goto(c, how, NoJob) /\ LocalInv /\ UNCHANGED setting
    BY DEF End, InstallInv, Touches
  <1>3. at'[c] = how /\ job'[c] = NoJob
    BY <1>1, <1>2, Moved
  <1>4. Local(c)'
    BY <1>1, <1>3 DEF Local, Kinds, Held, Record, Ended, InCommit, InRemoval, InUpkeep,
                      RecordSteps, Replacing
  <1>5. Place(c)'
    BY <1>3 DEF Place, Ended, RecordSteps
  <1> QED
    BY <1>1, <1>2, <1>4, <1>5, StepKeeps

\* The directory changes; everything before the change was good.
LEMMA NewDir ==
    ASSUME DirInv, Good(dir)', dir' \in unsynced', unsynced' \subseteq unsynced \cup {dir'},
           UNCHANGED <<setting, drawn>>, wanted' \subseteq wanted, removed' \subseteq removed
    PROVE  DirInv'
  <1>1. ASSUME NEW d \in unsynced PROVE Good(d)'
    BY DEF DirInv, Good, Shape, Proves, Keeps, Forgets
  <1> QED
    BY <1>1 DEF DirInv


-----------------------------------------------------------------------------
(* What a command may rely on. *)

LEMMA Facts ==
    ASSUME InstallInv, NEW c \in Commands
    PROVE  /\ job[c] \in Jobs(c) /\ Local(c) /\ Place(c) /\ DirInv /\ LocalInv
           /\ dir \in Directories /\ Shape(dir) /\ Proves(dir) /\ Keeps(dir) /\ Forgets(dir)
           /\ at[c] \in Steps \cup Ended
  BY DEF InstallInv, LocalInv, PlaceInv, DirInv, Good, Shape

LEMMA ContentFacts ==
    ASSUME InstallInv
    PROVE  /\ dir \in [target : [Ids -> Contents], backup : [Slots -> Contents], sidecar : [Slots -> Sidecars]]
           /\ dir.target \in [Ids -> Contents] /\ dir.backup \in [Slots -> Contents]
           /\ dir.sidecar \in [Slots -> Sidecars]
  BY DEF InstallInv, DirInv, Good, Shape, Directories

LEMMA RecordFacts ==
    ASSUME DirInv
    PROVE  \A r \in Records :
             /\ r \in BackupRecords /\ r.slot <= drawn /\ Readable(r.slot)
             /\ r.id = dir.sidecar[r.slot].id /\ r.phase = dir.sidecar[r.slot].phase
  <1> SUFFICES ASSUME NEW s \in Slots, Readable(s)
               PROVE  /\ RecordAt(s) \in BackupRecords /\ RecordAt(s).slot <= drawn
                      /\ RecordAt(s).slot = s /\ RecordAt(s).id = dir.sidecar[s].id
                      /\ RecordAt(s).phase = dir.sidecar[s].phase
    BY DEF Records
  <1>1. /\ RecordAt(s).slot = s /\ RecordAt(s).id = dir.sidecar[s].id
        /\ RecordAt(s).phase = dir.sidecar[s].phase
    BY DEF RecordAt
  <1>2. Shape(dir) /\ dir.sidecar[s] \in Sidecars /\ dir.sidecar[s].phase # "none"
    BY DEF DirInv, Good, Shape, Directories, Readable
  <1>3. dir.sidecar[s].id \in Ids /\ dir.sidecar[s].phase \in Phases
    BY <1>2 DEF Shape, Sidecars
  <1>4. s <= drawn
    <2>1. NoSidecar.phase = "none"
      BY DEF NoSidecar
    <2>2. ~(s > drawn)
      BY <1>2, <2>1 DEF Shape
    <2> QED
      BY <2>2, SlotFacts
  <1>5. RecordAt(s) \in BackupRecords
    BY <1>3 DEF RecordAt, BackupRecords
  <1> QED
    BY <1>1, <1>4, <1>5

\* The record of the job is the one in the directory.
LEMMA UnchangedFacts ==
    ASSUME DirInv, NEW r \in BackupRecords, Unchanged(r)
    PROVE  /\ dir.sidecar[r.slot].id = r.id /\ dir.sidecar[r.slot].phase = r.phase
           /\ dir.sidecar[r.slot] = [id |-> r.id, phase |-> r.phase]
           /\ r.phase # "none"
  <1>1. /\ RecordAt(r.slot).id = dir.sidecar[r.slot].id
        /\ RecordAt(r.slot).phase = dir.sidecar[r.slot].phase
    BY DEF RecordAt
  <1>2. dir.sidecar[r.slot] \in Sidecars
    BY DEF DirInv, Good, Shape, Directories, BackupRecords
  <1>3. dir.sidecar[r.slot] = [id |-> dir.sidecar[r.slot].id, phase |-> dir.sidecar[r.slot].phase]
    BY <1>2 DEF Sidecars
  <1> QED
    BY <1>1, <1>3 DEF Unchanged, Readable

LEMMA LockFacts ==
    ASSUME InstallInv, NEW c \in Commands
    PROVE  /\ at[c] \in RecordSteps \/ Replacing(c)
                => job[c].rec \in BackupRecords /\ job[c].rec.slot <= drawn
                   /\ job[c].rec.slot \in Slots /\ job[c].rec.id \in Ids
           /\ at[c] \in RecordSteps \/ at[c] \in {"move", "own"} => Locked(c, job[c].rec.id)
           /\ InCommit(c) /\ job[c].ready # <<>>
                => NowId(c) \in Ids /\ Locked(c, NowId(c)) /\ NowId(c) \in MyIds(c)
           /\ InCommit(c) /\ at[c] # "commit" => job[c].ready # <<>>
           /\ job[c].ready # <<>> => Now(c).pkg \in Packages /\ Now(c).replace \in BOOLEAN
           /\ InRemoval(c) => Work(c).id \in Ids /\ Locked(c, Work(c).id)
  <1>0. job[c] \in Jobs(c) /\ Local(c) /\ DirInv
    BY Facts
  <1>1. at[c] \in RecordSteps \/ Replacing(c)
          => job[c].rec \in BackupRecords /\ job[c].rec.slot <= drawn
             /\ job[c].rec.slot \in Slots /\ job[c].rec.id \in Ids
    BY <1>0 DEF Local, Record, BackupRecords
  <1>2. InCommit(c) /\ at[c] # "commit" => job[c].ready # <<>>
    BY <1>0 DEF Local, Record
  <1>3. job[c].ready # <<>> => /\ 1 \in DOMAIN job[c].ready /\ Now(c) = job[c].ready[1]
                               /\ Now(c) \in ReadyItems
    <2>1. job[c].ready \in Seq(ReadyItems)
      BY <1>0 DEF Jobs
    <2> QED
      BY <2>1 DEF Now
  <1>4. job[c].ready # <<>> => Now(c).pkg \in Packages /\ Now(c).replace \in BOOLEAN
    BY <1>3 DEF ReadyItems
  <1>5. InCommit(c) /\ job[c].ready # <<>>
          => NowId(c) \in Ids /\ Locked(c, NowId(c)) /\ NowId(c) \in MyIds(c)
    <2> SUFFICES ASSUME InCommit(c), job[c].ready # <<>>
                 PROVE  NowId(c) \in Ids /\ Locked(c, NowId(c)) /\ NowId(c) \in MyIds(c)
      OBVIOUS
    <2>1. Work(c).kind = "install"
      BY <1>0 DEF Local, Kinds
    <2>2. NowId(c) \in MyIds(c) /\ NowId(c) \in Ids
      BY <1>3, <1>4, <2>1, InstallAssumption DEF MyIds, Staged, NowId, Id, Packages
    <2> QED
      BY <1>0, <2>2 DEF Local, Held
  <1>6. at[c] \in RecordSteps \/ at[c] \in {"move", "own"} => Locked(c, job[c].rec.id)
    <2>1. at[c] \in RecordSteps => Locked(c, job[c].rec.id)
      BY <1>0 DEF Local, Held
    <2>2. at[c] \in {"move", "own"} => InCommit(c) /\ at[c] # "commit" /\ job[c].rec.id = NowId(c)
      BY <1>0 DEF InCommit, Local, Record, Replacing
    <2> QED
      BY <1>2, <1>5, <2>1, <2>2
  <1>7. InRemoval(c) => Work(c).id \in Ids /\ Locked(c, Work(c).id)
    <2> SUFFICES ASSUME InRemoval(c) PROVE Work(c).id \in Ids /\ Locked(c, Work(c).id)
      OBVIOUS
    <2>1. Work(c).kind = "uninstall" /\ at[c] \notin Ended
      BY <1>0 DEF Local, Kinds, InRemoval, RecordSteps, Ended
    <2>2. c \in DOMAIN setting.work
      BY <1>0, <2>1 DEF Local, Kinds
    <2>3. Work(c).id \in Ids
      BY <1>0, <2>2, SettingAssumption DEF DirInv, Work
    <2>4. Work(c).id \in MyIds(c)
      BY <2>1 DEF MyIds
    <2> QED
      BY <1>0, <2>3, <2>4 DEF Local, Held
  <1> QED
    BY <1>1, <1>2, <1>4, <1>5, <1>6, <1>7

LEMMA SameReady ==
    ASSUME NEW c \in Commands, setting' = setting, job'[c].ready = job[c].ready
    PROVE  /\ MyIds(c)' = MyIds(c) /\ NowId(c)' = NowId(c) /\ Now(c)' = Now(c)
           /\ Work(c)' = Work(c)
  BY DEF MyIds, NowId, Now, Work, Staged

LEMMA LessReady ==
    ASSUME InstallInv, NEW c \in Commands, setting' = setting,
           job[c].ready # <<>>, job'[c].ready = Tail(job[c].ready)
    PROVE  /\ MyIds(c)' \subseteq MyIds(c) /\ Work(c)' = Work(c)
           /\ Tail(job[c].ready) \in Seq(ReadyItems)
  <1>1. job[c].ready \in Seq(ReadyItems)
    BY Facts DEF Jobs
  <1>2. /\ Tail(job[c].ready) \in Seq(ReadyItems)
        /\ \A k \in DOMAIN Tail(job[c].ready) :
              k + 1 \in DOMAIN job[c].ready /\ Tail(job[c].ready)[k] = job[c].ready[k + 1]
    BY <1>1
  <1>3. Staged(c)' \subseteq Staged(c)
    BY <1>2 DEF Staged
  <1>4. Work(c)' = Work(c)
    BY DEF Work
  <1> QED
    BY <1>2, <1>3, <1>4 DEF MyIds

LEMMA LeastIn ==
    ASSUME NEW S, S \subseteq Nat, S # {}
    PROVE  Least(S) \in S
  <1>1. PICK k \in S : \A n \in S : k <= n
    <2>1. PICK m \in S : \A n \in S : <<n, m>> \notin OpToRel(<, Nat)
      BY NatLessThanWellFounded, WFMin, Zenon
    <2>2. ASSUME NEW n \in S PROVE m <= n
      <3>1. ~(n < m)
        BY <2>1 DEF OpToRel
      <3> QED
        BY <3>1
    <2> QED
      BY <2>1, <2>2
  <1> QED
    BY <1>1 DEF Least

\* A step that leaves the directory alone and takes no lock.
LEMMA QuietStep ==
    ASSUME InstallInv, NEW c \in Commands, NEW step \in Steps \ {"idle"}, NEW j \in Jobs(c),
           Goto(c, step, j), Stays, j.held = job[c].held \/ j.held = {}, Local(c)', Place(c)'
    PROVE  InstallInv'
  <1>1. Touches(c) /\ DirInv'
    BY StaysKeeps
  <1>2. step \notin Ended \cup {"idle"}
    BY DEF Steps, Ended
  <1> QED
    BY <1>1, <1>2, StepKeeps DEF Locked

LEMMA QuietEnd ==
    ASSUME InstallInv, NEW c \in Commands, NEW how \in Ended, End(c, how), Stays
    PROVE  InstallInv'
  BY StaysKeeps, EndKeeps


-----------------------------------------------------------------------------
(* Recovery and sweep: steps that only look. *)

LEMMA StaysFrom ==
    ASSUME SameDir \/ Sync, Quiet
    PROVE  Stays
  BY DEF SameDir, Sync, Quiet, Stays

LEMMA KeepsBeginInstall ==
    ASSUME InstallInv, NEW c \in Commands, BeginInstall(c)
    PROVE  InstallInv'
  <1> DEFINE S == {r.id : r \in Records}
             j == [NoJob EXCEPT !.ids = S]
  <1>1. Stays /\ Goto(c, "recover", j) /\ at[c] = "idle" /\ Work(c).kind = "install"
    BY StaysFrom DEF BeginInstall
  <1>2. S \subseteq Ids
    BY Facts, RecordFacts DEF BackupRecords
  <1> HIDE DEF S
  <1>3. j \in Jobs(c) /\ j.held = {} /\ j.recs = {}
    <2>1. NoJob \in Jobs(c) /\ NoJob.held = {} /\ NoJob.recs = {}
      BY NoJobType
    <2> QED
      BY <1>2, <2>1 DEF Jobs
  <1> HIDE DEF j
  <1>4. at'[c] = "recover" /\ job'[c] = j /\ setting' = setting
    BY <1>1, <1>3, Facts, Moved DEF Stays, Steps
  <1>5. Local(c)'
    BY <1>1, <1>3, <1>4, Facts DEF Local, Kinds, Held, Record, InCommit, InRemoval, InUpkeep, RecordSteps,
       Replacing, Ended, Locked, Work
  <1>6. Place(c)'
    BY <1>4 DEF Place, RecordSteps
  <1> QED
    BY <1>1, <1>3, <1>5, <1>6, QuietStep DEF Steps

\* The locks of with_backup_maintenance_lock.
LEMMA MaintenanceLocks ==
    ASSUME NEW c \in Commands, NEW i \in Ids, MayMaintain(c, i)
    PROVE  /\ Locks(c, {i}, TRUE) \in SUBSET (Locks(c, Ids, TRUE) \cup Locks(c, Ids, FALSE))
           /\ Lock(4, "", i, FALSE) \in Locks(c, {i}, TRUE)
           /\ \A k \in Ids : Lock(4, "", k, FALSE) \in Locks(c, {i}, TRUE)
                                => ~Blocked(c, Lock(4, "", k, FALSE))
  <1>1. Locks(c, {i}, TRUE) \subseteq Locks(c, Ids, TRUE) \cup Locks(c, Ids, FALSE)
    BY LocksType
  <1>2. Lock(4, "", i, FALSE) \in Locks(c, {i}, TRUE)
    BY LockFileOf
  <1> QED
    BY <1>1, <1>2 DEF MayMaintain

LEMMA KeepsRecoverNext ==
    ASSUME InstallInv, NEW c \in Commands, RecoverNext(c)
    PROVE  InstallInv'
  <1> DEFINE i == Least(job[c].ids)
             later == [job[c] EXCEPT !.ids = @ \ {i}]
  <1>0. job[c] \in Jobs(c) /\ Local(c) /\ DirInv /\ LocalInv /\ Place(c)
    BY Facts
  <1>1. Stays /\ at[c] = "recover" /\ job[c].ids # {}
    BY StaysFrom DEF RecoverNext
  <1>2. job[c].ids \subseteq Ids /\ i \in Ids
    <2>1. job[c].ids \subseteq Ids
      BY <1>0 DEF Jobs
    <2>2. job[c].ids \subseteq Nat
      BY <2>1, InstallAssumption
    <2> QED
      BY <1>1, <2>1, <2>2, LeastIn
  <1>3. /\ later \in Jobs(c) /\ later.held = {} /\ later.recs = job[c].recs
        /\ later.ready = job[c].ready
    BY <1>0, <1>1 DEF Jobs, Local, Held
  <1>4. \/ Goto(c, "recover", later)
        \/ End(c, "failed")
        \/ /\ MayMaintain(c, i) /\ ~Ambiguous(i)
           /\ \E r \in Occupied(i) :
                Goto(c, "restore", [later EXCEPT !.held = Locks(c, {i}, TRUE),
                                                 !.rec = r, !.then = "recover"])
    BY DEF RecoverNext
  <1>5. CASE Goto(c, "recover", later)
    <2> HIDE DEF later, i
    <2>0. setting' = setting /\ drawn' = drawn
      BY <1>1 DEF Stays
    <2>1. at'[c] = "recover" /\ job'[c] = later /\ setting' = setting /\ drawn' = drawn
      <3>1. "recover" \in Steps \cup Ended /\ later \in Jobs(c) /\ Goto(c, "recover", later)
        BY <1>3, <1>5 DEF Steps
      <3> QED
        BY <1>0, <2>0, <3>1, Moved
    <2>2. Local(c)'
      BY <1>0, <1>1, <1>3, <2>1 DEF Local, Kinds, Held, Record, InCommit, InRemoval, InUpkeep, RecordSteps,
       Replacing, Ended, Locked, Work
    <2>3. Place(c)'
      BY <2>1 DEF Place, RecordSteps
    <2> QED
      BY <1>1, <1>3, <1>5, <2>2, <2>3, QuietStep DEF Steps
  <1>6. CASE End(c, "failed")
    BY <1>1, <1>6, QuietEnd DEF Ended
  <1>7. ASSUME MayMaintain(c, i), ~Ambiguous(i), NEW r \in Occupied(i),
               Goto(c, "restore", [later EXCEPT !.held = Locks(c, {i}, TRUE),
                                                !.rec = r, !.then = "recover"])
        PROVE  InstallInv'
    <2> DEFINE j == [later EXCEPT !.held = Locks(c, {i}, TRUE), !.rec = r, !.then = "recover"]
    <2>1. /\ r \in BackupRecords /\ r.id = i /\ r.phase = "owned" /\ r.slot <= drawn
      BY <1>0, <1>7, RecordFacts DEF Occupied, RecordsFor, Ambiguous
    <2>2. /\ Locks(c, {i}, TRUE) \in SUBSET (Locks(c, Ids, TRUE) \cup Locks(c, Ids, FALSE))
          /\ Lock(4, "", i, FALSE) \in Locks(c, {i}, TRUE)
          /\ \A k \in Ids : Lock(4, "", k, FALSE) \in Locks(c, {i}, TRUE)
                               => ~Blocked(c, Lock(4, "", k, FALSE))
      BY <1>2, <1>7, MaintenanceLocks
    <2> HIDE DEF i, later
    <2>3. /\ j \in Jobs(c) /\ j.held = Locks(c, {i}, TRUE) /\ j.rec = r /\ j.then = "recover"
          /\ j.recs = job[c].recs
      BY <1>3, <2>1, <2>2 DEF Jobs, Continuations
    <2>g. Goto(c, "restore", j)
      BY <1>7
    <2> HIDE DEF j
    <2>4. at'[c] = "restore" /\ job'[c] = j /\ setting' = setting /\ drawn' = drawn
      BY <1>0, <1>1, <2>g, <2>3, Moved DEF Stays, Steps
    <2>5. Local(c)'
      BY <1>0, <1>1, <2>1, <2>2, <2>3, <2>4 DEF Local, Kinds, Held, Record, InCommit, InRemoval, InUpkeep, RecordSteps,
       Replacing, Ended, Locked, Work
    <2>6. Place(c)'
      BY <2>3, <2>4 DEF Place, RecordSteps
    <2>7. Touches(c) /\ DirInv'
      BY <1>1, StaysKeeps
    <2> QED
      BY <2>g, <2>2, <2>3, <2>5, <2>6, <2>7, StepKeeps DEF Steps, Ended
  <1> QED
    BY <1>4, <1>5, <1>6, <1>7

LEMMA KeepsRecoverDone ==
    ASSUME InstallInv, NEW c \in Commands, RecoverDone(c)
    PROVE  InstallInv'
  <1> DEFINE j == [job[c] EXCEPT !.recs = Records]
  <1>0. job[c] \in Jobs(c) /\ Local(c) /\ DirInv /\ LocalInv /\ Place(c)
    BY Facts
  <1>1. Stays /\ Goto(c, "sweep", j) /\ at[c] = "recover"
    BY StaysFrom DEF RecoverDone
  <1>2. \A r \in Records : r \in BackupRecords /\ r.slot <= drawn
    BY <1>0, RecordFacts
  <1>3. j \in Jobs(c) /\ j.held = job[c].held /\ j.recs = Records
    BY <1>0, <1>2 DEF Jobs
  <1> HIDE DEF j
  <1>4. at'[c] = "sweep" /\ job'[c] = j /\ setting' = setting /\ drawn' = drawn
    BY <1>0, <1>1, <1>3, Moved DEF Stays, Steps
  <1>5. Local(c)'
    BY <1>0, <1>1, <1>2, <1>3, <1>4 DEF Local, Kinds, Held, Record, InCommit, InRemoval, InUpkeep, RecordSteps,
       Replacing, Ended, Locked, Work
  <1>6. Place(c)'
    BY <1>4 DEF Place, RecordSteps
  <1> QED
    BY <1>1, <1>3, <1>5, <1>6, QuietStep DEF Steps

\* The sweep goes on with fewer records.
LEMMA SweepOn ==
    ASSUME InstallInv, NEW c \in Commands, at[c] \in RecordSteps => job[c].then = "sweep",
           at[c] \in RecordSteps \cup {"sweep"}, Touches(c), DirInv', drawn' = drawn,
           NEW r, NEW b \in BOOLEAN,
           Goto(c, "sweep", [job[c] EXCEPT !.held = {}, !.bad = b, !.recs = @ \ {r}])
    PROVE  InstallInv'
  <1> DEFINE j == [job[c] EXCEPT !.held = {}, !.bad = b, !.recs = @ \ {r}]
  <1>0. job[c] \in Jobs(c) /\ Local(c) /\ DirInv /\ LocalInv
    BY Facts
  <1>1. j \in Jobs(c) /\ j.held = {} /\ j.recs \subseteq job[c].recs
    BY <1>0 DEF Jobs
  <1>2. Goto(c, "sweep", j)
    OBVIOUS
  <1> HIDE DEF j
  <1>3. at'[c] = "sweep" /\ job'[c] = j /\ setting' = setting
    BY <1>0, <1>1, <1>2, Moved DEF Touches, Steps
  <1>4. Local(c)'
    BY <1>0, <1>1, <1>3 DEF Local, Kinds, Held, Record, InCommit, InRemoval, InUpkeep, RecordSteps,
       Replacing, Ended, Locked, Work
  <1>5. Place(c)'
    BY <1>3 DEF Place, RecordSteps
  <1> QED
    BY <1>1, <1>2, <1>4, <1>5, StepKeeps DEF Steps, Ended

LEMMA KeepsSweepSkip ==
    ASSUME InstallInv, NEW c \in Commands, SweepSkip(c)
    PROVE  InstallInv'
  <1>0. job[c] \in Jobs(c) /\ Local(c)
    BY Facts
  <1>1. Stays /\ at[c] = "sweep"
    BY StaysFrom DEF SweepSkip
  <1>2. PICK r \in job[c].recs : Goto(c, "sweep", [job[c] EXCEPT !.recs = @ \ {r}])
    BY DEF SweepSkip
  <1>3. job[c].bad \in BOOLEAN /\ job[c].held = {}
    BY <1>0, <1>1 DEF Local, Held, Jobs
  <1>4. [job[c] EXCEPT !.recs = @ \ {r}] = [job[c] EXCEPT !.held = {}, !.bad = job[c].bad, !.recs = @ \ {r}]
    BY <1>0, <1>3 DEF Jobs
  <1>5. Touches(c) /\ DirInv' /\ drawn' = drawn
    BY <1>1, StaysKeeps DEF Stays
  <1> QED
    BY <1>1, <1>2, <1>3, <1>4, <1>5, SweepOn DEF RecordSteps

LEMMA KeepsSweepRecord ==
    ASSUME InstallInv, NEW c \in Commands, SweepRecord(c)
    PROVE  InstallInv'
  <1>0. job[c] \in Jobs(c) /\ Local(c) /\ DirInv /\ LocalInv /\ Place(c)
    BY Facts
  <1>1. PICK r \in job[c].recs :
           /\ MayMaintain(c, r.id)
           /\ \/ /\ Verified(dir.target[r.id], r.id) /\ Sync
                 /\ Goto(c, "remove", [job[c] EXCEPT !.held = Locks(c, {r.id}, TRUE),
                                                     !.rec = r, !.then = "sweep"])
              \/ /\ SameDir
                 /\ Goto(c, "sweep", [job[c] EXCEPT !.recs = @ \ {r}, !.bad = TRUE])
    BY DEF SweepRecord
  <1>2. Stays /\ at[c] = "sweep"
    BY <1>1, StaysFrom DEF SweepRecord
  <1>3. Touches(c) /\ DirInv' /\ drawn' = drawn
    BY <1>2, StaysKeeps DEF Stays
  <1>4. r \in BackupRecords /\ r.id \in Ids /\ r.slot <= drawn /\ job[c].held = {}
    BY <1>0, <1>2 DEF Jobs, BackupRecords, Local, Record, Held
  <1>5. CASE Goto(c, "sweep", [job[c] EXCEPT !.recs = @ \ {r}, !.bad = TRUE])
    <2>1. [job[c] EXCEPT !.recs = @ \ {r}, !.bad = TRUE]
            = [job[c] EXCEPT !.held = {}, !.bad = TRUE, !.recs = @ \ {r}]
      BY <1>0, <1>4 DEF Jobs
    <2> QED
      BY <1>2, <1>3, <1>5, <2>1, SweepOn DEF RecordSteps
  <1>6. CASE /\ Verified(dir.target[r.id], r.id)
             /\ Goto(c, "remove", [job[c] EXCEPT !.held = Locks(c, {r.id}, TRUE),
                                                 !.rec = r, !.then = "sweep"])
    <2> DEFINE j == [job[c] EXCEPT !.held = Locks(c, {r.id}, TRUE), !.rec = r, !.then = "sweep"]
    <2>2. /\ Locks(c, {r.id}, TRUE) \in SUBSET (Locks(c, Ids, TRUE) \cup Locks(c, Ids, FALSE))
          /\ Lock(4, "", r.id, FALSE) \in Locks(c, {r.id}, TRUE)
          /\ \A k \in Ids : Lock(4, "", k, FALSE) \in Locks(c, {r.id}, TRUE)
                               => ~Blocked(c, Lock(4, "", k, FALSE))
      BY <1>1, <1>4, MaintenanceLocks
    <2>3. /\ j \in Jobs(c) /\ j.held = Locks(c, {r.id}, TRUE) /\ j.rec = r /\ j.then = "sweep"
          /\ j.recs = job[c].recs
      BY <1>0, <1>4, <2>2 DEF Jobs, Continuations
    <2>4. Goto(c, "remove", j)
      BY <1>6
    <2> HIDE DEF j
    <2>5. at'[c] = "remove" /\ job'[c] = j /\ setting' = setting /\ dir' = dir /\ wanted' = wanted
      BY <1>0, <1>2, <2>3, <2>4, Moved DEF Stays, Steps
    <2>6. Local(c)'
      BY <1>0, <1>2, <1>3, <1>4, <2>2, <2>3, <2>5 DEF Local, Kinds, Held, Record, InCommit, InRemoval, InUpkeep, RecordSteps,
       Replacing, Ended, Locked, Work
    <2>7. Place(c)'
      BY <1>6, <2>3, <2>5 DEF Place, RecordSteps, Spare, Verified
    <2> QED
      BY <1>3, <2>2, <2>3, <2>4, <2>6, <2>7, StepKeeps DEF Steps, Ended
  <1> QED
    BY <1>1, <1>5, <1>6

LEMMA KeepsSweepDone ==
    ASSUME InstallInv, NEW c \in Commands, SweepDone(c)
    PROVE  InstallInv'
  <1>0. job[c] \in Jobs(c) /\ Local(c) /\ DirInv /\ LocalInv /\ Place(c)
    BY Facts
  <1>1. Stays /\ at[c] = "sweep" /\ (End(c, "failed") \/ Goto(c, "plan", job[c]))
    BY StaysFrom DEF SweepDone, Step
  <1>2. CASE Goto(c, "plan", job[c])
    <2>1. at'[c] = "plan" /\ job'[c] = job[c] /\ setting' = setting /\ drawn' = drawn
      BY <1>0, <1>1, <1>2, Moved DEF Stays, Steps
    <2>2. Local(c)'
      BY <1>0, <1>1, <2>1 DEF Local, Kinds, Held, Record, InCommit, InRemoval, InUpkeep, RecordSteps,
       Replacing, Ended, Locked, Work
    <2>3. Place(c)'
      BY <2>1 DEF Place, RecordSteps
    <2> QED
      BY <1>0, <1>1, <1>2, <2>2, <2>3, QuietStep DEF Steps
  <1> QED
    BY <1>1, <1>2, QuietEnd DEF Ended


-----------------------------------------------------------------------------
(* Planning and locking. *)

LEMMA WalkOn ==
    ASSUME InstallInv, NEW c \in Commands, Stays, at[c] \in {"plan", "walk"}, NEW j \in Jobs(c),
           j.held = {}, j.recs = job[c].recs, Goto(c, "walk", j)
    PROVE  InstallInv'
  <1>0. job[c] \in Jobs(c) /\ Local(c) /\ DirInv /\ LocalInv
    BY Facts
  <1>1. at'[c] = "walk" /\ job'[c] = j /\ setting' = setting /\ drawn' = drawn
    BY <1>0, Moved DEF Stays, Steps
  <1>2. Local(c)'
    BY <1>0, <1>1 DEF Local, Kinds, Held, Record, InCommit, InRemoval, InUpkeep, RecordSteps,
       Replacing, Ended, Locked, Work
  <1>3. Place(c)'
    BY <1>1 DEF Place, RecordSteps
  <1> QED
    BY <1>2, <1>3, QuietStep DEF Steps

LEMMA EnterKeeps ==
    ASSUME InstallInv, NEW c \in Commands, Stays, at[c] \in {"plan", "walk"},
           NEW stack \in Seq(Frames), NEW p \in Packages, NEW kind \in {"root", "stage", "reuse"},
           NEW chosen \in SUBSET Packages, Enter(c, stack, p, kind, chosen)
    PROVE  InstallInv'
  <1> DEFINE s == <<Frame(p, kind)>> \o stack
             j == [job[c] EXCEPT !.stack = s, !.chosen = chosen]
  <1>0. job[c] \in Jobs(c) /\ Local(c) /\ job[c].held = {}
    BY Facts DEF Local, Held
  <1>1. End(c, "failed") \/ Goto(c, "walk", j)
    BY DEF Enter
  <1>2. Frame(p, kind) \in Frames
    BY InstallAssumption DEF Frame, Frames, Needs, Packages
  <1>3. s \in Seq(Frames)
    BY <1>2
  <1> HIDE DEF s
  <1>4. j \in Jobs(c) /\ j.held = {} /\ j.recs = job[c].recs
    BY <1>0, <1>3 DEF Jobs
  <1> HIDE DEF j
  <1> QED
    BY <1>1, <1>4, WalkOn, QuietEnd DEF Ended

LEMMA ResolveKeeps ==
    ASSUME InstallInv, NEW c \in Commands, Stays, at[c] \in {"plan", "walk"},
           NEW stack \in Seq(Frames), NEW i \in Ids, NEW req,
           NEW kind \in {"root", "stage", "reuse"}, Resolve(c, stack, i, req, kind)
    PROVE  InstallInv'
  <1>0. job[c] \in Jobs(c) /\ DirInv /\ Shape(dir) /\ job[c].chosen \subseteq Packages
    BY Facts DEF Jobs
  <1>1. PICK how \in Look(i, req) :
           \/ how = "reuse" /\ Enter(c, stack, dir.target[i].pkg, "reuse",
                                     job[c].chosen \cup {dir.target[i].pkg})
           \/ \E p \in Newest(Offers(i, req)) : Enter(c, stack, p, kind, job[c].chosen)
           \/ End(c, "failed")
    BY DEF Resolve
  <1>2. how = "reuse" => dir.target[i].is = "package"
    <2>1. dir.target[i].is \in {"none", "package", "corrupt", "file"}
      BY ContentFacts DEF Contents
    <2> QED
      BY <1>1, <2>1 DEF Look
  <1>3. how = "reuse" => dir.target[i].pkg \in Packages
    BY <1>0, <1>2 DEF Shape
  <1>4. \A p \in Newest(Offers(i, req)) : p \in Packages
    BY <1>0, SettingAssumption DEF Newest, Offers, DirInv, Packages
  <1>5. CASE how = "reuse" /\ Enter(c, stack, dir.target[i].pkg, "reuse",
                                    job[c].chosen \cup {dir.target[i].pkg})
    BY <1>0, <1>3, <1>5, EnterKeeps
  <1>6. CASE \E p \in Newest(Offers(i, req)) : Enter(c, stack, p, kind, job[c].chosen)
    BY <1>0, <1>4, <1>6, EnterKeeps
  <1>7. CASE End(c, "failed")
    BY <1>7, QuietEnd DEF Ended
  <1> QED
    BY <1>1, <1>5, <1>6, <1>7

LEMMA WorkFacts ==
    ASSUME InstallInv, NEW c \in Commands, at[c] \notin Ended
    PROVE  Work(c).id \in Ids /\ Work(c).pkg \in Packages \cup {""} /\ Work(c).force \in BOOLEAN
  BY Facts, SettingAssumption DEF Local, Kinds, DirInv, Work, Packages

LEMMA KeepsPlan ==
    ASSUME InstallInv, NEW c \in Commands, Plan(c)
    PROVE  InstallInv'
  <1>1. Stays /\ at[c] = "plan"
    BY StaysFrom DEF Plan
  <1>2. Work(c).id \in Ids /\ Work(c).pkg \in Packages \cup {""}
    BY <1>1, WorkFacts DEF Ended
  <1>3. <<>> \in Seq(Frames) /\ {} \in SUBSET Packages
    OBVIOUS
  <1>4. CASE Work(c).pkg # "" /\ Enter(c, <<>>, Work(c).pkg, "root", {})
    BY <1>1, <1>2, <1>3, <1>4, EnterKeeps
  <1>5. CASE Resolve(c, <<>>, Work(c).id, Work(c).req, "root")
    BY <1>1, <1>2, <1>3, <1>5, ResolveKeeps
  <1> QED
    BY <1>4, <1>5 DEF Plan

LEMMA KeepsWalkDependency ==
    ASSUME InstallInv, NEW c \in Commands, WalkDependency(c)
    PROVE  InstallInv'
  <1> DEFINE top == Head(job[c].stack)
             i == Least(top.left)
             rest == <<[top EXCEPT !.left = @ \ {i}]>> \o Tail(job[c].stack)
  <1>0. job[c] \in Jobs(c) /\ Local(c)
    BY Facts
  <1>1. Stays /\ at[c] = "walk" /\ job[c].stack # <<>> /\ top.left # {}
    BY StaysFrom DEF WalkDependency
  <1>2. job[c].stack \in Seq(Frames) /\ job[c].held = {}
    BY <1>0, <1>1 DEF Jobs, Local, Held
  <1>3. top \in Frames /\ Tail(job[c].stack) \in Seq(Frames)
    BY <1>1, <1>2
  <1>4. i \in Ids
    <2>1. top.left \subseteq Ids
      BY <1>3 DEF Frames
    <2>2. top.left \subseteq Nat
      BY <2>1, InstallAssumption
    <2> QED
      BY <1>1, <2>1, <2>2, LeastIn
  <1>5. [top EXCEPT !.left = @ \ {i}] \in Frames
    BY <1>3 DEF Frames
  <1>6. rest \in Seq(Frames)
    BY <1>3, <1>5
  <1>7. \/ Resolve(c, rest, i, Needs(top.pkg)[i], "stage")
        \/ Goto(c, "walk", [job[c] EXCEPT !.stack = rest])
        \/ End(c, "failed")
    BY DEF WalkDependency
  <1> HIDE DEF rest, i, top
  <1>8. CASE Resolve(c, rest, i, Needs(top.pkg)[i], "stage")
    BY <1>1, <1>4, <1>6, <1>8, ResolveKeeps
  <1>9. CASE Goto(c, "walk", [job[c] EXCEPT !.stack = rest])
    <2> DEFINE j == [job[c] EXCEPT !.stack = rest]
    <2>1. j \in Jobs(c) /\ j.held = {} /\ j.recs = job[c].recs
      BY <1>0, <1>2, <1>6 DEF Jobs
    <2> QED
      BY <1>1, <1>9, <2>1, WalkOn
  <1>10. CASE End(c, "failed")
    BY <1>1, <1>10, QuietEnd DEF Ended
  <1> QED
    BY <1>7, <1>8, <1>9, <1>10

LEMMA KeepsWalkUp ==
    ASSUME InstallInv, NEW c \in Commands, WalkUp(c)
    PROVE  InstallInv'
  <1> DEFINE top == Head(job[c].stack)
             p == IF top.kind = "reuse" THEN job[c].plan ELSE Append(job[c].plan, top.pkg)
             h == IF top.kind = "stage" THEN job[c].chosen \cup {top.pkg} ELSE job[c].chosen
             t == Tail(job[c].stack)
             j == [job[c] EXCEPT !.stack = t, !.plan = p, !.chosen = h]
  <1>0. job[c] \in Jobs(c) /\ Local(c)
    BY Facts
  <1>1. Stays /\ at[c] = "walk" /\ job[c].stack # <<>>
    BY StaysFrom DEF WalkUp
  <1>2. /\ job[c].stack \in Seq(Frames) /\ job[c].held = {} /\ job[c].plan \in Seq(Packages)
        /\ job[c].chosen \in SUBSET Packages
    BY <1>0, <1>1 DEF Jobs, Local, Held
  <1>3. top \in Frames /\ t \in Seq(Frames)
    BY <1>1, <1>2
  <1>4. top.pkg \in Packages
    BY <1>3 DEF Frames
  <1>5. p \in Seq(Packages) /\ h \in SUBSET Packages
    BY <1>2, <1>4
  <1>6. Goto(c, "walk", j)
    BY <1>0 DEF WalkUp, Jobs
  <1> HIDE DEF p, h, t
  <1>7. j \in Jobs(c) /\ j.held = {} /\ j.recs = job[c].recs
    BY <1>0, <1>2, <1>3, <1>5 DEF Jobs
  <1> QED
    BY <1>1, <1>6, <1>7, WalkOn

LEMMA KeepsPrepare ==
    ASSUME InstallInv, NEW c \in Commands, Prepare(c)
    PROVE  InstallInv'
  <1> DEFINE p == Head(job[c].plan)
             e == dir.target[Id(p)].is # "none"
             t == Tail(job[c].plan)
             q == Append(job[c].ready, [pkg |-> p, replace |-> e])
             j == [job[c] EXCEPT !.plan = t, !.ready = q]
  <1>0. job[c] \in Jobs(c) /\ Local(c)
    BY Facts
  <1>1. Stays /\ at[c] = "walk" /\ job[c].plan # <<>>
    BY StaysFrom DEF Prepare
  <1>2. job[c].plan \in Seq(Packages) /\ job[c].ready \in Seq(ReadyItems) /\ job[c].held = {}
    BY <1>0, <1>1 DEF Jobs, Local, Held
  <1>3. p \in Packages /\ t \in Seq(Packages)
    BY <1>1, <1>2
  <1>4. [pkg |-> p, replace |-> e] \in ReadyItems
    BY <1>3 DEF ReadyItems
  <1>5. q \in Seq(ReadyItems)
    BY <1>2, <1>4
  <1>6. End(c, "failed") \/ Goto(c, "walk", j)
    BY <1>0 DEF Prepare, Jobs
  <1> HIDE DEF t, q
  <1>7. j \in Jobs(c) /\ j.held = {} /\ j.recs = job[c].recs
    BY <1>0, <1>2, <1>3, <1>5 DEF Jobs
  <1> HIDE DEF j
  <1> QED
    BY <1>1, <1>6, <1>7, WalkOn, QuietEnd DEF Ended

LEMMA KeepsPrepareDone ==
    ASSUME InstallInv, NEW c \in Commands, PrepareDone(c)
    PROVE  InstallInv'
  <1> DEFINE S == {Id(p) : p \in Staged(c) \cup job[c].chosen}
             w == Locks(c, S, TRUE)
             j == [job[c] EXCEPT !.want = w]
  <1>0. job[c] \in Jobs(c) /\ Local(c) /\ DirInv /\ LocalInv
    BY Facts
  <1>1. Stays /\ at[c] = "walk" /\ Goto(c, "lock", j)
    BY StaysFrom DEF PrepareDone
  <1>2. S \in SUBSET Ids /\ {Id(p) : p \in Staged(c)} \subseteq S
    <2>1. job[c].ready \in Seq(ReadyItems) /\ job[c].chosen \subseteq Packages
      BY <1>0 DEF Jobs
    <2>2. Staged(c) \subseteq Packages
      <3>1. \A k \in DOMAIN job[c].ready : job[c].ready[k] \in ReadyItems
        BY <2>1
      <3>2. \A x \in ReadyItems : x.pkg \in Packages
        BY DEF ReadyItems
      <3> QED
        BY <3>1, <3>2 DEF Staged
    <2> QED
      BY <2>1, <2>2, InstallAssumption DEF Packages, Id
  <1>3. w \in SUBSET (Locks(c, Ids, TRUE) \cup Locks(c, Ids, FALSE))
    BY <1>2, LocksType
  <1>4. \A i : Lock(4, "", i, FALSE) \in w <=> i \in S
    BY LockFileOf
  <1>5. MyIds(c) \subseteq S
    BY <1>0, <1>1, <1>2 DEF MyIds, Local, Kinds
  <1> HIDE DEF S, w
  <1>6. j \in Jobs(c) /\ j.held = job[c].held /\ j.recs = job[c].recs /\ j.want = w
        /\ j.ready = job[c].ready
    BY <1>0, <1>3 DEF Jobs
  <1> HIDE DEF j
  <1>7. at'[c] = "lock" /\ job'[c] = j /\ setting' = setting /\ drawn' = drawn
    BY <1>0, <1>1, <1>6, Moved DEF Stays, Steps
  <1>8. MyIds(c)' = MyIds(c)
    BY <1>6, <1>7, SameReady
  <1>9. Local(c)'
    BY <1>0, <1>1, <1>4, <1>5, <1>6, <1>7, <1>8 DEF Local, Kinds, Held, Record, InCommit, InRemoval, InUpkeep, RecordSteps,
       Replacing, Ended, Locked, Work
  <1>10. Place(c)'
    BY <1>7 DEF Place, RecordSteps
  <1> QED
    BY <1>1, <1>6, <1>9, <1>10, QuietStep DEF Steps

LEMMA KeepsBeginUninstall ==
    ASSUME InstallInv, NEW c \in Commands, BeginUninstall(c)
    PROVE  InstallInv'
  <1> DEFINE w == Locks(c, {Work(c).id}, FALSE)
             j == [NoJob EXCEPT !.want = w]
  <1>0. job[c] \in Jobs(c) /\ Local(c) /\ DirInv /\ LocalInv
    BY Facts
  <1>1. /\ Stays /\ at[c] = "idle" /\ Work(c).kind = "uninstall"
        /\ Goto(c, "lock", j) \/ End(c, "failed")
    BY StaysFrom DEF BeginUninstall
  <1>2. Work(c).id \in Ids
    BY <1>1, WorkFacts DEF Ended
  <1>3. /\ w \in SUBSET (Locks(c, Ids, TRUE) \cup Locks(c, Ids, FALSE))
        /\ Lock(4, "", Work(c).id, FALSE) \in w
    BY <1>2, LocksType, LockFileOf
  <1> HIDE DEF w
  <1>4. j \in Jobs(c) /\ j.held = {} /\ j.recs = {} /\ j.want = w
    <2>1. NoJob \in Jobs(c) /\ NoJob.held = {} /\ NoJob.recs = {}
      BY NoJobType
    <2> QED
      BY <1>3, <2>1 DEF Jobs
  <1> HIDE DEF j
  <1>5. CASE Goto(c, "lock", j)
    <2>1. at'[c] = "lock" /\ job'[c] = j /\ setting' = setting /\ drawn' = drawn
      BY <1>0, <1>1, <1>4, <1>5, Moved DEF Stays, Steps
    <2>2. MyIds(c)' = {Work(c).id}
      BY <1>1, <2>1 DEF MyIds, Work
    <2>3. Local(c)'
      BY <1>0, <1>1, <1>3, <1>4, <2>1, <2>2 DEF Local, Kinds, Held, Record, InCommit, InRemoval, InUpkeep, RecordSteps,
       Replacing, Ended, Locked, Work
    <2>4. Place(c)'
      BY <2>1 DEF Place, RecordSteps
    <2> QED
      BY <1>1, <1>4, <1>5, <2>3, <2>4, QuietStep DEF Steps
  <1> QED
    BY <1>1, <1>5, QuietEnd DEF Ended

LEMMA KeepsAcquireLock ==
    ASSUME InstallInv, NEW c \in Commands, AcquireLock(c)
    PROVE  InstallInv'
  <1>0. job[c] \in Jobs(c) /\ Local(c) /\ DirInv /\ LocalInv
    BY Facts
  <1>1. Stays /\ at[c] = "lock"
    BY StaysFrom DEF AcquireLock
  <1>2. CASE job[c].want = {} /\ Goto(c, "check", job[c])
    <2>1. at'[c] = "check" /\ job'[c] = job[c] /\ setting' = setting /\ drawn' = drawn
      BY <1>0, <1>1, <1>2, Moved DEF Stays, Steps
    <2>2. MyIds(c)' = MyIds(c)
      BY <2>1, SameReady
    <2>3. Local(c)'
      BY <1>0, <1>1, <1>2, <2>1, <2>2 DEF Local, Kinds, Held, Record, InCommit, InRemoval, InUpkeep, RecordSteps,
       Replacing, Ended, Locked, Work
    <2>4. Place(c)'
      BY <2>1 DEF Place, RecordSteps
    <2> QED
      BY <1>0, <1>1, <1>2, <2>3, <2>4, QuietStep DEF Steps
  <1>3. ASSUME NEW l \in job[c].want, ~Blocked(c, l),
               Goto(c, "lock", [job[c] EXCEPT !.want = @ \ {l}, !.held = @ \cup {l}])
        PROVE  InstallInv'
    <2> DEFINE j == [job[c] EXCEPT !.want = @ \ {l}, !.held = @ \cup {l}]
    <2>1. /\ j \in Jobs(c) /\ j.held = job[c].held \cup {l} /\ j.want = job[c].want \ {l}
          /\ j.recs = job[c].recs /\ j.ready = job[c].ready
      BY <1>0 DEF Jobs
    <2>2. Goto(c, "lock", j)
      BY <1>3
    <2> HIDE DEF j
    <2>3. at'[c] = "lock" /\ job'[c] = j /\ setting' = setting /\ drawn' = drawn
      BY <1>0, <1>1, <2>1, <2>2, Moved DEF Stays, Steps
    <2>4. MyIds(c)' = MyIds(c)
      BY <2>1, <2>3, SameReady
    <2>5. Local(c)'
      BY <1>0, <1>1, <2>1, <2>3, <2>4 DEF Local, Kinds, Held, Record, InCommit, InRemoval, InUpkeep, RecordSteps,
       Replacing, Ended, Locked, Work
    <2>6. Place(c)'
      BY <2>3 DEF Place, RecordSteps
    <2>7. Touches(c) /\ DirInv'
      BY <1>1, StaysKeeps
    <2>8. \A i \in Ids : Lock(4, "", i, FALSE) \in j.held
                            => Locked(c, i) \/ ~Blocked(c, Lock(4, "", i, FALSE))
      BY <1>3, <2>1 DEF Locked
    <2> QED
      BY <2>1, <2>2, <2>5, <2>6, <2>7, <2>8, StepKeeps DEF Steps, Ended
  <1> QED
    BY <1>2, <1>3 DEF AcquireLock, Step


-----------------------------------------------------------------------------
(* restore_backup and remove_backup_record. *)

LEMMA ErrorKeeps ==
    ASSUME InstallInv, NEW c \in Commands, at[c] \in RecordSteps, Touches(c), DirInv',
           drawn' = drawn, Error(c)
    PROVE  InstallInv'
  <1>1. CASE job[c].then = "sweep"
    <2>1. Goto(c, "sweep", [job[c] EXCEPT !.held = {}, !.bad = TRUE, !.recs = @ \ {job[c].rec}])
      BY <1>1 DEF Error
    <2> QED
      BY <1>1, <2>1, SweepOn
  <1>2. CASE job[c].then # "sweep"
    BY <1>2, EndKeeps DEF Error, Ended
  <1> QED
    BY <1>1, <1>2

\* From one step on a record to the next one, with the same job.
LEMMA RecordStepOn ==
    ASSUME InstallInv, NEW c \in Commands, at[c] \in RecordSteps,
           NEW step \in RecordSteps \ {"restore"}, Goto(c, step, job[c]), Touches(c), DirInv',
           drawn' = drawn, Place(c)'
    PROVE  InstallInv'
  <1>0. job[c] \in Jobs(c) /\ Local(c) /\ LocalInv /\ setting' = setting
    BY Facts DEF Touches
  <1>1. step \in Steps /\ step \notin Ended \cup {"idle"}
    BY DEF Steps, RecordSteps, Ended
  <1>2. at'[c] = step /\ job'[c] = job[c]
    BY <1>0, <1>1, Moved
  <1>3. MyIds(c)' = MyIds(c) /\ NowId(c)' = NowId(c) /\ Work(c)' = Work(c)
    BY <1>0, <1>2, SameReady
  <1>4. Kinds(c)'
    BY <1>0, <1>1, <1>2, <1>3 DEF Local, Kinds, InCommit, InRemoval, InUpkeep, RecordSteps, Ended
  <1>5. Held(c)'
    BY <1>0, <1>2, <1>3 DEF Local, Held, InCommit, InRemoval, RecordSteps, Locked
  <1>6. Record(c)'
    BY <1>0, <1>2, <1>3 DEF Local, Record, InCommit, RecordSteps, Replacing
  <1>7. Local(c)'
    BY <1>4, <1>5, <1>6 DEF Local
  <1> QED
    BY <1>0, <1>1, <1>7, StepKeeps DEF Locked

\* What such a step keeps of the surrounding loop over records.
Around(c) ==
    /\ job[c].then = "clear" => Spare(NowId(c))
    /\ job[c].then = "unlist" =>
          /\ Spare(Work(c).id)
          /\ \A s \in Slots : dir.sidecar[s] = [id |-> Work(c).id, phase |-> "owned"]
                                => \E q \in job[c].recs : q.slot = s

LEMMA AroundKeeps ==
    ASSUME NEW c \in Commands, Place(c), at[c] \in RecordSteps, job'[c] = job[c],
           setting' = setting, \A i : Spare(i) => Spare(i)',
           \A s \in Slots : \A i : dir'.sidecar[s] = [id |-> i, phase |-> "owned"]
                                 => dir.sidecar[s] = [id |-> i, phase |-> "owned"]
    PROVE  Around(c)'
  <1>1. Around(c)
    BY DEF Around, Place
  <1>2. NowId(c)' = NowId(c) /\ Work(c)' = Work(c)
    BY SameReady
  <1>3. job[c].then = "clear" => Spare(NowId(c))'
    BY <1>1, <1>2 DEF Around, Spare
  <1>4. job[c].then = "unlist" => Spare(Work(c).id)'
    BY <1>1, <1>2 DEF Around, Spare
  <1> QED
    BY <1>1, <1>2, <1>3, <1>4 DEF Around

\* A record changes its phase.  Ownership is only claimed for a copy of ours.
LEMMA PhaseFacts ==
    ASSUME InstallInv, NEW s \in Slots, NEW ph \in Phases, dir' = SetPhase(s, ph)
    PROVE  /\ dir' \in Directories /\ dir'.target = dir.target /\ dir'.backup = dir.backup
           /\ dir'.sidecar[s] = [id |-> dir.sidecar[s].id, phase |-> ph]
           /\ dir'.sidecar[s].id = dir.sidecar[s].id /\ dir'.sidecar[s].phase = ph
           /\ \A t \in Slots \ {s} : dir'.sidecar[t] = dir.sidecar[t]
  <1>1. /\ dir \in [target : [Ids -> Contents], backup : [Slots -> Contents], sidecar : [Slots -> Sidecars]]
        /\ dir.sidecar \in [Slots -> Sidecars] /\ dir.sidecar[s] \in Sidecars
    BY ContentFacts
  <1> DEFINE x == [dir.sidecar[s] EXCEPT !.phase = ph]
             f == [dir.sidecar EXCEPT ![s] = x]
  <1>2. dir' = [dir EXCEPT !.sidecar = f]
    BY DEF SetPhase
  <1>3. x \in Sidecars /\ x = [id |-> dir.sidecar[s].id, phase |-> ph]
        /\ x.id = dir.sidecar[s].id /\ x.phase = ph
    BY <1>1 DEF Sidecars
  <1> HIDE DEF x
  <1>4. f \in [Slots -> Sidecars] /\ f[s] = x /\ \A t \in Slots \ {s} : f[t] = dir.sidecar[t]
    BY <1>1, <1>3
  <1> HIDE DEF f
  <1>5. /\ dir' \in [target : [Ids -> Contents], backup : [Slots -> Contents], sidecar : [Slots -> Sidecars]]
        /\ dir'.target = dir.target /\ dir'.backup = dir.backup /\ dir'.sidecar = f
    BY <1>1, <1>2, <1>4
  <1> QED
    BY <1>3, <1>4, <1>5 DEF Directories

LEMMA PhaseKeeps ==
    ASSUME InstallInv, NEW c \in Commands, NEW s \in Slots, NEW ph \in Phases,
           Persist(SetPhase(s, ph)), Quiet, dir.sidecar[s].phase # "none",
           Locked(c, dir.sidecar[s].id),
           ph = "owned" => /\ dir.backup[s].own /\ IsDir(dir.backup[s])
                           /\ dir.sidecar[s].id \notin removed
    PROVE  /\ Touches(c) /\ DirInv' /\ drawn' = drawn /\ \A i : Spare(i) => Spare(i)'
           /\ ph # "owned" => \A t \in Slots : \A i : dir'.sidecar[t] = [id |-> i, phase |-> "owned"]
                                 => dir.sidecar[t] = [id |-> i, phase |-> "owned"]
  <1>0. /\ DirInv /\ Shape(dir) /\ Proves(dir) /\ Keeps(dir) /\ Forgets(dir)
    BY DEF InstallInv, DirInv, Good
  <1>1. /\ dir' \in Directories /\ dir'.target = dir.target /\ dir'.backup = dir.backup
        /\ dir'.sidecar[s] = [id |-> dir.sidecar[s].id, phase |-> ph]
        /\ dir'.sidecar[s].id = dir.sidecar[s].id /\ dir'.sidecar[s].phase = ph
        /\ \A t \in Slots \ {s} : dir'.sidecar[t] = dir.sidecar[t]
    BY PhaseFacts DEF Persist
  <1>2. /\ unsynced' = {dir'} /\ UNCHANGED <<setting, drawn, wanted, removed>>
    BY DEF Persist, Quiet
  <1>3. NoSidecar.phase = "none"
    BY DEF NoSidecar
  <1>4. Shape(dir)'
    BY <1>0, <1>1, <1>2, <1>3 DEF Shape
  <1>5. Proves(dir)'
    BY <1>0, <1>1 DEF Proves
  <1>6. Keeps(dir)'
    <2>1. \A t \in Slots : dir'.sidecar[t].id = dir.sidecar[t].id
      BY <1>1
    <2> QED
      BY <1>0, <1>1, <1>2, <2>1 DEF Keeps
  <1>7. ASSUME NEW i, NEW t \in Slots, dir'.sidecar[t] = [id |-> i, phase |-> "owned"]
        PROVE  dir.sidecar[t] = [id |-> i, phase |-> "owned"] \/ (ph = "owned" /\ i = dir.sidecar[s].id)
    <2>1. dir'.sidecar[t].id = i /\ dir'.sidecar[t].phase = "owned"
      BY <1>7
    <2> QED
      BY <1>1, <1>7, <2>1
  <1>8. Forgets(dir)'
    BY <1>0, <1>1, <1>2, <1>7 DEF Forgets
  <1>9. DirInv'
    BY <1>0, <1>2, <1>4, <1>5, <1>6, <1>8, NewDir DEF Good
  <1>10. Touches(c)
    BY <1>0, <1>1, <1>2, SlotFacts DEF Touches
  <1>11. \A i : Spare(i) => Spare(i)'
    BY <1>1, <1>2 DEF Spare, Verified
  <1> QED
    BY <1>2, <1>7, <1>9, <1>10, <1>11

LEMMA KeepsRestoreBegin ==
    ASSUME InstallInv, NEW c \in Commands, RestoreBegin(c)
    PROVE  InstallInv'
  <1> DEFINE r == job[c].rec
  <1>0. /\ job[c] \in Jobs(c) /\ Local(c) /\ DirInv /\ LocalInv /\ Place(c)
        /\ Proves(dir) /\ Forgets(dir)
    BY Facts
  <1>1. at[c] = "restore" /\ at[c] \in RecordSteps /\ Quiet
    BY DEF RestoreBegin, RecordSteps
  <1>2. /\ r \in BackupRecords /\ r.slot \in Slots /\ r.id \in Ids /\ Locked(c, r.id)
        /\ r.phase = "owned"
    BY <1>0, <1>1, LockFacts DEF Local, Record
  <1>3. CASE /\ Unchanged(r) /\ Verified(dir.backup[r.slot], r.id)
             /\ Persist(SetPhase(r.slot, "restoring")) /\ Goto(c, "restoreMove", job[c])
    <2>1. /\ dir.sidecar[r.slot].id = r.id /\ dir.sidecar[r.slot].phase = "owned"
          /\ dir.sidecar[r.slot] = [id |-> r.id, phase |-> "owned"]
      BY <1>0, <1>2, <1>3, UnchangedFacts
    <2>2. /\ dir'.backup = dir.backup
          /\ dir'.sidecar[r.slot] = [id |-> r.id, phase |-> "restoring"]
      BY <1>2, <1>3, <2>1, PhaseFacts DEF Persist, Phases
    <2>3. /\ Touches(c) /\ DirInv' /\ drawn' = drawn /\ \A i : Spare(i) => Spare(i)'
          /\ \A t \in Slots : \A i : dir'.sidecar[t] = [id |-> i, phase |-> "owned"]
                                 => dir.sidecar[t] = [id |-> i, phase |-> "owned"]
      BY <1>1, <1>2, <1>3, <2>1, PhaseKeeps DEF Phases
    <2>4. r.id \notin removed /\ dir.backup[r.slot].own
      BY <1>0, <1>2, <2>1 DEF Proves, Forgets
    <2>5. at'[c] = "restoreMove" /\ job'[c] = job[c] /\ setting' = setting /\ removed' = removed
      BY <1>0, <1>1, <1>3, Moved DEF Quiet, Steps
    <2>6. Around(c)'
      BY <1>0, <1>1, <2>3, <2>5, AroundKeeps
    <2>7. Place(c)'
      BY <1>3, <2>2, <2>4, <2>5, <2>6 DEF Place, RecordSteps, SidecarIs, Verified, Around
    <2> QED
      BY <1>1, <1>3, <2>3, <2>7, RecordStepOn DEF RecordSteps
  <1>4. CASE SameDir /\ Error(c)
    BY <1>1, <1>4, StaysFrom, StaysKeeps, ErrorKeeps DEF Stays
  <1> QED
    BY <1>3, <1>4 DEF RestoreBegin, Step

\* The same for the four places where a directory appears or goes.
Put(i, x, s, y) == [dir EXCEPT !.target[i] = x, !.backup[s] = y]

LEMMA DirFields ==
    ASSUME InstallInv, NEW i \in Ids, NEW s \in Slots, NEW x \in Contents, NEW y \in Contents
    PROVE  /\ Put(i, x, s, y) \in Directories /\ Put(i, x, s, y).sidecar = dir.sidecar
           /\ Put(i, x, s, y).target[i] = x
           /\ \A k \in Ids \ {i} : Put(i, x, s, y).target[k] = dir.target[k]
           /\ Put(i, x, s, y).backup[s] = y
           /\ \A t \in Slots \ {s} : Put(i, x, s, y).backup[t] = dir.backup[t]
  <1> DEFINE D == [target : [Ids -> Contents], backup : [Slots -> Contents], sidecar : [Slots -> Sidecars]]
             d == Put(i, x, s, y)
             f == [dir.target EXCEPT ![i] = x]
             g == [dir.backup EXCEPT ![s] = y]
  <1>1. /\ dir \in D /\ dir.target \in [Ids -> Contents] /\ dir.backup \in [Slots -> Contents]
    BY ContentFacts
  <1>2. /\ f \in [Ids -> Contents] /\ f[i] = x /\ \A k \in Ids \ {i} : f[k] = dir.target[k]
        /\ g \in [Slots -> Contents] /\ g[s] = y /\ \A t \in Slots \ {s} : g[t] = dir.backup[t]
    BY <1>1
  <1>3. d = [dir EXCEPT !.target = f, !.backup = g]
    BY <1>1 DEF Put
  <1> HIDE DEF f, g, d
  <1>4. d \in D /\ d.sidecar = dir.sidecar /\ d.target = f /\ d.backup = g
    BY <1>1, <1>2, <1>3
  <1>5. d \in Directories
    BY <1>4 DEF Directories
  <1> QED
    BY <1>2, <1>4, <1>5 DEF d

Take(i, x, s, y) == [dir EXCEPT !.backup[s] = y, !.target[i] = x]

LEMMA PutOrder ==
    ASSUME InstallInv, NEW i \in Ids, NEW s \in Slots, NEW x \in Contents, NEW y \in Contents
    PROVE  Take(i, x, s, y) = Put(i, x, s, y)
  <1> DEFINE f == [dir.target EXCEPT ![i] = x]
             g == [dir.backup EXCEPT ![s] = y]
  <1>1. dir \in [target : [Ids -> Contents], backup : [Slots -> Contents], sidecar : [Slots -> Sidecars]]
    BY ContentFacts
  <1>2. /\ Take(i, x, s, y) = [dir EXCEPT !.backup = g, !.target = f]
        /\ Put(i, x, s, y) = [dir EXCEPT !.target = f, !.backup = g]
    BY <1>1 DEF Put, Take
  <1> HIDE DEF f, g
  <1> QED
    BY <1>1, <1>2

LEMMA BackupField ==
    ASSUME InstallInv, NEW s \in Slots, NEW y \in Contents
    PROVE  LET d == [dir EXCEPT !.backup[s] = y] IN
           /\ d \in Directories /\ d.sidecar = dir.sidecar /\ d.target = dir.target
           /\ d.backup[s] = y /\ \A t \in Slots \ {s} : d.backup[t] = dir.backup[t]
  <1> DEFINE d == [dir EXCEPT !.backup[s] = y]
             D == [target : [Ids -> Contents], backup : [Slots -> Contents], sidecar : [Slots -> Sidecars]]
             g == [dir.backup EXCEPT ![s] = y]
  <1>1. dir \in D /\ dir.backup \in [Slots -> Contents]
    BY ContentFacts
  <1>2. g \in [Slots -> Contents] /\ g[s] = y /\ \A t \in Slots \ {s} : g[t] = dir.backup[t]
    BY <1>1
  <1>3. d = [dir EXCEPT !.backup = g]
    BY <1>1
  <1> HIDE DEF g, d
  <1>4. d \in D /\ d.sidecar = dir.sidecar /\ d.target = dir.target /\ d.backup = g
    BY <1>1, <1>2, <1>3
  <1> QED
    BY <1>2, <1>4 DEF Directories, d

LEMMA TargetField ==
    ASSUME InstallInv, NEW i \in Ids, NEW x \in Contents
    PROVE  LET d == [dir EXCEPT !.target[i] = x] IN
           /\ d \in Directories /\ d.sidecar = dir.sidecar /\ d.backup = dir.backup
           /\ d.target[i] = x /\ \A k \in Ids \ {i} : d.target[k] = dir.target[k]
  <1> DEFINE d == [dir EXCEPT !.target[i] = x]
             D == [target : [Ids -> Contents], backup : [Slots -> Contents], sidecar : [Slots -> Sidecars]]
             f == [dir.target EXCEPT ![i] = x]
  <1>1. dir \in D /\ dir.target \in [Ids -> Contents]
    BY ContentFacts
  <1>2. f \in [Ids -> Contents] /\ f[i] = x /\ \A k \in Ids \ {i} : f[k] = dir.target[k]
    BY <1>1
  <1>3. d = [dir EXCEPT !.target = f]
    BY <1>1
  <1> HIDE DEF f, d
  <1>4. d \in D /\ d.sidecar = dir.sidecar /\ d.target = f /\ d.backup = dir.backup
    BY <1>1, <1>2, <1>3
  <1> QED
    BY <1>2, <1>4 DEF Directories, d

LEMMA SidecarField ==
    ASSUME InstallInv, NEW s \in Slots, NEW z \in Sidecars
    PROVE  LET d == [dir EXCEPT !.sidecar[s] = z] IN
           /\ d \in Directories /\ d.target = dir.target /\ d.backup = dir.backup
           /\ d.sidecar[s] = z /\ \A t \in Slots \ {s} : d.sidecar[t] = dir.sidecar[t]
  <1> DEFINE d == [dir EXCEPT !.sidecar[s] = z]
             D == [target : [Ids -> Contents], backup : [Slots -> Contents], sidecar : [Slots -> Sidecars]]
             f == [dir.sidecar EXCEPT ![s] = z]
  <1>1. dir \in D /\ dir.sidecar \in [Slots -> Sidecars]
    BY ContentFacts
  <1>2. f \in [Slots -> Sidecars] /\ f[s] = z /\ \A t \in Slots \ {s} : f[t] = dir.sidecar[t]
    BY <1>1
  <1>3. d = [dir EXCEPT !.sidecar = f]
    BY <1>1
  <1> HIDE DEF f, d
  <1>4. d \in D /\ d.target = dir.target /\ d.backup = dir.backup /\ d.sidecar = f
    BY <1>1, <1>2, <1>3
  <1> QED
    BY <1>2, <1>4 DEF Directories, d


LEMMA VacantFacts ==
    /\ Vacant \in Contents /\ Vacant.is = "none" /\ Vacant.own
    /\ NoSidecar \in Sidecars /\ NoSidecar.phase = "none"
    /\ \A i : NoSidecar # [id |-> i, phase |-> "owned"]
  <1>1. /\ Vacant \in Contents /\ Vacant.is = "none" /\ Vacant.own
        /\ NoSidecar \in Sidecars /\ NoSidecar.phase = "none"
    BY DEF Vacant, Contents, NoSidecar, Sidecars
  <1>2. ASSUME NEW i PROVE NoSidecar # [id |-> i, phase |-> "owned"]
    <2>1. [id |-> i, phase |-> "owned"].phase = "owned"
      OBVIOUS
    <2> QED
      BY <1>1, <2>1
  <1> QED
    BY <1>1, <1>2

LEMMA KeepsRestoreMove ==
    ASSUME InstallInv, NEW c \in Commands, RestoreMove(c)
    PROVE  InstallInv'
  <1> DEFINE r == job[c].rec
             x == dir.backup[r.slot]
  <1>0. /\ job[c] \in Jobs(c) /\ Local(c) /\ DirInv /\ LocalInv /\ Place(c)
        /\ Shape(dir) /\ Proves(dir) /\ Keeps(dir) /\ Forgets(dir)
    BY Facts
  <1>1. at[c] = "restoreMove" /\ at[c] \in RecordSteps /\ Quiet
    BY DEF RestoreMove, RecordSteps
  <1>2. /\ r \in BackupRecords /\ r.slot \in Slots /\ r.id \in Ids /\ Locked(c, r.id)
        /\ r.slot <= drawn
    BY <1>1, LockFacts
  <1>3. /\ dir.sidecar[r.slot] = [id |-> r.id, phase |-> "restoring"] /\ r.id \notin removed
        /\ x.own /\ Verified(x, r.id)
    BY <1>0, <1>1 DEF Place, SidecarIs
  <1>4. dir.sidecar[r.slot].id = r.id /\ dir.sidecar[r.slot].phase = "restoring"
    BY <1>3
  <1>5. CASE /\ dir.target[r.id].is = "none"
             /\ Change([dir EXCEPT !.target[r.id] = x, !.backup[r.slot] = Vacant])
             /\ Goto(c, "dropSidecar", job[c])
    <2>1. x \in Contents
      BY <1>2, ContentFacts
    <2>2. dir' = [dir EXCEPT !.target[r.id] = x, !.backup[r.slot] = Vacant]
      BY <1>5 DEF Change
    <2> HIDE DEF x, r
    <2>3. /\ dir' \in Directories /\ dir'.sidecar = dir.sidecar
          /\ dir'.target[r.id] = x /\ \A k \in Ids \ {r.id} : dir'.target[k] = dir.target[k]
          /\ dir'.backup[r.slot] = Vacant
          /\ \A t \in Slots \ {r.slot} : dir'.backup[t] = dir.backup[t]
      <3> DEFINE d == Put(r.id, x, r.slot, Vacant)
      <3>1. /\ d \in Directories /\ d.sidecar = dir.sidecar
            /\ d.target[r.id] = x /\ \A k \in Ids \ {r.id} : d.target[k] = dir.target[k]
            /\ d.backup[r.slot] = Vacant /\ \A t \in Slots \ {r.slot} : d.backup[t] = dir.backup[t]
        <4>1. Vacant \in Contents /\ r.id \in Ids /\ r.slot \in Slots
          BY <1>2, VacantFacts
        <4> QED
          BY <2>1, <4>1, DirFields
      <3>2. dir' = d
        BY <2>2 DEF Put
      <3> HIDE DEF d
      <3> QED
        BY <3>1, <3>2
    <2>4. /\ UNCHANGED <<setting, drawn, wanted, removed>> /\ dir' \in unsynced'
          /\ unsynced' = unsynced \cup {dir'}
      BY <1>1, <1>5 DEF Quiet, Change
    <2>5. Shape(dir)'
      <3>1. x.is = "package" /\ Id(x.pkg) = r.id /\ x.pkg \in Packages
        BY <1>0, <1>2, <1>3 DEF Verified, Shape, x
      <3>2. \A i \in Ids : dir'.target[i].is = "package" =>
               dir'.target[i].pkg \in Packages /\ Id(dir'.target[i].pkg) = i
        BY <1>0, <2>3, <3>1 DEF Shape
      <3>3. \A s \in Slots : s > drawn => s # r.slot
        BY <1>2, <1>0, SlotFacts
      <3> QED
        BY <1>0, <2>3, <2>4, <3>2, <3>3, VacantFacts DEF Shape
    <2>6. Proves(dir)'
      BY <1>0, <1>4, <2>3 DEF Proves
    <2>7. Keeps(dir)'
      <3>1. ASSUME NEW i \in wanted
            PROVE  /\ dir'.target[i].is # "corrupt"
                   /\ \/ Verified(dir'.target[i], i)
                      \/ \E s \in Slots : /\ dir'.sidecar[s].id = i
                                          /\ dir'.backup[s].own /\ Verified(dir'.backup[s], i)
        <4>0. i \in Ids
          BY <1>0 DEF DirInv
        <4>1. CASE i = r.id
          BY <1>3, <2>3, <4>1 DEF Verified
        <4>2. CASE i # r.id
          BY <1>0, <1>4, <2>3, <4>0, <4>2 DEF Keeps
        <4> QED
          BY <4>1, <4>2
      <3> QED
        BY <2>4, <3>1 DEF Keeps
    <2>8. Forgets(dir)'
      BY <1>0, <1>3, <2>3, <2>4 DEF Forgets, DirInv
    <2>9. DirInv'
      BY <1>0, <2>4, <2>5, <2>6, <2>7, <2>8, NewDir DEF Good
    <2>10. Touches(c)
      BY <1>0, <1>2, <1>4, <2>3, <2>4, SlotFacts DEF Touches
    <2>11. \A i : Spare(i) => Spare(i)'
      BY <1>0, <1>3, <2>3, <2>4 DEF Spare, Verified, DirInv
    <2>12. at'[c] = "dropSidecar" /\ job'[c] = job[c]
      BY <1>0, <1>5, <2>4, Moved DEF Steps
    <2>13. Around(c)'
      BY <1>0, <1>1, <2>3, <2>4, <2>11, <2>12, AroundKeeps
    <2>14. Place(c)'
      BY <1>4, <2>3, <2>12, <2>13, VacantFacts DEF Place, RecordSteps, Around, r
    <2> QED
      BY <1>1, <1>5, <2>4, <2>9, <2>10, <2>14, RecordStepOn DEF RecordSteps
  <1>6. CASE Persist(SetPhase(r.slot, "owned")) /\ Error(c)
    <2>1. IsDir(x)
      BY <1>3 DEF Verified, IsDir
    <2>2. Touches(c) /\ DirInv' /\ drawn' = drawn
      BY <1>1, <1>2, <1>3, <1>4, <1>6, <2>1, PhaseKeeps DEF Phases
    <2> QED
      BY <1>1, <1>6, <2>2, ErrorKeeps
  <1> QED
    BY <1>5, <1>6 DEF RestoreMove, Step

\* What is in a backup that was given up may go, or be left in part.
LEMMA CleaningKeeps ==
    ASSUME InstallInv, NEW c \in Commands, at[c] = "erase", NEW y \in Contents,
           Change([dir EXCEPT !.backup[job[c].rec.slot] = y]), y.is # "package",
           y.is = "none" => y.own, UNCHANGED <<setting, drawn, wanted, removed>>
    PROVE  /\ Touches(c) /\ DirInv' /\ dir'.sidecar = dir.sidecar /\ dir'.target = dir.target
           /\ dir'.backup[job[c].rec.slot] = y
           /\ dir.sidecar[job[c].rec.slot] = [id |-> job[c].rec.id, phase |-> "cleaning"]
           /\ dir.backup[job[c].rec.slot].own
  <1> DEFINE r == job[c].rec
  <1>0. /\ DirInv /\ Place(c) /\ Shape(dir) /\ Proves(dir) /\ Keeps(dir) /\ Forgets(dir)
    BY Facts
  <1>1. at[c] \in RecordSteps
    BY DEF RecordSteps
  <1>2. r.slot \in Slots /\ r.id \in Ids /\ Locked(c, r.id) /\ r.slot <= drawn
    BY <1>1, LockFacts
  <1>3. /\ dir.sidecar[r.slot] = [id |-> r.id, phase |-> "cleaning"] /\ Spare(r.id)
        /\ dir.backup[r.slot].own
    BY <1>0 DEF Place, SidecarIs
  <1>4. dir.sidecar[r.slot].id = r.id /\ dir.sidecar[r.slot].phase = "cleaning"
    BY <1>3
  <1>5. dir' = [dir EXCEPT !.backup[r.slot] = y] /\ unsynced' = unsynced \cup {dir'}
    BY DEF Change
  <1> HIDE DEF r
  <1>6. /\ dir' \in Directories /\ dir'.sidecar = dir.sidecar /\ dir'.target = dir.target
        /\ dir'.backup[r.slot] = y /\ \A t \in Slots \ {r.slot} : dir'.backup[t] = dir.backup[t]
    BY <1>2, <1>5, BackupField
  <1>7. Shape(dir)'
    <2>1. \A s \in Slots : s > drawn => s # r.slot
      BY <1>2, <1>0, SlotFacts
    <2> QED
      BY <1>0, <1>6, <2>1 DEF Shape
  <1>8. Proves(dir)'
    BY <1>0, <1>4, <1>6 DEF Proves
  <1>9. Keeps(dir)'
    <2>1. ASSUME NEW i \in wanted
          PROVE  /\ dir'.target[i].is # "corrupt"
                 /\ \/ Verified(dir'.target[i], i)
                    \/ \E s \in Slots : /\ dir'.sidecar[s].id = i
                                        /\ dir'.backup[s].own /\ Verified(dir'.backup[s], i)
      <3>1. CASE i = r.id
        BY <1>0, <1>3, <1>6, <3>1 DEF Spare, Keeps
      <3>2. CASE i # r.id
        BY <1>0, <1>4, <1>6, <3>2 DEF Keeps
      <3> QED
        BY <3>1, <3>2
    <2> QED
      BY <2>1 DEF Keeps
  <1>10. Forgets(dir)'
    BY <1>0, <1>6 DEF Forgets
  <1>11. DirInv'
    BY <1>0, <1>5, <1>7, <1>8, <1>9, <1>10, NewDir DEF Good
  <1>12. Touches(c)
    BY <1>0, <1>2, <1>4, <1>6, SlotFacts DEF Touches
  <1> QED
    BY <1>3, <1>6, <1>11, <1>12 DEF r

LEMMA KeepsErase ==
    ASSUME InstallInv, NEW c \in Commands, Erase(c)
    PROVE  InstallInv'
  <1>0. LocalInv /\ Place(c) /\ job[c] \in Jobs(c)
    BY Facts
  <1>1. /\ at[c] = "erase" /\ at[c] \in RecordSteps /\ Goto(c, "dropSidecar", job[c])
        /\ Change([dir EXCEPT !.backup[job[c].rec.slot] = Vacant])
        /\ UNCHANGED <<setting, drawn, wanted, removed>>
    BY DEF Erase, Step, Quiet, RecordSteps
  <1>2. /\ Touches(c) /\ DirInv' /\ dir'.sidecar = dir.sidecar /\ dir'.target = dir.target
        /\ dir'.backup[job[c].rec.slot] = Vacant
        /\ dir.sidecar[job[c].rec.slot] = [id |-> job[c].rec.id, phase |-> "cleaning"]
    BY <1>1, CleaningKeeps, VacantFacts
  <1>3. \A i : Spare(i) => Spare(i)'
    BY <1>1, <1>2 DEF Spare
  <1>4. at'[c] = "dropSidecar" /\ job'[c] = job[c]
    BY <1>0, <1>1, Moved DEF Steps
  <1>5. Around(c)'
    BY <1>0, <1>1, <1>2, <1>3, <1>4, AroundKeeps
  <1>6. Place(c)'
    BY <1>2, <1>4, <1>5, VacantFacts DEF Place, RecordSteps, Around
  <1> QED
    BY <1>1, <1>2, <1>6, RecordStepOn DEF RecordSteps

LEMMA KeepsRemoveBegin ==
    ASSUME InstallInv, NEW c \in Commands, RemoveBegin(c)
    PROVE  InstallInv'
  <1> DEFINE r == job[c].rec
  <1>0. /\ job[c] \in Jobs(c) /\ Local(c) /\ DirInv /\ LocalInv /\ Place(c) /\ Proves(dir)
    BY Facts
  <1>1. at[c] = "remove" /\ at[c] \in RecordSteps /\ Quiet
    BY DEF RemoveBegin, RecordSteps
  <1>2. r \in BackupRecords /\ r.slot \in Slots /\ r.id \in Ids /\ Locked(c, r.id)
    BY <1>1, LockFacts
  <1>3. UNCHANGED <<setting, drawn, wanted, removed>>
    BY <1>1 DEF Quiet
  <1>4. CASE Unchanged(r) /\ r.phase = "owned" /\ GiveUp(c, r)
    <2>1. /\ dir.sidecar[r.slot].id = r.id /\ dir.sidecar[r.slot].phase = "owned"
      BY <1>0, <1>2, <1>4, UnchangedFacts
    <2>2. Persist(SetPhase(r.slot, "cleaning")) /\ Goto(c, "erase", job[c])
      BY <1>4 DEF GiveUp, Step
    <2>3. /\ dir'.backup = dir.backup /\ dir'.target = dir.target
          /\ dir'.sidecar[r.slot] = [id |-> r.id, phase |-> "cleaning"]
      BY <1>2, <2>1, <2>2, PhaseFacts DEF Persist, Phases
    <2>4. /\ Touches(c) /\ DirInv' /\ drawn' = drawn /\ \A i : Spare(i) => Spare(i)'
          /\ \A t \in Slots : \A i : dir'.sidecar[t] = [id |-> i, phase |-> "owned"]
                                 => dir.sidecar[t] = [id |-> i, phase |-> "owned"]
      BY <1>1, <1>2, <2>1, <2>2, PhaseKeeps DEF Phases
    <2>5. at'[c] = "erase" /\ job'[c] = job[c]
      BY <1>0, <1>3, <2>2, Moved DEF Steps
    <2>6. Around(c)'
      BY <1>0, <1>1, <1>3, <2>4, <2>5, AroundKeeps
    <2>7. Spare(r.id)'
      BY <1>0, <1>1, <2>4, <2>5 DEF Place, Spare
    <2>8. dir.backup[r.slot].own /\ IsDir(dir.backup[r.slot])
      BY <1>0, <1>2, <2>1 DEF Proves
    <2>9. Place(c)'
      BY <2>3, <2>5, <2>6, <2>7, <2>8 DEF Place, RecordSteps, SidecarIs, IsDir, Around, Spare
    <2> QED
      BY <1>1, <2>2, <2>4, <2>9, RecordStepOn DEF RecordSteps
  <1>5. CASE /\ Unchanged(r) /\ r.phase \in {"prepared", "restoring", "cleaning"}
             /\ dir.backup[r.slot].is = "none"
             /\ SameDir \/ Sync
             /\ Goto(c, "dropSidecar", job[c])
    <2>1. /\ dir.sidecar[r.slot].id = r.id /\ dir.sidecar[r.slot].phase = r.phase
      BY <1>0, <1>2, <1>5, UnchangedFacts
    <2>2. Stays
      BY <1>1, <1>5, StaysFrom
    <2>3. Touches(c) /\ DirInv' /\ drawn' = drawn /\ dir' = dir
      BY <2>2, StaysKeeps DEF Stays
    <2>4. at'[c] = "dropSidecar" /\ job'[c] = job[c]
      BY <1>0, <1>3, <1>5, Moved DEF Steps
    <2>5. \A i : Spare(i) => Spare(i)'
      BY <1>3, <2>3 DEF Spare
    <2>6. Around(c)'
      BY <1>0, <1>1, <1>3, <2>3, <2>4, <2>5, AroundKeeps
    <2>7. Place(c)'
      BY <1>5, <2>1, <2>3, <2>4, <2>6 DEF Place, RecordSteps, Around
    <2> QED
      BY <1>1, <1>5, <2>3, <2>7, RecordStepOn DEF RecordSteps
  <1>6. CASE SameDir /\ Error(c)
    BY <1>1, <1>6, StaysFrom, StaysKeeps, ErrorKeeps DEF Stays
  <1> QED
    BY <1>4, <1>5, <1>6 DEF RemoveBegin, Step

LEMMA KeepsDropSidecar ==
    ASSUME InstallInv, NEW c \in Commands, DropSidecar(c)
    PROVE  InstallInv'
  <1> DEFINE r == job[c].rec
  <1>0. /\ job[c] \in Jobs(c) /\ Local(c) /\ DirInv /\ LocalInv /\ Place(c)
        /\ Shape(dir) /\ Proves(dir) /\ Keeps(dir) /\ Forgets(dir)
    BY Facts
  <1>1. /\ at[c] = "dropSidecar" /\ at[c] \in RecordSteps /\ Goto(c, "dropped", job[c])
        /\ dir' = [dir EXCEPT !.sidecar[r.slot] = NoSidecar] /\ unsynced' = {dir, dir'}
        /\ UNCHANGED <<setting, drawn, wanted, removed>>
    BY DEF DropSidecar, RecordSteps, Step, SyncThen, Quiet
  <1>2. r.slot \in Slots /\ r.id \in Ids /\ Locked(c, r.id)
    BY <1>1, LockFacts
  <1>3. /\ dir.sidecar[r.slot].id = r.id /\ dir.sidecar[r.slot].phase # "none"
        /\ ~(dir.backup[r.slot].own /\ dir.backup[r.slot].is = "package")
    BY <1>0, <1>1 DEF Place
  <1> HIDE DEF r
  <1>4. /\ dir' \in Directories /\ dir'.target = dir.target /\ dir'.backup = dir.backup
        /\ dir'.sidecar[r.slot] = NoSidecar
        /\ \A t \in Slots \ {r.slot} : dir'.sidecar[t] = dir.sidecar[t]
    BY <1>1, <1>2, VacantFacts, SidecarField
  <1>5. Shape(dir)'
    BY <1>0, <1>1, <1>4, VacantFacts DEF Shape
  <1>6. Proves(dir)'
    BY <1>0, <1>4, VacantFacts DEF Proves
  <1>7. Keeps(dir)'
    <2>1. ASSUME NEW i \in wanted
          PROVE  /\ dir'.target[i].is # "corrupt"
                 /\ \/ Verified(dir'.target[i], i)
                    \/ \E s \in Slots : /\ dir'.sidecar[s].id = i
                                        /\ dir'.backup[s].own /\ Verified(dir'.backup[s], i)
      BY <1>0, <1>3, <1>4 DEF Keeps, Verified
    <2> QED
      BY <1>1, <2>1 DEF Keeps
  <1>8. Forgets(dir)'
    BY <1>0, <1>1, <1>4, VacantFacts DEF Forgets
  <1>9. DirInv'
    <2>1. unsynced' \subseteq unsynced \cup {dir'}
      BY <1>0, <1>1 DEF DirInv
    <2> QED
      BY <1>0, <1>1, <1>5, <1>6, <1>7, <1>8, <2>1, NewDir DEF Good
  <1>10. Touches(c)
    BY <1>0, <1>1, <1>2, <1>3, <1>4, SlotFacts, VacantFacts DEF Touches
  <1>11. at'[c] = "dropped" /\ job'[c] = job[c]
    BY <1>0, <1>1, Moved DEF Steps
  <1>12. \A i : Spare(i) => Spare(i)'
    BY <1>1, <1>4 DEF Spare
  <1>13. Around(c)'
    BY <1>0, <1>1, <1>4, <1>11, <1>12, VacantFacts, AroundKeeps
  <1>14. Place(c)'
    BY <1>4, <1>11, <1>13 DEF Place, RecordSteps, Around, r
  <1> QED
    BY <1>1, <1>9, <1>10, <1>14, RecordStepOn DEF RecordSteps

\* The record is gone: on to what the removal or the restoration was for.
LEMMA KeepsDropped ==
    ASSUME InstallInv, NEW c \in Commands, Dropped(c)
    PROVE  InstallInv'
  <1> DEFINE less == [job[c] EXCEPT !.recs = @ \ {job[c].rec}]
  <1>0. /\ job[c] \in Jobs(c) /\ Local(c) /\ DirInv /\ LocalInv /\ Place(c)
    BY Facts
  <1>1. at[c] = "dropped" /\ Stays /\ setting' = setting /\ drawn' = drawn /\ dir' = dir /\ wanted' = wanted
    BY StaysFrom DEF Dropped, Stays
  <1>2. /\ at[c] \in RecordSteps /\ dir.sidecar[job[c].rec.slot] = NoSidecar
        /\ Touches(c) /\ DirInv'
    BY <1>0, <1>1, StaysKeeps DEF RecordSteps, Place
  <1>3. CASE job[c].then = "recover" /\ Goto(c, "recover", [job[c] EXCEPT !.held = {}])
    <2> DEFINE j == [job[c] EXCEPT !.held = {}]
    <2>1. j \in Jobs(c) /\ j.held = {} /\ j.recs = job[c].recs
      BY <1>0 DEF Jobs
    <2>2. Goto(c, "recover", j)
      BY <1>3
    <2> HIDE DEF j
    <2>3. at'[c] = "recover" /\ job'[c] = j
      BY <1>0, <1>1, <2>1, <2>2, Moved DEF Steps
    <2>4. Local(c)'
      BY <1>0, <1>1, <1>3, <2>1, <2>3 DEF Local, Kinds, Held, Record, InCommit, InRemoval, InUpkeep, RecordSteps,
       Replacing, Ended, Locked, Work
    <2>5. Place(c)'
      BY <2>3 DEF Place, RecordSteps
    <2> QED
      BY <1>1, <2>1, <2>2, <2>4, <2>5, QuietStep DEF Steps
  <1>4. CASE job[c].then = "sweep" /\ Goto(c, "sweep", [less EXCEPT !.held = {}])
    <2>1. [less EXCEPT !.held = {}] = [job[c] EXCEPT !.held = {}, !.bad = job[c].bad, !.recs = @ \ {job[c].rec}]
          /\ job[c].bad \in BOOLEAN
      BY <1>0 DEF Jobs
    <2> QED
      BY <1>1, <1>2, <1>4, <2>1, SweepOn
  <1>5. CASE job[c].then = "clear" /\ Goto(c, "clear", less)
    <2>1. /\ less \in Jobs(c) /\ less.held = job[c].held /\ less.recs \subseteq job[c].recs
          /\ less.ready = job[c].ready /\ less.then = job[c].then
      BY <1>0 DEF Jobs
    <2> HIDE DEF less
    <2>2. at'[c] = "clear" /\ job'[c] = less
      BY <1>0, <1>1, <1>5, <2>1, Moved DEF Steps
    <2>3. MyIds(c)' = MyIds(c) /\ NowId(c)' = NowId(c) /\ Work(c)' = Work(c)
      BY <1>1, <2>1, <2>2, SameReady
    <2>4. Local(c)'
      BY <1>0, <1>1, <1>2, <1>5, <2>1, <2>2, <2>3 DEF Local, Kinds, Held, Record, InCommit, InRemoval, InUpkeep, RecordSteps,
       Replacing, Ended, Locked
    <2>5. Place(c)'
      BY <1>0, <1>1, <1>2, <1>5, <2>2, <2>3 DEF Place, RecordSteps, Spare
    <2> QED
      BY <1>1, <1>5, <2>1, <2>4, <2>5, QuietStep DEF Steps
  <1>6. CASE job[c].then = "unlist" /\ Goto(c, "unlist", less)
    <2>1. /\ less \in Jobs(c) /\ less.held = job[c].held /\ less.recs = job[c].recs \ {job[c].rec}
          /\ less.ready = job[c].ready /\ less.then = job[c].then
      BY <1>0 DEF Jobs
    <2> HIDE DEF less
    <2>2. at'[c] = "unlist" /\ job'[c] = less
      BY <1>0, <1>1, <1>6, <2>1, Moved DEF Steps
    <2>3. MyIds(c)' = MyIds(c) /\ NowId(c)' = NowId(c) /\ Work(c)' = Work(c)
      BY <1>1, <2>1, <2>2, SameReady
    <2>4. Local(c)'
      BY <1>0, <1>1, <1>2, <1>6, <2>1, <2>2, <2>3 DEF Local, Kinds, Held, Record, InCommit, InRemoval, InUpkeep, RecordSteps,
       Replacing, Ended, Locked
    <2>5. \A s \in Slots : dir.sidecar[s] = [id |-> Work(c).id, phase |-> "owned"]
                             => \E q \in less.recs : q.slot = s
      <3>1. ASSUME NEW s \in Slots, dir.sidecar[s] = [id |-> Work(c).id, phase |-> "owned"]
            PROVE  \E q \in less.recs : q.slot = s
        <4>1. s # job[c].rec.slot
          BY <1>2, <3>1, VacantFacts
        <4> QED
          BY <1>0, <1>2, <1>6, <2>1, <3>1, <4>1 DEF Place
      <3> QED
        BY <3>1
    <2>6. Place(c)'
      BY <1>0, <1>1, <1>2, <1>6, <2>2, <2>3, <2>5 DEF Place, RecordSteps, Spare
    <2> QED
      BY <1>1, <1>6, <2>1, <2>4, <2>6, QuietStep DEF Steps
  <1>7. CASE job[c].then = "pending" /\ Goto(c, "pending", job[c])
    <2>1. at'[c] = "pending" /\ job'[c] = job[c]
      BY <1>0, <1>1, <1>7, Moved DEF Steps
    <2>2. MyIds(c)' = MyIds(c) /\ NowId(c)' = NowId(c) /\ Work(c)' = Work(c)
      BY <1>1, <2>1, SameReady
    <2>3. Local(c)'
      BY <1>0, <1>1, <1>2, <1>7, <2>1, <2>2 DEF Local, Kinds, Held, Record, InCommit, InRemoval, InUpkeep, RecordSteps,
       Replacing, Ended, Locked
    <2>4. Place(c)'
      BY <2>1 DEF Place, RecordSteps
    <2> QED
      BY <1>0, <1>1, <1>7, <2>3, <2>4, QuietStep DEF Steps
  <1>8. CASE job[c].then = "commit" /\ Goto(c, "commit", [job[c] EXCEPT !.ready = Tail(@)])
    <2> DEFINE j == [job[c] EXCEPT !.ready = Tail(@)]
    <2>1. InCommit(c) /\ job[c].ready # <<>>
      BY <1>0, <1>1, <1>2, <1>8 DEF InCommit, Local, Record
    <2>2. Tail(job[c].ready) \in Seq(ReadyItems)
      <3>1. job[c].ready \in Seq(ReadyItems)
        BY <1>0 DEF Jobs
      <3> QED
        BY <2>1, <3>1
    <2>3. j \in Jobs(c) /\ j.held = job[c].held /\ j.recs = job[c].recs /\ j.ready = Tail(job[c].ready)
      BY <1>0, <2>2 DEF Jobs
    <2>4. Goto(c, "commit", j)
      BY <1>8
    <2> HIDE DEF j
    <2>5. at'[c] = "commit" /\ job'[c] = j
      BY <1>0, <1>1, <2>3, <2>4, Moved DEF Steps
    <2>6. MyIds(c)' \subseteq MyIds(c) /\ Work(c)' = Work(c)
      BY <1>1, <2>1, <2>3, <2>5, LessReady
    <2>7. Local(c)'
      BY <1>0, <1>1, <1>2, <2>1, <2>3, <2>5, <2>6 DEF Local, Kinds, Held, Record, InCommit, InRemoval, InUpkeep, RecordSteps,
       Replacing, Ended, Locked
    <2>8. Place(c)'
      BY <2>5 DEF Place, RecordSteps
    <2> QED
      BY <1>1, <2>3, <2>4, <2>7, <2>8, QuietStep DEF Steps
  <1>9. CASE End(c, "failed")
    BY <1>1, <1>9, QuietEnd DEF Ended
  <1>10. \/ job[c].then = "recover" /\ Goto(c, "recover", [job[c] EXCEPT !.held = {}])
         \/ job[c].then = "sweep" /\ Goto(c, "sweep", [less EXCEPT !.held = {}])
         \/ job[c].then \in {"clear", "unlist"} /\ Goto(c, job[c].then, less)
         \/ job[c].then = "pending" /\ Goto(c, "pending", job[c])
         \/ job[c].then = "commit" /\ Goto(c, "commit", [job[c] EXCEPT !.ready = Tail(@)])
         \/ End(c, "failed")
    BY DEF Dropped, Step
  <1>11. job[c].then \in {"clear", "unlist"} /\ Goto(c, job[c].then, less)
         => \/ job[c].then = "clear" /\ Goto(c, "clear", less)
            \/ job[c].then = "unlist" /\ Goto(c, "unlist", less)
    BY Zenon
  <1> QED
    BY <1>3, <1>4, <1>5, <1>6, <1>7, <1>8, <1>9, <1>10, <1>11


-----------------------------------------------------------------------------
(* commit_prepared_closure and commit_install_locked. *)

LEMMA KeepsCheckPlan ==
    ASSUME InstallInv, NEW c \in Commands, CheckPlan(c)
    PROVE  InstallInv'
  <1>0. job[c] \in Jobs(c) /\ Local(c) /\ LocalInv
    BY Facts
  <1>1. /\ Stays /\ at[c] = "check" /\ Work(c).kind = "install"
        /\ End(c, "failed") \/ Goto(c, "commit", job[c])
    BY StaysFrom DEF CheckPlan, Step
  <1>2. CASE Goto(c, "commit", job[c])
    <2>1. at'[c] = "commit" /\ job'[c] = job[c] /\ setting' = setting /\ drawn' = drawn
      BY <1>0, <1>1, <1>2, Moved DEF Stays, Steps
    <2>2. MyIds(c)' = MyIds(c) /\ Work(c)' = Work(c)
      BY <2>1, SameReady
    <2>3. Local(c)'
      BY <1>0, <1>1, <2>1, <2>2 DEF Local, Kinds, Held, Record, InCommit, InRemoval, InUpkeep, RecordSteps,
       Replacing, Ended, Locked
    <2>4. Place(c)'
      BY <2>1 DEF Place, RecordSteps
    <2> QED
      BY <1>0, <1>1, <1>2, <2>3, <2>4, QuietStep DEF Steps
  <1> QED
    BY <1>1, <1>2, QuietEnd DEF Ended

\* A step of the commit that keeps its job but for record, continuation and list.
LEMMA CommitOn ==
    ASSUME InstallInv, NEW c \in Commands, InCommit(c), job[c].ready # <<>>,
           NEW step \in Steps, NEW j \in Jobs(c), Goto(c, step, j), setting' = setting, drawn' = drawn,
           step \in {"pending", "clear", "mark", "move", "own", "publish", "published"}
           \/ (step \in RecordSteps /\ j.then \in {"clear", "pending", "commit", "rollback"}),
           j.held = job[c].held, j.ready = job[c].ready,
           step \in RecordSteps \cup {"move", "own"} \/ (step \in {"publish", "published"} /\ Now(c).replace)
             => j.rec \in BackupRecords /\ j.rec.slot <= drawn /\ j.rec.id = NowId(c),
           step \in {"restore", "move", "own"} \/ (step \in {"publish", "published"} /\ Now(c).replace)
             => j.rec.phase = "owned",
           step \in RecordSteps \cup {"clear"} => \A r \in j.recs : r.id = NowId(c) \/ j.then # "clear",
           step = "clear" => \A r \in j.recs : r.id = NowId(c),
           \A r \in j.recs : r.slot <= drawn
    PROVE  Local(c)'
  <1>0. job[c] \in Jobs(c) /\ Local(c) /\ LocalInv
    BY Facts
  <1>1. at'[c] = step /\ job'[c] = j
    BY <1>0, Moved
  <1>2. MyIds(c)' = MyIds(c) /\ NowId(c)' = NowId(c) /\ Now(c)' = Now(c) /\ Work(c)' = Work(c)
    BY <1>1, SameReady
  <1>3. Work(c).kind = "install" /\ at[c] \notin Ended /\ c \in DOMAIN setting.work
    BY <1>0 DEF Local, Kinds, InCommit, RecordSteps, Ended
  <1>4. Locked(c, NowId(c)) /\ \A i \in MyIds(c) : Locked(c, i)
    BY <1>0, LockFacts DEF Local, Held
  <1>5. Kinds(c)'
    BY <1>1, <1>2, <1>3 DEF Kinds, InCommit, InRemoval, InUpkeep, RecordSteps
  <1>6. Held(c)'
    BY <1>1, <1>2, <1>4 DEF Held, InCommit, InRemoval, RecordSteps, Locked
  <1>7. Replacing(c)' => j.rec \in BackupRecords /\ j.rec.slot <= drawn /\ j.rec.id = NowId(c)
                         /\ j.rec.phase = "owned"
    BY <1>1, <1>2 DEF Replacing
  <1>8. Record(c)'
    BY <1>1, <1>2, <1>7 DEF Record, RecordSteps
  <1> QED
    BY <1>5, <1>6, <1>8 DEF Local

LEMMA KeepsCommitBegin ==
    ASSUME InstallInv, NEW c \in Commands, CommitBegin(c)
    PROVE  InstallInv'
  <1> DEFINE i == NowId(c)
  <1>0. job[c] \in Jobs(c) /\ Local(c) /\ LocalInv /\ DirInv
    BY Facts
  <1>1. /\ Stays /\ at[c] = "commit" /\ job[c].ready # <<>> /\ InCommit(c)
        /\ setting' = setting /\ drawn' = drawn
    BY StaysFrom DEF CommitBegin, Stays, InCommit
  <1>2. \A r \in job[c].recs : r.slot <= drawn
    BY <1>0 DEF Local, Record
  <1>3. CASE End(c, "failed")
    BY <1>1, <1>3, QuietEnd DEF Ended
  <1>4. ASSUME ~Ambiguous(i), NEW r \in Occupied(i),
               Goto(c, "restore", [job[c] EXCEPT !.rec = r, !.then = "pending"])
        PROVE  InstallInv'
    <2> DEFINE j == [job[c] EXCEPT !.rec = r, !.then = "pending"]
    <2>1. /\ r \in BackupRecords /\ r.id = i /\ r.phase = "owned" /\ r.slot <= drawn
      BY <1>0, <1>4, RecordFacts DEF Occupied, RecordsFor, Ambiguous
    <2>2. /\ j \in Jobs(c) /\ j.held = job[c].held /\ j.rec = r /\ j.then = "pending"
          /\ j.recs = job[c].recs /\ j.ready = job[c].ready
      BY <1>0, <2>1 DEF Jobs, Continuations
    <2>3. Goto(c, "restore", j)
      BY <1>4
    <2> HIDE DEF j
    <2>4. at'[c] = "restore" /\ job'[c] = j
      BY <1>0, <1>1, <2>2, <2>3, Moved DEF Steps
    <2>5. Local(c)'
      BY <1>1, <1>2, <2>1, <2>2, <2>3, CommitOn DEF Steps, RecordSteps
    <2>6. Place(c)'
      BY <2>2, <2>4 DEF Place, RecordSteps
    <2> QED
      BY <1>1, <2>2, <2>3, <2>5, <2>6, QuietStep DEF Steps
  <1>5. CASE Goto(c, "pending", job[c])
    <2>1. at'[c] = "pending" /\ job'[c] = job[c]
      BY <1>0, <1>1, <1>5, Moved DEF Steps
    <2>2. Local(c)'
      BY <1>0, <1>1, <1>2, <1>5, CommitOn DEF Steps, RecordSteps
    <2>3. Place(c)'
      BY <2>1 DEF Place, RecordSteps
    <2> QED
      BY <1>0, <1>1, <1>5, <2>2, <2>3, QuietStep DEF Steps
  <1> QED
    BY <1>3, <1>4, <1>5 DEF CommitBegin, Step

LEMMA KeepsPending ==
    ASSUME InstallInv, NEW c \in Commands, Pending(c)
    PROVE  InstallInv'
  <1> DEFINE i == NowId(c)
             R == RecordsFor(i)
  <1>0. job[c] \in Jobs(c) /\ Local(c) /\ LocalInv /\ DirInv
    BY Facts
  <1>1. /\ Stays /\ at[c] = "pending" /\ InCommit(c)
        /\ setting' = setting /\ drawn' = drawn /\ dir' = dir /\ wanted' = wanted
    BY StaysFrom DEF Pending, Stays, InCommit
  <1>2. job[c].ready # <<>> /\ \A r \in job[c].recs : r.slot <= drawn
    BY <1>0, <1>1 DEF Local, Record
  <1>3. CASE End(c, "failed")
    BY <1>1, <1>3, QuietEnd DEF Ended
  <1>4. CASE Goto(c, "mark", job[c])
    <2>1. at'[c] = "mark" /\ job'[c] = job[c]
      BY <1>0, <1>1, <1>4, Moved DEF Steps
    <2>2. Local(c)'
      BY <1>0, <1>1, <1>2, <1>4, CommitOn DEF Steps, RecordSteps
    <2>3. Place(c)'
      BY <2>1 DEF Place, RecordSteps
    <2> QED
      BY <1>0, <1>1, <1>4, <2>2, <2>3, QuietStep DEF Steps
  <1>5. CASE Verified(dir.target[i], i) /\ Goto(c, "clear", [job[c] EXCEPT !.recs = R])
    <2> DEFINE j == [job[c] EXCEPT !.recs = R]
    <2>1. \A r \in R : r \in BackupRecords /\ r.id = i /\ r.slot <= drawn
      BY <1>0, RecordFacts DEF RecordsFor
    <2>2. Goto(c, "clear", j)
      BY <1>5
    <2> HIDE DEF R, i
    <2>3. /\ j \in Jobs(c) /\ j.held = job[c].held /\ j.recs = R /\ j.ready = job[c].ready
      BY <1>0, <2>1 DEF Jobs
    <2> HIDE DEF j
    <2>4. at'[c] = "clear" /\ job'[c] = j
      BY <1>0, <1>1, <2>2, <2>3, Moved DEF Steps
    <2>5. Local(c)'
      BY <1>1, <1>2, <2>1, <2>2, <2>3, CommitOn DEF Steps, RecordSteps, i
    <2>6. NowId(c)' = NowId(c)
      BY <1>1, <2>3, <2>4, SameReady
    <2>7. Place(c)'
      BY <1>1, <1>5, <2>4, <2>6 DEF Place, RecordSteps, Spare, Verified, i
    <2> QED
      BY <1>1, <2>2, <2>3, <2>5, <2>7, QuietStep DEF Steps
  <1> QED
    BY <1>3, <1>4, <1>5 DEF Pending, Step

LEMMA KeepsClear ==
    ASSUME InstallInv, NEW c \in Commands, Clear(c)
    PROVE  InstallInv'
  <1>0. job[c] \in Jobs(c) /\ Local(c) /\ LocalInv /\ DirInv /\ Place(c)
    BY Facts
  <1>1. /\ Stays /\ at[c] = "clear" /\ InCommit(c)
        /\ setting' = setting /\ drawn' = drawn /\ dir' = dir /\ wanted' = wanted
    BY StaysFrom DEF Clear, Stays, InCommit
  <1>2. /\ job[c].ready # <<>> /\ \A r \in job[c].recs : r.slot <= drawn /\ r.id = NowId(c)
        /\ Spare(NowId(c))
    BY <1>0, <1>1 DEF Local, Record, Place
  <1>3. CASE Goto(c, "mark", job[c])
    <2>1. at'[c] = "mark" /\ job'[c] = job[c]
      BY <1>0, <1>1, <1>3, Moved DEF Steps
    <2>2. Local(c)'
      BY <1>0, <1>1, <1>2, <1>3, CommitOn DEF Steps, RecordSteps
    <2>3. Place(c)'
      BY <2>1 DEF Place, RecordSteps
    <2> QED
      BY <1>0, <1>1, <1>3, <2>2, <2>3, QuietStep DEF Steps
  <1>4. ASSUME NEW r \in job[c].recs, Goto(c, "remove", [job[c] EXCEPT !.rec = r, !.then = "clear"])
        PROVE  InstallInv'
    <2> DEFINE j == [job[c] EXCEPT !.rec = r, !.then = "clear"]
    <2>1. r \in BackupRecords /\ r.id = NowId(c) /\ r.slot <= drawn
      BY <1>0, <1>2 DEF Jobs
    <2>2. /\ j \in Jobs(c) /\ j.held = job[c].held /\ j.rec = r /\ j.then = "clear"
          /\ j.recs = job[c].recs /\ j.ready = job[c].ready
      BY <1>0, <2>1 DEF Jobs, Continuations
    <2>3. Goto(c, "remove", j)
      BY <1>4
    <2> HIDE DEF j
    <2>4. at'[c] = "remove" /\ job'[c] = j
      BY <1>0, <1>1, <2>2, <2>3, Moved DEF Steps
    <2>5. Local(c)'
      BY <1>1, <1>2, <2>1, <2>2, <2>3, CommitOn DEF Steps, RecordSteps
    <2>6. NowId(c)' = NowId(c)
      BY <1>1, <2>2, <2>4, SameReady
    <2>7. Spare(NowId(c))' /\ Spare(job[c].rec.id)'
      BY <1>1, <1>2, <2>1, <2>2, <2>4, <2>6 DEF Spare
    <2>8. Place(c)'
      BY <2>2, <2>4, <2>7 DEF Place, RecordSteps
    <2> QED
      BY <1>1, <2>2, <2>3, <2>5, <2>8, QuietStep DEF Steps
  <1> QED
    BY <1>3, <1>4 DEF Clear, Step

\* The marker is new: its slot was never used before.
LEMMA KeepsMark ==
    ASSUME InstallInv, NEW c \in Commands, Mark(c)
    PROVE  InstallInv'
  <1>0. /\ job[c] \in Jobs(c) /\ Local(c) /\ LocalInv /\ DirInv /\ Place(c)
        /\ Shape(dir) /\ Proves(dir) /\ Keeps(dir) /\ Forgets(dir)
    BY Facts
  <1>1. at[c] = "mark" /\ InCommit(c) /\ setting' = setting /\ wanted' = wanted /\ removed' = removed
    BY DEF Mark, InCommit
  <1>2. job[c].ready # <<>> /\ \A r \in job[c].recs : r.slot <= drawn
    BY <1>0, <1>1 DEF Local, Record
  <1>3. NowId(c) \in Ids /\ Locked(c, NowId(c))
    BY <1>1, <1>2, LockFacts
  <1>4. CASE ~Now(c).replace /\ SameDir /\ UNCHANGED drawn /\ Goto(c, "publish", job[c])
    <2>0. Stays
      BY <1>1, <1>4 DEF Stays, SameDir
    <2>1. at'[c] = "publish" /\ job'[c] = job[c]
      BY <1>0, <1>1, <1>4, Moved DEF Steps
    <2>2. Local(c)'
      BY <1>0, <1>1, <1>2, <1>4, CommitOn DEF Steps, RecordSteps
    <2>3. Place(c)'
      BY <2>1 DEF Place, RecordSteps
    <2> QED
      BY <1>0, <1>1, <1>4, <2>0, <2>2, <2>3, QuietStep DEF Steps
  <1>5. CASE SameDir /\ UNCHANGED drawn /\ End(c, "failed")
    <2>0. Stays
      BY <1>1, <1>5 DEF Stays, SameDir
    <2> QED
      BY <1>5, <2>0, QuietEnd DEF Ended
  <1>6. CASE /\ Now(c).replace /\ IsDir(dir.target[NowId(c)]) /\ drawn + 1 \in Slots
             /\ drawn' = drawn + 1
             /\ Persist([dir EXCEPT !.sidecar[drawn'] = Marker(NowId(c))])
             /\ Goto(c, "move", [job[c] EXCEPT
                   !.rec = [slot |-> drawn', id |-> NowId(c), phase |-> "owned"]])
    <2> DEFINE n == drawn + 1
               i == NowId(c)
               m == [id |-> i, phase |-> "prepared"]
               r == [slot |-> n, id |-> i, phase |-> "owned"]
               j == [job[c] EXCEPT !.rec = r]
    <2>1. /\ n \in Slots /\ drawn' = n /\ drawn \in Nat /\ n > drawn /\ n \in Nat
          /\ Slots \subseteq Int
      BY <1>0, <1>6, SlotFacts
    <2>2. m \in Sidecars /\ m.id = i /\ m.phase = "prepared"
      BY <1>3 DEF Sidecars, Phases
    <2>3. dir' = [dir EXCEPT !.sidecar[n] = m] /\ unsynced' = {dir'}
      BY <1>6, <2>1 DEF Persist, Marker
    <2>4. Goto(c, "move", j)
      BY <1>6, <2>1
    <2>5. r \in BackupRecords /\ r.slot = n /\ r.id = i /\ r.phase = "owned"
      BY <1>3, <2>1 DEF BackupRecords, Phases
    <2> HIDE DEF r, m
    <2>6. /\ j \in Jobs(c) /\ j.held = job[c].held /\ j.rec = r
          /\ j.recs = job[c].recs /\ j.ready = job[c].ready
      BY <1>0, <2>5 DEF Jobs
    <2> HIDE DEF j, n
    <2>7. /\ dir' \in Directories /\ dir'.target = dir.target /\ dir'.backup = dir.backup
          /\ dir'.sidecar[n] = m /\ \A t \in Slots \ {n} : dir'.sidecar[t] = dir.sidecar[t]
      BY <2>1, <2>2, <2>3, SidecarField
    <2>8. dir.sidecar[n] = NoSidecar /\ dir.backup[n] = Vacant
      BY <1>0, <2>1 DEF Shape
    <2> HIDE DEF i
    <2>9. Shape(dir)'
      <3>1. \A s \in Slots : s > n => s > drawn /\ s # n
        BY <2>1
      <3>2. \A s \in Slots : dir'.sidecar[s].phase = "none" \/ dir'.sidecar[s].id \in Ids
        BY <1>0, <1>3, <2>2, <2>7 DEF Shape, i
      <3> QED
        BY <1>0, <2>1, <2>7, <3>1, <3>2 DEF Shape
    <2>10. Proves(dir)'
      BY <1>0, <2>2, <2>7 DEF Proves
    <2>11. Keeps(dir)'
      <3>1. ~Verified(dir.backup[n], 0) /\ \A k : ~Verified(dir.backup[n], k)
        BY <2>8, VacantFacts DEF Verified
      <3>2. ASSUME NEW k \in wanted
            PROVE  /\ dir'.target[k].is # "corrupt"
                   /\ \/ Verified(dir'.target[k], k)
                      \/ \E s \in Slots : /\ dir'.sidecar[s].id = k
                                          /\ dir'.backup[s].own /\ Verified(dir'.backup[s], k)
        BY <1>0, <2>7, <3>1 DEF Keeps
      <3> QED
        BY <1>1, <3>2 DEF Keeps
    <2>12. Forgets(dir)'
      <3>1. \A k : m # [id |-> k, phase |-> "owned"]
        <4>1. ASSUME NEW k PROVE m # [id |-> k, phase |-> "owned"]
          <5>1. [id |-> k, phase |-> "owned"].phase = "owned"
            OBVIOUS
          <5> QED
            BY <2>2, <5>1
        <4> QED
          BY <4>1
      <3> QED
        BY <1>0, <1>1, <2>7, <3>1 DEF Forgets
    <2>13. DirInv'
      BY <1>0, <1>1, <2>1, <2>3, <2>9, <2>10, <2>11, <2>12 DEF DirInv, Good
    <2>14. Touches(c)
      <3>1. \A s \in Slots : s <= drawn => s # n
        BY <2>1
      <3> QED
        BY <1>1, <1>3, <2>1, <2>2, <2>7, <3>1 DEF Touches, i
    <2>15. at'[c] = "move" /\ job'[c] = j
      BY <1>0, <1>1, <2>4, <2>6, Moved DEF Steps
    <2>16. MyIds(c)' = MyIds(c) /\ NowId(c)' = NowId(c) /\ Now(c)' = Now(c) /\ Work(c)' = Work(c)
      BY <1>1, <2>6, <2>15, SameReady
    <2>17. Local(c)'
      <3>1. \A q \in job[c].recs : q.slot \in Int
        BY <1>0, <2>1 DEF Jobs, BackupRecords
      <3>2. \A q \in job[c].recs : q.slot <= n
        BY <1>2, <2>1, <3>1
      <3>3. n <= n
        BY <2>1
      <3>4. Kinds(c)' /\ Held(c)'
        BY <1>0, <1>1, <2>6, <2>15, <2>16 DEF Local, Kinds, Held, InCommit, InRemoval, InUpkeep,
             RecordSteps, Ended, Locked
      <3>5. Record(c)'
        BY <1>0, <1>2, <2>1, <2>5, <2>6, <2>15, <2>16, <3>2, <3>3 DEF Record, RecordSteps, Replacing, i
      <3> QED
        BY <3>4, <3>5 DEF Local
    <2>18. Place(c)'
      BY <1>6, <2>5, <2>6, <2>7, <2>15 DEF Place, RecordSteps, SidecarIs, IsDir, m, i
    <2> QED
      BY <2>4, <2>6, <2>13, <2>14, <2>17, <2>18, StepKeeps DEF Steps, Ended, Locked
  <1> QED
    BY <1>4, <1>5, <1>6 DEF Mark, Step


LEMMA KeepsMoveAway ==
    ASSUME InstallInv, NEW c \in Commands, MoveAway(c)
    PROVE  InstallInv'
  <1> DEFINE r == job[c].rec
             x == dir.target[r.id]
             y == [x EXCEPT !.own = TRUE]
  <1>0. /\ job[c] \in Jobs(c) /\ Local(c) /\ LocalInv /\ DirInv /\ Place(c)
        /\ Shape(dir) /\ Proves(dir) /\ Keeps(dir) /\ Forgets(dir)
    BY Facts
  <1>1. at[c] = "move" /\ InCommit(c) /\ Replacing(c) /\ Quiet
    BY DEF MoveAway, InCommit, Replacing
  <1>2. /\ r \in BackupRecords /\ r.slot \in Slots /\ r.id \in Ids /\ Locked(c, r.id)
        /\ r.slot <= drawn /\ job[c].ready # <<>>
    BY <1>1, LockFacts
  <1>3. /\ r.id = NowId(c) /\ r.phase = "owned" /\ \A q \in job[c].recs : q.slot <= drawn
    BY <1>0, <1>1 DEF Local, Record
  <1>4. dir.sidecar[r.slot] = [id |-> r.id, phase |-> "prepared"] /\ IsDir(x)
    BY <1>0, <1>1 DEF Place, SidecarIs
  <1>5. dir.sidecar[r.slot].id = r.id /\ dir.sidecar[r.slot].phase = "prepared"
    BY <1>4
  <1>6. CASE /\ dir.backup[r.slot].is = "none"
             /\ Change([dir EXCEPT !.backup[r.slot] = y, !.target[r.id] = Vacant])
             /\ Goto(c, "own", job[c])
    <2>1. /\ x \in Contents /\ y \in Contents /\ y.own /\ y.is = x.is /\ y.pkg = x.pkg
      <3>1. x \in Contents
        BY <1>2, ContentFacts
      <3> HIDE DEF x
      <3> QED
        BY <3>1 DEF Contents
    <2>2. dir' = [dir EXCEPT !.backup[r.slot] = y, !.target[r.id] = Vacant]
          /\ unsynced' = unsynced \cup {dir'}
      BY <1>6 DEF Change
    <2> HIDE DEF y, x, r
    <2>3. dir' = Put(r.id, Vacant, r.slot, y)
      <3>1. dir' = Take(r.id, Vacant, r.slot, y)
        BY <2>2 DEF Take
      <3> QED
        BY <1>2, <2>1, <3>1, VacantFacts, PutOrder
    <2>4. Vacant \in Contents /\ r.id \in Ids /\ r.slot \in Slots
      BY <1>2, VacantFacts
    <2>5. /\ dir' \in Directories /\ dir'.sidecar = dir.sidecar
          /\ dir'.target[r.id] = Vacant /\ \A k \in Ids \ {r.id} : dir'.target[k] = dir.target[k]
          /\ dir'.backup[r.slot] = y
          /\ \A t \in Slots \ {r.slot} : dir'.backup[t] = dir.backup[t]
      <3>1. LET d == Put(r.id, Vacant, r.slot, y) IN
            /\ d \in Directories /\ d.sidecar = dir.sidecar
            /\ d.target[r.id] = Vacant /\ \A k \in Ids \ {r.id} : d.target[k] = dir.target[k]
            /\ d.backup[r.slot] = y /\ \A t \in Slots \ {r.slot} : d.backup[t] = dir.backup[t]
        BY <2>1, <2>4, DirFields
      <3> QED
        BY <2>3, <3>1
    <2>6. UNCHANGED <<setting, drawn, wanted, removed>>
      BY <1>1 DEF Quiet
    <2>7. x.is = "package" \/ x.is = "corrupt"
      BY <1>4 DEF IsDir
    <2>8. r.id \notin removed /\ (r.id \in wanted => x.is = "package")
      BY <1>0, <2>7 DEF Forgets, Keeps, x
    <2>9. x.is = "package" => x.pkg \in Packages /\ Id(x.pkg) = r.id
      BY <1>0, <1>2 DEF Shape, x
    <2>10. Shape(dir)'
      <3>1. \A s \in Slots : s > drawn => s # r.slot
        BY <1>2, <1>0, SlotFacts
      <3>2. \A s \in Slots : dir'.backup[s].is = "package" => dir'.backup[s].pkg \in Packages
        BY <1>0, <2>1, <2>5, <2>9 DEF Shape
      <3>3. \A i \in Ids : dir'.target[i].is = "package" =>
               dir'.target[i].pkg \in Packages /\ Id(dir'.target[i].pkg) = i
        BY <1>0, <2>5, VacantFacts DEF Shape
      <3> QED
        BY <1>0, <2>1, <2>5, <2>6, <3>1, <3>2, <3>3 DEF Shape
    <2>11. Proves(dir)'
      BY <1>0, <1>5, <2>5 DEF Proves
    <2>12. Keeps(dir)'
      <3>1. ASSUME NEW i \in wanted
            PROVE  /\ dir'.target[i].is # "corrupt"
                   /\ \/ Verified(dir'.target[i], i)
                      \/ \E s \in Slots : /\ dir'.sidecar[s].id = i
                                          /\ dir'.backup[s].own /\ Verified(dir'.backup[s], i)
        <4>0. i \in Ids
          BY <1>0 DEF DirInv
        <4>1. CASE i = r.id
          BY <1>5, <2>1, <2>4, <2>5, <2>8, <2>9, <4>1, VacantFacts DEF Verified
        <4>2. CASE i # r.id
          BY <1>0, <1>5, <2>5, <4>0, <4>2 DEF Keeps
        <4> QED
          BY <4>1, <4>2
      <3> QED
        BY <2>6, <3>1 DEF Keeps
    <2>13. Forgets(dir)'
      BY <1>0, <2>5, <2>6, <2>8 DEF Forgets, DirInv
    <2>14. DirInv'
      BY <1>0, <2>2, <2>6, <2>10, <2>11, <2>12, <2>13, NewDir DEF Good
    <2>15. Touches(c)
      BY <1>0, <1>2, <1>5, <2>5, <2>6, SlotFacts DEF Touches
    <2>16. at'[c] = "own" /\ job'[c] = job[c]
      BY <1>0, <1>6, <2>6, Moved DEF Steps
    <2>17. Local(c)'
      BY <1>0, <1>1, <1>2, <1>3, <1>6, <2>6, CommitOn DEF Steps, RecordSteps, r
    <2>18. Place(c)'
      BY <1>4, <2>1, <2>5, <2>6, <2>7, <2>8, <2>16 DEF Place, RecordSteps, SidecarIs, IsDir, r
    <2> QED
      BY <1>0, <1>6, <2>14, <2>15, <2>17, <2>18, StepKeeps DEF Steps, Ended, Locked
  <1>7. CASE SameDir /\ End(c, "failed")
    BY <1>1, <1>7, StaysFrom, QuietEnd DEF Ended
  <1> QED
    BY <1>6, <1>7 DEF MoveAway, Step

LEMMA KeepsOwn ==
    ASSUME InstallInv, NEW c \in Commands, Own(c)
    PROVE  InstallInv'
  <1> DEFINE r == job[c].rec
  <1>0. /\ job[c] \in Jobs(c) /\ Local(c) /\ LocalInv /\ DirInv /\ Place(c)
    BY Facts
  <1>1. /\ at[c] = "own" /\ InCommit(c) /\ Replacing(c) /\ Quiet
        /\ Persist(SetPhase(r.slot, "owned")) /\ Goto(c, "publish", job[c])
    BY DEF Own, InCommit, Replacing, Step
  <1>2. /\ r \in BackupRecords /\ r.slot \in Slots /\ r.id \in Ids /\ Locked(c, r.id)
        /\ r.slot <= drawn /\ job[c].ready # <<>>
    BY <1>1, LockFacts
  <1>3. /\ r.id = NowId(c) /\ r.phase = "owned" /\ \A q \in job[c].recs : q.slot <= drawn
    BY <1>0, <1>1 DEF Local, Record
  <1>4. /\ dir.sidecar[r.slot] = [id |-> r.id, phase |-> "prepared"] /\ r.id \notin removed
        /\ dir.backup[r.slot].own /\ IsDir(dir.backup[r.slot])
    BY <1>0, <1>1 DEF Place, SidecarIs
  <1>5. dir.sidecar[r.slot].id = r.id /\ dir.sidecar[r.slot].phase = "prepared"
    BY <1>4
  <1>6. Touches(c) /\ DirInv'
    BY <1>1, <1>2, <1>4, <1>5, PhaseKeeps DEF Phases
  <1>7. setting' = setting /\ drawn' = drawn
    BY <1>1 DEF Quiet
  <1>8. at'[c] = "publish" /\ job'[c] = job[c]
    BY <1>0, <1>1, <1>7, Moved DEF Steps
  <1>9. Local(c)'
    BY <1>0, <1>1, <1>2, <1>3, <1>7, CommitOn DEF Steps, RecordSteps
  <1>10. Place(c)'
    BY <1>8 DEF Place, RecordSteps
  <1> QED
    BY <1>0, <1>1, <1>6, <1>9, <1>10, StepKeeps DEF Steps, Ended, Locked

\* The publication fails and the replaced package is put back.
LEMMA RollbackKeeps ==
    ASSUME InstallInv, NEW c \in Commands, at[c] = "publish", Now(c).replace, Rollback(c), Stays
    PROVE  InstallInv'
  <1> DEFINE j == [job[c] EXCEPT !.then = "rollback"]
  <1>0. /\ job[c] \in Jobs(c) /\ Local(c) /\ LocalInv /\ DirInv
    BY Facts
  <1>1. InCommit(c) /\ Replacing(c) /\ Goto(c, "restore", j) /\ setting' = setting /\ drawn' = drawn
    BY DEF Rollback, InCommit, Replacing, Stays
  <1>2. /\ job[c].rec \in BackupRecords /\ job[c].rec.slot <= drawn /\ job[c].ready # <<>>
    BY <1>1, LockFacts
  <1>3. /\ job[c].rec.id = NowId(c) /\ job[c].rec.phase = "owned"
        /\ \A q \in job[c].recs : q.slot <= drawn
    BY <1>0, <1>1 DEF Local, Record
  <1>4. /\ j \in Jobs(c) /\ j.held = job[c].held /\ j.rec = job[c].rec /\ j.then = "rollback"
        /\ j.recs = job[c].recs /\ j.ready = job[c].ready
    BY <1>0 DEF Jobs, Continuations
  <1> HIDE DEF j
  <1>5. at'[c] = "restore" /\ job'[c] = j
    BY <1>0, <1>1, <1>4, Moved DEF Steps
  <1>6. Local(c)'
    BY <1>1, <1>2, <1>3, <1>4, CommitOn DEF Steps, RecordSteps
  <1>7. Place(c)'
    BY <1>4, <1>5 DEF Place, RecordSteps
  <1> QED
    BY <1>1, <1>4, <1>6, <1>7, QuietStep DEF Steps

LEMMA KeepsPublish ==
    ASSUME InstallInv, NEW c \in Commands, Publish(c)
    PROVE  InstallInv'
  <1> DEFINE i == NowId(c)
             x == Copy(Now(c).pkg)
  <1>0. /\ job[c] \in Jobs(c) /\ Local(c) /\ LocalInv /\ DirInv /\ Place(c)
        /\ Shape(dir) /\ Proves(dir) /\ Keeps(dir) /\ Forgets(dir)
    BY Facts
  <1>1. at[c] = "publish" /\ InCommit(c) /\ UNCHANGED <<setting, drawn, wanted>>
    BY DEF Publish, InCommit
  <1>2. /\ i \in Ids /\ Locked(c, i) /\ job[c].ready # <<>> /\ Now(c).pkg \in Packages
    BY <1>1, LockFacts
  <1>3. CASE /\ dir.target[i].is = "none" /\ Change([dir EXCEPT !.target[i] = x])
             /\ removed' = removed \ {i} /\ Goto(c, "published", job[c])
    <2>1. x \in Contents /\ x.is = "package" /\ x.pkg = Now(c).pkg /\ Id(x.pkg) = i
      BY <1>2 DEF Copy, Contents, Packages, NowId
    <2>2. dir' = [dir EXCEPT !.target[i] = x] /\ unsynced' = unsynced \cup {dir'}
      BY <1>3 DEF Change
    <2> HIDE DEF x, i
    <2>3. /\ dir' \in Directories /\ dir'.sidecar = dir.sidecar /\ dir'.backup = dir.backup
          /\ dir'.target[i] = x /\ \A k \in Ids \ {i} : dir'.target[k] = dir.target[k]
      BY <1>2, <2>1, <2>2, TargetField
    <2>4. Shape(dir)'
      <3>1. \A k \in Ids : dir'.target[k].is = "package" =>
               dir'.target[k].pkg \in Packages /\ Id(dir'.target[k].pkg) = k
        BY <1>0, <1>2, <2>1, <2>3 DEF Shape
      <3> QED
        BY <1>0, <1>1, <2>3, <3>1 DEF Shape
    <2>5. Proves(dir)'
      BY <1>0, <2>3 DEF Proves
    <2>6. Keeps(dir)'
      BY <1>0, <1>1, <2>1, <2>3 DEF Keeps, Verified, DirInv
    <2>7. Forgets(dir)'
      BY <1>0, <1>3, <2>3 DEF Forgets, DirInv
    <2>8. DirInv'
      BY <1>0, <1>1, <1>3, <2>2, <2>4, <2>5, <2>6, <2>7, NewDir DEF Good
    <2>9. Touches(c)
      BY <1>0, <1>1, <1>2, <1>3, <2>3, SlotFacts DEF Touches
    <2>10. at'[c] = "published" /\ job'[c] = job[c]
      BY <1>0, <1>1, <1>3, Moved DEF Steps
    <2>11. NowId(c)' = NowId(c)
      BY <1>1, <2>10, SameReady
    <2>12. Now(c).replace => Replacing(c)
      BY <1>1 DEF Replacing
    <2>13. Local(c)'
      <3>1. \A q \in job[c].recs : q.slot <= drawn
        BY <1>0 DEF Local, Record
      <3>2. Now(c).replace => job[c].rec \in BackupRecords /\ job[c].rec.slot <= drawn
                              /\ job[c].rec.id = NowId(c) /\ job[c].rec.phase = "owned"
        BY <1>0, <2>12 DEF Local, Record
      <3> QED
        BY <1>0, <1>1, <1>2, <1>3, <3>1, <3>2, CommitOn DEF Steps, RecordSteps
    <2>14. Place(c)'
      BY <2>1, <2>3, <2>10, <2>11 DEF Place, RecordSteps, Verified, i
    <2> QED
      BY <1>0, <1>3, <2>8, <2>9, <2>13, <2>14, StepKeeps DEF Steps, Ended, Locked
  <1>4. CASE SameDir /\ UNCHANGED removed /\ Now(c).replace /\ Rollback(c)
    BY <1>1, <1>4, RollbackKeeps DEF Stays, SameDir
  <1>5. CASE SameDir /\ UNCHANGED removed /\ End(c, "failed")
    BY <1>1, <1>5, QuietEnd DEF Stays, SameDir, Ended
  <1> QED
    BY <1>3, <1>4, <1>5 DEF Publish, Step

LEMMA KeepsPublishFails ==
    ASSUME InstallInv, NEW c \in Commands, PublishFails(c)
    PROVE  InstallInv'
  BY RollbackKeeps DEF PublishFails, Stays, SameDir

LEMMA KeepsPublished ==
    ASSUME InstallInv, NEW c \in Commands, Published(c)
    PROVE  InstallInv'
  <1> DEFINE i == NowId(c)
  <1>0. /\ job[c] \in Jobs(c) /\ Local(c) /\ LocalInv /\ DirInv /\ Place(c)
        /\ Shape(dir) /\ Proves(dir) /\ Keeps(dir) /\ Forgets(dir)
    BY Facts
  <1>1. /\ at[c] = "published" /\ InCommit(c) /\ UNCHANGED <<setting, drawn, removed>>
        /\ dir' = dir /\ unsynced' = {dir} /\ wanted' = wanted \cup {i}
    BY DEF Published, InCommit, Sync
  <1>2. /\ i \in Ids /\ Locked(c, i) /\ job[c].ready # <<>> /\ Now(c).replace \in BOOLEAN
    BY <1>1, LockFacts
  <1>3. Verified(dir.target[i], i)
    BY <1>0, <1>1 DEF Place
  <1>4. DirInv'
    <2>1. Keeps(dir)'
      BY <1>0, <1>1, <1>3 DEF Keeps, Verified
    <2>2. Shape(dir)' /\ Proves(dir)' /\ Forgets(dir)'
      BY <1>0, <1>1 DEF Shape, Proves, Forgets
    <2>3. Good(dir)'
      BY <2>1, <2>2 DEF Good
    <2>4. wanted' \subseteq Ids
      BY <1>0, <1>1, <1>2 DEF DirInv
    <2> QED
      BY <1>0, <1>1, <2>3, <2>4 DEF DirInv
  <1>5. Touches(c)
    BY <1>0, <1>1, <1>2, SlotFacts DEF Touches
  <1>6. \A q \in job[c].recs : q.slot <= drawn
    BY <1>0 DEF Local, Record
  <1>7. CASE Goto(c, "commit", [job[c] EXCEPT !.ready = Tail(@)])
    <2> DEFINE j == [job[c] EXCEPT !.ready = Tail(@)]
    <2>2. Tail(job[c].ready) \in Seq(ReadyItems)
      <3>1. job[c].ready \in Seq(ReadyItems)
        BY <1>0 DEF Jobs
      <3> QED
        BY <1>2, <3>1
    <2>3. j \in Jobs(c) /\ j.held = job[c].held /\ j.recs = job[c].recs /\ j.ready = Tail(job[c].ready)
      BY <1>0, <2>2 DEF Jobs
    <2>4. Goto(c, "commit", j)
      BY <1>7
    <2> HIDE DEF j
    <2>5. at'[c] = "commit" /\ job'[c] = j
      BY <1>0, <1>1, <2>3, <2>4, Moved DEF Steps
    <2>6. MyIds(c)' \subseteq MyIds(c) /\ Work(c)' = Work(c)
      BY <1>1, <1>2, <2>3, <2>5, LessReady
    <2>7. Local(c)'
      BY <1>0, <1>1, <1>2, <2>3, <2>5, <2>6 DEF Local, Kinds, Held, Record, InCommit, InRemoval, InUpkeep, RecordSteps,
       Replacing, Ended, Locked
    <2>8. Place(c)'
      BY <2>5 DEF Place, RecordSteps
    <2> QED
      BY <1>4, <1>5, <2>3, <2>4, <2>7, <2>8, StepKeeps DEF Steps, Ended, Locked
  <1>8. CASE Now(c).replace /\ Goto(c, "remove", [job[c] EXCEPT !.then = "commit"])
    <2> DEFINE j == [job[c] EXCEPT !.then = "commit"]
    <2>1. Replacing(c)
      BY <1>1, <1>8 DEF Replacing
    <2>2. /\ job[c].rec \in BackupRecords /\ job[c].rec.slot <= drawn /\ job[c].rec.id = i
      BY <1>0, <2>1 DEF Local, Record
    <2>3. /\ j \in Jobs(c) /\ j.held = job[c].held /\ j.rec = job[c].rec /\ j.then = "commit"
          /\ j.recs = job[c].recs /\ j.ready = job[c].ready
      BY <1>0 DEF Jobs, Continuations
    <2>4. Goto(c, "remove", j)
      BY <1>8
    <2> HIDE DEF j
    <2>5. at'[c] = "remove" /\ job'[c] = j
      BY <1>0, <1>1, <2>3, <2>4, Moved DEF Steps
    <2>6. Local(c)'
      BY <1>1, <1>2, <1>6, <2>2, <2>3, <2>4, CommitOn DEF Steps, RecordSteps
    <2>7. Spare(job[c].rec.id)'
      BY <1>1, <1>3, <2>2, <2>3, <2>5 DEF Spare, Verified
    <2>8. Place(c)'
      BY <2>3, <2>5, <2>7 DEF Place, RecordSteps
    <2> QED
      BY <1>4, <1>5, <2>3, <2>4, <2>6, <2>8, StepKeeps DEF Steps, Ended, Locked
  <1>9. CASE End(c, "failed")
    BY <1>4, <1>5, <1>9, EndKeeps DEF Ended
  <1> QED
    BY <1>2, <1>7, <1>8, <1>9 DEF Published

LEMMA KeepsCommitDone ==
    ASSUME InstallInv, NEW c \in Commands, CommitDone(c)
    PROVE  InstallInv'
  BY StaysFrom, QuietEnd DEF CommitDone, Ended


-----------------------------------------------------------------------------
(* uninstall. *)

\* A step of the removal that keeps its job but for record, continuation and list.
LEMMA RemovalOn ==
    ASSUME InstallInv, NEW c \in Commands, Work(c).kind = "uninstall", at[c] \notin Ended,
           \A i \in MyIds(c) : Locked(c, i), Locked(c, Work(c).id),
           NEW step \in Steps, NEW j \in Jobs(c), Goto(c, step, j), setting' = setting, drawn' = drawn,
           step \in {"unlist", "eraseTarget", "gone"} \/ (step = "remove" /\ j.then = "unlist"),
           j.held = job[c].held, j.ready = job[c].ready,
           step = "remove" => j.rec \in BackupRecords /\ j.rec.slot <= drawn /\ j.rec.id = Work(c).id,
           step \in {"unlist", "remove"} => \A r \in j.recs : r.id = Work(c).id,
           \A r \in j.recs : r.slot <= drawn
    PROVE  Local(c)'
  <1>0. job[c] \in Jobs(c) /\ Local(c) /\ LocalInv
    BY Facts
  <1>1. at'[c] = step /\ job'[c] = j
    BY <1>0, Moved
  <1>2. MyIds(c)' = MyIds(c) /\ Work(c)' = Work(c)
    BY <1>1, SameReady
  <1>3. c \in DOMAIN setting.work
    BY <1>0 DEF Local, Kinds
  <1>4. Kinds(c)'
    BY <1>1, <1>2, <1>3 DEF Kinds, InCommit, InRemoval, InUpkeep, RecordSteps
  <1>5. Held(c)'
    BY <1>1, <1>2 DEF Held, InCommit, InRemoval, RecordSteps, Locked
  <1>6. Record(c)'
    BY <1>1, <1>2 DEF Record, RecordSteps, Replacing, InCommit
  <1> QED
    BY <1>4, <1>5, <1>6 DEF Local

LEMMA KeepsCheckUninstall ==
    ASSUME InstallInv, NEW c \in Commands, CheckUninstall(c)
    PROVE  InstallInv'
  <1> DEFINE i == Work(c).id
             R == RecordsFor(i)
  <1>0. /\ job[c] \in Jobs(c) /\ Local(c) /\ LocalInv /\ DirInv
        /\ Shape(dir) /\ Proves(dir) /\ Keeps(dir)
    BY Facts
  <1>1. /\ Stays /\ at[c] = "check" /\ at[c] \notin Ended /\ Work(c).kind = "uninstall"
        /\ setting' = setting /\ drawn' = drawn /\ dir' = dir /\ wanted' = wanted
    BY StaysFrom DEF CheckUninstall, Stays, Ended
  <1>2. i \in Ids /\ MyIds(c) = {i} /\ Locked(c, i)
    BY <1>0, <1>1, WorkFacts DEF MyIds, Local, Held
  <1>3. CASE End(c, "failed")
    BY <1>1, <1>3, QuietEnd DEF Ended
  <1>4. CASE IsDir(dir.target[i]) /\ Goto(c, "unlist", [job[c] EXCEPT !.recs = R])
    <2> DEFINE j == [job[c] EXCEPT !.recs = R]
    <2>1. \A r \in R : r \in BackupRecords /\ r.id = i /\ r.slot <= drawn
      BY <1>0, RecordFacts DEF RecordsFor
    <2>2. Goto(c, "unlist", j)
      BY <1>4
    <2>3. ASSUME NEW s \in Slots, dir.sidecar[s] = [id |-> i, phase |-> "owned"]
          PROVE  \E q \in R : q.slot = s
      <3>1. dir.sidecar[s].id = i /\ dir.sidecar[s].phase = "owned"
        BY <2>3
      <3>2. Readable(s)
        BY <1>0, <3>1 DEF Readable, Proves, IsDir
      <3>3. RecordAt(s).slot = s /\ RecordAt(s).id = i /\ RecordAt(s) \in Records
        BY <3>1, <3>2 DEF RecordAt, Records
      <3> QED
        BY <3>3 DEF RecordsFor
    <2>4. Spare(i)
      BY <1>0, <1>2, <1>4 DEF Spare, Keeps, IsDir, Shape, Verified
    <2> HIDE DEF R, i
    <2>5. /\ j \in Jobs(c) /\ j.held = job[c].held /\ j.recs = R /\ j.ready = job[c].ready
      BY <1>0, <2>1 DEF Jobs
    <2> HIDE DEF j
    <2>6. at'[c] = "unlist" /\ job'[c] = j
      BY <1>0, <1>1, <2>2, <2>5, Moved DEF Steps
    <2>7. Local(c)'
      BY <1>1, <1>2, <2>1, <2>2, <2>5, RemovalOn DEF Steps, i
    <2>8. Work(c)' = Work(c)
      BY <1>1 DEF Work
    <2>9. Place(c)'
      BY <1>1, <2>3, <2>4, <2>5, <2>6, <2>8 DEF Place, RecordSteps, Spare, i
    <2> QED
      BY <1>1, <2>2, <2>5, <2>7, <2>9, QuietStep DEF Steps
  <1> QED
    BY <1>3, <1>4 DEF CheckUninstall

LEMMA RemovalFacts ==
    ASSUME InstallInv, NEW c \in Commands, at[c] \in {"unlist", "eraseTarget", "gone"}
    PROVE  /\ InRemoval(c) /\ Work(c).kind = "uninstall" /\ at[c] \notin Ended
           /\ Work(c).id \in Ids /\ Locked(c, Work(c).id)
           /\ \A i \in MyIds(c) : Locked(c, i)
           /\ \A r \in job[c].recs : r.slot <= drawn
  <1>1. InRemoval(c) /\ Local(c)
    BY Facts DEF InRemoval
  <1> QED
    BY <1>1, LockFacts DEF Local, Kinds, Held, Record, Ended

LEMMA KeepsUnlist ==
    ASSUME InstallInv, NEW c \in Commands, Unlist(c)
    PROVE  InstallInv'
  <1>0. job[c] \in Jobs(c) /\ Local(c) /\ LocalInv /\ DirInv /\ Place(c)
    BY Facts
  <1>1. /\ Stays /\ at[c] = "unlist"
        /\ setting' = setting /\ drawn' = drawn /\ dir' = dir /\ wanted' = wanted
    BY StaysFrom DEF Unlist, Stays
  <1>2. /\ Work(c).kind = "uninstall" /\ at[c] \notin Ended
        /\ Locked(c, Work(c).id) /\ \A i \in MyIds(c) : Locked(c, i)
        /\ \A r \in job[c].recs : r.slot <= drawn /\ r.id = Work(c).id
    BY <1>0, <1>1, RemovalFacts DEF Local, Record
  <1>3. /\ Spare(Work(c).id)
        /\ \A s \in Slots : dir.sidecar[s] = [id |-> Work(c).id, phase |-> "owned"]
                                => \E q \in job[c].recs : q.slot = s
    BY <1>0, <1>1 DEF Place
  <1>4. Work(c)' = Work(c)
    BY <1>1 DEF Work
  <1>5. CASE job[c].recs = {} /\ Goto(c, "eraseTarget", job[c])
    <2>1. at'[c] = "eraseTarget" /\ job'[c] = job[c]
      BY <1>0, <1>1, <1>5, Moved DEF Steps
    <2>2. Local(c)'
      BY <1>0, <1>1, <1>2, <1>5, RemovalOn DEF Steps
    <2>3. Place(c)'
      BY <1>1, <1>3, <1>4, <1>5, <2>1 DEF Place, RecordSteps
    <2> QED
      BY <1>0, <1>1, <1>5, <2>2, <2>3, QuietStep DEF Steps
  <1>6. ASSUME NEW r \in job[c].recs, Goto(c, "remove", [job[c] EXCEPT !.rec = r, !.then = "unlist"])
        PROVE  InstallInv'
    <2> DEFINE j == [job[c] EXCEPT !.rec = r, !.then = "unlist"]
    <2>1. r \in BackupRecords /\ r.id = Work(c).id /\ r.slot <= drawn
      BY <1>0, <1>2 DEF Jobs
    <2>2. /\ j \in Jobs(c) /\ j.held = job[c].held /\ j.rec = r /\ j.then = "unlist"
          /\ j.recs = job[c].recs /\ j.ready = job[c].ready
      BY <1>0, <2>1 DEF Jobs, Continuations
    <2>3. Goto(c, "remove", j)
      BY <1>6
    <2> HIDE DEF j
    <2>4. at'[c] = "remove" /\ job'[c] = j
      BY <1>0, <1>1, <2>2, <2>3, Moved DEF Steps
    <2>5. Local(c)'
      BY <1>1, <1>2, <2>1, <2>2, <2>3, RemovalOn DEF Steps
    <2>6. Spare(Work(c).id)' /\ Spare(job[c].rec.id)'
      BY <1>1, <1>3, <1>4, <2>1, <2>2, <2>4 DEF Spare
    <2>7. Place(c)'
      BY <1>1, <1>3, <1>4, <2>2, <2>4, <2>6 DEF Place, RecordSteps
    <2> QED
      BY <1>1, <2>2, <2>3, <2>5, <2>7, QuietStep DEF Steps
  <1> QED
    BY <1>5, <1>6 DEF Unlist, UnlistNext, Step

\* The target goes, whole or in part, and is no longer wanted.
LEMMA RemovingKeeps ==
    ASSUME InstallInv, NEW c \in Commands, at[c] = "eraseTarget", NEW x \in Contents,
           Change([dir EXCEPT !.target[Work(c).id] = x]), wanted' = wanted \ {Work(c).id},
           x.is # "package", x.is = "none" \/ dir.target[Work(c).id].is # "none",
           UNCHANGED <<setting, drawn, removed>>
    PROVE  Touches(c) /\ DirInv' /\ dir'.sidecar = dir.sidecar /\ dir'.backup = dir.backup
  <1> DEFINE i == Work(c).id
  <1>0. /\ DirInv /\ Shape(dir) /\ Proves(dir) /\ Keeps(dir) /\ Forgets(dir)
    BY Facts
  <1>1. i \in Ids /\ Locked(c, i)
    BY RemovalFacts
  <1>2. dir' = [dir EXCEPT !.target[i] = x] /\ unsynced' = unsynced \cup {dir'}
    BY DEF Change
  <1>3. wanted' = wanted \ {i} /\ (x.is = "none" \/ dir.target[i].is # "none")
    OBVIOUS
  <1> HIDE DEF i
  <1>4. /\ dir' \in Directories /\ dir'.sidecar = dir.sidecar /\ dir'.backup = dir.backup
        /\ dir'.target[i] = x /\ \A k \in Ids \ {i} : dir'.target[k] = dir.target[k]
    BY <1>1, <1>2, TargetField
  <1>5. Shape(dir)'
    <2>1. \A k \in Ids : dir'.target[k].is = "package" =>
             dir'.target[k].pkg \in Packages /\ Id(dir'.target[k].pkg) = k
      BY <1>0, <1>4 DEF Shape
    <2> QED
      BY <1>0, <1>4, <2>1 DEF Shape
  <1>6. Proves(dir)'
    BY <1>0, <1>4 DEF Proves
  <1>7. Keeps(dir)'
    BY <1>0, <1>3, <1>4 DEF Keeps, DirInv
  <1>8. Forgets(dir)'
    BY <1>0, <1>3, <1>4 DEF Forgets, DirInv
  <1>9. DirInv'
    BY <1>0, <1>2, <1>3, <1>5, <1>6, <1>7, <1>8, NewDir DEF Good
  <1>10. Touches(c)
    BY <1>0, <1>1, <1>3, <1>4, SlotFacts DEF Touches
  <1> QED
    BY <1>4, <1>9, <1>10

LEMMA KeepsEraseTarget ==
    ASSUME InstallInv, NEW c \in Commands, EraseTarget(c)
    PROVE  InstallInv'
  <1>0. job[c] \in Jobs(c) /\ Local(c) /\ LocalInv /\ DirInv /\ Place(c)
    BY Facts
  <1>1. /\ at[c] = "eraseTarget" /\ Goto(c, "gone", job[c]) /\ UNCHANGED <<setting, drawn, removed>>
        /\ Change([dir EXCEPT !.target[Work(c).id] = Vacant]) /\ wanted' = wanted \ {Work(c).id}
    BY DEF EraseTarget, Step
  <1>2. Touches(c) /\ DirInv' /\ dir'.sidecar = dir.sidecar
    BY <1>1, VacantFacts, RemovingKeeps
  <1>3. /\ Work(c).kind = "uninstall" /\ at[c] \notin Ended
        /\ Locked(c, Work(c).id) /\ \A i \in MyIds(c) : Locked(c, i)
        /\ \A r \in job[c].recs : r.slot <= drawn
    BY <1>1, RemovalFacts
  <1>4. at'[c] = "gone" /\ job'[c] = job[c] /\ Work(c)' = Work(c)
    BY <1>0, <1>1, Moved DEF Steps, Work
  <1>5. Local(c)'
    BY <1>0, <1>1, <1>3, RemovalOn DEF Steps
  <1>6. Place(c)'
    BY <1>0, <1>1, <1>2, <1>4 DEF Place, RecordSteps
  <1> QED
    BY <1>0, <1>1, <1>2, <1>5, <1>6, StepKeeps DEF Steps, Ended, Locked

LEMMA KeepsGone ==
    ASSUME InstallInv, NEW c \in Commands, Gone(c)
    PROVE  InstallInv'
  <1> DEFINE i == Work(c).id
  <1>0. /\ job[c] \in Jobs(c) /\ Local(c) /\ LocalInv /\ DirInv /\ Place(c)
        /\ Shape(dir) /\ Proves(dir) /\ Keeps(dir) /\ Forgets(dir)
    BY Facts
  <1>1. /\ at[c] = "gone" /\ End(c, "ok") /\ UNCHANGED <<setting, drawn, wanted>>
        /\ dir' = dir /\ unsynced' = {dir}
        /\ removed' = removed \cup {k \in {i} : dir.target[k].is = "none"}
    BY DEF Gone, Sync
  <1>2. i \in Ids /\ Locked(c, i)
    BY <1>1, RemovalFacts
  <1>3. \A s \in Slots : dir.sidecar[s] # [id |-> i, phase |-> "owned"]
    BY <1>0, <1>1 DEF Place
  <1>4. \A k \in removed' : k \in removed \/ (k = i /\ dir.target[i].is = "none")
    BY <1>1
  <1> HIDE DEF i
  <1>5. Forgets(dir)'
    BY <1>0, <1>1, <1>3, <1>4 DEF Forgets
  <1>6. Shape(dir)' /\ Proves(dir)' /\ Keeps(dir)'
    BY <1>0, <1>1 DEF Shape, Proves, Keeps
  <1>7. Good(dir)'
    BY <1>5, <1>6 DEF Good
  <1>8. removed' \subseteq Ids
    BY <1>0, <1>2, <1>4 DEF DirInv
  <1>9. DirInv'
    BY <1>0, <1>1, <1>7, <1>8 DEF DirInv
  <1>10. Touches(c)
    BY <1>0, <1>1, <1>2, <1>4, SlotFacts DEF Touches
  <1> QED
    BY <1>1, <1>9, <1>10, EndKeeps DEF Ended

-----------------------------------------------------------------------------
(* What goes wrong. *)

LEMMA KeepsInterrupt ==
    ASSUME InstallInv, NEW c \in Commands, Interrupt(c)
    PROVE  InstallInv'
  <1>0. job[c] \in Jobs(c) /\ Local(c) /\ LocalInv /\ DirInv /\ Place(c)
    BY Facts
  <1>1. End(c, "failed") /\ UNCHANGED <<setting, drawn, removed>>
    BY DEF Interrupt
  <1>2. CASE SameDir /\ UNCHANGED wanted
    BY <1>1, <1>2, QuietEnd DEF Stays, SameDir, Ended
  <1>3. CASE /\ at[c] = "erase" /\ IsDir(dir.backup[job[c].rec.slot])
             /\ Change([dir EXCEPT !.backup[job[c].rec.slot] = Partly(@)])
             /\ UNCHANGED wanted
    <2> DEFINE y == Partly(dir.backup[job[c].rec.slot])
    <2>1. job[c].rec.slot \in Slots
      BY <1>3, LockFacts DEF RecordSteps
    <2>2. dir.backup[job[c].rec.slot] \in Contents
      BY <2>1, ContentFacts
    <2>3. y \in Contents /\ y.is = "corrupt"
      BY <2>2 DEF Partly, Contents
    <2>4. Change([dir EXCEPT !.backup[job[c].rec.slot] = y])
      BY <1>3
    <2> HIDE DEF y
    <2>5. Touches(c) /\ DirInv'
      BY <1>1, <1>3, <2>3, <2>4, CleaningKeeps
    <2> QED
      BY <1>1, <2>5, EndKeeps DEF Ended
  <1>4. CASE /\ at[c] = "eraseTarget" /\ IsDir(dir.target[Work(c).id])
             /\ Change([dir EXCEPT !.target[Work(c).id] = Partly(@)])
             /\ wanted' = wanted \ {Work(c).id}
    <2> DEFINE x == Partly(dir.target[Work(c).id])
    <2>1. Work(c).id \in Ids
      BY <1>4, RemovalFacts
    <2>2. dir.target[Work(c).id] \in Contents
      BY <2>1, ContentFacts
    <2>3. x \in Contents /\ x.is = "corrupt"
      BY <2>2 DEF Partly, Contents
    <2>4. Change([dir EXCEPT !.target[Work(c).id] = x]) /\ dir.target[Work(c).id].is # "none"
      BY <1>4 DEF IsDir
    <2> HIDE DEF x
    <2>5. Touches(c) /\ DirInv'
      BY <1>1, <1>4, <2>3, <2>4, RemovingKeeps
    <2> QED
      BY <1>1, <2>5, EndKeeps DEF Ended
  <1> QED
    BY <1>2, <1>3, <1>4 DEF Interrupt

LEMMA NothingInHand ==
    ASSUME NEW c \in Commands, NEW s \in Ended \cup {"idle"}, at[c] = s, job[c] = NoJob,
           s = "idle" => c \in DOMAIN setting.work
    PROVE  Local(c) /\ Place(c) /\ (\A i : ~Locked(c, i))
  <1>1. /\ NoJob.held = {} /\ NoJob.recs = {}
    BY NoJobType
  <1>2. Local(c)
    BY <1>1 DEF Local, Kinds, Held, Record, Ended, InCommit, InRemoval, InUpkeep, RecordSteps, Replacing
  <1>3. Place(c)
    BY DEF Place, Ended, RecordSteps
  <1> QED
    BY <1>1, <1>2, <1>3 DEF Locked

LEMMA KeepsPowerLoss ==
    ASSUME InstallInv, PowerLoss
    PROVE  InstallInv'
  <1>0. LocalInv /\ DirInv
    BY DEF InstallInv
  <1>1. /\ at' = [c \in Commands |-> IF c \in Active THEN "failed" ELSE at[c]]
        /\ job' = [c \in Commands |-> NoJob] /\ dir' \in unsynced /\ unsynced' = {dir'}
        /\ UNCHANGED <<setting, drawn, wanted, removed>>
    BY DEF PowerLoss
  <1>2. ASSUME NEW c \in Commands
        PROVE  at'[c] \in Ended \cup {"idle"} /\ (at'[c] = "idle" => at[c] = "idle") /\ job'[c] = NoJob
    BY <1>0, <1>1 DEF Active, Ended, LocalInv
  <1>3. ASSUME NEW c \in Commands
        PROVE  Local(c)' /\ Place(c)' /\ (\A i : ~Locked(c, i)')
    <2>1. at[c] = "idle" => c \in DOMAIN setting.work
      BY <1>0 DEF LocalInv, Local, Kinds, Ended
    <2>2. NoJob.held = {} /\ NoJob.recs = {}
      BY NoJobType
    <2>3. Local(c)'
      BY <1>1, <1>2, <2>1, <2>2 DEF Local, Kinds, Held, Record, Ended, InCommit, InRemoval, InUpkeep,
           RecordSteps, Replacing
    <2>4. Place(c)'
      BY <1>2 DEF Place, Ended, RecordSteps
    <2> QED
      BY <1>2, <2>2, <2>3, <2>4 DEF Locked
  <1>4. LocalInv'
    <2>1. at' \in [Commands -> Steps \cup Ended]
      BY <1>0, <1>1 DEF LocalInv, Ended
    <2>2. \A c \in Commands : (job[c] \in Jobs(c))'
      <3>1. ASSUME NEW c \in Commands PROVE (job[c] \in Jobs(c))'
        <4>1. (NoJob \in Jobs(c))'
          BY DEF NoJob, Jobs, Continuations
        <4> QED
          BY <1>2, <4>1
      <3> QED
        BY <3>1
    <2>3. job' \in [Commands -> UNION {Jobs(c) : c \in Commands}']
      <3> DEFINE J == UNION {Jobs(c) : c \in Commands}'
      <3>1. \A c \in Commands : job'[c] \in J
        BY <2>2
      <3> HIDE DEF J
      <3>2. job' \in [Commands -> J]
        BY <1>1, <3>1
      <3> QED
        BY <3>2 DEF J
    <2> QED
      BY <1>2, <1>3, <2>1, <2>2, <2>3 DEF LocalInv
  <1>5. Exclusive' /\ PlaceInv'
    BY <1>3 DEF Exclusive, PlaceInv
  <1>6. DirInv'
    <2>1. \A d \in unsynced : Good(d)'
      BY <1>0, <1>1 DEF DirInv, Good, Shape, Proves, Keeps, Forgets
    <2> QED
      BY <1>0, <1>1, <2>1 DEF DirInv
  <1> QED
    BY <1>4, <1>5, <1>6 DEF InstallInv


\* Nobody moves.
LEMMA Unmoved ==
    ASSUME InstallInv, UNCHANGED <<setting, at, job, drawn>>
    PROVE  /\ LocalInv' /\ Exclusive' /\ \A c : Work(c)' = Work(c) /\ NowId(c)' = NowId(c)
  <1>0. LocalInv /\ Exclusive /\ DirInv
    BY DEF InstallInv
  <1>1. \A o : Locks(o, Ids, TRUE)' = Locks(o, Ids, TRUE) /\ Locks(o, Ids, FALSE)' = Locks(o, Ids, FALSE)
    BY DEF Locks, Work
  <1>2. \A o : Jobs(o)' = Jobs(o)
    BY <1>1 DEF Jobs
  <1>3. UNION {Jobs(o) : o \in Commands} = (UNION {Jobs(o) : o \in Commands})'
    BY <1>2
  <1>4. ASSUME NEW o \in Commands PROVE Local(o)'
    <2>1. Slots \subseteq Int /\ drawn \in Int /\ drawn' \in Int /\ drawn <= drawn'
      BY <1>0, SlotFacts
    <2>2. Local(o) /\ job[o] \in Jobs(o)
      BY <1>0 DEF LocalInv
    <2> QED
      BY <2>1, <2>2, OtherLocal
  <1>5. LocalInv'
    BY <1>0, <1>2, <1>3, <1>4 DEF LocalInv
  <1>6. Exclusive'
    BY <1>0 DEF Exclusive, Locked
  <1>7. \A c : Work(c)' = Work(c) /\ NowId(c)' = NowId(c)
    BY DEF Work, NowId, Now
  <1> QED
    BY <1>5, <1>6, <1>7

LEMMA KeepsStutter ==
    ASSUME InstallInv, UNCHANGED installVars
    PROVE  InstallInv'
  <1>0. /\ PlaceInv /\ DirInv /\ UNCHANGED <<setting, at, job, drawn>>
        /\ UNCHANGED <<dir, unsynced, wanted, removed>>
    BY DEF InstallInv, installVars
  <1>1. LocalInv' /\ Exclusive' /\ \A c : Work(c)' = Work(c) /\ NowId(c)' = NowId(c)
    BY <1>0, Unmoved
  <1>2. PlaceInv'
    BY <1>0, <1>1 DEF PlaceInv, Place, Spare, SidecarIs
  <1>3. DirInv'
    BY <1>0 DEF DirInv, Good, Shape, Proves, Keeps, Forgets
  <1> QED
    BY <1>1, <1>2, <1>3 DEF InstallInv

\* Somebody fills a place that was vacant.
Filled ==
    /\ UNCHANGED <<setting, at, job, drawn, wanted>>
    /\ dir' \in Directories /\ dir'.sidecar = dir.sidecar
    /\ unsynced' = unsynced \cup {dir'} /\ removed' \subseteq removed
    /\ \A s \in Slots :
          \/ dir'.backup[s] = dir.backup[s]
          \/ /\ dir.backup[s].is = "none" /\ s <= drawn /\ ~dir'.backup[s].own
             /\ dir'.backup[s].is \in {"package", "file"}
             /\ dir'.backup[s].is = "package" => dir'.backup[s].pkg \in Packages
    /\ \A i \in Ids :
          \/ dir'.target[i] = dir.target[i]
          \/ /\ dir.target[i].is = "none" /\ i \notin removed'
             /\ dir'.target[i].is \in {"package", "file"}
             /\ dir'.target[i].is = "package" =>
                   dir'.target[i].pkg \in Packages /\ Id(dir'.target[i].pkg) = i

LEMMA MeddleFills ==
    ASSUME InstallInv, Meddle
    PROVE  Filled
  <1>0. DirInv
    BY DEF InstallInv
  <1>1. UNCHANGED <<setting, at, job, drawn, wanted>>
    BY DEF Meddle
  <1>2. setting.foreign \in Packages /\ Id(setting.foreign) \in Ids
    BY <1>0, SettingAssumption, InstallAssumption DEF DirInv, Packages, Id
  <1>3. ASSUME NEW x \in {Foreign, ForeignFile}
        PROVE  /\ x \in Contents /\ ~x.own /\ x.is \in {"package", "file"}
               /\ x.is = "package" => x.pkg = setting.foreign
    <2>1. Foreign \in Contents /\ ~Foreign.own /\ Foreign.is = "package" /\ Foreign.pkg = setting.foreign
      BY <1>2 DEF Foreign, Copy, Contents, Packages
    <2>2. ForeignFile \in Contents /\ ~ForeignFile.own /\ ForeignFile.is = "file"
      BY DEF ForeignFile, Contents
    <2> QED
      BY <2>1, <2>2
  <1>4. ASSUME NEW s \in 1 .. drawn, NEW x \in {Foreign, ForeignFile}, dir.backup[s].is = "none",
               Change([dir EXCEPT !.backup[s] = x]), UNCHANGED removed
        PROVE  Filled
    <2>1. s \in Slots /\ s <= drawn
      <3>1. Cardinality(Slots) \in Nat
        BY InstallAssumption, FS_CardinalityType
      <3> QED
        BY <1>0, <3>1, InstallAssumption DEF DirInv
    <2>2. dir' = [dir EXCEPT !.backup[s] = x] /\ unsynced' = unsynced \cup {dir'}
      BY <1>4 DEF Change
    <2>3. /\ x \in Contents /\ ~x.own /\ x.is \in {"package", "file"}
          /\ x.is = "package" => x.pkg \in Packages
      BY <1>2, <1>3
    <2>4. /\ dir' \in Directories /\ dir'.sidecar = dir.sidecar /\ dir'.target = dir.target
          /\ dir'.backup[s] = x /\ \A t \in Slots \ {s} : dir'.backup[t] = dir.backup[t]
      BY <2>1, <2>2, <2>3, BackupField
    <2> QED
      BY <1>1, <1>4, <2>1, <2>2, <2>3, <2>4 DEF Filled
  <1>5. ASSUME NEW i, i = Id(setting.foreign), NEW x \in {Foreign, ForeignFile},
               dir.target[i].is = "none", Change([dir EXCEPT !.target[i] = x]),
               removed' = removed \ {i}
        PROVE  Filled
    <2>1. i \in Ids
      BY <1>2, <1>5
    <2>2. dir' = [dir EXCEPT !.target[i] = x] /\ unsynced' = unsynced \cup {dir'}
      BY <1>5 DEF Change
    <2>3. /\ x \in Contents /\ x.is \in {"package", "file"}
          /\ x.is = "package" => x.pkg \in Packages /\ Id(x.pkg) = i
      BY <1>2, <1>3, <1>5
    <2>4. /\ dir' \in Directories /\ dir'.sidecar = dir.sidecar /\ dir'.backup = dir.backup
          /\ dir'.target[i] = x /\ \A k \in Ids \ {i} : dir'.target[k] = dir.target[k]
      BY <2>1, <2>2, <2>3, TargetField
    <2> QED
      BY <1>1, <1>5, <2>1, <2>2, <2>3, <2>4 DEF Filled
  <1> QED
    BY <1>4, <1>5 DEF Meddle

\* Nothing that anybody relies on is vacant.
LEMMA KeepsMeddle ==
    ASSUME InstallInv, Meddle
    PROVE  InstallInv'
  <1>0. /\ LocalInv /\ PlaceInv /\ DirInv
        /\ Shape(dir) /\ Proves(dir) /\ Keeps(dir) /\ Forgets(dir)
    BY DEF InstallInv, DirInv, Good
  <1>1. /\ UNCHANGED <<setting, at, job, drawn>> /\ wanted' = wanted
        /\ dir' \in Directories /\ dir'.sidecar = dir.sidecar
        /\ unsynced' = unsynced \cup {dir'} /\ removed' \subseteq removed
    BY MeddleFills DEF Filled
  <1>2. ASSUME NEW s \in Slots
        PROVE  \/ dir'.backup[s] = dir.backup[s]
               \/ /\ dir.backup[s].is = "none" /\ s <= drawn /\ ~dir'.backup[s].own
                  /\ dir'.backup[s].is \in {"package", "file"}
                  /\ dir'.backup[s].is = "package" => dir'.backup[s].pkg \in Packages
    BY MeddleFills DEF Filled
  <1>3. ASSUME NEW i \in Ids
        PROVE  \/ dir'.target[i] = dir.target[i]
               \/ /\ dir.target[i].is = "none" /\ i \notin removed'
                  /\ dir'.target[i].is \in {"package", "file"}
                  /\ dir'.target[i].is = "package" =>
                        dir'.target[i].pkg \in Packages /\ Id(dir'.target[i].pkg) = i
    BY MeddleFills DEF Filled
  <1>4. LocalInv' /\ Exclusive' /\ \A c : Work(c)' = Work(c) /\ NowId(c)' = NowId(c)
    BY <1>1, Unmoved
  <1>5. Shape(dir)'
    <2>1. \A s \in Slots : s > drawn => ~(s <= drawn)
      BY <1>0, SlotFacts
    <2> QED
      BY <1>0, <1>1, <1>2, <1>3, <2>1 DEF Shape
  <1>6. Proves(dir)'
    BY <1>0, <1>1, <1>2 DEF Proves, IsDir
  <1>7. Keeps(dir)'
    <2>1. ASSUME NEW i \in wanted
          PROVE  /\ dir'.target[i].is # "corrupt"
                 /\ \/ Verified(dir'.target[i], i)
                    \/ \E s \in Slots : /\ dir'.sidecar[s].id = i
                                        /\ dir'.backup[s].own /\ Verified(dir'.backup[s], i)
      <3>0. i \in Ids
        BY <1>0 DEF DirInv
      <3>1. dir'.target[i].is # "corrupt"
        BY <1>0, <1>3, <3>0 DEF Keeps
      <3>2. CASE Verified(dir.target[i], i)
        BY <1>3, <3>0, <3>1, <3>2 DEF Verified
      <3>3. ASSUME NEW s \in Slots, dir.sidecar[s].id = i, dir.backup[s].own, Verified(dir.backup[s], i)
            PROVE  \E t \in Slots : /\ dir'.sidecar[t].id = i
                                    /\ dir'.backup[t].own /\ Verified(dir'.backup[t], i)
        <4>1. dir'.backup[s] = dir.backup[s]
          BY <1>2, <3>3 DEF Verified
        <4> QED
          BY <1>1, <3>3, <4>1
      <3> QED
        BY <1>0, <3>1, <3>2, <3>3 DEF Keeps
    <2> QED
      BY <1>1, <2>1 DEF Keeps
  <1>8. Forgets(dir)'
    BY <1>0, <1>1, <1>3 DEF Forgets, DirInv
  <1>9. DirInv'
    BY <1>0, <1>1, <1>5, <1>6, <1>7, <1>8, NewDir DEF Good
  <1>10. \A i \in Ids : Spare(i) => Spare(i)'
    BY <1>1, <1>3 DEF Spare, Verified
  <1>11. ASSUME NEW c \in Commands PROVE Place(c)'
    <2> DEFINE r == job[c].rec
               x == dir.backup[r.slot]
    <2>0. Place(c) /\ job'[c] = job[c] /\ at'[c] = at[c]
      BY <1>0, <1>1 DEF PlaceInv
    <2>1. at[c] \in RecordSteps \/ at[c] \in {"move", "own"} => r.slot \in Slots /\ r.id \in Ids
      BY LockFacts DEF Replacing
    <2>2. at[c] \in {"restoreMove", "erase", "own"} => dir'.backup[r.slot] = x
      BY <1>2, <2>0, <2>1 DEF Place, Verified, IsDir, RecordSteps
    <2>3. at[c] = "move" => dir'.target[r.id] = dir.target[r.id]
      BY <1>3, <2>0, <2>1 DEF Place, IsDir
    <2>4. at[c] = "published" => NowId(c) \in Ids /\ dir'.target[NowId(c)] = dir.target[NowId(c)]
      <3>1. at[c] = "published" => NowId(c) \in Ids
        BY LockFacts DEF InCommit
      <3> QED
        BY <1>3, <2>0, <3>1 DEF Place, Verified
    <2>5. at[c] = "clear" \/ (at[c] \in RecordSteps /\ job[c].then = "clear") => Spare(NowId(c))'
      <3>1. at[c] = "clear" \/ (at[c] \in RecordSteps /\ job[c].then = "clear") => NowId(c) \in Ids
        BY LockFacts DEF InCommit, RecordSteps
      <3>2. at[c] = "clear" \/ (at[c] \in RecordSteps /\ job[c].then = "clear") => Spare(NowId(c))
        BY <2>0 DEF Place
      <3> QED
        BY <1>4, <1>10, <3>1, <3>2 DEF Spare
    <2>6. at[c] = "unlist" \/ (at[c] \in RecordSteps /\ job[c].then = "unlist") => Spare(Work(c).id)'
      <3>1. at[c] = "unlist" \/ (at[c] \in RecordSteps /\ job[c].then = "unlist") => Work(c).id \in Ids
        BY LockFacts DEF InRemoval
      <3>2. at[c] = "unlist" \/ (at[c] \in RecordSteps /\ job[c].then = "unlist") => Spare(Work(c).id)
        BY <2>0 DEF Place
      <3> QED
        BY <1>4, <1>10, <3>1, <3>2 DEF Spare
    <2>7. at[c] \in {"remove", "erase"} => Spare(r.id)'
      BY <1>10, <2>0, <2>1 DEF Place, RecordSteps, Spare
    <2>8. at[c] = "dropSidecar" => ~(dir'.backup[r.slot].own /\ dir'.backup[r.slot].is = "package")
      BY <1>2, <2>0, <2>1 DEF Place, RecordSteps
    <2>9. r.id \in removed' => r.id \in removed
      BY <1>1
    <2>10. at[c] = "restoreMove" =>
              /\ SidecarIs(r, "restoring")' /\ r.id \notin removed'
              /\ dir'.backup[r.slot].own /\ Verified(dir'.backup[r.slot], r.id)
      BY <1>1, <2>0, <2>2, <2>9 DEF Place, SidecarIs
    <2>11. at[c] = "erase" => /\ SidecarIs(r, "cleaning")' /\ Spare(r.id)'
                              /\ dir'.backup[r.slot].own /\ IsDir(dir'.backup[r.slot])
      BY <1>1, <2>0, <2>2, <2>7 DEF Place, SidecarIs
    <2>12. at[c] = "dropSidecar" =>
              /\ dir'.sidecar[r.slot].id = r.id /\ dir'.sidecar[r.slot].phase \notin {"none", "owned"}
              /\ ~(dir'.backup[r.slot].own /\ dir'.backup[r.slot].is = "package")
      BY <1>1, <2>0, <2>8 DEF Place
    <2>13. at[c] = "dropped" => dir'.sidecar[r.slot] = NoSidecar
      BY <1>1, <2>0 DEF Place
    <2>14. at[c] = "move" => SidecarIs(r, "prepared")' /\ IsDir(dir'.target[r.id])
      BY <1>1, <2>0, <2>3 DEF Place, SidecarIs
    <2>15. at[c] = "own" => /\ SidecarIs(r, "prepared")' /\ r.id \notin removed'
                            /\ dir'.backup[r.slot].own /\ IsDir(dir'.backup[r.slot])
      BY <1>1, <2>0, <2>2, <2>9 DEF Place, SidecarIs
    <2>16. at[c] = "published" => Verified(dir'.target[NowId(c)], NowId(c))
      BY <2>0, <2>4 DEF Place
    <2>17. at[c] = "unlist" \/ (at[c] \in RecordSteps /\ job[c].then = "unlist") =>
              \A s \in Slots : dir'.sidecar[s] = [id |-> Work(c).id, phase |-> "owned"]
                                  => \E q \in job[c].recs : q.slot = s
      BY <1>1, <2>0 DEF Place
    <2>18. at[c] \in {"eraseTarget", "gone"} =>
              \A s \in Slots : dir'.sidecar[s] # [id |-> Work(c).id, phase |-> "owned"]
      BY <1>1, <2>0 DEF Place
    <2> QED
      BY <1>4, <2>0, <2>5, <2>6, <2>7, <2>10, <2>11, <2>12, <2>13, <2>14, <2>15, <2>16, <2>17, <2>18
         DEF Place
  <1> QED
    BY <1>4, <1>9, <1>11 DEF InstallInv, PlaceInv


-----------------------------------------------------------------------------
(* The invariant. *)

LEMMA InitInv ==
    ASSUME InstallInit
    PROVE  InstallInv
  <1> DEFINE mine(i) == {p \in setting.installed : Id(p) = i}
             T(i) == IF mine(i) = {} THEN Vacant ELSE Copy(CHOOSE p \in mine(i) : TRUE)
  <1>1. /\ setting \in Settings /\ setting.installed \subseteq Packages
        /\ DOMAIN setting.work \subseteq Commands
    BY SettingAssumption DEF InstallInit, Packages
  <1>2. dir = [target |-> [i \in Ids |-> T(i)], backup |-> [s \in Slots |-> Vacant],
               sidecar |-> [s \in Slots |-> NoSidecar]]
    BY DEF InstallInit
  <1>3. ASSUME NEW i \in Ids
        PROVE  /\ T(i) \in Contents
               /\ mine(i) = {} => T(i) = Vacant
               /\ mine(i) # {} => T(i).is = "package" /\ T(i).pkg \in Packages /\ Id(T(i).pkg) = i
    <2>1. CASE mine(i) = {}
      BY <2>1, VacantFacts
    <2>2. CASE mine(i) # {}
      <3> DEFINE q == CHOOSE p \in mine(i) : TRUE
      <3>1. q \in mine(i)
        BY <2>2
      <3>2. q \in Packages /\ Id(q) = i
        BY <1>1, <3>1
      <3>3. T(i) = Copy(q)
        BY <2>2
      <3> HIDE DEF q, T
      <3>4. Copy(q) \in Contents /\ Copy(q).is = "package" /\ Copy(q).pkg = q
        BY <3>2 DEF Copy, Contents, Packages
      <3> QED
        BY <2>2, <3>2, <3>3, <3>4
    <2> QED
      BY <2>1, <2>2
  <1> HIDE DEF T
  <1>4. /\ \A i \in Ids : dir.target[i] = T(i)
        /\ \A s \in Slots : dir.backup[s] = Vacant /\ dir.sidecar[s] = NoSidecar
    BY <1>2
  <1>5. dir \in Directories
    BY <1>2, <1>3, VacantFacts DEF Directories
  <1>6. /\ drawn = 0 /\ removed = {} /\ unsynced = {dir}
        /\ \A i \in wanted : i \in Ids /\ mine(i) # {}
    <2>1. \A p \in setting.installed : Id(p) \in Ids
      BY <1>1, InstallAssumption DEF Id, Packages
    <2> QED
      BY <2>1 DEF InstallInit
  <1> HIDE DEF mine
  <1>7. Shape(dir)
    BY <1>3, <1>4, <1>5, VacantFacts DEF Shape
  <1>8. Proves(dir) /\ Forgets(dir)
    BY <1>4, <1>6, VacantFacts DEF Proves, Forgets
  <1>9. Keeps(dir)
    BY <1>3, <1>4, <1>6 DEF Keeps, Verified
  <1>10. DirInv
    BY <1>1, <1>6, <1>7, <1>8, <1>9 DEF DirInv, Good
  <1>11. /\ at = [c \in Commands |-> IF c \in DOMAIN setting.work THEN "idle" ELSE "ok"]
         /\ job = [c \in Commands |-> NoJob]
    BY DEF InstallInit
  <1>12. ASSUME NEW c \in Commands
         PROVE  /\ at[c] \in Ended \cup {"idle"} /\ job[c] = NoJob
                /\ Local(c) /\ Place(c) /\ (\A i : ~Locked(c, i))
    <2>1. at[c] \in Ended \cup {"idle"} /\ job[c] = NoJob /\ (at[c] = "idle" => c \in DOMAIN setting.work)
      BY <1>11 DEF Ended
    <2> QED
      BY <2>1, NothingInHand
  <1>13. LocalInv
    <2>1. at \in [Commands -> Steps \cup Ended]
      BY <1>11 DEF Steps, Ended
    <2>2. \A c \in Commands : job[c] \in Jobs(c)
      BY <1>12, NoJobType
    <2>3. job \in [Commands -> UNION {Jobs(c) : c \in Commands}]
      <3> DEFINE J == UNION {Jobs(c) : c \in Commands}
      <3>1. \A c \in Commands : job[c] \in J
        BY <2>2
      <3> HIDE DEF J
      <3>2. job \in [Commands -> J]
        BY <1>11, <3>1
      <3> QED
        BY <3>2 DEF J
    <2> QED
      BY <1>12, <2>1, <2>2, <2>3 DEF LocalInv
  <1> QED
    BY <1>10, <1>12, <1>13 DEF InstallInv, Exclusive, PlaceInv

LEMMA NextInv ==
    ASSUME InstallInv, [InstallNext]_installVars
    PROVE  InstallInv'
  <1>1. ASSUME NEW c \in Commands, Recovering(c) PROVE InstallInv'
    BY <1>1, KeepsRecoverNext, KeepsRecoverDone, KeepsSweepSkip, KeepsSweepRecord, KeepsSweepDone
       DEF Recovering
  <1>2. ASSUME NEW c \in Commands, Moving(c) PROVE InstallInv'
    BY <1>2, KeepsRestoreBegin, KeepsRestoreMove, KeepsRemoveBegin, KeepsErase, KeepsDropSidecar,
       KeepsDropped DEF Moving
  <1>3. ASSUME NEW c \in Commands, Planning(c) PROVE InstallInv'
    BY <1>3, KeepsPlan, KeepsWalkDependency, KeepsWalkUp, KeepsPrepare, KeepsPrepareDone DEF Planning
  <1>4. ASSUME NEW c \in Commands, Committing(c) PROVE InstallInv'
    BY <1>4, KeepsCheckPlan, KeepsCommitBegin, KeepsPending, KeepsClear, KeepsMark, KeepsMoveAway,
       KeepsOwn, KeepsPublish, KeepsPublished, KeepsCommitDone DEF Committing
  <1>5. ASSUME NEW c \in Commands, Uninstalling(c) PROVE InstallInv'
    BY <1>5, KeepsBeginUninstall, KeepsCheckUninstall, KeepsUnlist, KeepsEraseTarget, KeepsGone
       DEF Uninstalling
  <1>6. ASSUME NEW c \in Commands,
               BeginInstall(c) \/ AcquireLock(c) \/ PublishFails(c) \/ Interrupt(c)
        PROVE  InstallInv'
    BY <1>6, KeepsBeginInstall, KeepsAcquireLock, KeepsPublishFails, KeepsInterrupt
  <1>7. CASE PowerLoss
    BY <1>7, KeepsPowerLoss
  <1>8. CASE Meddle
    BY <1>8, KeepsMeddle
  <1>9. CASE Rest \/ UNCHANGED installVars
    BY <1>9, KeepsStutter DEF Rest
  <1> QED
    BY <1>1, <1>2, <1>3, <1>4, <1>5, <1>6, <1>7, <1>8, <1>9 DEF InstallNext

\* What a command knows, what it has locked and what it may rely on in the directory
\* fit together at every step of every install and uninstall, and so does what is on
\* disk in each state a power loss may leave.
THEOREM InstallInvariant == InstallSpec => []InstallInv
  <1>1. InstallInit => InstallInv
    BY InitInv
  <1>2. InstallInv /\ [InstallNext]_installVars => InstallInv'
    BY NextInv
  <1> QED
    BY <1>1, <1>2, PTL DEF InstallSpec

\* OwnedProvesCopy, for every catalog and any number of commands: an owned record
\* always stands over the package that a commit moved to its backup path, so that
\* neither recovery nor sweep restores or deletes anything else.
THEOREM OwnedCorrect == InstallSpec => []OwnedProvesCopy
  <1>1. InstallInv => OwnedProvesCopy
    BY DEF InstallInv, DirInv, Good, Proves, OwnedProvesCopy
  <1> QED
    BY <1>1, InstallInvariant, PTL

\* NoPackageLost: a package nobody began to uninstall is at its target or whole in a
\* backup whose sidecar names it, whatever was killed and whenever the power goes.
THEOREM NotLostCorrect == InstallSpec => []NoPackageLost
  <1>1. InstallInv => NoPackageLost
    BY DEF InstallInv, DirInv, Good, Keeps, NoPackageLost
  <1> QED
    BY <1>1, InstallInvariant, PTL

\* UninstallIsFinal: a package whose uninstall reported success is at its target in
\* no state a power loss may leave, until it is installed again.
THEOREM UninstallCorrect == InstallSpec => []UninstallIsFinal
  <1>1. InstallInv => UninstallIsFinal
    BY DEF InstallInv, DirInv, Good, Forgets, UninstallIsFinal
  <1> QED
    BY <1>1, InstallInvariant, PTL


-----------------------------------------------------------------------------
(* What others put there. *)

Spared == \A s \in Slots : dir.backup[s].own \/ dir'.backup[s] = dir.backup[s] \/ losses' # losses

LEMMA SparedByPhase ==
    ASSUME InstallInv, NEW s \in Slots, NEW ph \in Phases, Persist(SetPhase(s, ph))
    PROVE  Spared
  BY PhaseFacts DEF Persist, Spared

LEMMA SparedByStay ==
    ASSUME SameDir \/ Sync
    PROVE  Spared
  BY DEF SameDir, Sync, Spared

LEMMA SparedByMoving ==
    ASSUME InstallInv, NEW c \in Commands, Moving(c)
    PROVE  Spared
  <1> DEFINE r == job[c].rec
  <1>0. Place(c) /\ Shape(dir)
    BY Facts
  <1>1. at[c] \in RecordSteps => r.slot \in Slots /\ r.id \in Ids
    BY LockFacts
  <1>2. CASE RestoreBegin(c)
    BY <1>1, <1>2, SparedByPhase, SparedByStay DEF RestoreBegin, RecordSteps, Phases
  <1>3. CASE RestoreMove(c)
    <2>1. /\ at[c] = "restoreMove" /\ dir.backup[r.slot].own /\ r.slot \in Slots /\ r.id \in Ids
      BY <1>0, <1>1, <1>3 DEF RestoreMove, Place, RecordSteps
    <2>2. CASE Persist(SetPhase(r.slot, "owned"))
      BY <2>1, <2>2, SparedByPhase DEF Phases
    <2>3. CASE Change([dir EXCEPT !.target[r.id] = dir.backup[r.slot], !.backup[r.slot] = Vacant])
      <3> DEFINE x == dir.backup[r.slot]
      <3>1. x \in Contents /\ Vacant \in Contents
        BY <2>1, ContentFacts, VacantFacts
      <3>2. dir' = Put(r.id, x, r.slot, Vacant)
        BY <2>3 DEF Change, Put
      <3> HIDE DEF x, r
      <3>3. \A t \in Slots \ {r.slot} : Put(r.id, x, r.slot, Vacant).backup[t] = dir.backup[t]
        BY <2>1, <3>1, DirFields
      <3> QED
        BY <2>1, <3>2, <3>3 DEF Spared
    <2> QED
      BY <1>3, <2>2, <2>3 DEF RestoreMove
  <1>4. CASE RemoveBegin(c)
    <2>1. r.slot \in Slots
      BY <1>1, <1>4 DEF RemoveBegin, RecordSteps
    <2>2. SameDir \/ Sync \/ Persist(SetPhase(r.slot, "cleaning"))
      BY <1>4 DEF RemoveBegin, GiveUp
    <2> QED
      BY <2>1, <2>2, SparedByPhase, SparedByStay DEF Phases
  <1>5. CASE Erase(c)
    <2>1. at[c] = "erase" /\ dir.backup[r.slot].own /\ r.slot \in Slots
      BY <1>0, <1>1, <1>5 DEF Erase, Place, RecordSteps
    <2>2. dir' = [dir EXCEPT !.backup[r.slot] = Vacant]
      BY <1>5 DEF Erase, Change
    <2> HIDE DEF r
    <2>3. \A t \in Slots \ {r.slot} : dir'.backup[t] = dir.backup[t]
      BY <2>1, <2>2, VacantFacts, BackupField
    <2> QED
      BY <2>1, <2>3 DEF Spared
  <1>6. CASE DropSidecar(c)
    <2>1. r.slot \in Slots
      BY <1>1, <1>6 DEF DropSidecar, RecordSteps
    <2>2. dir' = [dir EXCEPT !.sidecar[r.slot] = NoSidecar]
      BY <1>6 DEF DropSidecar, SyncThen
    <2> HIDE DEF r
    <2>3. dir'.backup = dir.backup
      BY <2>1, <2>2, VacantFacts, SidecarField
    <2> QED
      BY <2>3 DEF Spared
  <1>7. CASE Dropped(c)
    BY <1>7, SparedByStay DEF Dropped
  <1> QED
    BY <1>2, <1>3, <1>4, <1>5, <1>6, <1>7 DEF Moving

LEMMA SparedByCommitting ==
    ASSUME InstallInv, NEW c \in Commands, Committing(c)
    PROVE  Spared
  <1> DEFINE r == job[c].rec
  <1>0. Place(c) /\ Shape(dir)
    BY Facts
  <1>1. CASE CheckPlan(c) \/ CommitBegin(c) \/ Pending(c) \/ Clear(c) \/ Published(c) \/ CommitDone(c)
    BY <1>1, SparedByStay DEF CheckPlan, CommitBegin, Pending, Clear, Published, CommitDone
  <1>2. CASE Mark(c)
    <2>1. CASE SameDir
      BY <2>1, SparedByStay
    <2>2. CASE drawn + 1 \in Slots /\ drawn' = drawn + 1
               /\ Persist([dir EXCEPT !.sidecar[drawn'] = Marker(NowId(c))])
      <3> DEFINE n == drawn + 1
                 m == Marker(NowId(c))
      <3>1. m \in Sidecars
        <4>1. NowId(c) \in Ids
          BY <1>2, LockFacts DEF Mark, InCommit
        <4> QED
          BY <4>1 DEF Marker, Sidecars, Phases
      <3>2. dir' = [dir EXCEPT !.sidecar[n] = m] /\ n \in Slots
        BY <2>2 DEF Persist
      <3> HIDE DEF n, m
      <3>3. dir'.backup = dir.backup
        BY <3>1, <3>2, SidecarField
      <3> QED
        BY <3>3 DEF Spared
    <2> QED
      BY <1>2, <2>1, <2>2 DEF Mark
  <1>3. CASE MoveAway(c)
    <2>1. r.slot \in Slots /\ r.id \in Ids
      BY <1>3, LockFacts DEF MoveAway, Replacing
    <2>2. CASE SameDir
      BY <2>2, SparedByStay
    <2>3. CASE /\ dir.backup[r.slot].is = "none"
               /\ Change([dir EXCEPT !.backup[r.slot] = [dir.target[r.id] EXCEPT !.own = TRUE],
                                     !.target[r.id] = Vacant])
      <3> DEFINE x == dir.target[r.id]
                 y == [x EXCEPT !.own = TRUE]
      <3>1. x \in Contents
        BY <2>1, ContentFacts
      <3>2. dir' = Take(r.id, Vacant, r.slot, y)
        BY <2>3 DEF Change, Take
      <3>3. dir.backup[r.slot].own
        BY <1>0, <2>1, <2>3 DEF Shape
      <3> HIDE DEF x, r
      <3>4. y \in Contents
        BY <3>1 DEF Contents
      <3> HIDE DEF y
      <3>5. dir' = Put(r.id, Vacant, r.slot, y)
        BY <2>1, <3>2, <3>4, VacantFacts, PutOrder
      <3>6. Vacant \in Contents
        BY VacantFacts
      <3>7. \A t \in Slots \ {r.slot} : Put(r.id, Vacant, r.slot, y).backup[t] = dir.backup[t]
        BY <2>1, <3>4, <3>6, DirFields
      <3> QED
        BY <3>3, <3>5, <3>7 DEF Spared
    <2> QED
      BY <1>3, <2>2, <2>3 DEF MoveAway
  <1>4. CASE Own(c)
    <2>1. r.slot \in Slots
      BY <1>4, LockFacts DEF Own, Replacing
    <2> QED
      BY <1>4, <2>1, SparedByPhase DEF Own, Phases
  <1>5. CASE Publish(c)
    <2>1. CASE SameDir
      BY <2>1, SparedByStay
    <2>2. CASE Change([dir EXCEPT !.target[NowId(c)] = Copy(Now(c).pkg)])
      <3> DEFINE i == NowId(c)
                 x == Copy(Now(c).pkg)
      <3>1. i \in Ids /\ Now(c).pkg \in Packages
        BY <1>5, LockFacts DEF Publish, InCommit
      <3>2. x \in Contents
        BY <3>1 DEF Copy, Contents, Packages
      <3>3. dir' = [dir EXCEPT !.target[i] = x]
        BY <2>2 DEF Change
      <3> HIDE DEF i, x
      <3>4. dir'.backup = dir.backup
        BY <3>1, <3>2, <3>3, TargetField
      <3> QED
        BY <3>4 DEF Spared
    <2> QED
      BY <1>5, <2>1, <2>2 DEF Publish
  <1> QED
    BY <1>1, <1>2, <1>3, <1>4, <1>5 DEF Committing

LEMMA SparedByUninstalling ==
    ASSUME InstallInv, NEW c \in Commands, Uninstalling(c)
    PROVE  Spared
  <1>1. CASE BeginUninstall(c) \/ CheckUninstall(c) \/ Unlist(c) \/ Gone(c)
    BY <1>1, SparedByStay DEF BeginUninstall, CheckUninstall, Unlist, Gone
  <1>2. CASE EraseTarget(c)
    <2>1. Work(c).id \in Ids
      BY <1>2, RemovalFacts DEF EraseTarget
    <2>2. dir' = [dir EXCEPT !.target[Work(c).id] = Vacant]
      BY <1>2 DEF EraseTarget, Change
    <2>3. dir'.backup = dir.backup
      BY <2>1, <2>2, VacantFacts, TargetField
    <2> QED
      BY <2>3 DEF Spared
  <1> QED
    BY <1>1, <1>2 DEF Uninstalling

LEMMA SparedByInterrupt ==
    ASSUME InstallInv, NEW c \in Commands, Interrupt(c)
    PROVE  Spared
  <1>0. Place(c)
    BY Facts
  <1>1. CASE SameDir
    BY <1>1, SparedByStay
  <1>2. CASE at[c] = "erase" /\ Change([dir EXCEPT !.backup[job[c].rec.slot] = Partly(@)])
    <2> DEFINE s == job[c].rec.slot
               y == Partly(dir.backup[s])
    <2>1. s \in Slots /\ dir.backup[s].own
      BY <1>0, <1>2, LockFacts DEF RecordSteps, Place
    <2>2. dir.backup[s] \in Contents
      BY <2>1, ContentFacts
    <2>3. y \in Contents
      BY <2>2 DEF Partly, Contents
    <2>4. dir' = [dir EXCEPT !.backup[s] = y]
      BY <1>2 DEF Change
    <2> HIDE DEF s, y
    <2>5. \A t \in Slots \ {s} : dir'.backup[t] = dir.backup[t]
      BY <2>1, <2>3, <2>4, BackupField
    <2> QED
      BY <2>1, <2>5 DEF Spared
  <1>3. CASE at[c] = "eraseTarget" /\ Change([dir EXCEPT !.target[Work(c).id] = Partly(@)])
    <2> DEFINE i == Work(c).id
               x == Partly(dir.target[i])
    <2>1. i \in Ids
      BY <1>3, RemovalFacts
    <2>2. dir.target[i] \in Contents
      BY <2>1, ContentFacts
    <2>3. x \in Contents
      BY <2>2 DEF Partly, Contents
    <2>4. dir' = [dir EXCEPT !.target[i] = x]
      BY <1>3 DEF Change
    <2> HIDE DEF i, x
    <2>5. dir'.backup = dir.backup
      BY <2>1, <2>3, <2>4, TargetField
    <2> QED
      BY <2>5 DEF Spared
  <1> QED
    BY <1>1, <1>2, <1>3 DEF Interrupt

-----------------------------------------------------------------------------
(* Types. *)

Counted == /\ interruptions \in 0 .. setting.interruptions
           /\ losses \in 0 .. setting.losses /\ meddles \in 0 .. setting.meddles
Uncounted == UNCHANGED <<setting, interruptions, losses, meddles>>

LEMMA CommandsUncounted ==
    ASSUME NEW c \in Commands,
           \/ BeginInstall(c) \/ Recovering(c) \/ Moving(c) \/ Planning(c) \/ AcquireLock(c)
           \/ Committing(c) \/ Uninstalling(c)
    PROVE  Uncounted
  <1>1. BeginInstall(c) \/ AcquireLock(c) => Uncounted
    BY DEF BeginInstall, AcquireLock, Quiet, Bounds, Uncounted
  <1>2. Recovering(c) => Uncounted
    BY DEF Recovering, RecoverNext, RecoverDone, SweepSkip, SweepRecord, SweepDone, Quiet, Bounds, Uncounted
  <1>3. Moving(c) => Uncounted
    BY DEF Moving, RestoreBegin, RestoreMove, RemoveBegin, Erase, DropSidecar, Dropped, Quiet, Bounds,
         Uncounted
  <1>4. Planning(c) => Uncounted
    BY DEF Planning, Plan, WalkDependency, WalkUp, Prepare, PrepareDone, Quiet, Bounds, Uncounted
  <1>5. Committing(c) => Uncounted
    BY DEF Committing, CheckPlan, CommitBegin, Pending, Clear, Mark, MoveAway, Own, Publish, Published,
         CommitDone, Quiet, Bounds, Uncounted
  <1>6. Uninstalling(c) => Uncounted
    BY DEF Uninstalling, BeginUninstall, CheckUninstall, Unlist, EraseTarget, Gone, Quiet, Bounds, Uncounted
  <1> QED
    BY <1>1, <1>2, <1>3, <1>4, <1>5, <1>6

LEMMA CountedStays ==
    ASSUME setting \in Settings, Counted, [InstallNext]_installVars
    PROVE  Counted'
  <1>0. setting.interruptions \in Nat /\ setting.losses \in Nat /\ setting.meddles \in Nat
    BY SettingAssumption
  <1>1. Uncounted => Counted'
    BY DEF Uncounted, Counted
  <1>2. ASSUME NEW c \in Commands, PublishFails(c) \/ Interrupt(c)
        PROVE  Counted'
    BY <1>0, <1>2 DEF PublishFails, Interrupt, Counted
  <1>3. PowerLoss => Counted'
    BY <1>0 DEF PowerLoss, Counted
  <1>4. Meddle => Counted'
    BY <1>0 DEF Meddle, Counted
  <1>5. Rest \/ UNCHANGED installVars => Counted'
    BY DEF Rest, installVars, Counted
  <1>6. ASSUME NEW c \in Commands,
               \/ BeginInstall(c) \/ Recovering(c) \/ Moving(c) \/ Planning(c) \/ AcquireLock(c)
               \/ Committing(c) \/ Uninstalling(c)
        PROVE  Counted'
    BY <1>1, <1>6, CommandsUncounted
  <1> QED
    BY <1>2, <1>3, <1>4, <1>5, <1>6 DEF InstallNext

LEMMA CountedAlways == InstallSpec => []Counted
  <1>1. InstallInit => Counted
    <2> SUFFICES ASSUME InstallInit PROVE Counted
      OBVIOUS
    <2>1. /\ setting \in Settings /\ interruptions = 0 /\ losses = 0 /\ meddles = 0
      BY DEF InstallInit
    <2>2. setting.interruptions \in Nat /\ setting.losses \in Nat /\ setting.meddles \in Nat
      BY <2>1, SettingAssumption
    <2> QED
      BY <2>1, <2>2 DEF Counted
  <1>2. ASSUME InstallInv, Counted, [InstallNext]_installVars
        PROVE  Counted'
    BY <1>2, CountedStays DEF InstallInv, DirInv
  <1> QED
    BY <1>1, <1>2, InstallInvariant, PTL DEF InstallSpec

\* InstallTypeOK: the directory and every state a power loss may leave are well
\* formed, commands are at their steps, and only a command under way has locks.
THEOREM InstallTypesCorrect == InstallSpec => []InstallTypeOK
  <1>1. InstallInv /\ Counted => InstallTypeOK
    BY DEF InstallInv, LocalInv, DirInv, Good, Shape, Counted, InstallTypeOK
  <1> QED
    BY <1>1, CountedAlways, InstallInvariant, PTL

\* ForeignIsUntouched: no step of any command moves, changes or deletes what somebody
\* else put at a backup path; only a power loss, which undoes, makes it go.
THEOREM ForeignCorrect == InstallSpec => ForeignIsUntouched
  <1>1. ASSUME InstallInv, Counted, [InstallNext]_installVars
        PROVE  [\A s \in Slots : dir.backup[s].own \/ dir'.backup[s] = dir.backup[s] \/ losses' # losses]_installVars
    <2>1. ASSUME NEW c \in Commands,
                 \/ BeginInstall(c) \/ Recovering(c) \/ Planning(c) \/ AcquireLock(c) \/ PublishFails(c)
          PROVE  Spared
      <3>1. SameDir \/ Sync
        BY <2>1 DEF BeginInstall, Recovering, RecoverNext, RecoverDone, SweepSkip, SweepRecord, SweepDone,
             Planning, Plan, WalkDependency, WalkUp, Prepare, PrepareDone, AcquireLock, PublishFails
      <3> QED
        BY <3>1, SparedByStay
    <2>2. PowerLoss => Spared
      BY <1>1 DEF PowerLoss, Spared, Counted
    <2>3. Meddle => Spared
      <3>1. Shape(dir)
        BY <1>1 DEF InstallInv, DirInv, Good
      <3> QED
        BY <1>1, <3>1, MeddleFills DEF Filled, Shape, Spared
    <2>4. Rest => Spared
      BY DEF Rest, installVars, Spared
    <2>5. ASSUME NEW c \in Commands, Moving(c)
          PROVE  Spared
      BY <1>1, <2>5, SparedByMoving
    <2>6. ASSUME NEW c \in Commands, Committing(c)
          PROVE  Spared
      BY <1>1, <2>6, SparedByCommitting
    <2>7. ASSUME NEW c \in Commands, Uninstalling(c)
          PROVE  Spared
      BY <1>1, <2>7, SparedByUninstalling
    <2>8. ASSUME NEW c \in Commands, Interrupt(c)
          PROVE  Spared
      BY <1>1, <2>8, SparedByInterrupt
    <2>9. ASSUME NEW c \in Commands,
                 BeginInstall(c) \/ Recovering(c) \/ Moving(c) \/ Planning(c) \/ AcquireLock(c)
                 \/ Committing(c) \/ Uninstalling(c) \/ PublishFails(c) \/ Interrupt(c)
          PROVE  Spared
      BY <2>1, <2>5, <2>6, <2>7, <2>8, <2>9, Zenon
    <2>10. InstallNext => Spared
      BY <2>2, <2>3, <2>4, <2>9, Zenon DEF InstallNext
    <2> QED
      BY <1>1, <2>10 DEF Spared
  <1> QED
    BY <1>1, InstallInvariant, CountedAlways, PTL DEF InstallSpec, ForeignIsUntouched

-----------------------------------------------------------------------------
(* Deadlock.  A command waits for its locks in one order, by stage and      *)
(* number, and holds only locks before those it waits for.                  *)

LockNumbers == {0} \cup Ids \cup {ShardOf[i] : i \in Ids}
Keys == (1 .. 4) \X LockNumbers
Key(l) == <<l.stage, l.n>>
Below(p, q) == IF p[1] = q[1] THEN p[2] < q[2] ELSE p[1] < q[1]

InOrder(c) ==
    at[c] = "lock" =>
       /\ \A h \in job[c].held, w \in job[c].want : LockOrder(h, w)
       /\ \E shared \in BOOLEAN : job[c].held \cup job[c].want \subseteq Locks(c, Ids, shared)
OrderInv == \A c \in Commands : InOrder(c)

LEMMA KeysFinite ==
    /\ IsFiniteSet(Keys)
    /\ \A p \in Keys : p[1] \in Int /\ p[2] \in Int
  <1>1. IsFiniteSet({0}) /\ IsFiniteSet(Ids) /\ Ids \subseteq Nat /\ ShardOf \in [Ids -> Nat]
    BY InstallAssumption, FS_Singleton
  <1>2. IsFiniteSet({ShardOf[i] : i \in Ids})
    <2> DEFINE T == {ShardOf[i] : i \in Ids}
    <2>1. [i \in Ids |-> ShardOf[i]] \in Surjection(Ids, T)
      BY DEF Surjection
    <2> HIDE DEF T
    <2>2. IsFiniteSet(T)
      BY <1>1, <2>1, FS_Surjection
    <2> QED
      BY <2>2 DEF T
  <1>3. IsFiniteSet(LockNumbers)
    <2>1. IsFiniteSet({0} \cup Ids)
      BY <1>1, FS_Union
    <2> QED
      BY <1>2, <2>1, FS_Union DEF LockNumbers
  <1>4. IsFiniteSet(1 .. 4)
    <2>1. 1 \in Int /\ 4 \in Int
      OBVIOUS
    <2> QED
      BY <2>1, FS_Interval, Zenon
  <1>5. LockNumbers \subseteq Int
    <2>1. \A i \in Ids : i \in Int /\ ShardOf[i] \in Int
      BY <1>1
    <2> QED
      BY <2>1 DEF LockNumbers
  <1>6. IsFiniteSet(Keys)
    BY <1>3, <1>4, FS_Product DEF Keys
  <1>7. ASSUME NEW p \in (1 .. 4) \X LockNumbers
        PROVE  p[1] \in Int /\ p[2] \in Int
    <2>1. ASSUME NEW A, NEW B, NEW k \in A \X B
          PROVE  k[1] \in A /\ k[2] \in B
      OBVIOUS
    <2>2. p[1] \in 1 .. 4 /\ p[2] \in LockNumbers
      BY <2>1, <1>7
    <2>3. \A x \in 1 .. 4 : x \in Int
      OBVIOUS
    <2> QED
      BY <1>5, <2>2, <2>3, Zenon
  <1> QED
    BY <1>6, <1>7 DEF Keys

\* Among finitely many keys one is the last: the keys above it are the fewest.
LEMMA LastKey ==
    ASSUME NEW T \in SUBSET Keys, T # {}
    PROVE  \E p \in T : \A q \in T : ~Below(p, q)
  <1> DEFINE Above(p) == {k \in Keys : Below(p, k)}
             U == {Above(p) : p \in T}
             R == StrictSubsetOrdering(Keys)
  <1>1. U \subseteq FiniteSubsetsOf(Keys) /\ U # {}
    <2>1. FiniteSubsetsOf(Keys) = SUBSET Keys
      BY KeysFinite, FS_FiniteSubsetsOfFinite
    <2>2. U \subseteq SUBSET Keys /\ U # {}
      OBVIOUS
    <2> QED
      BY <2>1, <2>2
  <1>2. PICK x \in U : \A y \in U : ~ (<<y, x>> \in R)
    BY <1>1, FS_StrictSubsetOrderingWellFounded, WFMin
  <1>3. PICK p \in T : x = Above(p)
    BY <1>2
  <1>4. ASSUME NEW q \in T, Below(p, q)
        PROVE  FALSE
    <2>1. p \in Keys /\ q \in Keys /\ p[1] \in Int /\ p[2] \in Int /\ q[1] \in Int /\ q[2] \in Int
      BY KeysFinite
    <2>2. \A k \in Keys : Below(q, k) => Below(p, k)
      BY <1>4, <2>1, KeysFinite DEF Below
    <2>3. ~Below(q, q)
      BY <2>1 DEF Below
    <2>4. Above(q) \subseteq Above(p) /\ q \in Above(p) /\ q \notin Above(q)
      BY <1>4, <2>1, <2>2, <2>3
    <2>5. Above(q) \in SUBSET Keys /\ Above(p) \in SUBSET Keys /\ Above(q) # Above(p) /\ Above(q) \in U
      BY <2>4
    <2> HIDE DEF Above, U
    <2>6. <<Above(q), Above(p)>> \in R
      BY <2>4, <2>5 DEF StrictSubsetOrdering
    <2> QED
      BY <1>2, <1>3, <2>5, <2>6
  <1> QED
    BY <1>4

\* And one is the first.
LEMMA FirstKey ==
    ASSUME NEW T \in SUBSET Keys, T # {}
    PROVE  \E p \in T : \A q \in T : ~Below(q, p)
  <1> DEFINE Under(p) == {k \in Keys : Below(k, p)}
             U == {Under(p) : p \in T}
             R == StrictSubsetOrdering(Keys)
  <1>1. U \subseteq FiniteSubsetsOf(Keys) /\ U # {}
    <2>1. FiniteSubsetsOf(Keys) = SUBSET Keys
      BY KeysFinite, FS_FiniteSubsetsOfFinite
    <2>2. U \subseteq SUBSET Keys /\ U # {}
      OBVIOUS
    <2> QED
      BY <2>1, <2>2
  <1>2. PICK x \in U : \A y \in U : ~ (<<y, x>> \in R)
    BY <1>1, FS_StrictSubsetOrderingWellFounded, WFMin
  <1>3. PICK p \in T : x = Under(p)
    BY <1>2
  <1>4. ASSUME NEW q \in T, Below(q, p)
        PROVE  FALSE
    <2>1. p \in Keys /\ q \in Keys /\ p[1] \in Int /\ p[2] \in Int /\ q[1] \in Int /\ q[2] \in Int
      BY KeysFinite
    <2>2. \A k \in Keys : Below(k, q) => Below(k, p)
      BY <1>4, <2>1, KeysFinite DEF Below
    <2>3. ~Below(q, q)
      BY <2>1 DEF Below
    <2>4. Under(q) \subseteq Under(p) /\ q \in Under(p) /\ q \notin Under(q)
      BY <1>4, <2>1, <2>2, <2>3
    <2>5. Under(q) \in SUBSET Keys /\ Under(p) \in SUBSET Keys /\ Under(q) # Under(p) /\ Under(q) \in U
      BY <2>4
    <2> HIDE DEF Under, U
    <2>6. <<Under(q), Under(p)>> \in R
      BY <2>4, <2>5 DEF StrictSubsetOrdering
    <2> QED
      BY <1>2, <1>3, <2>5, <2>6
  <1> QED
    BY <1>4

\* A command's locks have different keys, and LockOrder is the order of the keys.
LEMMA LockKeys ==
    ASSUME NEW c, NEW shared
    PROVE  /\ \A l \in Locks(c, Ids, shared) : Key(l) \in Keys
           /\ \A l, m \in Locks(c, Ids, shared) : Key(l) = Key(m) => l = m
           /\ \A l, m \in Locks(c, Ids, shared) : LockOrder(l, m) <=> Below(Key(l), Key(m))
  <1> DEFINE Scope(stage) == IF stage \in {1, 3} THEN Work(c).process ELSE ""
             Shared(stage) == IF stage \in {1, 2} THEN shared ELSE FALSE
  <1>1. ASSUME NEW l \in Locks(c, Ids, shared)
        PROVE  /\ l.stage \in 1 .. 4 /\ l.n \in LockNumbers
               /\ l = Lock(l.stage, Scope(l.stage), l.n, Shared(l.stage))
    <2>1. CASE l = Lock(1, Work(c).process, 0, shared)
      <3>1. l.stage = 1 /\ l.n = 0
        BY <2>1 DEF Lock
      <3>2. Scope(1) = Work(c).process /\ Shared(1) = shared
        OBVIOUS
      <3>3. l.stage \in 1 .. 4 /\ l.n \in LockNumbers
        BY <3>1 DEF LockNumbers
      <3>4. l = Lock(l.stage, Scope(l.stage), l.n, Shared(l.stage))
        <4> HIDE DEF Scope, Shared
        <4> QED
          BY <2>1, <3>1, <3>2, Zenon
      <3> QED
        BY <3>3, <3>4
    <2>2. CASE l = Lock(2, "", 0, shared)
      <3>1. l.stage = 2 /\ l.n = 0
        BY <2>2 DEF Lock
      <3>2. Scope(2) = "" /\ Shared(2) = shared
        OBVIOUS
      <3>3. l.stage \in 1 .. 4 /\ l.n \in LockNumbers
        BY <3>1 DEF LockNumbers
      <3>4. l = Lock(l.stage, Scope(l.stage), l.n, Shared(l.stage))
        <4> HIDE DEF Scope, Shared
        <4> QED
          BY <2>2, <3>1, <3>2, Zenon
      <3> QED
        BY <3>3, <3>4
    <2>3. CASE l \in {Lock(3, Work(c).process, ShardOf[i], FALSE) : i \in Ids}
      <3>1. PICK i \in Ids : l = Lock(3, Work(c).process, ShardOf[i], FALSE)
        BY <2>3
      <3>2. l.stage = 3 /\ l.n = ShardOf[i]
        BY <3>1 DEF Lock
      <3>3. Scope(3) = Work(c).process /\ Shared(3) = FALSE
        OBVIOUS
      <3>4. l.stage \in 1 .. 4 /\ l.n \in LockNumbers
        BY <3>2 DEF LockNumbers
      <3>5. l = Lock(l.stage, Scope(l.stage), l.n, Shared(l.stage))
        <4> HIDE DEF Scope, Shared
        <4> QED
          BY <3>1, <3>2, <3>3, Zenon
      <3> QED
        BY <3>4, <3>5
    <2>4. CASE l \in {Lock(4, "", i, FALSE) : i \in Ids}
      <3>1. PICK i \in Ids : l = Lock(4, "", i, FALSE)
        BY <2>4
      <3>2. l.stage = 4 /\ l.n = i
        BY <3>1 DEF Lock
      <3>3. Scope(4) = "" /\ Shared(4) = FALSE
        OBVIOUS
      <3>4. l.stage \in 1 .. 4 /\ l.n \in LockNumbers
        BY <3>2 DEF LockNumbers
      <3>5. l = Lock(l.stage, Scope(l.stage), l.n, Shared(l.stage))
        <4> HIDE DEF Scope, Shared
        <4> QED
          BY <3>1, <3>2, <3>3, Zenon
      <3> QED
        BY <3>4, <3>5
    <2> QED
      BY <1>1, <2>1, <2>2, <2>3, <2>4 DEF Locks
  <1> HIDE DEF Scope, Shared
  <1>2. ASSUME NEW l \in Locks(c, Ids, shared), NEW m \in Locks(c, Ids, shared), Key(l) = Key(m)
        PROVE  l = m
    <2>1. l.stage = m.stage /\ l.n = m.n
      BY <1>2 DEF Key
    <2>2. /\ l = Lock(l.stage, Scope(l.stage), l.n, Shared(l.stage))
          /\ m = Lock(m.stage, Scope(m.stage), m.n, Shared(m.stage))
      BY <1>1, Zenon
    <2> QED
      BY <2>1, <2>2, Zenon
  <1>3. \A l, m : LockOrder(l, m) <=> Below(Key(l), Key(m))
    BY DEF LockOrder, Below, Key
  <1>4. ASSUME NEW l \in Locks(c, Ids, shared)
        PROVE  Key(l) \in Keys
    BY <1>1, <1>4, Zenon DEF Key, Keys
  <1> QED
    BY <1>2, <1>3, <1>4, Zenon

\* A step of c that does not lead to its locks.
Elsewhere(c) == /\ at'[c] # "lock"
                /\ \A o \in Commands \ {c} : at'[o] = at[o] /\ job'[o] = job[o]

LEMMA GoesElsewhere ==
    ASSUME LocalInv, NEW c \in Commands, NEW step, NEW j, step # "lock", Goto(c, step, j)
    PROVE  Elsewhere(c)
  <1>1. at' = [at EXCEPT ![c] = step] /\ job' = [job EXCEPT ![c] = j]
    BY DEF Goto
  <1>2. DOMAIN at = Commands /\ DOMAIN job = Commands
    BY DEF LocalInv
  <1> QED
    BY <1>1, <1>2 DEF Elsewhere

LEMMA OnlyThreeAsk ==
    ASSUME LocalInv, NEW c \in Commands,
           \/ BeginInstall(c) \/ Recovering(c) \/ Moving(c) \/ Plan(c) \/ WalkDependency(c) \/ WalkUp(c)
           \/ Prepare(c) \/ Committing(c) \/ CheckUninstall(c) \/ Unlist(c) \/ EraseTarget(c) \/ Gone(c)
           \/ PublishFails(c) \/ Interrupt(c)
    PROVE  Elsewhere(c)
  <1>0. ASSUME NEW step, NEW j, step # "lock", Goto(c, step, j)
        PROVE  Elsewhere(c)
    BY <1>0, GoesElsewhere
  <1>1. BeginInstall(c) \/ PublishFails(c) \/ Interrupt(c) => Elsewhere(c)
    BY <1>0 DEF BeginInstall, PublishFails, Interrupt, Rollback, End
  <1>2. Recovering(c) => Elsewhere(c)
    BY <1>0 DEF Recovering, RecoverNext, RecoverDone, SweepSkip, SweepRecord, SweepDone, End, Step
  <1>3. RestoreBegin(c) \/ RestoreMove(c) \/ RemoveBegin(c) => Elsewhere(c)
    BY <1>0 DEF RestoreBegin, RestoreMove, RemoveBegin, GiveUp, Error, End, Step
  <1>4. Erase(c) \/ DropSidecar(c) \/ Dropped(c) => Elsewhere(c)
    BY <1>0 DEF Erase, DropSidecar, Dropped, End, Step
  <1>5. \A stack, p, kind, chosen : Enter(c, stack, p, kind, chosen) => Elsewhere(c)
    BY <1>0 DEF Enter, End
  <1>6. \A stack, i, req, kind : Resolve(c, stack, i, req, kind) => Elsewhere(c)
    BY <1>0, <1>5 DEF Resolve, End
  <1>7. Plan(c) => Elsewhere(c)
    BY <1>5, <1>6 DEF Plan
  <1>8. WalkDependency(c) => Elsewhere(c)
    BY <1>0, <1>6 DEF WalkDependency, End
  <1>9. WalkUp(c) \/ Prepare(c) => Elsewhere(c)
    BY <1>0 DEF WalkUp, Prepare, End
  <1>10. CheckPlan(c) \/ CommitBegin(c) \/ Pending(c) \/ Clear(c) \/ Mark(c) => Elsewhere(c)
    BY <1>0 DEF CheckPlan, CommitBegin, Pending, Clear, Mark, End, Step
  <1>11. MoveAway(c) \/ Own(c) \/ Publish(c) \/ Published(c) \/ CommitDone(c) => Elsewhere(c)
    BY <1>0 DEF MoveAway, Own, Publish, Published, CommitDone, Rollback, End, Step
  <1>12. CheckUninstall(c) \/ Unlist(c) \/ EraseTarget(c) \/ Gone(c) => Elsewhere(c)
    BY <1>0 DEF CheckUninstall, Unlist, UnlistNext, EraseTarget, Gone, End, Step
  <1> QED
    BY <1>1, <1>2, <1>3, <1>4, <1>7, <1>8, <1>9, <1>10, <1>11, <1>12 DEF Moving, Committing

LEMMA OrderElsewhere ==
    ASSUME OrderInv, NEW c \in Commands, Elsewhere(c), UNCHANGED setting
    PROVE  OrderInv'
  <1> SUFFICES ASSUME NEW o \in Commands
               PROVE  InOrder(o)'
    BY DEF OrderInv
  <1>1. \A shared : Locks(o, Ids, shared)' = Locks(o, Ids, shared)
    BY DEF Locks, Work
  <1>2. CASE o = c
    BY <1>2 DEF Elsewhere, InOrder
  <1>3. CASE o # c
    BY <1>1, <1>3 DEF Elsewhere, InOrder, OrderInv
  <1> QED
    BY <1>2, <1>3

\* A command that starts to wait holds nothing and wants locks of one sharing.
LEMMA OrderBegun ==
    ASSUME OrderInv, LocalInv, UNCHANGED setting,
           NEW c \in Commands, NEW j, NEW S \in SUBSET Ids, NEW sh \in BOOLEAN,
           j.held = {}, j.want = Locks(c, S, sh), Goto(c, "lock", j)
    PROVE  OrderInv'
  <1> SUFFICES ASSUME NEW o \in Commands
               PROVE  InOrder(o)'
    BY DEF OrderInv
  <1>1. \A shared : Locks(o, Ids, shared)' = Locks(o, Ids, shared)
    BY DEF Locks, Work
  <1>2. /\ job'[c] = j
        /\ \A d \in Commands \ {c} : at'[d] = at[d] /\ job'[d] = job[d]
    BY DEF Goto, LocalInv
  <1>3. Locks(c, S, sh) \subseteq Locks(c, Ids, sh)
    BY DEF Locks
  <1>4. CASE o = c
    <2>1. job'[o].held = {} /\ job'[o].want \subseteq Locks(o, Ids, sh)
      BY <1>2, <1>3, <1>4
    <2> QED
      BY <1>1, <2>1 DEF InOrder
  <1>5. CASE o # c
    BY <1>1, <1>2, <1>5 DEF InOrder, OrderInv
  <1> QED
    BY <1>4, <1>5

LEMMA OrderAcquire ==
    ASSUME OrderInv, LocalInv, UNCHANGED setting, NEW c \in Commands, AcquireLock(c)
    PROVE  OrderInv'
  <1>1. CASE job[c].want = {}
    <2>1. Goto(c, "check", job[c])
      BY <1>1 DEF AcquireLock, Step
    <2> QED
      BY <2>1, GoesElsewhere, OrderElsewhere
  <1>2. CASE job[c].want # {}
    <2>1. PICK l \in job[c].want :
            /\ IsNextLock(c, l)
            /\ Goto(c, "lock", [job[c] EXCEPT !.want = @ \ {l}, !.held = @ \cup {l}])
      BY <1>2 DEF AcquireLock
    <2> DEFINE j == [job[c] EXCEPT !.want = @ \ {l}, !.held = @ \cup {l}]
    <2>2. j.want = job[c].want \ {l} /\ j.held = job[c].held \cup {l}
      BY DEF LocalInv, Jobs
    <2>3. Goto(c, "lock", j)
      BY <2>1
    <2> HIDE DEF j
    <2>4. /\ job'[c] = j
          /\ \A d \in Commands \ {c} : at'[d] = at[d] /\ job'[d] = job[d]
      BY <2>3 DEF Goto, LocalInv
    <2>5. at[c] = "lock" /\ InOrder(c)
      BY DEF AcquireLock, OrderInv
    <2> SUFFICES ASSUME NEW o \in Commands
                 PROVE  InOrder(o)'
      BY DEF OrderInv
    <2>6. \A shared : Locks(o, Ids, shared)' = Locks(o, Ids, shared)
      BY DEF Locks, Work
    <2>7. CASE o = c
      <3>1. \A h \in job'[o].held, w \in job'[o].want : LockOrder(h, w)
        BY <2>1, <2>2, <2>4, <2>5, <2>7 DEF InOrder, IsNextLock
      <3>2. job'[o].held \cup job'[o].want = job[o].held \cup job[o].want
        BY <2>1, <2>2, <2>4, <2>7
      <3> QED
        BY <2>5, <2>6, <2>7, <3>1, <3>2 DEF InOrder
    <2>8. CASE o # c
      BY <2>4, <2>6, <2>8 DEF InOrder, OrderInv
    <2> QED
      BY <2>7, <2>8
  <1> QED
    BY <1>1, <1>2

LEMMA OrderNext ==
    ASSUME InstallInv, OrderInv, [InstallNext]_installVars
    PROVE  OrderInv'
  <1>0. LocalInv /\ setting \in Settings
    BY DEF InstallInv, DirInv
  <1>1. ASSUME NEW c \in Commands,
               \/ BeginInstall(c) \/ Recovering(c) \/ Moving(c) \/ Planning(c) \/ AcquireLock(c)
               \/ Committing(c) \/ Uninstalling(c) \/ PublishFails(c) \/ Interrupt(c)
        PROVE  UNCHANGED setting
    BY <1>1, CommandsUncounted DEF Uncounted, PublishFails, Interrupt
  <1>2. ASSUME NEW c \in Commands, PrepareDone(c)
        PROVE  OrderInv'
    <2> DEFINE S == {Id(p) : p \in Staged(c) \cup job[c].chosen}
               j == [job[c] EXCEPT !.want = Locks(c, S, TRUE)]
    <2>1. job[c] \in Jobs(c) /\ job[c].held = {} /\ Goto(c, "lock", j)
      BY <1>0, <1>2 DEF LocalInv, Local, Held, PrepareDone
    <2>2. S \in SUBSET Ids
      <3>1. Staged(c) \subseteq Packages
        <4>1. job[c].ready \in Seq(ReadyItems)
          BY <2>1 DEF Jobs
        <4>2. \A k \in DOMAIN job[c].ready : job[c].ready[k] \in ReadyItems
          BY <4>1
        <4> QED
          BY <4>2 DEF Staged, ReadyItems
      <3>2. job[c].chosen \subseteq Packages
        BY <2>1 DEF Jobs
      <3> QED
        BY <3>1, <3>2, InstallAssumption DEF Packages, Id
    <2> HIDE DEF S
    <2>3. j.held = {} /\ j.want = Locks(c, S, TRUE)
      BY <2>1 DEF Jobs
    <2>4. UNCHANGED setting
      BY <1>1, <1>2 DEF Planning
    <2> HIDE DEF j
    <2> QED
      BY <1>0, <2>1, <2>2, <2>3, <2>4, OrderBegun
  <1>3. ASSUME NEW c \in Commands, BeginUninstall(c)
        PROVE  OrderInv'
    <2> DEFINE S == {Work(c).id}
               j == [NoJob EXCEPT !.want = Locks(c, S, FALSE)]
    <2>1. UNCHANGED setting
      BY <1>1, <1>3 DEF Uninstalling
    <2>2. CASE Goto(c, "lock", j)
      <3>1. c \in DOMAIN setting.work
        BY <1>0, <1>3 DEF BeginUninstall, LocalInv, Local, Kinds, Ended
      <3>2. S \in SUBSET Ids
        BY <1>0, <3>1, SettingAssumption DEF Work
      <3>3. j.held = {} /\ j.want = Locks(c, S, FALSE)
        BY DEF NoJob
      <3> HIDE DEF S, j
      <3> QED
        BY <1>0, <2>1, <2>2, <3>2, <3>3, OrderBegun
    <2>3. CASE End(c, "failed")
      <3>1. Elsewhere(c)
        BY <1>0, <2>3, GoesElsewhere DEF End
      <3> QED
        BY <2>1, <3>1, OrderElsewhere
    <2> QED
      BY <1>3, <2>2, <2>3 DEF BeginUninstall
  <1>4. ASSUME NEW c \in Commands, AcquireLock(c)
        PROVE  OrderInv'
    BY <1>0, <1>1, <1>4, OrderAcquire
  <1>5. ASSUME NEW c \in Commands,
           \/ BeginInstall(c) \/ Recovering(c) \/ Moving(c) \/ Plan(c) \/ WalkDependency(c) \/ WalkUp(c)
           \/ Prepare(c) \/ Committing(c) \/ CheckUninstall(c) \/ Unlist(c) \/ EraseTarget(c) \/ Gone(c)
           \/ PublishFails(c) \/ Interrupt(c)
        PROVE  OrderInv'
    <2>1. UNCHANGED setting
      BY <1>1, <1>5 DEF Planning, Uninstalling
    <2>2. Elsewhere(c)
      BY <1>0, <1>5, OnlyThreeAsk
    <2> QED
      BY <2>1, <2>2, OrderElsewhere
  <1>6. PowerLoss => OrderInv'
    <2> SUFFICES ASSUME PowerLoss, NEW o \in Commands
                 PROVE  at'[o] # "lock"
      BY DEF OrderInv, InOrder
    <2> QED
      BY DEF PowerLoss, Active, Ended
  <1>7. Meddle \/ Rest \/ UNCHANGED installVars => OrderInv'
    <2> SUFFICES ASSUME UNCHANGED <<setting, at, job>>
                 PROVE  OrderInv'
      BY DEF Meddle, Rest, installVars
    <2>1. \A o \in Commands, shared \in BOOLEAN : Locks(o, Ids, shared)' = Locks(o, Ids, shared)
      BY DEF Locks, Work
    <2> QED
      BY <2>1 DEF OrderInv, InOrder
  <1>8. ASSUME NEW c \in Commands,
               \/ BeginInstall(c) \/ Recovering(c) \/ Moving(c) \/ Planning(c) \/ AcquireLock(c)
               \/ Committing(c) \/ Uninstalling(c) \/ PublishFails(c) \/ Interrupt(c)
        PROVE  OrderInv'
    BY <1>2, <1>3, <1>4, <1>5, <1>8, Zenon DEF Planning, Uninstalling
  <1> QED
    BY <1>6, <1>7, <1>8 DEF InstallNext

\* Every command that waits has a next lock.
LEMMA NextLock ==
    ASSUME OrderInv, NEW c \in Commands, at[c] = "lock", job[c].want # {}
    PROVE  \E l \in job[c].want : IsNextLock(c, l) /\ Key(l) \in Keys
  <1> DEFINE W == job[c].want
             T == {Key(l) : l \in W}
  <1>1. PICK shared \in BOOLEAN : W \subseteq Locks(c, Ids, shared)
    BY DEF OrderInv, InOrder
  <1>2. /\ \A l \in W : Key(l) \in Keys
        /\ \A l, m \in W : Key(l) = Key(m) => l = m
        /\ \A l, m \in W : LockOrder(l, m) <=> Below(Key(l), Key(m))
    BY <1>1, LockKeys
  <1>3. T \in SUBSET Keys /\ T # {}
    BY <1>2
  <1>4. PICK p \in T : \A q \in T : ~Below(q, p)
    BY <1>3, FirstKey
  <1>5. PICK l \in W : p = Key(l)
    BY <1>4
  <1>6. ASSUME NEW m \in W \ {l}
        PROVE  LockOrder(l, m)
    <2>1. Key(m) \in T /\ Key(m) \in Keys /\ Key(l) \in Keys /\ Key(m) # Key(l)
      BY <1>2
    <2>2. ~Below(Key(m), Key(l))
      BY <1>4, <1>5, <2>1
    <2>3. /\ l.stage \in Int /\ l.n \in Int /\ m.stage \in Int /\ m.n \in Int
          /\ l.stage # m.stage \/ l.n # m.n
      <3>1. Key(m)[1] \in Int /\ Key(m)[2] \in Int /\ Key(l)[1] \in Int /\ Key(l)[2] \in Int
        BY <2>1, KeysFinite, Zenon
      <3> QED
        BY <2>1, <3>1 DEF Key
    <2> QED
      BY <2>2, <2>3 DEF Below, Key, LockOrder
  <1> QED
    BY <1>2, <1>5, <1>6 DEF IsNextLock

LEMMA NobodyStuck == InstallInv /\ OrderInv => SomeoneProceeds
  <1> DEFINE waiting == {c \in Commands : at[c] = "lock" /\ job[c].want # {}}
             T == {p \in Keys : \E c \in waiting : \E l \in job[c].want : IsNextLock(c, l) /\ Key(l) = p}
  <1> SUFFICES ASSUME InstallInv, OrderInv, Active # {}, Active = waiting
               PROVE  \E c \in waiting : \E l \in job[c].want : IsNextLock(c, l) /\ ~Blocked(c, l)
    BY DEF SomeoneProceeds
  <1>1. \A c \in waiting : \E l \in job[c].want : IsNextLock(c, l) /\ Key(l) \in Keys
    BY NextLock
  <1>2. T \in SUBSET Keys /\ T # {}
    BY <1>1
  <1>3. PICK p \in T : \A q \in T : ~Below(p, q)
    BY <1>2, LastKey
  <1>c. PICK c \in waiting : \E l \in job[c].want : IsNextLock(c, l) /\ Key(l) = p
    BY <1>3
  <1>4. PICK l \in job[c].want : IsNextLock(c, l) /\ Key(l) = p
    BY <1>c
  <1>5. ASSUME Blocked(c, l)
        PROVE  FALSE
    <2>o. PICK o \in Commands \ {c} : \E m \in job[o].held : Same(l, m)
      BY <1>5 DEF Blocked
    <2>1. PICK m \in job[o].held : Same(l, m)
      BY <2>o
    <2>2. job[o] # NoJob
      BY <2>1, NoJobType
    <2>3. o \in waiting
      BY <2>1, <2>2 DEF InstallInv, LocalInv, Active
    <2>4. PICK w \in job[o].want : IsNextLock(o, w) /\ Key(w) \in Keys
      BY <1>1, <2>3
    <2>5. Key(w) \in T
      BY <2>3, <2>4
    <2>6. LockOrder(m, w)
      BY <2>1, <2>3, <2>4 DEF OrderInv, InOrder
    <2>7. Below(p, Key(w))
      BY <1>4, <2>1, <2>6 DEF Same, LockOrder, Below, Key
    <2> QED
      BY <1>3, <2>5, <2>7
  <1> QED
    BY <1>4, <1>5

\* SomeoneProceeds: whatever closures they install or remove, in however many
\* processes, the commands never all wait for one another's locks.
THEOREM ProceedsCorrect == InstallSpec => []SomeoneProceeds
  <1>1. InstallInit => OrderInv
    BY DEF InstallInit, OrderInv, InOrder
  <1>2. ASSUME InstallInv, OrderInv, [InstallNext]_installVars
        PROVE  OrderInv'
    BY <1>2, OrderNext
  <1> QED
    BY <1>1, <1>2, NobodyStuck, InstallInvariant, PTL DEF InstallSpec

=============================================================================
