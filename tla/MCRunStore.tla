----------------------------- MODULE MCRunStore -----------------------------
(***************************************************************************)
(* RunStore for TLC: two requests over three run ids, in the settings that *)
(* make them meet.                                                         *)
(***************************************************************************)
EXTENDS RunStore, TLC

CONSTANTS s1, s2, a1, a2, x, y, z

Ask(s, r, src, id, keyed) ==
    [service |-> s, run |-> r, source |-> src, identity |-> id, keyed |-> keyed]
Start(s, r, id) == Ask(s, r, NoSource, id, FALSE)
Keyed(s, r, id) == Ask(s, r, NoSource, id, TRUE)
Fork(s, r, src) == Ask(s, r, src, "fork", TRUE)
Two(q1, q2) == a1 :> q1 @@ a2 :> q2

\* x and y share an admission shard.
MCShardOf == [r \in Runs |-> IF r = z THEN 2 ELSE 1]

Plain == [work |-> Two(Keyed(s1, x, "p"), Keyed(s1, x, "p")),
          old |-> <<>>, services |-> {s1}, shared |-> FALSE, tracked |-> 3,
          mutated |-> {}, canceled |-> {}, sweeps |-> FALSE, deletes |-> FALSE,
          expired |-> {}, crashes |-> 0, shutdowns |-> 0, faults |-> 0]

\* A keyed start and its retry, through a crash, a shutdown and a fault.
Retried == [Plain EXCEPT !.crashes = 1, !.shutdowns = 1, !.faults = 1, !.sweeps = TRUE,
                         !.deletes = TRUE]
\* Two starts for the last place in the run map.
Rivals == [Plain EXCEPT !.work = Two(Start(s1, x, "p"), Start(s1, z, "q")),
                        !.tracked = 1, !.faults = 1]
\* Two services admit the same id with different inputs.
Contested == [Plain EXCEPT !.work = Two(Start(s1, x, "p"), Start(s2, x, "q")),
                           !.services = {s1, s2}, !.shared = TRUE, !.shutdowns = 1,
                           !.sweeps = TRUE]
\* A retry reaches the other service.
Peers == [Contested EXCEPT !.work = Two(Keyed(s1, x, "p"), Keyed(s2, x, "p"))]
\* Retention meets a replay of y, a start that may become a third settled run,
\* and keyed mutations of y.
Swept == [Plain EXCEPT !.work = Two(Keyed(s1, y, "old"), Start(s1, x, "p")),
                       !.old = << <<y, "success">>, <<z, "success">> >>,
                       !.mutated = {y, z}, !.sweeps = TRUE, !.deletes = TRUE]
SweptFailed == [Swept EXCEPT !.old = << <<y, "failed">>, <<z, "failed">> >>]
\* The newer run's retention has passed, the older one's has not.
SweptExpired == [Swept EXCEPT !.expired = {z}, !.deletes = FALSE]
\* A fork and its retry, of a settled and of a waiting source.
Forked == [Plain EXCEPT !.work = Two(Fork(s1, x, y), Fork(s1, x, y)),
                        !.old = << <<y, "success">> >>,
                        !.canceled = {x}, !.shutdowns = 1, !.faults = 1, !.sweeps = TRUE]
ForkedWaiting == [Forked EXCEPT !.old = << <<y, "waiting">> >>, !.canceled = {y}]

MCSettings == {Retried, Rivals, Contested, Peers, Swept, SweptFailed, SweptExpired,
               Forked, ForkedWaiting}
\* A crash in the middle of a fork's admission.
MCForkCrash == {[Forked EXCEPT !.crashes = 1]}
\* Two starts for the last place in the map of one of two services.
MCCrowded == {[Peers EXCEPT !.work = Two(Keyed(s1, x, "p"), Keyed(s1, z, "q")), !.tracked = 1]}
=============================================================================
