-------------------------- MODULE MCPackageInstall --------------------------
(***************************************************************************)
(* PackageInstall for TLC: generators 1, 2 and 3, where 2 and 3 depend on  *)
(* 1, and three commands in the settings that make them meet.              *)
(***************************************************************************)
EXTENDS PackageInstall, TLC

CONSTANTS k1, k2, k3

Release(i, v, needs) == [id |-> i, version |-> v, needs |-> needs]
MCCatalog ==
    [d1 |-> Release(1, 1, <<>>), d2 |-> Release(1, 2, <<>>),
     p1 |-> Release(2, 1, 1 :> {1, 2}), p2 |-> Release(2, 2, 1 :> {2}),
     e1 |-> Release(3, 1, 1 :> {1}),
     \* needs 1 in a version that 3 refuses; depends on what depends on it
     q1 |-> Release(2, 3, 1 :> {2} @@ 3 :> {1}), w1 |-> Release(1, 3, 2 :> {1})]

\* 1 and 3 share a shard, and 2 comes before them in the order of the shards.
MCShardOf == 1 :> 9 @@ 2 :> 4 @@ 3 :> 9

Direct(p, process) == [kind |-> "install", pkg |-> p, id |-> MCCatalog[p].id, req |-> {},
                       force |-> TRUE, process |-> process]
Careful(p, process) == [Direct(p, process) EXCEPT !.force = FALSE]
Named(i, req, process) == [kind |-> "install", pkg |-> "", id |-> i, req |-> req,
                           force |-> FALSE, process |-> process]
Away(i, process) == [Direct("d1", process) EXCEPT !.kind = "uninstall", !.id = i]

Base == [installed |-> {"d1"}, registry |-> {"d1", "d2"}, foreign |-> "d1",
         work |-> k1 :> Direct("d2", "A"), interruptions |-> 0, losses |-> 0, meddles |-> 0]

\* A replacement is killed or loses the power, and is tried again.
Replaced == [Base EXCEPT !.work = k1 :> Direct("d2", "A") @@ k2 :> Direct("d1", "B")
                                  @@ k3 :> Direct("d2", "C"),
                         !.interruptions = 2, !.losses = 1]
\* Somebody uses the paths that became vacant, and the package is uninstalled.
Meddled == [Base EXCEPT !.work = k1 :> Direct("d2", "A") @@ k2 :> Direct("d1", "B")
                                 @@ k3 :> Away(1, "C"),
                        !.interruptions = 1, !.meddles = 1]
\* An uninstall of 1 meets an install that reuses it.
Contested == [Base EXCEPT !.work = k1 :> Direct("p1", "A") @@ k2 :> Away(1, "B")
                                   @@ k3 :> Named(3, {1}, "A"),
                          !.registry = {"d1", "d2", "e1"}, !.losses = 1]
\* Closures that overlap, in two processes.
Overlapping == [Base EXCEPT !.installed = {}, !.interruptions = 1,
                            !.work = k1 :> Direct("p1", "A") @@ k2 :> Direct("p1", "B")
                                     @@ k3 :> Direct("e1", "A")]
\* Plans that cannot be: a conflict, a cycle, a version nobody offers, a
\* replacement that was not asked for.
Refused == [Base EXCEPT !.registry = {"d1", "d2", "e1", "p1"},
                        !.work = k1 :> Direct("q1", "A") @@ k2 :> Careful("w1", "B")
                                 @@ k3 :> Named(1, {2, 4}, "C")]
MCSettings == {Replaced, Meddled, Contested, Overlapping, Refused,
               [Refused EXCEPT !.work = k1 :> Direct("w1", "A") @@ k2 :> Named(3, {2}, "B")
                                        @@ k3 :> Careful("d2", "C")]}
\* A replacement of 2 is killed with the old package in its backup, 1 is
\* uninstalled, and the next install recovers 2.
Restored == [Base EXCEPT !.installed = {"d1", "p1"}, !.interruptions = 1,
                         !.work = k1 :> Direct("p1", "A") @@ k2 :> Away(1, "B")
                                  @@ k3 :> Direct("e1", "C")]
MCRestored == {Restored}
=============================================================================
