--------------------------- MODULE MCRunLifecycle ---------------------------
(***************************************************************************)
(* RunLifecycle for TLC.  The .cfg files choose the services, the cancel   *)
(* operations and the bounds.                                              *)
(***************************************************************************)
EXTENDS RunLifecycle, TLC

\* Nothing names a particular service, so runs that check only safety may
\* identify states that differ by a renaming of the services.
ServiceSymmetry == Permutations(Services)
=============================================================================
