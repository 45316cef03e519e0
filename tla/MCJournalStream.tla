---------------------------- MODULE MCJournalStream ---------------------------
(* The settings a run may have: who writes its journal besides the engine, *)
(* and who follows it.                                                     *)
EXTENDS JournalStream

None == [mode |-> "exclusive", audit |-> FALSE, service |-> FALSE, clock |-> "wall",
         parallel |-> FALSE, resumes |-> FALSE, refusals |-> FALSE, bare |-> FALSE,
         followers |-> {"p"}]
Active == [None EXCEPT !.clock = "active"]
Shared == [None EXCEPT !.mode = "shared"]

MCSettings ==
    {[Active EXCEPT !.audit = TRUE, !.service = TRUE],
     [None EXCEPT !.service = TRUE, !.parallel = TRUE],
     [Shared EXCEPT !.audit = TRUE, !.parallel = TRUE],
     [Shared EXCEPT !.service = TRUE, !.parallel = TRUE, !.refusals = TRUE],
     [Active EXCEPT !.audit = TRUE, !.service = TRUE, !.parallel = TRUE,
                    !.refusals = TRUE, !.bare = TRUE, !.followers = {}]}

Duplicate == {[None EXCEPT !.audit = TRUE, !.service = TRUE],
              [Shared EXCEPT !.audit = TRUE, !.service = TRUE, !.parallel = TRUE]}
Reordered == {[None EXCEPT !.audit = TRUE, !.parallel = TRUE]}
Joined    == {[Shared EXCEPT !.parallel = TRUE, !.followers = {"p", "q"}]}
Resumed   == {[None EXCEPT !.resumes = TRUE]}
Bare      == {[None EXCEPT !.bare = TRUE, !.resumes = TRUE]}
Refused   == {[None EXCEPT !.refusals = TRUE]}

FairStreamSpec == StreamSpec /\ StreamFairness
=============================================================================
