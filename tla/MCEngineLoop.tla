----------------------------- MODULE MCEngineLoop -----------------------------
(* Small flows that between them have every policy the loop branches on.   *)
EXTENDS EngineLoop, TLC

Step == [needs |-> {}, deps |-> "all", when |-> {"true"}, tries |-> 1, effect |-> "none",
         asks |-> FALSE, may |-> {"success"}, safe |-> FALSE, replaySafe |-> FALSE,
         policy |-> "warn", onFail |-> "none", repair |-> "a", recheck |-> "a",
         exhausted |-> "fail"]
NoHooks == [e \in {} |-> Step]
Abc(a, b, c, hooks) ==
    [nodes |-> "a" :> a @@ "b" :> b @@ "c" :> c, order |-> <<"a", "b", "c">>, hooks |-> hooks]
One(a) == [nodes |-> "a" :> a, order |-> <<"a">>, hooks |-> NoHooks]

(* A wave of a guarded effect with a retry and a step that asks. *)
Parallel ==
    Abc([Step EXCEPT !.effect = "fail", !.safe = TRUE, !.tries = 2, !.may = {"success", "failed"}],
        [Step EXCEPT !.asks = TRUE, !.safe = TRUE, !.replaySafe = TRUE],
        [Step EXCEPT !.needs = {"a", "b"}], NoHooks)

(* Join policies, a false condition and one that may fail to evaluate, an  *)
(* on_fail question, two hooks.                                            *)
Policies ==
    Abc([Step EXCEPT !.may = {"success", "check", "failed"}, !.tries = 2],
        [Step EXCEPT !.when = {"false"}, !.needs = {"a"}, !.deps = "any"],
        [Step EXCEPT !.needs = {"a", "b"}, !.deps = "none_failed", !.onFail = "ask",
                     !.when = {"true", "error"},
                     !.may = {"success", "check"}],
        "run_failed" :> [Step EXCEPT !.effect = "repeat", !.may = {"success", "check", "failed"}]
        @@ "run_started" :> [Step EXCEPT !.policy = "fail", !.may = {"success", "failed"}])

Regenerate ==
    One([Step EXCEPT !.may = {"success", "check"}, !.onFail = "regenerate", !.exhausted = "ask"])

Repair ==
    Abc([Step EXCEPT !.may = {"success", "check"}, !.onFail = "repair", !.repair = "b",
                     !.recheck = "c", !.exhausted = "ask"],
        [Step EXCEPT !.needs = {"a"}, !.effect = "fail"],
        [Step EXCEPT !.needs = {"b"}, !.may = {"success", "check"}],
        "run_succeeded" :> Step)

MCFlows == {Parallel, Policies, Regenerate, Repair}

(* A command whose structured result fails its check, regenerated. *)
RegeneratedEffect ==
    {One([Step EXCEPT !.effect = "fail", !.may = {"success", "check"}, !.onFail = "regenerate"])}

(* A repair cycle with a node left to run after it. *)
RepairThenMore ==
    {[Repair EXCEPT !.nodes = @ @@ "d" :> [Step EXCEPT !.needs = {"a"}],
                    !.order = <<"a", "b", "c", "d">>]}

(* A check that fails in a wave beside a guarded effect. *)
CheckInWave ==
    {Abc([Step EXCEPT !.may = {"success", "check"}, !.safe = TRUE],
         [Step EXCEPT !.effect = "fail", !.safe = TRUE],
         [Step EXCEPT !.needs = {"a", "b"}, !.deps = "any"], NoHooks)}

(* A condition that reads a step the node does not need: true in the pass  *)
(* that runs the node, it may be false in the resume's.                    *)
Reevaluated ==
    {Abc([Step EXCEPT !.when = {"true", "false"}], Step, Step, NoHooks)}

(* A node of the contract that needs a node of a repair cycle. *)
NeedsRepair ==
    {Abc([Step EXCEPT !.may = {"success", "check"}, !.onFail = "repair", !.repair = "b",
                      !.recheck = "b", !.exhausted = "route"],
         [Step EXCEPT !.needs = {"a"}, !.may = {"success", "failed"}],
         [Step EXCEPT !.needs = {"b"}], NoHooks)}

FairLoopSpec == LoopSpec /\ LoopFairness
=============================================================================
