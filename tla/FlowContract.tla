----------------------------- MODULE FlowContract -----------------------------
(***************************************************************************)
(* What the engine promises of one run, however often it is invoked over   *)
(* the same journal: a step is settled once and stays as it was settled,   *)
(* its guarded external effect takes place at most once and before the     *)
(* step is settled, and one verdict ends the run - success only with every *)
(* step settled and none failed.                                           *)
(***************************************************************************)
EXTENDS Naturals

VARIABLES
    steps,    \* the steps of the run's flow
    outcome,  \* [step -> "none" while it is open, or how it was settled]
    effects,  \* [step -> how often its guarded effect took place]
    verdict   \* the terminal event, "none" while there is none

contractVars == <<steps, outcome, effects, verdict>>

ContractInit ==
    /\ outcome = [n \in steps |-> "none"]
    /\ effects = [n \in steps |-> 0]
    /\ verdict = "none"

(* Guarded effects of open steps take place. *)
TakeEffect ==
    /\ effects' \in [steps -> 0..1]
    /\ \A n \in steps :
         effects'[n] # effects[n] => effects[n] = 0 /\ outcome[n] = "none"
    /\ UNCHANGED <<steps, outcome, verdict>>

(* One open step is settled. *)
SettleStep ==
    /\ verdict = "none"
    /\ \E n \in steps, s \in {"success", "skipped", "failed"} :
         outcome[n] = "none" /\ outcome' = [outcome EXCEPT ![n] = s]
    /\ UNCHANGED <<steps, effects, verdict>>

Decide ==
    /\ verdict = "none" /\ verdict' \in {"success", "failed", "canceled"}
    /\ verdict' = "success" =>
         \A n \in steps : outcome[n] \in {"success", "skipped"}
    /\ UNCHANGED <<steps, outcome, effects>>

ContractNext == TakeEffect \/ SettleStep \/ Decide
ContractSpec == ContractInit /\ [][ContractNext]_contractVars
=============================================================================
