----------------------------- MODULE MCPipeline -----------------------------
(* Instances of Pipeline for TLC.  Each configuration picks the instruction *)
(* classes whose interplay it is about.                                     *)
EXTENDS Pipeline

(* Next, its choices in the order of the stages they matter to, so that    *)
(* TLC soon sees whether two states are a step.                             *)
Tick ==
  \E outcome \in Outcomes, irq \in Irqs :
  \E fetch \in Fetches(br_redirect(outcome)) :
    /\ plic_irq' = irq
    /\ FetchEdge(fetch, outcome) /\ DecodeEdge(fetch, br_redirect(outcome))
    /\ \E exe_value \in ExeValues, load_value \in LoadValues, stall \in Stalls :
         Clock(outcome, fetch, exe_value, load_value, stall, irq)

(* The clock keeps running.                                                *)
FairSpec == Spec /\ WF_vars(Tick)
=============================================================================
