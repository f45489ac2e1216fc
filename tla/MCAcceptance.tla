----------------------------- MODULE MCAcceptance ------------------------------
(* Acceptance on small instances.                                             *)
EXTENDS Acceptance, TLC

Symmetry == Permutations(Task) \cup Permutations(Order)

(* Bounds: timeout tasks are lost before they fire (the instance with one     *)
(* order is about those that fire), and an order that was answered is asked   *)
(* about again only while its answer is not committed.                        *)
WebhooksOnly ==
    /\ \A t \in Task : pc[t] # "cancel"
    /\ \A t \in Task : pc[t] = "send" =>
        told[job[t].order] = {} \/ Working(job[t].order)
================================================================================
