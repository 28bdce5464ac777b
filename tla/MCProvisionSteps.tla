-------------------------- MODULE MCProvisionSteps --------------------------
(* Instances of ProvisionSteps for TLC. *)
EXTENDS ProvisionSteps, TLC

\* The first step is marked and completed under two keys, as ingress-nginx is; the second
\* marks itself once more, as routing does.
MCPlan == << [mark |-> "ingress-nginx", key |-> "ingress", marks |-> FALSE],
             [mark |-> "routing", key |-> "routing", marks |-> TRUE] >>

\* Of the three commands and the seed, three begin at most.
MCNext == Next /\ \E p \in All : pc'[p] = "out"
MCSpec == Init /\ [][MCNext]_vars

Interchangeable == Permutations(Cmds) \cup Permutations(Seeds)
=============================================================================
