--------------------------- MODULE MCDeployments ---------------------------
(* Instances of Deployments for TLC. *)
EXTENDS Deployments

\* The first deployment of any kind but one that closing webhooks do not find, then a rollback.
AnyThenRollback == <<Kinds \ {"push"}, {"rollback"}>>

\* Two requests meet the deployment of a preview, whose job is that of any other environment; one
\* meets the latter.
MCNext == DeploymentsNext /\ (kind[1] = "argo" => requests' <= 1)
MCSpec == DeploymentsInit /\ [][MCNext]_deploymentVars /\ \A r \in Rows : WF_deploymentVars(JobStep(r))
=============================================================================
