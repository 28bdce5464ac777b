-------------------------- MODULE MCRegistrations --------------------------
(***************************************************************************)
(* Two requests beside each other on two projects, two environments, two   *)
(* users; or the Argo CD Application of one environment, written by two of *)
(* two deployments and an SDK registration.  The two share no state that   *)
(* the model keeps: a behaviour moves one of them.                         *)
(***************************************************************************)
EXTENDS Registrations, Applications, TLC

VARIABLE part

MCEnvNames == <<"development", "production">>
Symmetry == Permutations(Reqs) \cup Permutations(Repos)

MCInit ==
    /\ Init /\ AppsInit /\ part \in {"projects", "applications"}
    \* What stands still begins in one way.
    /\ part = "applications" => project = [id \in Ids |-> NoRow]
    /\ part = "projects" => \A j \in Writers : At(j, "ended")
    \* A project begins with at most one of a domain, a repository and a tech lead for an owner.
    /\ part = "projects" => \A id \in Ids :
          /\ project[id].domain \in Domains => project[id].repo = None
          /\ project[id].domain \in Domains \/ project[id].repo # None =>
                \A u \in Users \ Admins : member[id][u].role # "owner"
    /\ part = "applications" => Cardinality({j \in Writers : ~At(j, "ended")}) = 2
MCNext ==
    \/ part = "projects" /\ Next /\ UNCHANGED <<appsVars, part>>
    \/ part = "applications" /\ AppsNext /\ UNCHANGED <<vars, part>>
MCSpec == MCInit /\ [][MCNext]_<<vars, appsVars, part>>

\* Projects, environments, members and registrations agree, and a deployment that was told deployed
\* is what Argo CD runs.
PlacesInv == RegistrationsInv /\ AppsInv
=============================================================================
