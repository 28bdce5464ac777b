----------------------------- MODULE Installers -----------------------------
(***************************************************************************)
(* What the Install functions of platformctl do to the host and to the     *)
(* cluster (platformctl/internal/components/components.go, k3s/k3s.go,     *)
(* helm/helm.go, docker/docker.go, cmd/root.go).  Commands run one at a    *)
(* time, under the lock; any of them is killed between two steps of a      *)
(* script, and a command of a script fails.  A helm operation is pending   *)
(* while it waits; a release left pending refuses the next operation.  The *)
(* progress file is the set of the marked steps; ProvisionSteps has the    *)
(* way it is written.                                                      *)
(***************************************************************************)
EXTENDS Naturals, Sequences

CONSTANTS
    Setup,       \* the steps of a provision, with those the configuration leaves out taken out
    MaxMishaps   \* bound: failures, kills, troubles and installs by name

Hosts == {"docker", "k3s", "helm"}
Simple == {"prereqs", "namespaces"}
Plain == {"ingress", "cert-manager", "postgresql", "mongodb", "redis", "minio"}
Masked == {"monitoring", "infisical"} \* their scripts end well whatever helm does
Releases == Plain \cup Masked \cup {"argocd", "oauth2-proxy", "portainer", "updater"}
SetupSteps == (Hosts \cup Simple \cup Releases \cup {"platform", "routing", "auto-update"}) \ {"updater"}

ASSUME InstallersAssumption ==
    /\ Setup \in Seq(SetupSteps) /\ Setup # <<>>
    /\ MaxMishaps \in Nat

VARIABLES
    host,  \* software, marked steps, helm releases, applied objects, Portainer's volume and
           \* its values file under /tmp
    cmd,   \* the command: its step, its last step, the stage within the step; how the last one ended
    left,  \* bound: mishaps to come
    past   \* history: steps a pending release refused, what was lost after its step was marked

setupVars == <<host, cmd, left, past>>

Objects == {"issuer", "argo-server", "portainer", "sso", "env", "api", "routes", "paths", "cron",
            "application"}

InstallersTypeOK ==
    /\ host.present \subseteq Hosts /\ host.marked \subseteq SetupSteps
    /\ host.release \in [Releases -> {"none", "pending", "failed", "deployed"}]
    /\ host.objects \subseteq Objects /\ host.volume \in {"none", "seeded", "changed"}
    /\ host.values \in BOOLEAN
    /\ {cmd.at, cmd.to} \subseteq 1 .. Len(Setup)
    /\ left \in 0 .. MaxMishaps
    /\ past.refused \subseteq SetupSteps /\ past.lost \subseteq {"cluster", "portainer"}

InstallersInit ==
    /\ host = [present |-> {}, marked |-> {}, release |-> [r \in Releases |-> "none"],
               objects |-> {}, volume |-> "none", values |-> FALSE]
    /\ cmd = [at |-> 1, to |-> 1, stage |-> "idle", end |-> "none"]
    /\ left = MaxMishaps
    /\ past = [refused |-> {}, lost |-> {}]

-----------------------------------------------------------------------------
(* The command *)

At == Setup[cmd.at]
In(steps, stage) == cmd.stage = stage /\ At \in steps
To(stage) == cmd' = [cmd EXCEPT !.stage = stage]

\* Everything goes well, or one command of the script fails.
Well == UNCHANGED left
Fails == left > 0 /\ left' = left - 1

Leave == cmd' = IF cmd.at < cmd.to
                THEN [cmd EXCEPT !.at = @ + 1, !.stage = "start"]
                ELSE [cmd EXCEPT !.stage = "idle", !.end = IF cmd.end = "running" THEN "ok" ELSE "none"]

\* platformctl provision; platformctl install names one component.
RunProvision ==
    /\ cmd.stage = "idle"
    /\ cmd' = [at |-> 1, to |-> Len(Setup), stage |-> "start", end |-> "running"]
    /\ UNCHANGED <<host, left, past>>
RunInstall(i) ==
    /\ cmd.stage = "idle" /\ Setup[i] \notin Hosts \cup Simple
    /\ left > 0 /\ left' = left - 1
    /\ cmd' = [at |-> i, to |-> i, stage |-> "start", end |-> "none"]
    /\ UNCHANGED <<host, past>>

\* The step's function returned an error: the command stops; its temporary file is removed.
Abort ==
    /\ cmd.stage = "failed"
    /\ cmd' = [cmd EXCEPT !.stage = "idle", !.end = "none"]
    /\ host' = [host EXCEPT !.values = @ /\ At # "portainer"]
    /\ UNCHANGED <<left, past>>

\* Mutant: routing is applied by every provision.
SkipButRouting ==
    /\ In(SetupSteps \ (Hosts \cup {"argocd"}), "start")
    /\ IF At \in host.marked \ {"routing"} THEN Leave ELSE To("begin")
    /\ UNCHANGED <<host, left, past>>

\* doneOrSkip.
Skip ==
    /\ In(SetupSteps \ (Hosts \cup {"argocd"}), "start")
    /\ IF At \in host.marked THEN Leave ELSE To("begin")
    /\ UNCHANGED <<host, left, past>>

Mark ==
    /\ cmd.stage = "mark"
    /\ host' = [host EXCEPT !.marked = @ \cup {At}, !.values = @ /\ At # "portainer"]
    /\ Leave
    /\ UNCHANGED <<left, past>>

\* A failure that is not fatal: the step is left unmarked.
GiveUp == cmd.stage = "unmarked" /\ Leave /\ UNCHANGED <<host, left, past>>

\* Packages and namespaces: the step as a whole, well or not.
InstallSimple ==
    /\ In(Simple, "begin")
    /\ \/ To("mark") /\ Well
       \/ To("failed") /\ Fails
    /\ UNCHANGED <<host, past>>

\* Mutant: what is marked is not looked for.
Marked(k) == k \in host.marked
\* A step of the host is skipped when its command is still there.
StillThere(k) == k \in host.marked \cap host.present

\* Docker, K3s and Helm are installed where the command is missing.  K3s is waited for and has
\* CoreDNS patched each time; Docker is waited for without end.
InstallHost ==
    /\ In(Hosts, "start")
    /\ \/ StillThere(At) /\ Leave /\ UNCHANGED host /\ Well
       \/ ~StillThere(At) /\ host' = [host EXCEPT !.present = @ \cup {At}] /\ To("mark") /\ Well
       \/ At \notin host.present /\ UNCHANGED host /\ To("failed") /\ Fails
       \/ At = "k3s" /\ host' = [host EXCEPT !.present = @ \cup {At}] /\ To("failed") /\ Fails
    /\ UNCHANGED past

-----------------------------------------------------------------------------
(* helm *)

Release(r, status) == [host EXCEPT !.release[r] = status]

\* A Portainer that starts on an empty volume creates the administrator.
Bring(h, some) ==
    [h EXCEPT !.objects = @ \cup some,
              !.volume = IF "portainer" \in some /\ @ = "none" THEN "seeded" ELSE @]

\* helm upgrade --install (or, of a release there is, upgrade) starts, or is refused.
HelmStarts(r, from, to, refused) ==
    /\ cmd.stage = from
    /\ IF host.release[r] = "pending"
       THEN /\ past' = [past EXCEPT !.refused = @ \cup {At}]
            /\ To(refused) /\ UNCHANGED host
       ELSE host' = Release(r, "pending") /\ To(to) /\ UNCHANGED past
    /\ Well

\* It ends: well, with the objects it brings, or not, with or without them.
HelmEnds(r, from, brings, well, badly) ==
    /\ cmd.stage = from
    /\ \/ host' = Bring(Release(r, "deployed"), brings) /\ To(well) /\ Well
       \/ /\ \E some \in SUBSET brings : host' = Bring(Release(r, "failed"), some)
          /\ To(badly) /\ Fails
    /\ UNCHANGED past

\* clear_helm_lock: the secret of a pending operation is deleted.
ClearHelmLock(r) == IF host.release[r] = "pending" THEN Release(r, "none") ELSE host

Clears(r, from, to) ==
    /\ cmd.stage = from
    /\ host' = ClearHelmLock(r)
    /\ To(to)
    /\ UNCHANGED <<left, past>>

-----------------------------------------------------------------------------
(* The components *)

\* ingress-nginx, cert-manager with its issuer, the databases and MinIO: helm's error is the step's.
InstallPlain ==
    /\ At \in Plain
    /\ \/ HelmStarts(At, "begin", "helm", "failed")
       \/ HelmEnds(At, "helm", {}, IF At = "cert-manager" THEN "issuer" ELSE "mark", "failed")
       \/ /\ cmd.stage = "issuer"
          /\ \/ host' = [host EXCEPT !.objects = @ \cup {"issuer"}] /\ To("mark") /\ Well
             \/ UNCHANGED host /\ To("failed") /\ Fails
          /\ UNCHANGED past

\* Monitoring and Infisical: the last command of the script never fails, so the step is marked.
InstallMasked ==
    /\ At \in Masked
    /\ \/ HelmStarts(At, "begin", "helm", "mark")
       \/ HelmEnds(At, "helm", {}, "mark", "mark")

\* oauth2-proxy: the lock is cleared, helm tried twice; its failure is not fatal.
InstallOAuthProxy ==
    /\ At = "oauth2-proxy"
    /\ \/ Clears(At, "begin", "helm")
       \/ HelmStarts(At, "helm", "wait", "again")
       \/ HelmEnds(At, "wait", {}, "mark", "again")
       \/ Clears(At, "again", "helmAgain")
       \/ HelmStarts(At, "helmAgain", "waitAgain", "unmarked")
       \/ HelmEnds(At, "waitAgain", {}, "mark", "unmarked")

\* argocdLooksHealthy: there is a release, whatever its status, with its server.
ArgoHealthy == host.release.argocd # "none" /\ "argo-server" \in host.objects

\* reset_argocd and apply_argocd_crds: the namespace goes, and all that was put into it.
ResetArgo(from, to) ==
    /\ cmd.stage = from
    /\ host' = [host EXCEPT !.release.argocd = "none", !.release.updater = "none",
                            !.objects = @ \ {"argo-server", "application"}]
    /\ \/ To(to) /\ Well
       \/ To("failed") /\ Fails
    /\ UNCHANGED past

\* Mutant: Argo CD is not reset when its upgrade fails.
UpgradeArgoOnly ==
    \/ HelmStarts("argocd", "upgrade", "wait", "failed")
    \/ HelmEnds("argocd", "wait", {"argo-server"}, "verify", "failed")

ArgoStarts ==
    /\ cmd.stage = "start"
    /\ IF "argocd" \in host.marked /\ ArgoHealthy THEN Leave
       ELSE To(IF ArgoHealthy THEN "upgrade" ELSE "reset")
    /\ UNCHANGED <<host, left, past>>
UpgradeArgo ==
    \/ HelmStarts("argocd", "upgrade", "wait", "reset")
    \/ HelmEnds("argocd", "wait", {"argo-server"}, "verify", "reset")

\* Argo CD is upgraded where it looks healthy, and otherwise, or when that fails, installed anew;
\* once more when it does not look healthy then.
InstallArgoCD ==
    /\ At = "argocd"
    /\ \/ ArgoStarts \/ UpgradeArgo
       \/ ResetArgo("reset", "clean")
       \/ HelmStarts("argocd", "clean", "cleanWait", "failed")
       \/ HelmEnds("argocd", "cleanWait", {"argo-server"}, "verify", "failed")
       \/ /\ cmd.stage = "verify"
          /\ \/ ArgoHealthy /\ To("mark") /\ Well
             \/ To("resetAgain") /\ (IF ArgoHealthy THEN Fails ELSE Well)
          /\ UNCHANGED <<host, past>>
       \/ ResetArgo("resetAgain", "cleanAgain")
       \/ HelmStarts("argocd", "cleanAgain", "waitAgain", "failed")
       \/ HelmEnds("argocd", "waitAgain", {"argo-server"}, "mark", "failed")

\* Portainer: the namespace with its volume is deleted when helm fails, and helm tried once more.
InstallPortainer ==
    /\ At = "portainer"
    /\ \/ /\ cmd.stage = "begin" \* the values file is written
          /\ host' = [ClearHelmLock(At) EXCEPT !.values = TRUE]
          /\ To("helm")
          /\ UNCHANGED <<left, past>>
       \/ HelmStarts(At, "helm", "wait", "again")
       \/ HelmEnds(At, "wait", {"portainer"}, "sso", "again")
       \/ /\ cmd.stage = "again"
          /\ host' = [host EXCEPT !.release[At] = "none", !.volume = "none",
                                  !.objects = @ \ {"portainer", "sso"}]
          /\ To("helmAgain")
          /\ UNCHANGED <<left, past>>
       \/ HelmStarts(At, "helmAgain", "waitAgain", "failed")
       \/ HelmEnds(At, "waitAgain", {"portainer"}, "sso", "failed")

\* ensurePortainerAdminAndSSO: where the administrator cannot log in, Portainer is deleted with its
\* volume and installed anew.  Whatever fails ends it, and the step that calls it is marked.
EnsureSSO ==
    \/ /\ cmd.stage = "sso"
       /\ \/ \* logged in
             /\ "portainer" \in host.objects /\ host.volume = "seeded"
             /\ host' = [host EXCEPT !.objects = @ \cup {"sso"}] /\ To("mark") /\ Well
          \/ \* not ready
             UNCHANGED host /\ To("mark") /\ (IF "portainer" \in host.objects THEN Fails ELSE Well)
          \/ \* the login failed, of itself or because the password is another
             /\ "portainer" \in host.objects
             /\ host' = [host EXCEPT !.volume = "none", !.objects = @ \ {"portainer", "sso"}]
             /\ To(IF host.values THEN "ssoHelm" ELSE "mark")
             /\ IF host.volume = "changed" THEN Well ELSE Fails
       /\ past' = [past EXCEPT !.lost = @ \cup (IF "portainer" \in (host.objects \ host'.objects)
                                                THEN {"portainer"} ELSE {})]
    \/ HelmStarts("portainer", "ssoHelm", "ssoWait", "mark")
    \/ HelmEnds("portainer", "ssoWait", {"portainer"}, "ssoAgain", "mark")
    \/ /\ cmd.stage = "ssoAgain"
       /\ \/ host' = [host EXCEPT !.objects = @ \cup {"sso"}] /\ Well
          \/ UNCHANGED host /\ Fails
       /\ To("mark")
       /\ UNCHANGED past

\* kubectl apply of the platform's Ingress and services; of the paths of Argo CD and Portainer.
ApplyIngress(object, from, to) ==
    /\ cmd.stage = from
    /\ \/ host' = [host EXCEPT !.objects = @ \cup {object}] /\ To(to) /\ Well
       \/ UNCHANGED host /\ To("failed") /\ Fails
    /\ UNCHANGED past

\* ApplyServiceRouting: ingress-nginx is upgraded, or where that fails patched; the Ingresses follow.
ApplyServiceRouting(applied) ==
    \/ /\ host.release.ingress # "none"
       /\ HelmStarts("ingress", "routes", "routesWait", "routesApply")
    \/ /\ host.release.ingress = "none" /\ cmd.stage = "routes"
       /\ To("routesApply")
       /\ UNCHANGED <<host, left, past>>
    \/ HelmEnds("ingress", "routesWait", {}, "routesApply", "routesApply")
    \/ ApplyIngress("routes", "routesApply", "pathsApply")
    \/ ApplyIngress("paths", "pathsApply", applied)

\* pullPlatformImages tries three times.
PullImages ==
    /\ cmd.stage = "begin"
    /\ \/ To("apply") /\ Well
       \/ To("failed") /\ Fails
    /\ UNCHANGED <<host, past>>

\* What kubectl could not apply, of the secret and the deployments, fails nothing.
ApplyPlatform ==
    /\ cmd.stage = "apply"
    /\ \/ host' = [host EXCEPT !.objects = @ \cup {"env", "api"}] /\ Well
       \/ /\ \E some \in {{}, {"env"}, {"api"}} : host' = [host EXCEPT !.objects = @ \cup some]
          /\ Fails
    /\ To("routes")
    /\ UNCHANGED past

InstallPlatform ==
    /\ At = "platform"
    /\ PullImages \/ ApplyPlatform \/ ApplyServiceRouting("mark")

\* Routing: the Ingresses again, Grafana's path where there is a Grafana, and Portainer's SSO.
InstallRouting ==
    /\ At = "routing"
    /\ \/ cmd.stage = "begin" /\ To("routes") /\ UNCHANGED <<host, left, past>>
       \/ ApplyServiceRouting("grafana")
       \/ /\ host.release.monitoring # "none"
          /\ HelmStarts("monitoring", "grafana", "grafanaWait", "sso")
       \/ /\ host.release.monitoring = "none" /\ cmd.stage = "grafana"
          /\ To("sso")
          /\ UNCHANGED <<host, left, past>>
       \/ HelmEnds("monitoring", "grafanaWait", {}, "sso", "sso")

\* Auto-update: the script ends as its last command does, which applies the Argo application.
InstallAutoUpdate ==
    /\ At = "auto-update"
    /\ \/ HelmStarts("updater", "begin", "wait", "cron")
       \/ HelmEnds("updater", "wait", {}, "cron", "cron")
       \/ /\ cmd.stage = "cron"
          /\ \/ host' = [host EXCEPT !.objects = @ \cup {"cron"}] /\ Well
             \/ UNCHANGED host /\ Fails
          /\ To("application")
          /\ UNCHANGED past
       \/ /\ cmd.stage = "application"
          /\ \/ /\ "argocd" \in host.marked
                /\ host' = [host EXCEPT !.objects = @ \cup {"application"}] /\ To("mark") /\ Well
             \/ /\ UNCHANGED host /\ To("unmarked")
                /\ IF "argocd" \in host.marked THEN Fails ELSE Well
          /\ UNCHANGED past

-----------------------------------------------------------------------------
(* Kills, and what happens between commands *)

Kill ==
    /\ cmd.stage # "idle" /\ left > 0
    /\ left' = left - 1
    /\ cmd' = [cmd EXCEPT !.stage = "idle", !.end = "none"]
    /\ UNCHANGED <<host, past>>

\* Portainer's administrator takes another password, Argo CD's server is deleted, helm is removed, or
\* K3s, with the whole cluster.
Trouble ==
    /\ cmd.stage = "idle" /\ left > 0
    /\ left' = left - 1
    /\ cmd' = [cmd EXCEPT !.end = "none"]
    /\ \/ /\ host.volume = "seeded"
          /\ host' = [host EXCEPT !.volume = "changed"] /\ UNCHANGED past
       \/ host' = [host EXCEPT !.objects = @ \ {"argo-server"}] /\ UNCHANGED past
       \/ host' = [host EXCEPT !.present = @ \ {"helm"}] /\ UNCHANGED past
       \/ /\ host' = [host EXCEPT !.present = @ \ {"k3s"}, !.objects = {}, !.volume = "none",
                                  !.release = [r \in Releases |-> "none"]]
          /\ past' = [past EXCEPT !.lost = @ \cup {"cluster"}]

StepNext ==
    \/ Skip \/ Mark \/ GiveUp \/ Abort \/ InstallSimple \/ InstallHost
    \/ InstallPlain \/ InstallMasked \/ InstallOAuthProxy \/ InstallArgoCD \/ InstallPortainer
    \/ EnsureSSO \/ InstallPlatform \/ InstallRouting \/ InstallAutoUpdate

InstallersNext ==
    \/ RunProvision
    \/ \E i \in 1 .. Len(Setup) : RunInstall(i)
    \/ StepNext \/ Kill \/ Trouble

-----------------------------------------------------------------------------
(* Properties *)

\* "Clears stuck Helm release secrets so re-provision can continue": a kill inside helm never makes
\* helm refuse oauth2-proxy or Portainer later.
LocksCleared == past.refused \cap {"oauth2-proxy", "portainer"} = {}

\* A provision that ends well leaves the host's software, an Argo CD that looks healthy, and, as
\* long as the cluster was not lost under the marked steps, every plain release and the Ingresses,
\* whatever was killed or failed before it and whatever was marked.
EndsWell ==
    LET asked(step) == \E i \in 1 .. Len(Setup) : Setup[i] = step IN
    cmd.stage = "idle" /\ cmd.end = "ok" =>
        /\ \A k \in Hosts : asked(k) => k \in host.present
        /\ asked("argocd") => ArgoHealthy
        /\ "cluster" \notin past.lost =>
            /\ \A k \in Plain : asked(k) => host.release[k] # "none"
            /\ asked("platform") \/ asked("routing") => {"routes", "paths"} \subseteq host.objects

\* A Portainer whose step is marked is there, unless the login of the SSO refresh failed, which
\* deletes it, or the cluster was lost.
PortainerServes == "portainer" \in host.marked => "portainer" \in host.objects \/ past.lost # {}

\* Once Portainer and the routing are marked, no command touches Portainer or its volume again.
SettledPortainerKept ==
    [][cmd.stage # "idle" /\ {"portainer", "routing"} \subseteq host.marked =>
        /\ host'.volume = host.volume
        /\ "portainer" \in host'.objects <=> "portainer" \in host.objects]_setupVars

\* A provision that was begun, and that is run again when it fails or is killed, comes to a good end
\* - unless a release without clear_helm_lock was left pending, which no later run gets past.
ReprovisionCompletes ==
    cmd.end = "running" ~> cmd.end = "ok" \/ past.refused \cap Plain # {}
=============================================================================
