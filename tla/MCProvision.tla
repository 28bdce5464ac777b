---------------------------- MODULE MCProvision ----------------------------
(***************************************************************************)
(* What an operator sets a server up with: the lock, the commands that run *)
(* one at a time under it, and the settings page of the platform they      *)
(* install.  A behaviour is one of two commands that compete for the lock, *)
(* one of a server that is provisioned again and again, or one of a page.  *)
(***************************************************************************)
EXTENDS ProvisionLock, Installers, SettingsPage

VARIABLE part

MCSetup == <<"prereqs", "k3s", "ingress", "cert-manager", "argocd", "monitoring", "oauth2-proxy",
             "portainer", "platform", "routing", "auto-update">>

LockPart(A) == part = "lock" /\ A /\ UNCHANGED <<setupVars, settingsVars, part>>
SetupPart(A) == part = "setup" /\ A /\ UNCHANGED <<vars, settingsVars, part>>
PagePart == part = "page" /\ SettingsNext /\ UNCHANGED <<vars, setupVars, part>>
allVars == <<vars, setupVars, settingsVars, part>>

MCInit == Init /\ InstallersInit /\ SettingsInit /\ part \in {"lock", "setup", "page"}

MCSpec ==
    /\ MCInit /\ [][LockPart(Next) \/ SetupPart(InstallersNext) \/ PagePart]_allVars
    /\ \A p \in Procs : WF_allVars(LockPart(AcquireLock(p))) /\ WF_allVars(LockPart(Unlock(p) \/ Unlink(p)))
    /\ WF_allVars(SetupPart(StepNext)) /\ SF_allVars(SetupPart(RunProvision))

\* Whatever is killed or fails, and whoever competes for the lock: the commands do not all turn each
\* other away, a kill never makes helm refuse a release whose lock is cleared, a provision that ends
\* well leaves what it was asked for, a Portainer that is marked is there, and the settings page
\* empties nothing.
ProvisionInv ==
    /\ TypeOK /\ NotAllRefused
    /\ InstallersTypeOK /\ LocksCleared /\ EndsWell /\ PortainerServes
    /\ SettingsPageInv
=============================================================================
