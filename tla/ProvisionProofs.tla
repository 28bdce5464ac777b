-------------------------- MODULE ProvisionProofs ---------------------------
(***************************************************************************)
(* Setting up a server.  The lock of platformctl, for any number of        *)
(* commands: they never all turn each other away; for two, that it is the  *)
(* mutex AcquireLock's comment promises (for three, TLC finds two of them  *)
(* inside).  The installers, for any script of steps.  The settings page,  *)
(* for any number of requests at a time.                                   *)
(***************************************************************************)
EXTENDS MCProvision, FiniteSetTheorems, TLAPS

-----------------------------------------------------------------------------
(* The lock *)

\* The stages at which a command has the lock file open, and those at which it holds the flock.
Opened == {"flock", "check", "reflock", "truncate", "write", "held"}
Holding == {"truncate", "write", "held"}
\* The stages of one that has had the flock, or was killed.  None of them leads to a refusal.
Past == {"truncate", "write", "held", "unlink", "done", "dead"}

\* What each command's stage says of its file, of the flock and of what is written in the files.
FilesKnown ==
    /\ \A p \in Procs : fd[p] # None <=> pc[p] \in Opened
    /\ \A p \in Procs : p \in locked <=> pc[p] \in Holding
    /\ \A p, q \in locked : p # q => fd[p] # fd[q]
    /\ \A i \in Inodes : meta[i] # None => pc[meta[i]] \in {"held", "unlink"} \cup Ended
    /\ \A p \in Procs : seen[p] # p

\* A command that met a held lock, or was refused, has been preceded by one that is never refused.
RefusedForOne ==
    (\E p \in Procs : pc[p] \in {"check", "alive", "remove", "reopen", "reflock", "refused"})
        => \E q \in Procs : pc[q] \in Past

LockIInv == TypeOK /\ FilesKnown /\ RefusedForOne

\* Of two commands, one that takes a lock over is alone, and so is one whose file has lost its path.
LastOne(p) == \A q \in Procs \ {p} : pc[q] \in Ended
PairInv ==
    \A p \in Procs :
        /\ pc[p] \in {"remove", "reopen", "reflock"} => LastOne(p)
        /\ fd[p] # None => fd[p] = path \/ LastOne(p)

LEMMA LockInit == Init => LockIInv /\ PairInv
BY LockAssumption
DEF Init, LockIInv, TypeOK, Stages, Ended, FilesKnown, RefusedForOne, PairInv, Opened, Holding

\* The stages a command goes through, and what becomes of its file and of the flock on the way.
LEMMA LockStep == LockIInv /\ [Next]_vars => LockIInv'
<1> SUFFICES ASSUME LockIInv, [Next]_vars PROVE LockIInv'
  OBVIOUS
<1> USE LockAssumption DEF LockIInv, Go, Stages, Ended
<1>1. ASSUME NEW p \in Procs, NEW from \in {"start", "reopen"}, Open(p, from, IF from = "start" THEN "flock" ELSE "reflock")
      PROVE  LockIInv'
  <2>1. TypeOK'
    BY <1>1 DEF Open, TypeOK
  <2>2. FilesKnown'
    BY <1>1 DEF Open, TypeOK, FilesKnown, Opened, Holding, Unused
  <2>3. RefusedForOne'
    BY <1>1 DEF Open, TypeOK, RefusedForOne, Past
  <2> QED
    BY <2>1, <2>2, <2>3
<1>2. ASSUME NEW p \in Procs, Flock(p) PROVE LockIInv'
  <2>1. TypeOK'
    BY <1>2 DEF Flock, TypeOK
  <2>2. FilesKnown'
    BY <1>2 DEF Flock, Free, TypeOK, FilesKnown, Opened, Holding
  <2>3. RefusedForOne'
    <3>1. CASE ~Free(fd[p])
      <4>1. PICK q \in locked : fd[q] = fd[p]
        BY <3>1 DEF Free
      <4>2. q \in Procs /\ pc[q] \in Past /\ q # p
        BY <1>2, <4>1 DEF FilesKnown, Holding, Past, TypeOK, Flock
      <4> QED
        BY <1>2, <4>2 DEF Flock, TypeOK, RefusedForOne
    <3>2. CASE Free(fd[p])
      BY <1>2, <3>2 DEF Flock, TypeOK, RefusedForOne, Past
    <3> QED
      BY <3>1, <3>2
  <2> QED
    BY <2>1, <2>2, <2>3
<1>3. ASSUME NEW p \in Procs, Check(p) PROVE LockIInv'
  <2>1. TypeOK'
    BY <1>3 DEF Check, TypeOK, FilesKnown, Opened
  <2>2. FilesKnown'
    BY <1>3 DEF Check, TypeOK, FilesKnown, Opened, Holding
  <2>3. RefusedForOne'
    BY <1>3 DEF Check, TypeOK, RefusedForOne, Past
  <2> QED
    BY <2>1, <2>2, <2>3
<1>4. ASSUME NEW p \in Procs, CheckAlive(p) PROVE LockIInv'
  <2>1. TypeOK'
    BY <1>4 DEF CheckAlive, TypeOK
  <2>2. FilesKnown'
    BY <1>4 DEF CheckAlive, TypeOK, FilesKnown, Opened, Holding
  <2>3. RefusedForOne'
    BY <1>4 DEF CheckAlive, TypeOK, RefusedForOne, Past
  <2> QED
    BY <2>1, <2>2, <2>3
<1>5. ASSUME NEW p \in Procs, RemoveStale(p) PROVE LockIInv'
  <2>1. TypeOK'
    BY <1>5 DEF RemoveStale, TypeOK
  <2>2. FilesKnown'
    BY <1>5 DEF RemoveStale, TypeOK, FilesKnown, Opened, Holding
  <2>3. RefusedForOne'
    BY <1>5 DEF RemoveStale, TypeOK, RefusedForOne, Past
  <2> QED
    BY <2>1, <2>2, <2>3
<1>6. ASSUME NEW p \in Procs, FlockAgain(p) PROVE LockIInv'
  <2>1. TypeOK'
    BY <1>6 DEF FlockAgain, TypeOK
  <2>2. FilesKnown'
    BY <1>6 DEF FlockAgain, Free, TypeOK, FilesKnown, Opened, Holding
  <2>3. RefusedForOne'
    BY <1>6 DEF FlockAgain, TypeOK, RefusedForOne, Past
  <2> QED
    BY <2>1, <2>2, <2>3
<1>7. ASSUME NEW p \in Procs, TruncateMeta(p) \/ WriteMeta(p) PROVE LockIInv'
  <2>1. TypeOK' /\ fd[p] \in Inodes
    BY <1>7 DEF TruncateMeta, WriteMeta, TypeOK, FilesKnown, Opened
  <2>2. FilesKnown'
    BY <1>7, <2>1 DEF TruncateMeta, WriteMeta, TypeOK, FilesKnown, Opened, Holding
  <2>3. RefusedForOne'
    BY <1>7 DEF TruncateMeta, WriteMeta, TypeOK, RefusedForOne, Past
  <2> QED
    BY <2>1, <2>2, <2>3
<1>8. ASSUME NEW p \in Procs, Unlock(p) \/ Unlink(p) \/ Crash(p) PROVE LockIInv'
  <2>1. TypeOK'
    BY <1>8 DEF Unlock, Unlink, Crash, TypeOK
  <2>2. FilesKnown'
    BY <1>8 DEF Unlock, Unlink, Crash, TypeOK, FilesKnown, Opened, Holding
  <2>3. RefusedForOne'
    BY <1>8 DEF Unlock, Unlink, Crash, TypeOK, RefusedForOne, Past
  <2> QED
    BY <2>1, <2>2, <2>3
<1>9. CASE UNCHANGED vars
  BY <1>9 DEF vars, TypeOK, FilesKnown, RefusedForOne
<1> QED
  BY <1>1, <1>2, <1>3, <1>4, <1>5, <1>6, <1>7, <1>8, <1>9 DEF Next, AcquireLock

LEMMA LockInvariant == Spec => []LockIInv
BY LockInit, LockStep, PTL DEF Spec

\* However many commands race for the lock, and whichever of them are killed, one of them gets in or
\* dies trying.
THEOREM NeverAllRefused == Spec => []NotAllRefused
<1>1. LockIInv => NotAllRefused
  BY DEF LockIInv, RefusedForOne, NotAllRefused, Past
<1> QED
  BY <1>1, LockInvariant, PTL

-----------------------------------------------------------------------------
(* Two commands *)

\* Of two commands, each is the only other.
LEMMA NoThird ==
    ASSUME Cardinality(Procs) <= 2, NEW p \in Procs, NEW q \in Procs, NEW r \in Procs
    PROVE  p = q \/ q = r \/ p = r
<1> SUFFICES ASSUME p # q, q # r, p # r PROVE FALSE
  OBVIOUS
<1>1. IsFiniteSet({p}) /\ Cardinality({p}) = 1
  BY FS_Singleton
<1>2. IsFiniteSet({p} \cup {q}) /\ Cardinality({p} \cup {q}) = 2
  BY <1>1, FS_AddElement
<1>3. IsFiniteSet(({p} \cup {q}) \cup {r}) /\ Cardinality(({p} \cup {q}) \cup {r}) = 3
  BY <1>2, FS_AddElement
<1>4. ({p} \cup {q}) \cup {r} \subseteq Procs
  OBVIOUS
<1>5. Cardinality(({p} \cup {q}) \cup {r}) <= Cardinality(Procs)
  BY <1>4, LockAssumption, FS_Subset
<1>6. Cardinality(Procs) \in Nat
  BY LockAssumption, FS_CardinalityType
<1> QED
  BY <1>3, <1>5, <1>6

\* No third command ends what two have been told of each other.
LEMMA PairStep ==
    ASSUME Cardinality(Procs) <= 2, LockIInv, PairInv, [Next]_vars
    PROVE  PairInv'
<1> USE LockAssumption DEF LockIInv, TypeOK, Go, Stages, Ended
<1>1. ASSUME NEW p \in Procs, NEW q \in Procs, p # q PROVE Procs = {p, q}
  BY <1>1, NoThird
<1>2. ASSUME NEW p \in Procs, Next \/ UNCHANGED vars, LastOne(p) PROVE LastOne(p)'
  BY <1>2
  DEF LastOne, Next, vars, AcquireLock, Open, Flock, Check, CheckAlive, RemoveStale, FlockAgain,
      TruncateMeta, WriteMeta, Unlock, Unlink, Crash
<1>3. ASSUME NEW p \in Procs, AcquireLock(p) \/ Unlock(p) \/ Unlink(p) \/ Crash(p)
      PROVE  PairInv'
  <2>1. SUFFICES ASSUME NEW q \in Procs
                 PROVE  /\ pc'[q] \in {"remove", "reopen", "reflock"} => LastOne(q)'
                        /\ fd'[q] # None => fd'[q] = path' \/ LastOne(q)'
    BY DEF PairInv
  <2>2. LastOne(q) => LastOne(q)'
    BY <1>2, <1>3 DEF Next
  <2>3. /\ pc[q] \in {"remove", "reopen", "reflock"} => LastOne(q)
        /\ fd[q] # None => fd[q] = path \/ LastOne(q)
    BY DEF PairInv
  \* The path names the same file as before, and q has not come to take over the lock.
  <2>4. CASE /\ pc'[q] \in {"remove", "reopen", "reflock"} => pc[q] \in {"remove", "reopen", "reflock"}
             /\ fd'[q] \in {fd[q], None} /\ path' = path
    BY <2>2, <2>3, <2>4
  <2>5. CASE \E from \in {"start", "reopen"}, to \in {"flock", "reflock"} :
                Open(p, from, to) /\ (from = "start" <=> to = "flock")
    BY <1>1, <2>2, <2>3, <2>5 DEF Open, LastOne, FilesKnown, Opened
  <2>6. CASE CheckAlive(p)
    BY <1>1, <2>2, <2>3, <2>6 DEF CheckAlive, AlivePID, LastOne, FilesKnown, Opened
  <2>7. CASE RemoveStale(p)
    BY <1>1, <2>2, <2>3, <2>7 DEF RemoveStale, LastOne, FilesKnown, Opened, PairInv
  <2>8. CASE Unlink(p)
    BY <1>1, <2>2, <2>3, <2>8 DEF Unlink, LastOne, FilesKnown, Opened, PairInv
  <2>9. CASE \/ Flock(p) \/ Check(p) \/ FlockAgain(p) \/ TruncateMeta(p) \/ WriteMeta(p)
             \/ Unlock(p) \/ Crash(p)
    BY <2>4, <2>9 DEF Flock, Check, FlockAgain, TruncateMeta, WriteMeta, Unlock, Crash
  <2> QED
    BY <1>3, <2>5, <2>6, <2>7, <2>8, <2>9 DEF AcquireLock
<1>4. CASE UNCHANGED vars
  BY <1>4 DEF vars, PairInv, LastOne
<1> QED
  BY <1>3, <1>4 DEF Next

\* Of two commands with the flock, both would have the file the path names.
LEMMA PairExcludes ==
    ASSUME Cardinality(Procs) <= 2, LockIInv, PairInv,
           NEW p \in Procs, NEW q \in Procs, pc[p] \in Holding, pc[q] \in Holding
    PROVE  p = q
<1> SUFFICES ASSUME p # q PROVE FALSE
  OBVIOUS
<1>1. ~LastOne(p) /\ ~LastOne(q)
  BY DEF LastOne, Holding, Ended
<1> QED
  BY <1>1 DEF LockIInv, FilesKnown, PairInv, Holding, Opened

\* A command enters when it has written its pid; a refusal, a death and the release are its end.
LEMMA MutexStep ==
    ASSUME Cardinality(Procs) <= 2, LockIInv, PairInv, [Next]_vars
    PROVE  [Mutex!Next]_([p \in Procs |-> Status(p)])
<1> DEFINE S == [p \in Procs |-> Status(p)]
<1>1. \A p \in Procs : S[p] = Status(p) /\ S'[p] = Status(p)'
  OBVIOUS
<1>2. ASSUME NEW p \in Procs, \A q \in Procs \ {p} : pc'[q] = pc[q]
      PROVE  S' = [S EXCEPT ![p] = Status(p)']
  <2>1. \A q \in Procs \ {p} : Status(q)' = Status(q)
    BY <1>2 DEF Status, Ended
  <2> QED
    BY <2>1
<1>3. ASSUME NEW p \in Procs, AcquireLock(p) \/ Unlock(p) \/ Unlink(p) \/ Crash(p)
      PROVE  Mutex!Next \/ S' = S
  <2>1. \A q \in Procs \ {p} : pc'[q] = pc[q]
    BY <1>3
    DEF LockIInv, TypeOK, Go, AcquireLock, Open, Flock, Check, CheckAlive, RemoveStale, FlockAgain,
        TruncateMeta, WriteMeta, Unlock, Unlink, Crash
  <2>2. CASE WriteMeta(p)
    <3>1. pc[p] = "write" /\ pc'[p] = "held"
      BY <2>2 DEF WriteMeta, Go, LockIInv, TypeOK
    <3>2. Status(p) = "out" /\ Status(p)' = "in"
      BY <3>1 DEF Status, Ended
    <3>3. \A q \in Procs : Status(q) # "in"
      <4> SUFFICES ASSUME NEW q \in Procs, Status(q) = "in" PROVE FALSE
        OBVIOUS
      <4>1. pc[q] = "held"
        BY DEF Status
      <4> QED
        BY <3>1, <4>1, PairExcludes DEF Holding
    <3>4. Mutex!Enter(p)
      BY <1>1, <1>2, <2>1, <3>2, <3>3 DEF Mutex!Enter
    <3> QED
      BY <3>4 DEF Mutex!Next
  <2>3. CASE ~WriteMeta(p)
    <3>1. \/ Status(p)' = Status(p)
          \/ Status(p) \in {"in", "out"} /\ Status(p)' = "gone"
      BY <1>3, <2>3
      DEF LockIInv, TypeOK, Go, AcquireLock, Open, Flock, Check, CheckAlive, RemoveStale, FlockAgain,
          TruncateMeta, Unlock, Unlink, Crash, Status, Ended
    <3>2. CASE Status(p)' = Status(p)
      BY <1>1, <1>2, <2>1, <3>2
    <3>3. CASE Status(p) \in {"in", "out"} /\ Status(p)' = "gone"
      <4>1. Mutex!End(p)
        BY <1>1, <1>2, <2>1, <3>3 DEF Mutex!End
      <4> QED
        BY <4>1 DEF Mutex!Next
    <3> QED
      BY <3>1, <3>2, <3>3
  <2> QED
    BY <2>2, <2>3
<1>4. CASE UNCHANGED vars
  BY <1>4 DEF vars, Status
<1> QED
  BY <1>3, <1>4 DEF Next

\* Of at most two commands, killed at any of their system calls or not, one at a time is inside:
\* the lock implements the mutex that AcquireLock's comment promises.
THEOREM TwoExclude == Cardinality(Procs) <= 2 => (Spec => ImplementsMutex)
<1> SUFFICES ASSUME Cardinality(Procs) <= 2 PROVE Spec => ImplementsMutex
  OBVIOUS
<1>1. Init => LockIInv /\ PairInv
  BY LockInit
<1>2. LockIInv /\ PairInv /\ [Next]_vars => (LockIInv /\ PairInv)'
  BY LockStep, PairStep
<1>3. Init => Mutex!Init
  BY DEF Init, Mutex!Init, Status, Ended
<1>4. LockIInv /\ PairInv /\ [Next]_vars => [Mutex!Next]_([p \in Procs |-> Status(p)])
  BY MutexStep
<1> QED
  BY <1>1, <1>2, <1>3, <1>4, PTL DEF Spec, ImplementsMutex, Mutex!Spec
-----------------------------------------------------------------------------
(* The installers: what holds at each stage of a step *)

SSO == {"sso", "ssoHelm", "ssoWait", "ssoAgain"}
RoutingStages == {"routes", "routesWait", "routesApply", "pathsApply"}

Inner == {"begin", "helm", "issuer", "wait", "again", "helmAgain", "waitAgain", "upgrade", "reset", "clean",
          "cleanWait", "verify", "resetAgain", "cleanAgain", "apply", "grafana", "grafanaWait", "cron",
          "application", "mark", "failed", "unmarked"} \cup SSO \cup RoutingStages
SetupStages == {"idle", "start"} \cup Inner

\* The stages of a step between its start and its end.
Within(k, stage) ==
    /\ k \in Hosts => stage \in {"mark", "failed"}
    /\ k \in Simple => stage \in {"begin", "mark", "failed"}
    /\ k \in Plain => stage \in {"begin", "helm", "issuer", "mark", "failed"}
    /\ k \in Masked => stage \in {"begin", "helm", "mark"}
    /\ k = "oauth2-proxy" =>
          stage \in {"begin", "helm", "wait", "again", "helmAgain", "waitAgain", "mark", "unmarked"}
    /\ k = "argocd" => stage \in {"upgrade", "wait", "reset", "clean", "cleanWait", "verify", "resetAgain",
                                  "cleanAgain", "waitAgain", "mark", "failed"}
    /\ k = "portainer" =>
          stage \in {"begin", "helm", "wait", "again", "helmAgain", "waitAgain", "mark", "failed"} \cup SSO
    /\ k = "platform" => stage \in {"begin", "apply", "mark", "failed"} \cup RoutingStages
    /\ k = "routing" =>
          stage \in {"begin", "grafana", "grafanaWait", "mark", "failed"} \cup RoutingStages \cup SSO
    /\ k = "auto-update" => stage \in {"begin", "wait", "cron", "application", "mark", "unmarked"}

HostStates == [present : SUBSET Hosts, marked : SUBSET SetupSteps,
               release : [Releases -> {"none", "pending", "failed", "deployed"}],
               objects : SUBSET Objects, volume : {"none", "seeded", "changed"}, values : BOOLEAN]
CmdStates == [at : 1 .. Len(Setup), to : 1 .. Len(Setup), stage : SetupStages, end : {"none", "running", "ok"}]
PastStates == [refused : SUBSET SetupSteps, lost : SUBSET {"cluster", "portainer"}]

Ingresses == {"routes", "paths"}

\* What step k is there for is there.
Has(k) ==
    /\ k \in Hosts => k \in host.present
    /\ k = "argocd" => ArgoHealthy
    /\ k \in Plain => host.release[k] # "none" \/ "cluster" \in past.lost
    /\ k \in {"platform", "routing"} => Ingresses \subseteq host.objects \/ "cluster" \in past.lost

\* What a command that is at a stage of step k has done for it.
Ready(k, stage) ==
    /\ stage = "mark" => Has(k)
    /\ stage \in {"helm", "issuer"} /\ k \in Plain => host.release[k] # "none"
    /\ stage = "pathsApply" => "routes" \in host.objects
    /\ stage \in {"grafana", "grafanaWait"} \cup SSO /\ k = "routing" => Ingresses \subseteq host.objects
    /\ stage \in {"helm", "helmAgain"} /\ k \in {"oauth2-proxy", "portainer"} => host.release[k] # "pending"
    /\ stage \in {"sso", "ssoHelm"} /\ k = "portainer" => host.release[k] # "pending"
    /\ stage = "sso" /\ k = "portainer" => "portainer" \in host.objects
    /\ stage \in {"ssoHelm", "ssoWait", "ssoAgain", "mark"} /\ k = "portainer" =>
          "portainer" \in host.objects \/ past.lost # {}

StageInv ==
    cmd.stage # "idle" /\ cmd.stage # "start" =>
        /\ Within(At, cmd.stage)
        /\ At \in host.marked => At \in Hosts \cup {"argocd"}
        /\ Ready(At, cmd.stage)

\* What a provision that is still running has behind it.  A second argocd is at work on the first.
Passed == \A i \in 1 .. Len(Setup) : i < cmd.at => Has(Setup[i]) \/ (Setup[i] = "argocd" /\ At = "argocd")

InstallersIInv ==
    /\ host \in HostStates /\ cmd \in CmdStates /\ past \in PastStates /\ left \in 0 .. MaxMishaps
    /\ StageInv
    /\ PortainerServes /\ LocksCleared
    /\ \A k \in host.marked \cap (Plain \cup {"platform", "routing"}) : Has(k)
    /\ cmd.end = "running" => cmd.stage # "idle" /\ cmd.to = Len(Setup) /\ Passed
    /\ cmd.end = "ok" => cmd.stage = "idle" /\ \A i \in 1 .. Len(Setup) : Has(Setup[i])

-----------------------------------------------------------------------------
(* A step of a script *)

LEMMA AtIsStep ==
    ASSUME cmd \in CmdStates
    PROVE  /\ At \in SetupSteps /\ At = Setup[cmd.at] /\ cmd.at \in 1 .. Len(Setup)
           /\ Len(Setup) \in Nat \ {0} /\ \A i \in 1 .. Len(Setup) : Setup[i] \in SetupSteps
<1>1. Len(Setup) \in Nat \ {0} /\ \A i \in 1 .. Len(Setup) : Setup[i] \in SetupSteps
  BY InstallersAssumption
<1>2. cmd.at \in 1 .. Len(Setup)
  BY DEF CmdStates
<1> QED
  BY <1>1, <1>2 DEF At

LEMMA ToFacts ==
    ASSUME cmd \in CmdStates, NEW st \in SetupStages, To(st)
    PROVE  /\ cmd' \in CmdStates /\ cmd'.stage = st /\ cmd'.at = cmd.at /\ cmd'.to = cmd.to
           /\ cmd'.end = cmd.end /\ At' = At
BY DEF To, CmdStates, At

\* A step within a script breaks nothing that another step is there for.
Keeps ==
    /\ host' \in HostStates /\ past' \in PastStates /\ left' \in 0 .. MaxMishaps
    /\ host'.marked = host.marked /\ host.present \subseteq host'.present
    /\ \A k \in Plain : host.release[k] # "none" => host'.release[k] # "none"
    /\ host.objects \cap Ingresses \subseteq host'.objects
    /\ At # "argocd" /\ ArgoHealthy => ArgoHealthy'
    /\ past.lost \subseteq past'.lost
    /\ LocksCleared'
    /\ At \notin {"portainer", "routing"} =>
          /\ host'.volume = host.volume
          /\ "portainer" \in host'.objects <=> "portainer" \in host.objects
    /\ PortainerServes'

\* Between the start of a step and its end.
Working == cmd.stage # "idle" /\ cmd.stage # "start"

Moves ==
    /\ cmd.stage # "idle" /\ Keeps /\ (\E st \in Inner : To(st)) /\ StageInv'
    /\ Working \/ host' = host \/ At \in Hosts

LEMMA HasKept ==
    ASSUME InstallersIInv, Keeps, NEW k \in SetupSteps, Has(k), k # "argocd" \/ At # "argocd"
    PROVE  Has(k)'
<1>1. k \in Hosts => k \in host'.present
  BY DEF Keeps, Has
<1>2. k = "argocd" => ArgoHealthy'
  BY DEF Keeps, Has
<1>3. k \in Plain => host'.release[k] # "none" \/ "cluster" \in past'.lost
  BY DEF Keeps, Has
<1>4. k \in {"platform", "routing"} => Ingresses \subseteq host'.objects \/ "cluster" \in past'.lost
  BY DEF Keeps, Has
<1> QED
  BY <1>1, <1>2, <1>3, <1>4 DEF Has

LEMMA MovesKeep ==
    ASSUME InstallersIInv, Moves
    PROVE  InstallersIInv'
<1>1. PICK st \in Inner : To(st)
  BY DEF Moves
<1>2. /\ cmd' \in CmdStates /\ cmd'.stage = st /\ cmd'.at = cmd.at /\ cmd'.to = cmd.to
      /\ cmd'.end = cmd.end /\ At' = At
  BY <1>1, ToFacts DEF InstallersIInv, SetupStages
<1>3. Keeps /\ cmd.stage # "idle" /\ StageInv'
  BY DEF Moves
<1>4. \A k \in host'.marked \cap (Plain \cup {"platform", "routing"}) : Has(k)'
  <2>1. ASSUME NEW k \in host'.marked \cap (Plain \cup {"platform", "routing"}) PROVE Has(k)'
    <3>1. k \in SetupSteps /\ Has(k) /\ k # "argocd"
      BY <1>3 DEF Keeps, InstallersIInv, HostStates, Plain
    <3> QED
      BY <1>3, <3>1, HasKept
  <2> QED
    BY <2>1
<1>5. cmd'.end = "running" => Passed'
  <2>1. ASSUME cmd.end = "running", NEW i \in 1 .. Len(Setup), i < cmd.at
        PROVE  Has(Setup[i])' \/ (Setup[i] = "argocd" /\ At' = "argocd")
    <3>1. Setup[i] \in SetupSteps
      BY AtIsStep DEF InstallersIInv
    <3>2. Has(Setup[i]) \/ (Setup[i] = "argocd" /\ At = "argocd")
      BY <2>1 DEF InstallersIInv, Passed
    <3> QED
      BY <1>2, <1>3, <3>1, <3>2, HasKept
  <2> QED
    BY <1>2, <2>1 DEF Passed
<1>6. cmd'.stage # "idle"
  BY <1>2 DEF Inner, SSO, RoutingStages
<1>7. cmd'.end # "ok"
  BY <1>2, <1>3 DEF InstallersIInv
<1> QED
  BY <1>2, <1>3, <1>4, <1>5, <1>6, <1>7 DEF InstallersIInv, Keeps

-----------------------------------------------------------------------------
(* helm *)

LEMMA FewerLeft ==
    ASSUME left \in 0 .. MaxMishaps, Well \/ Fails
    PROVE  left' \in 0 .. MaxMishaps
BY InstallersAssumption DEF Well, Fails

LEMMA ReleaseFacts ==
    ASSUME host \in HostStates, NEW r \in Releases, NEW status \in {"none", "pending", "failed", "deployed"}
    PROVE  /\ Release(r, status) \in HostStates
           /\ Release(r, status).release = [host.release EXCEPT ![r] = status]
           /\ Release(r, status).marked = host.marked /\ Release(r, status).present = host.present
           /\ Release(r, status).objects = host.objects /\ Release(r, status).volume = host.volume
           /\ Release(r, status).values = host.values
BY DEF HostStates, Release

LEMMA BringFacts ==
    ASSUME NEW h \in HostStates, NEW some \in SUBSET Objects
    PROVE  /\ Bring(h, some) \in HostStates
           /\ Bring(h, some).release = h.release
           /\ Bring(h, some).marked = h.marked /\ Bring(h, some).present = h.present
           /\ Bring(h, some).objects = h.objects \cup some /\ Bring(h, some).values = h.values
           /\ "portainer" \notin some => Bring(h, some).volume = h.volume
<1> DEFINE objects == h.objects \cup some
           volume == IF "portainer" \in some /\ h.volume = "none" THEN "seeded" ELSE h.volume
<1>1. Bring(h, some) = [h EXCEPT !.objects = objects, !.volume = volume]
  BY DEF Bring
<1>2. objects \in SUBSET Objects /\ volume \in {"none", "seeded", "changed"}
      /\ ("portainer" \notin some => volume = h.volume)
  BY DEF HostStates
<1>3. objects = h.objects \cup some
  OBVIOUS
<1> HIDE DEF objects, volume
<1> QED
  BY <1>1, <1>2, <1>3 DEF HostStates

LEMMA HelmStartsMoves ==
    ASSUME InstallersIInv, NEW r \in Releases, NEW from \in Inner, NEW to \in Inner, NEW refused \in Inner,
           HelmStarts(r, from, to, refused),
           At \in {"oauth2-proxy", "portainer"} => host.release[r] # "pending"
    PROVE  /\ Keeps /\ cmd.stage = from
           /\ \/ host.release[r] = "pending" /\ host' = host /\ past'.lost = past.lost /\ To(refused)
              \/ /\ host.release[r] # "pending" /\ past' = past /\ To(to)
                 /\ host'.release = [host.release EXCEPT ![r] = "pending"]
                 /\ host'.objects = host.objects /\ host'.marked = host.marked
<1>1. left' \in 0 .. MaxMishaps /\ At \in SetupSteps /\ cmd.stage = from
  BY FewerLeft, AtIsStep DEF HelmStarts, InstallersIInv
<1>2. CASE host.release[r] = "pending"
  <2>1. host' = host /\ past' = [past EXCEPT !.refused = past.refused \cup {At}] /\ To(refused)
    BY <1>2 DEF HelmStarts
  <2>2. /\ past' \in PastStates /\ past'.lost = past.lost /\ past'.refused = past.refused \cup {At}
    BY <1>1, <2>1 DEF PastStates, InstallersIInv
  <2>3. LocksCleared'
    BY <1>2, <2>2 DEF LocksCleared, InstallersIInv
  <2>4. ArgoHealthy => ArgoHealthy'
    BY <2>1 DEF ArgoHealthy
  <2>5. PortainerServes'
    BY <2>1, <2>2 DEF PortainerServes, InstallersIInv
  <2> QED
    BY <1>1, <1>2, <2>1, <2>2, <2>3, <2>4, <2>5 DEF Keeps, InstallersIInv
<1>3. CASE host.release[r] # "pending"
  <2>1. host' = Release(r, "pending") /\ past' = past /\ To(to)
    BY <1>3 DEF HelmStarts
  <2>2. /\ host' \in HostStates /\ host'.release = [host.release EXCEPT ![r] = "pending"]
        /\ host'.marked = host.marked /\ host'.present = host.present /\ host'.objects = host.objects
        /\ host'.volume = host.volume
    BY <2>1, ReleaseFacts DEF InstallersIInv
  <2>3. \A k \in Releases : host.release[k] # "none" => host'.release[k] # "none"
    BY <2>2 DEF InstallersIInv, HostStates
  <2>4. ArgoHealthy => ArgoHealthy'
    BY <2>2, <2>3 DEF ArgoHealthy, Releases
  <2>5. PortainerServes' /\ LocksCleared'
    BY <2>1, <2>2 DEF PortainerServes, LocksCleared, InstallersIInv
  <2> QED
    BY <1>1, <1>3, <2>1, <2>2, <2>3, <2>4, <2>5 DEF Keeps, InstallersIInv, Releases
<1> QED
  BY <1>2, <1>3

LEMMA HelmEndsMoves ==
    ASSUME InstallersIInv, NEW r \in Releases, NEW from \in Inner, NEW well \in Inner, NEW badly \in Inner,
           NEW brings \in SUBSET Objects, HelmEnds(r, from, brings, well, badly),
           "portainer" \in brings => At \in {"portainer", "routing"}
    PROVE  /\ Keeps /\ cmd.stage = from /\ past' = past
           /\ host'.marked = host.marked /\ host.objects \subseteq host'.objects
           /\ \/ /\ To(well) /\ brings \subseteq host'.objects
                 /\ host'.release = [host.release EXCEPT ![r] = "deployed"]
              \/ To(badly) /\ host'.release = [host.release EXCEPT ![r] = "failed"]
<1>1. left' \in 0 .. MaxMishaps /\ cmd.stage = from /\ past' = past
  BY FewerLeft DEF HelmEnds, InstallersIInv
<1>2. ASSUME NEW status \in {"failed", "deployed"}, NEW some \in SUBSET brings,
             host' = Bring(Release(r, status), some)
      PROVE  /\ Keeps /\ host'.marked = host.marked /\ host'.objects = host.objects \cup some
             /\ host'.release = [host.release EXCEPT ![r] = status]
  <2>1. /\ host' \in HostStates /\ host'.release = [host.release EXCEPT ![r] = status]
        /\ host'.marked = host.marked /\ host'.present = host.present /\ host'.objects = host.objects \cup some
        /\ "portainer" \notin some => host'.volume = host.volume
    <3>1. host \in HostStates
      BY DEF InstallersIInv
    <3>4. status \in {"none", "pending", "failed", "deployed"}
      BY <1>2
    <3> DEFINE h == Release(r, status)
    <3>2. /\ h \in HostStates /\ h.release = [host.release EXCEPT ![r] = status]
          /\ h.marked = host.marked /\ h.present = host.present /\ h.objects = host.objects
          /\ h.volume = host.volume
      BY <3>1, <3>4, ReleaseFacts
    <3>3. host' = Bring(h, some) /\ some \in SUBSET Objects
      BY <1>2
    <3> HIDE DEF h
    <3> QED
      BY <3>2, <3>3, BringFacts
  <2>2. \A k \in Releases : host.release[k] # "none" => host'.release[k] # "none"
    BY <2>1 DEF InstallersIInv, HostStates
  <2>3. ArgoHealthy => ArgoHealthy'
    BY <2>1, <2>2 DEF ArgoHealthy, Releases
  <2>4. PortainerServes' /\ LocksCleared'
    BY <1>1, <2>1 DEF PortainerServes, LocksCleared, InstallersIInv
  <2> QED
    BY <1>1, <2>1, <2>2, <2>3, <2>4 DEF Keeps, InstallersIInv, Releases
<1> QED
  BY <1>1, <1>2 DEF HelmEnds

LEMMA ClearsMoves ==
    ASSUME InstallersIInv, NEW r \in Releases, r \notin Plain \cup {"argocd"}, NEW from \in Inner, NEW to \in Inner,
           Clears(r, from, to)
    PROVE  /\ Keeps /\ cmd.stage = from /\ To(to) /\ past' = past
           /\ host'.release[r] # "pending" /\ host'.objects = host.objects
           /\ host'.marked = host.marked
<1>1. cmd.stage = from /\ To(to) /\ left' = left /\ past' = past /\ host' = ClearHelmLock(r)
  BY DEF Clears
<1>2. /\ host' \in HostStates /\ \A k \in Releases \ {r} : host'.release[k] = host.release[k]
      /\ host'.release[r] # "pending"
      /\ host'.marked = host.marked /\ host'.present = host.present /\ host'.objects = host.objects
      /\ host'.volume = host.volume
  <2>1. host \in HostStates
    BY DEF InstallersIInv
  <2>2. CASE host' = Release(r, "none")
    <3>1. host' \in HostStates /\ host'.release = [host.release EXCEPT ![r] = "none"]
          /\ host'.marked = host.marked /\ host'.present = host.present /\ host'.objects = host.objects
          /\ host'.volume = host.volume
      BY <2>1, <2>2, ReleaseFacts
    <3> QED
      BY <2>1, <3>1 DEF HostStates
  <2>3. CASE host' = host /\ host.release[r] # "pending"
    BY <2>1, <2>3
  <2> QED
    BY <1>1, <2>2, <2>3 DEF ClearHelmLock
<1>3. ArgoHealthy => ArgoHealthy'
  BY <1>2 DEF ArgoHealthy, Releases
<1>4. PortainerServes' /\ LocksCleared'
  BY <1>1, <1>2 DEF PortainerServes, LocksCleared, InstallersIInv
<1> QED
  BY <1>1, <1>2, <1>3, <1>4 DEF Keeps, InstallersIInv, Releases

-----------------------------------------------------------------------------
(* The stages of the components *)

LEMMA Reaches ==
    ASSUME InstallersIInv, Working, Keeps, NEW k, At = k, NEW st \in Inner, To(st),
           Within(k, st), Ready(k, st)'
    PROVE  Moves
<1>1. cmd'.stage = st /\ At' = At
  BY ToFacts DEF InstallersIInv, SetupStages
<1>2. k \in host'.marked => k \in Hosts \cup {"argocd"}
  BY DEF Keeps, InstallersIInv, StageInv, Working
<1>3. Within(At, cmd.stage)' /\ Ready(At, cmd.stage)'
  BY <1>1 DEF Within, Ready, Has
<1> QED
  BY <1>1, <1>2, <1>3 DEF Moves, StageInv, Working

\* Nothing changes on the host.
LEMMA HostSame ==
    ASSUME InstallersIInv, UNCHANGED <<host, past>>, left' \in 0 .. MaxMishaps
    PROVE  Keeps
<1>1. ArgoHealthy => ArgoHealthy'
  BY DEF ArgoHealthy
<1>2. PortainerServes' /\ LocksCleared'
  BY DEF PortainerServes, LocksCleared, InstallersIInv
<1> QED
  BY <1>1, <1>2 DEF Keeps, InstallersIInv

\* Objects are applied.
LEMMA ObjectsAdded ==
    ASSUME InstallersIInv, NEW some \in SUBSET (Objects \ {"portainer"}),
           host' = [host EXCEPT !.objects = @ \cup some], past' = past, left' \in 0 .. MaxMishaps
    PROVE  Keeps /\ host'.objects = host.objects \cup some /\ host'.release = host.release
<1>1. /\ host' \in HostStates /\ host'.objects = host.objects \cup some /\ host'.release = host.release
      /\ host'.marked = host.marked /\ host'.present = host.present /\ host'.volume = host.volume
  BY DEF InstallersIInv, HostStates
<1>2. ArgoHealthy => ArgoHealthy'
  BY <1>1 DEF ArgoHealthy
<1>3. PortainerServes' /\ LocksCleared'
  BY <1>1 DEF PortainerServes, LocksCleared, InstallersIInv
<1> QED
  BY <1>1, <1>2, <1>3 DEF Keeps, InstallersIInv, Objects

LEMMA HelmStartsTo ==
    ASSUME InstallersIInv, NEW r \in Releases, NEW from \in Inner, NEW to \in Inner, NEW refused \in Inner,
           HelmStarts(r, from, to, refused),
           At \in {"oauth2-proxy", "portainer"} => host.release[r] # "pending"
    PROVE  Keeps /\ Working /\ (To(to) \/ To(refused))
<1>1. from # "idle" /\ from # "start"
  BY DEF Inner, SSO, RoutingStages
<1>2. Keeps /\ cmd.stage = from /\ (To(to) \/ To(refused))
  BY HelmStartsMoves
<1> QED
  BY <1>1, <1>2 DEF Working

LEMMA HelmEndsTo ==
    ASSUME InstallersIInv, NEW r \in Releases, NEW from \in Inner, NEW well \in Inner, NEW badly \in Inner,
           HelmEnds(r, from, {}, well, badly)
    PROVE  /\ Keeps /\ Working /\ host'.objects = host.objects /\ host'.release[r] \in {"deployed", "failed"}
           /\ To(well) \/ To(badly)
<1>1. from # "idle" /\ from # "start"
  BY DEF Inner, SSO, RoutingStages
<1>2. HelmEnds(r, from, {}, well, badly) /\ {} \in SUBSET Objects /\ "portainer" \notin {}
  OBVIOUS
<1>3. /\ Keeps /\ cmd.stage = from
      /\ \/ To(well) /\ host'.release = [host.release EXCEPT ![r] = "deployed"]
         \/ To(badly) /\ host'.release = [host.release EXCEPT ![r] = "failed"]
  BY <1>2, HelmEndsMoves
<1>4. host'.release[r] \in {"deployed", "failed"}
  BY <1>3 DEF InstallersIInv, HostStates
<1>5. host'.objects = host.objects
  <2>1. ASSUME NEW status \in {"deployed", "failed"}, NEW some \in SUBSET {}, host' = Bring(Release(r, status), some)
        PROVE  host'.objects = host.objects
    <3>1. host \in HostStates /\ status \in {"none", "pending", "failed", "deployed"}
      BY <2>1 DEF InstallersIInv
    <3> DEFINE h == Release(r, status)
    <3>2. h \in HostStates /\ h.objects = host.objects
      BY <3>1, ReleaseFacts
    <3>3. host' = Bring(h, some) /\ some = {} /\ some \in SUBSET Objects
      BY <2>1
    <3> HIDE DEF h
    <3>4. Bring(h, some).objects = h.objects \cup some
      BY <3>2, <3>3, BringFacts
    <3> QED
      BY <3>2, <3>3, <3>4
  <2>2. \E status \in {"deployed", "failed"}, some \in SUBSET {} : host' = Bring(Release(r, status), some)
    BY <1>2 DEF HelmEnds
  <2> QED
    BY <2>1, <2>2
<1> QED
  BY <1>1, <1>3, <1>4, <1>5 DEF Working

LEMMA InstallSimpleMoves ==
    ASSUME InstallersIInv, InstallSimple
    PROVE  Moves
<1>1. left' \in 0 .. MaxMishaps /\ At \in Simple /\ cmd.stage = "begin" /\ UNCHANGED <<host, past>>
      /\ (To("mark") \/ To("failed"))
  BY FewerLeft DEF InstallSimple, In, InstallersIInv
<1>2. Keeps /\ Working
  BY <1>1, HostSame DEF Working
<1>3. ASSUME NEW k \in Simple, At = k, NEW st \in {"mark", "failed"}, To(st) PROVE Moves
  <2>1. Within(k, st) /\ st \in Inner
    BY <1>3 DEF Within, Simple, Hosts, Plain, Masked, Inner
  <2>2. Ready(k, st)'
    BY <1>3 DEF Ready, Has, Simple, Hosts, Plain, SSO
  <2> QED
    BY <1>2, <1>3, <2>1, <2>2, Reaches
<1> QED
  BY <1>1, <1>3

LEMMA InstallPlainMoves ==
    ASSUME InstallersIInv, InstallPlain
    PROVE  Moves
<1> SUFFICES ASSUME NEW k \in Plain, At = k PROVE Moves
  BY DEF InstallPlain
<1>a. k \in Releases /\ host \in HostStates
  BY DEF Releases, InstallersIInv
<1>b. ASSUME NEW st \in {"helm", "issuer", "mark", "failed"}, To(st), Keeps, Working,
             st # "failed" => host'.release[k] # "none"
      PROVE  Moves
  <2>1. Within(k, st) /\ st \in Inner
    BY <1>b DEF Within, Simple, Hosts, Plain, Masked, Inner
  <2>2. Ready(k, st)'
    BY <1>b DEF Ready, Has, Simple, Hosts, Plain, SSO
  <2> QED
    BY <1>b, <2>1, <2>2, Reaches
<1>1. CASE HelmStarts(k, "begin", "helm", "failed")
  <2>1. /\ Keeps /\ Working
        /\ \/ To("failed")
           \/ To("helm") /\ host'.release = [host.release EXCEPT ![k] = "pending"]
    BY <1>1, <1>a, HelmStartsMoves DEF Inner, Plain, Working
  <2>2. To("failed") \/ (To("helm") /\ host'.release[k] # "none")
    BY <1>a, <2>1 DEF HostStates
  <2> QED
    BY <1>b, <2>1, <2>2
<1>2. CASE HelmEnds(k, "helm", {}, IF k = "cert-manager" THEN "issuer" ELSE "mark", "failed")
  <2> DEFINE well == IF k = "cert-manager" THEN "issuer" ELSE "mark"
  <2>1. /\ Keeps /\ Working /\ host'.release[k] # "none"
        /\ To("failed") \/ To(well)
    <3>1. well \in Inner /\ "failed" \in Inner /\ "helm" \in Inner
      BY DEF Inner
    <3>2. HelmEnds(k, "helm", {}, well, "failed")
      BY <1>2
    <3> HIDE DEF well
    <3> QED
      BY <1>a, <3>1, <3>2, HelmEndsTo
  <2>3. well \in {"issuer", "mark"}
    OBVIOUS
  <2> HIDE DEF well
  <2> QED
    BY <1>b, <2>1, <2>3
<1>3. CASE /\ cmd.stage = "issuer"
           /\ \/ host' = [host EXCEPT !.objects = @ \cup {"issuer"}] /\ To("mark") /\ Well
              \/ UNCHANGED host /\ To("failed") /\ Fails
           /\ UNCHANGED past
  <2>1. left' \in 0 .. MaxMishaps /\ past' = past /\ Working
    BY <1>3, FewerLeft DEF InstallersIInv, Working
  <2>2. host.release[k] # "none"
    BY <1>3 DEF InstallersIInv, StageInv, Ready
  <2>3. CASE host' = [host EXCEPT !.objects = @ \cup {"issuer"}] /\ To("mark")
    <3>1. Keeps /\ host'.release = host.release
      BY <2>1, <2>3, ObjectsAdded DEF Objects
    <3> QED
      BY <1>b, <2>1, <2>2, <2>3, <3>1
  <2>4. CASE UNCHANGED host /\ To("failed")
    BY <1>b, <2>1, <2>4, HostSame
  <2> QED
    BY <1>3, <2>3, <2>4
<1> QED
  BY <1>1, <1>2, <1>3 DEF InstallPlain

LEMMA InstallMaskedMoves ==
    ASSUME InstallersIInv, InstallMasked
    PROVE  Moves
<1> SUFFICES ASSUME NEW k \in Masked, At = k PROVE Moves
  BY DEF InstallMasked
<1>a. k \in Releases
  BY DEF Releases
<1>b. ASSUME NEW st \in {"helm", "mark"}, To(st), Keeps, Working
      PROVE  Moves
  <2>1. Within(k, st) /\ st \in Inner
    BY <1>b DEF Within, Simple, Hosts, Plain, Masked, Inner
  <2>2. Ready(k, st)'
    BY <1>b DEF Ready, Has, Simple, Hosts, Plain, Masked, SSO
  <2> QED
    BY <1>b, <2>1, <2>2, Reaches
<1>1. CASE HelmStarts(k, "begin", "helm", "mark")
  <2>1. Keeps /\ Working /\ (To("mark") \/ To("helm"))
    <3>1. {"begin", "helm", "mark"} \subseteq Inner /\ At \notin {"oauth2-proxy", "portainer"}
      BY DEF Inner, Masked
    <3> QED
      BY <1>1, <1>a, <3>1, HelmStartsTo
  <2> QED
    BY <1>b, <2>1
<1>2. CASE HelmEnds(k, "helm", {}, "mark", "mark")
  <2>1. Keeps /\ Working /\ To("mark")
    <3>1. {"helm", "mark"} \subseteq Inner
      BY DEF Inner
    <3> QED
      BY <1>2, <1>a, <3>1, HelmEndsTo
  <2> QED
    BY <1>b, <2>1
<1> QED
  BY <1>1, <1>2 DEF InstallMasked

LEMMA InstallOAuthProxyMoves ==
    ASSUME InstallersIInv, InstallOAuthProxy
    PROVE  Moves
<1> DEFINE k == "oauth2-proxy"
<1>a. k \in Releases \ (Plain \cup {"argocd"}) /\ At = k
  BY DEF Releases, Plain, InstallOAuthProxy
<1>c. {"begin", "helm", "wait", "again", "helmAgain", "waitAgain", "mark", "unmarked"} \subseteq Inner
  BY DEF Inner
<1>b. ASSUME NEW st \in {"helm", "wait", "again", "helmAgain", "waitAgain", "mark", "unmarked"}, To(st), Keeps, Working,
             st \in {"helm", "helmAgain"} => host'.release[k] # "pending"
      PROVE  Moves
  <2>1. Within(k, st) /\ st \in Inner
    BY DEF Within, Simple, Hosts, Plain, Masked, Inner
  <2>2. Ready(k, st)'
    BY <1>b DEF Ready, Has, Hosts, Plain, SSO
  <2> QED
    BY <1>a, <1>b, <2>1, <2>2, Reaches
<1>1. CASE Clears(k, "begin", "helm") \/ Clears(k, "again", "helmAgain")
  <2>1. Keeps /\ Working /\ (To("helm") \/ To("helmAgain")) /\ host'.release[k] # "pending"
    BY <1>1, <1>a, ClearsMoves DEF Inner, Working
  <2> QED
    BY <1>b, <2>1
<1>2. CASE HelmStarts(k, "helm", "wait", "again") \/ HelmStarts(k, "helmAgain", "waitAgain", "unmarked")
  <2>1. host.release[k] # "pending"
    BY <1>2, <1>a DEF InstallersIInv, StageInv, Ready, HelmStarts
  <2>2. Keeps /\ Working /\ (To("wait") \/ To("again") \/ To("waitAgain") \/ To("unmarked"))
    BY <1>2, <1>a, <1>c, <2>1, HelmStartsTo
  <2> QED
    BY <1>b, <2>2
<1>3. CASE HelmEnds(k, "wait", {}, "mark", "again") \/ HelmEnds(k, "waitAgain", {}, "mark", "unmarked")
  <2>1. Keeps /\ Working /\ (To("mark") \/ To("again") \/ To("unmarked"))
    BY <1>3, <1>a, <1>c, HelmEndsTo
  <2> QED
    BY <1>b, <2>1
<1> QED
  BY <1>1, <1>2, <1>3, <1>a DEF InstallOAuthProxy

LEMMA ArgoReset ==
    ASSUME InstallersIInv, At = "argocd", NEW from \in Inner, NEW to \in Inner, ResetArgo(from, to)
    PROVE  Keeps /\ Working /\ (To(to) \/ To("failed"))
<1>1. from # "idle" /\ from # "start"
  BY DEF Inner, SSO, RoutingStages
<1>2. left' \in 0 .. MaxMishaps /\ cmd.stage = from /\ past' = past /\ (To(to) \/ To("failed"))
  BY FewerLeft DEF ResetArgo, InstallersIInv
<1>3. /\ host' \in HostStates /\ host'.marked = host.marked /\ host'.present = host.present
      /\ host'.volume = host.volume /\ host'.objects = host.objects \ {"argo-server", "application"}
      /\ \A r \in Releases \ {"argocd", "updater"} : host'.release[r] = host.release[r]
  BY DEF ResetArgo, InstallersIInv, HostStates
<1>4. PortainerServes' /\ LocksCleared'
  BY <1>2, <1>3 DEF PortainerServes, LocksCleared, InstallersIInv
<1>5. \A k \in Plain : host.release[k] # "none" => host'.release[k] # "none"
  BY <1>3 DEF Plain, Releases
<1> QED
  BY <1>1, <1>2, <1>3, <1>4, <1>5 DEF Keeps, InstallersIInv, Working, Ingresses

LEMMA ArgoEnds ==
    ASSUME InstallersIInv, At = "argocd", NEW from \in Inner, NEW well \in Inner, NEW badly \in Inner,
           HelmEnds("argocd", from, {"argo-server"}, well, badly)
    PROVE  Keeps /\ Working /\ ((To(well) /\ ArgoHealthy') \/ To(badly))
<1>1. from # "idle" /\ from # "start"
  BY DEF Inner, SSO, RoutingStages
<1>2. "argocd" \in Releases /\ {"argo-server"} \in SUBSET Objects /\ "portainer" \notin {"argo-server"}
  BY DEF Releases, Objects
<1>3. /\ Keeps /\ cmd.stage = from
      /\ \/ To(well) /\ {"argo-server"} \subseteq host'.objects
            /\ host'.release = [host.release EXCEPT !["argocd"] = "deployed"]
         \/ To(badly)
  BY <1>2, HelmEndsMoves
<1>4. host'.release = [host.release EXCEPT !["argocd"] = "deployed"] => host'.release["argocd"] # "none"
  BY <1>2 DEF InstallersIInv, HostStates
<1> QED
  BY <1>1, <1>3, <1>4 DEF Working, ArgoHealthy

LEMMA InstallArgoCDMoves ==
    ASSUME InstallersIInv, InstallArgoCD
    PROVE  Moves \/ ArgoStarts
<1>a. At = "argocd" /\ "argocd" \in Releases
  BY DEF InstallArgoCD, Releases
<1> DEFINE stages == {"upgrade", "wait", "reset", "clean", "cleanWait", "verify", "resetAgain", "cleanAgain",
                      "waitAgain", "mark", "failed"}
<1>b. stages \subseteq Inner /\ At \notin {"oauth2-proxy", "portainer"}
  BY <1>a DEF Inner
<1>c. ASSUME NEW st \in stages, To(st), Keeps, Working, st = "mark" => ArgoHealthy' PROVE Moves
  <2>1. Within("argocd", st) /\ st \in Inner
    BY <1>b DEF Within, Simple, Hosts, Plain, Masked
  <2>2. Ready("argocd", st)'
    BY <1>c DEF Ready, Has, Hosts, Plain, SSO
  <2> QED
    BY <1>a, <1>c, <2>1, <2>2, Reaches
<1>1. ASSUME NEW from \in stages, NEW to \in stages \ {"mark"}, NEW refused \in stages \ {"mark"},
             HelmStarts("argocd", from, to, refused)
      PROVE  Moves
  <2>1. Keeps /\ Working /\ (To(to) \/ To(refused))
    BY <1>1, <1>a, <1>b, HelmStartsTo
  <2> QED
    BY <1>c, <2>1
<1>2. ASSUME NEW from \in stages, NEW well \in stages, NEW badly \in stages \ {"mark"},
             HelmEnds("argocd", from, {"argo-server"}, well, badly)
      PROVE  Moves
  <2>1. Keeps /\ Working /\ ((To(well) /\ ArgoHealthy') \/ To(badly))
    BY <1>2, <1>a, <1>b, ArgoEnds
  <2> QED
    BY <1>c, <2>1
<1>3. ASSUME NEW from \in stages, NEW to \in stages \ {"mark"}, ResetArgo(from, to)
      PROVE  Moves
  <2>1. Keeps /\ Working /\ (To(to) \/ To("failed"))
    BY <1>3, <1>a, <1>b, ArgoReset
  <2> QED
    BY <1>c, <2>1
<1>4. ASSUME /\ cmd.stage = "verify"
             /\ \/ ArgoHealthy /\ To("mark") /\ Well
                \/ To("resetAgain") /\ (IF ArgoHealthy THEN Fails ELSE Well)
             /\ UNCHANGED <<host, past>>
      PROVE  Moves
  <2>1. Keeps /\ Working
    <3>1. Well \/ Fails
      BY <1>4
    <3>2. left' \in 0 .. MaxMishaps
      BY <3>1, FewerLeft DEF InstallersIInv
    <3> QED
      BY <1>4, <3>2, HostSame DEF Working
  <2>2. (To("mark") /\ ArgoHealthy') \/ To("resetAgain")
    BY <1>4 DEF ArgoHealthy
  <2> QED
    BY <1>c, <2>1, <2>2
<1>5. {"upgrade", "wait", "reset", "clean", "cleanWait", "verify", "resetAgain", "cleanAgain",
       "waitAgain", "failed"} \subseteq stages \ {"mark"} /\ "mark" \in stages
  OBVIOUS
<1> HIDE DEF stages
<1>6. UpgradeArgo => Moves
  BY <1>1, <1>2, <1>5 DEF UpgradeArgo
<1> QED
  BY <1>1, <1>2, <1>3, <1>4, <1>5, <1>6 DEF InstallArgoCD

LEMMA PortainerEnds ==
    ASSUME InstallersIInv, At \in {"portainer", "routing"},
           NEW from \in Inner, NEW well \in Inner, NEW badly \in Inner,
           HelmEnds("portainer", from, {"portainer"}, well, badly)
    PROVE  /\ Keeps /\ Working /\ past' = past /\ host.objects \subseteq host'.objects
           /\ host'.release["portainer"] # "pending"
           /\ (To(well) /\ "portainer" \in host'.objects) \/ To(badly)
<1>1. from # "idle" /\ from # "start"
  BY DEF Inner, SSO, RoutingStages
<1>2. "portainer" \in Releases /\ {"portainer"} \in SUBSET Objects
  BY DEF Releases, Objects
<1>3. /\ Keeps /\ cmd.stage = from /\ past' = past /\ host.objects \subseteq host'.objects
      /\ \/ To(well) /\ {"portainer"} \subseteq host'.objects
            /\ host'.release = [host.release EXCEPT !["portainer"] = "deployed"]
         \/ To(badly) /\ host'.release = [host.release EXCEPT !["portainer"] = "failed"]
  BY <1>2, HelmEndsMoves
<1>4. host'.release["portainer"] # "pending"
  BY <1>2, <1>3 DEF InstallersIInv, HostStates
<1> QED
  BY <1>1, <1>3, <1>4 DEF Working

LEMMA PortainerReaches ==
    ASSUME InstallersIInv, At = "portainer", Keeps, Working,
           NEW st \in {"helm", "wait", "again", "helmAgain", "waitAgain", "mark", "failed"} \cup SSO, To(st),
           st \in {"helm", "helmAgain", "sso", "ssoHelm"} => host'.release["portainer"] # "pending",
           st = "sso" => "portainer" \in host'.objects,
           st \in {"ssoHelm", "ssoWait", "ssoAgain", "mark"} => "portainer" \in host'.objects \/ past'.lost # {}
    PROVE  Moves
<1>1. Within("portainer", st) /\ st \in Inner
  BY DEF Within, Simple, Hosts, Plain, Masked, Inner, SSO
<1>2. Ready("portainer", st)'
  BY DEF Ready, Has, Hosts, Plain, SSO
<1> QED
  BY <1>1, <1>2, Reaches

LEMMA InstallPortainerMoves ==
    ASSUME InstallersIInv, InstallPortainer
    PROVE  Moves
<1>a. At = "portainer" /\ "portainer" \in Releases
  BY DEF InstallPortainer, Releases
<1>b. {"begin", "helm", "wait", "again", "helmAgain", "waitAgain", "mark", "failed", "sso"} \subseteq Inner
  BY DEF Inner, SSO
<1>1. CASE /\ cmd.stage = "begin"
           /\ host' = [ClearHelmLock(At) EXCEPT !.values = TRUE]
           /\ To("helm")
           /\ UNCHANGED <<left, past>>
  <2>1. host \in HostStates
    BY DEF InstallersIInv
  <2> DEFINE h == ClearHelmLock("portainer")
  <2>2. /\ h \in HostStates /\ h.release["portainer"] # "pending"
        /\ \A r \in Releases \ {"portainer"} : h.release[r] = host.release[r]
        /\ h.marked = host.marked /\ h.present = host.present /\ h.objects = host.objects /\ h.volume = host.volume
    <3>1. CASE host.release["portainer"] = "pending"
      <4>1. /\ h \in HostStates /\ h.release = [host.release EXCEPT !["portainer"] = "none"]
            /\ h.marked = host.marked /\ h.present = host.present /\ h.objects = host.objects
            /\ h.volume = host.volume
        BY <1>a, <2>1, <3>1, ReleaseFacts DEF ClearHelmLock
      <4> HIDE DEF h
      <4> QED
        BY <1>a, <2>1, <4>1 DEF HostStates
    <3>2. CASE host.release["portainer"] # "pending"
      BY <2>1, <3>2 DEF ClearHelmLock
    <3> QED
      BY <3>1, <3>2
  <2>3. host' = [h EXCEPT !.values = TRUE]
    BY <1>1, <1>a
  <2> HIDE DEF h
  <2>4. /\ host' \in HostStates /\ host'.release = h.release /\ host'.marked = host.marked
        /\ host'.present = host.present /\ host'.objects = host.objects /\ host'.volume = host.volume
    BY <2>2, <2>3 DEF HostStates
  <2>5. ArgoHealthy => ArgoHealthy'
    BY <2>2, <2>4 DEF ArgoHealthy, Releases
  <2>6. PortainerServes' /\ LocksCleared'
    BY <1>1, <2>4 DEF PortainerServes, LocksCleared, InstallersIInv
  <2>7. \A k \in Plain : host'.release[k] = host.release[k]
    BY <2>2, <2>4 DEF Plain, Releases
  <2>8. Keeps /\ Working
    BY <1>1, <2>4, <2>5, <2>6, <2>7 DEF Keeps, InstallersIInv, Working
  <2> QED
    BY <1>1, <1>a, <2>2, <2>4, <2>8, PortainerReaches DEF SSO
<1>2. CASE HelmStarts(At, "helm", "wait", "again") \/ HelmStarts(At, "helmAgain", "waitAgain", "failed")
  <2>1. host.release["portainer"] # "pending"
    BY <1>2, <1>a DEF InstallersIInv, StageInv, Ready, HelmStarts
  <2>2. Keeps /\ Working /\ (To("wait") \/ To("again") \/ To("waitAgain") \/ To("failed"))
    BY <1>2, <1>a, <1>b, <2>1, HelmStartsTo
  <2> QED
    BY <1>a, <2>2, PortainerReaches DEF SSO
<1>3. CASE HelmEnds(At, "wait", {"portainer"}, "sso", "again") \/ HelmEnds(At, "waitAgain", {"portainer"}, "sso", "failed")
  <2>1. /\ Keeps /\ Working /\ host'.release["portainer"] # "pending"
        /\ (To("sso") /\ "portainer" \in host'.objects) \/ To("again") \/ To("failed")
    BY <1>3, <1>a, <1>b, PortainerEnds
  <2> QED
    BY <1>a, <2>1, PortainerReaches DEF SSO
<1>4. CASE /\ cmd.stage = "again"
           /\ host' = [host EXCEPT !.release[At] = "none", !.volume = "none",
                                   !.objects = @ \ {"portainer", "sso"}]
           /\ To("helmAgain")
           /\ UNCHANGED <<left, past>>
  <2>1. host' = [host EXCEPT !.release["portainer"] = "none", !.volume = "none",
                             !.objects = @ \ {"portainer", "sso"}]
    BY <1>4, <1>a
  <2>2. /\ host' \in HostStates /\ host'.release["portainer"] = "none" /\ host'.marked = host.marked
        /\ \A r \in Releases \ {"portainer"} : host'.release[r] = host.release[r]
        /\ host'.present = host.present /\ host'.objects = host.objects \ {"portainer", "sso"}
    BY <1>a, <2>1 DEF HostStates, InstallersIInv
  <2>3. ArgoHealthy => ArgoHealthy'
    BY <2>2 DEF ArgoHealthy, Releases
  <2>4. Working /\ "portainer" \notin host.marked
    BY <1>4, <1>a DEF Working, InstallersIInv, StageInv, Hosts
  <2>5. PortainerServes' /\ LocksCleared'
    BY <1>4, <2>2, <2>4 DEF PortainerServes, LocksCleared, InstallersIInv
  <2>6. \A k \in Plain : host'.release[k] = host.release[k]
    BY <2>2 DEF Plain, Releases
  <2>7. Keeps
    BY <1>4, <1>a, <2>2, <2>3, <2>5, <2>6 DEF Keeps, InstallersIInv, Ingresses
  <2> QED
    BY <1>4, <1>a, <2>2, <2>4, <2>7, PortainerReaches DEF SSO
<1> QED
  BY <1>1, <1>2, <1>3, <1>4 DEF InstallPortainer

\* Where the SSO refresh and the Ingresses are at work.
LEMMA SSOPlace ==
    ASSUME InstallersIInv, Working, cmd.stage \in SSO
    PROVE  At \in {"portainer", "routing"}
<1>1. Within(At, cmd.stage) /\ At \in SetupSteps
  BY AtIsStep DEF InstallersIInv, StageInv, Working
<1> QED
  BY <1>1 DEF Within, SSO, RoutingStages, SetupSteps, Releases, Hosts, Simple, Plain, Masked

LEMMA SSOReaches ==
    ASSUME InstallersIInv, Working, At \in {"portainer", "routing"}, Keeps, NEW st \in SSO \cup {"mark"}, To(st),
           st \in {"sso", "ssoHelm"} => At # "portainer" \/ host'.release["portainer"] # "pending",
           st = "sso" => At # "portainer" \/ "portainer" \in host'.objects,
           At # "portainer" \/ "portainer" \in host'.objects \/ past'.lost # {},
           At = "routing" => Ingresses \subseteq host'.objects
    PROVE  Moves
<1>1. CASE At = "portainer"
  BY <1>1, PortainerReaches DEF SSO
<1>2. CASE At = "routing"
  <2>1. Within("routing", st) /\ st \in Inner
    BY DEF Within, Simple, Hosts, Plain, Masked, Inner, SSO
  <2>2. Ready("routing", st)'
    BY <1>2 DEF Ready, Has, Hosts, Plain, SSO
  <2> QED
    BY <1>2, <2>1, <2>2, Reaches
<1> QED
  BY <1>1, <1>2

LEMMA EnsureSSOMoves ==
    ASSUME InstallersIInv, EnsureSSO
    PROVE  Moves
<1>a. /\ "portainer" \in Releases /\ SSO \subseteq Inner /\ "mark" \in Inner
      /\ \A st \in SSO : st # "idle" /\ st # "start"
  BY DEF Releases, Inner, SSO
<1>b. cmd.stage \in SSO /\ Working
  BY <1>a DEF EnsureSSO, HelmStarts, HelmEnds, SSO, Working
<1>c. At \in {"portainer", "routing"}
  BY <1>b, SSOPlace
<1>d. At = "routing" => Ingresses \subseteq host.objects
  BY <1>b DEF InstallersIInv, StageInv, Ready, Working
<1>e. At = "portainer" => /\ "portainer" \in host.objects \/ past.lost # {}
                          /\ cmd.stage \in {"sso", "ssoHelm"} => host.release["portainer"] # "pending"
                          /\ cmd.stage = "sso" => "portainer" \in host.objects
  BY <1>b DEF InstallersIInv, StageInv, Ready, Working, SSO
<1>1. CASE /\ cmd.stage = "sso"
           /\ "portainer" \in host.objects /\ host.volume = "seeded"
           /\ host' = [host EXCEPT !.objects = @ \cup {"sso"}] /\ To("mark") /\ Well
           /\ past' = [past EXCEPT !.lost = @ \cup (IF "portainer" \in (host.objects \ host'.objects)
                                                    THEN {"portainer"} ELSE {})]
  <2>1. left' \in 0 .. MaxMishaps
    BY <1>1, FewerLeft DEF InstallersIInv
  <2>2. host'.objects = host.objects \cup {"sso"}
    BY <1>1 DEF InstallersIInv, HostStates
  <2>3. past' = past
    BY <1>1, <2>2 DEF InstallersIInv, PastStates
  <2>4. Keeps /\ "portainer" \in host'.objects /\ host.objects \subseteq host'.objects
    BY <1>1, <2>1, <2>2, <2>3, ObjectsAdded DEF Objects
  <2> QED
    BY <1>1, <1>b, <1>c, <1>d, <2>4, SSOReaches
<1>2. CASE /\ cmd.stage = "sso"
           /\ UNCHANGED host /\ To("mark") /\ (IF "portainer" \in host.objects THEN Fails ELSE Well)
           /\ past' = [past EXCEPT !.lost = @ \cup (IF "portainer" \in (host.objects \ host'.objects)
                                                    THEN {"portainer"} ELSE {})]
  <2>1. left' \in 0 .. MaxMishaps
    BY <1>2, FewerLeft DEF InstallersIInv
  <2>2. past' = past
    BY <1>2 DEF InstallersIInv, PastStates
  <2>3. Keeps
    BY <1>2, <2>1, <2>2, HostSame
  <2> QED
    BY <1>2, <1>b, <1>c, <1>d, <1>e, <2>2, <2>3, SSOReaches
<1>3. CASE /\ cmd.stage = "sso"
           /\ "portainer" \in host.objects
           /\ host' = [host EXCEPT !.volume = "none", !.objects = @ \ {"portainer", "sso"}]
           /\ To(IF host.values THEN "ssoHelm" ELSE "mark")
           /\ IF host.volume = "changed" THEN Well ELSE Fails
           /\ past' = [past EXCEPT !.lost = @ \cup (IF "portainer" \in (host.objects \ host'.objects)
                                                    THEN {"portainer"} ELSE {})]
  <2>1. Well \/ Fails
    BY <1>3
  <2>2. left' \in 0 .. MaxMishaps
    BY <2>1, FewerLeft DEF InstallersIInv
  <2>3. /\ host' \in HostStates /\ host'.release = host.release /\ host'.marked = host.marked
        /\ host'.present = host.present /\ host'.objects = host.objects \ {"portainer", "sso"}
    BY <1>3 DEF HostStates, InstallersIInv
  <2>4. /\ past' \in PastStates /\ past'.lost = past.lost \cup {"portainer"} /\ past'.refused = past.refused
    BY <1>3, <2>3 DEF InstallersIInv, PastStates
  <2>5. ArgoHealthy => ArgoHealthy'
    BY <2>3 DEF ArgoHealthy
  <2>6. PortainerServes' /\ LocksCleared'
    BY <2>3, <2>4 DEF PortainerServes, LocksCleared, InstallersIInv
  <2>7. Keeps
    BY <1>c, <2>2, <2>3, <2>4, <2>5, <2>6 DEF Keeps, Ingresses
  <2>8. PICK st \in {"ssoHelm", "mark"} : To(st)
    BY <1>3
  <2>9. At = "routing" => Ingresses \subseteq host'.objects
    BY <1>d, <2>3 DEF Ingresses
  <2> QED
    BY <1>3, <1>b, <1>c, <1>e, <2>3, <2>4, <2>7, <2>8, <2>9, SSOReaches DEF SSO
<1>4. CASE HelmStarts("portainer", "ssoHelm", "ssoWait", "mark")
  <2>1. cmd.stage = "ssoHelm" /\ {"ssoHelm", "ssoWait", "mark"} \subseteq Inner
    BY <1>4, <1>a DEF HelmStarts, SSO
  <2>2. At \in {"oauth2-proxy", "portainer"} => host.release["portainer"] # "pending"
    BY <1>c, <1>e, <2>1
  <2>3. /\ Keeps
        /\ \/ host' = host /\ past'.lost = past.lost /\ To("mark")
           \/ past' = past /\ To("ssoWait") /\ host'.objects = host.objects
    BY <1>4, <1>a, <2>1, <2>2, HelmStartsMoves
  <2>4. CASE host' = host /\ past'.lost = past.lost /\ To("mark")
    BY <1>b, <1>c, <1>d, <1>e, <2>3, <2>4, SSOReaches
  <2>5. CASE past' = past /\ To("ssoWait") /\ host'.objects = host.objects
    BY <1>b, <1>c, <1>d, <1>e, <2>3, <2>5, SSOReaches DEF SSO
  <2> QED
    BY <2>3, <2>4, <2>5
<1>5. CASE HelmEnds("portainer", "ssoWait", {"portainer"}, "ssoAgain", "mark")
  <2>1. {"ssoWait", "ssoAgain", "mark"} \subseteq Inner
    BY <1>a DEF SSO
  <2>2. /\ Keeps /\ past' = past /\ host.objects \subseteq host'.objects
        /\ To("ssoAgain") \/ To("mark")
    BY <1>5, <1>c, <2>1, PortainerEnds
  <2> QED
    BY <1>b, <1>c, <1>d, <1>e, <2>2, SSOReaches DEF SSO
<1>6. CASE /\ cmd.stage = "ssoAgain"
           /\ \/ host' = [host EXCEPT !.objects = @ \cup {"sso"}] /\ Well
              \/ UNCHANGED host /\ Fails
           /\ To("mark")
           /\ UNCHANGED past
  <2>1. left' \in 0 .. MaxMishaps
    BY <1>6, FewerLeft DEF InstallersIInv
  <2>2. Keeps /\ host.objects \subseteq host'.objects
    <3>1. CASE host' = [host EXCEPT !.objects = @ \cup {"sso"}]
      BY <1>6, <2>1, <3>1, ObjectsAdded DEF Objects
    <3>2. CASE host' = host
      BY <1>6, <2>1, <3>2, HostSame
    <3> QED
      BY <1>6, <3>1, <3>2
  <2> QED
    BY <1>6, <1>b, <1>c, <1>d, <1>e, <2>2, SSOReaches
<1> QED
  BY <1>1, <1>2, <1>3, <1>4, <1>5, <1>6 DEF EnsureSSO

\* The Ingresses of the platform and of routing.
LEMMA RoutingReaches ==
    ASSUME InstallersIInv, Working, NEW k \in {"platform", "routing"}, At = k, Keeps, NEW st \in Inner, To(st),
           Within(k, st),
           st = "pathsApply" => "routes" \in host'.objects,
           st \in {"grafana", "grafanaWait", "mark"} \cup SSO => Ingresses \subseteq host'.objects
    PROVE  Moves
<1>1. Ready(k, st)'
  BY DEF Ready, Has, Hosts, Plain, SSO
<1> QED
  BY <1>1, Reaches

LEMMA IngressApplied ==
    ASSUME InstallersIInv, NEW object \in Ingresses, NEW from \in Inner, NEW to \in Inner,
           ApplyIngress(object, from, to)
    PROVE  Keeps /\ Working /\ host.objects \subseteq host'.objects
           /\ ((To(to) /\ object \in host'.objects) \/ To("failed"))
<1>1. cmd.stage = from /\ from # "idle" /\ from # "start" /\ past' = past
  BY DEF ApplyIngress, Inner, SSO, RoutingStages
<1>2. left' \in 0 .. MaxMishaps
  BY FewerLeft DEF ApplyIngress, InstallersIInv
<1>3. CASE host' = [host EXCEPT !.objects = @ \cup {object}] /\ To(to)
  <2>1. {object} \in SUBSET (Objects \ {"portainer"})
    BY DEF Ingresses, Objects
  <2>2. host' = [host EXCEPT !.objects = @ \cup {object}]
    BY <1>3
  <2>3. Keeps /\ host'.objects = host.objects \cup {object}
    BY <1>1, <1>2, <2>1, <2>2, ObjectsAdded
  <2> QED
    BY <1>1, <1>3, <2>3 DEF Working
<1>4. CASE host' = host /\ To("failed")
  BY <1>1, <1>2, <1>4, HostSame DEF Working
<1> QED
  BY <1>3, <1>4 DEF ApplyIngress

LEMMA ServiceRoutingMoves ==
    ASSUME InstallersIInv, NEW k \in {"platform", "routing"}, At = k,
           NEW applied \in {"grafana", "mark"}, k = "platform" => applied = "mark", ApplyServiceRouting(applied)
    PROVE  Moves
<1> DEFINE stages == RoutingStages \cup {applied, "failed"}
<1>a. stages \subseteq Inner /\ "ingress" \in Releases
  BY DEF Inner, Releases, Plain
<1>b. ASSUME NEW st \in stages, To(st), Keeps, Working, st = "pathsApply" => "routes" \in host'.objects,
             st = applied => Ingresses \subseteq host'.objects
      PROVE  Moves
  <2>1. Within(k, st) /\ st \in Inner
    BY <1>a DEF Within, Simple, Hosts, Plain, Masked, RoutingStages
  <2>2. st \in {"grafana", "grafanaWait", "mark"} \cup SSO => Ingresses \subseteq host'.objects
    BY <1>b DEF SSO, RoutingStages
  <2> QED
    BY <1>b, <2>1, <2>2, RoutingReaches
<1>1. CASE HelmStarts("ingress", "routes", "routesWait", "routesApply")
  <2>1. {"routes", "routesWait", "routesApply"} \subseteq Inner /\ At \notin {"oauth2-proxy", "portainer"}
    BY <1>a DEF RoutingStages
  <2>2. Keeps /\ Working /\ (To("routesWait") \/ To("routesApply"))
    BY <1>1, <1>a, <2>1, HelmStartsTo
  <2> QED
    BY <1>b, <2>2 DEF RoutingStages
<1>2. CASE cmd.stage = "routes" /\ To("routesApply") /\ UNCHANGED <<host, left, past>>
  <2>1. Keeps /\ Working
    BY <1>2, HostSame DEF Working, InstallersIInv
  <2> QED
    BY <1>b, <1>2, <2>1 DEF RoutingStages
<1>3. CASE HelmEnds("ingress", "routesWait", {}, "routesApply", "routesApply")
  <2>1. {"routesWait", "routesApply"} \subseteq Inner
    BY <1>a DEF RoutingStages
  <2>2. Keeps /\ Working /\ To("routesApply")
    BY <1>3, <1>a, <2>1, HelmEndsTo
  <2> QED
    BY <1>b, <2>2 DEF RoutingStages
<1>4. CASE ApplyIngress("routes", "routesApply", "pathsApply")
  <2>1. {"routesApply", "pathsApply"} \subseteq Inner /\ "routes" \in Ingresses
    BY <1>a DEF RoutingStages, Ingresses
  <2>2. Keeps /\ Working /\ ((To("pathsApply") /\ "routes" \in host'.objects) \/ To("failed"))
    BY <1>4, <2>1, IngressApplied
  <2> QED
    BY <1>b, <2>2 DEF RoutingStages
<1>5. CASE ApplyIngress("paths", "pathsApply", applied)
  <2>1. {"pathsApply", applied} \subseteq Inner /\ "paths" \in Ingresses
    BY <1>a DEF RoutingStages, Ingresses
  <2>2. /\ Keeps /\ Working /\ host.objects \subseteq host'.objects
        /\ (To(applied) /\ "paths" \in host'.objects) \/ To("failed")
    BY <1>5, <2>1, IngressApplied
  <2>3. "routes" \in host.objects
    BY <1>5, <2>2 DEF ApplyIngress, InstallersIInv, StageInv, Ready, Working
  <2>4. To(applied) => Ingresses \subseteq host'.objects
    BY <2>2, <2>3, ToFacts DEF Ingresses, To, InstallersIInv, CmdStates
  <2>5. CASE To("failed") /\ ~To(applied)
    BY <1>b, <2>2, <2>5
  <2>6. CASE To(applied)
    BY <1>b, <2>2, <2>4, <2>6 DEF RoutingStages
  <2> QED
    BY <2>2, <2>5, <2>6
<1> QED
  BY <1>1, <1>2, <1>3, <1>4, <1>5 DEF ApplyServiceRouting

LEMMA InstallPlatformMoves ==
    ASSUME InstallersIInv, InstallPlatform
    PROVE  Moves
<1>a. At = "platform" /\ {"apply", "failed", "routes"} \subseteq Inner
  BY DEF InstallPlatform, Inner, RoutingStages
<1>b. ASSUME NEW st \in {"apply", "failed", "routes"}, To(st), Keeps, Working
      PROVE  Moves
  <2>1. Within("platform", st) /\ st \in Inner
    BY <1>a DEF Within, Simple, Hosts, Plain, Masked, RoutingStages
  <2> QED
    BY <1>a, <1>b, <2>1, RoutingReaches DEF SSO
<1>1. CASE PullImages
  <2>1. left' \in 0 .. MaxMishaps /\ Working
    BY <1>1, FewerLeft DEF PullImages, InstallersIInv, Working
  <2>2. Keeps
    BY <1>1, <2>1, HostSame DEF PullImages
  <2> QED
    BY <1>1, <1>b, <2>1, <2>2 DEF PullImages
<1>2. CASE ApplyPlatform
  <2>1. left' \in 0 .. MaxMishaps /\ Working
    BY <1>2, FewerLeft DEF ApplyPlatform, InstallersIInv, Working
  <2>2. PICK some \in {{}, {"env"}, {"api"}, {"env", "api"}} : host' = [host EXCEPT !.objects = @ \cup some]
    BY <1>2 DEF ApplyPlatform
  <2>3. some \in SUBSET (Objects \ {"portainer"})
    BY DEF Objects
  <2>4. Keeps
    BY <1>2, <2>1, <2>2, <2>3, ObjectsAdded DEF ApplyPlatform
  <2> QED
    BY <1>2, <1>b, <2>1, <2>4 DEF ApplyPlatform
<1>3. CASE ApplyServiceRouting("mark")
  BY <1>a, <1>3, ServiceRoutingMoves
<1> QED
  BY <1>1, <1>2, <1>3 DEF InstallPlatform

LEMMA InstallRoutingMoves ==
    ASSUME InstallersIInv, InstallRouting
    PROVE  Moves
<1>a. /\ At = "routing" /\ {"begin", "routes", "grafana", "grafanaWait", "sso"} \subseteq Inner
      /\ "monitoring" \in Releases
  BY DEF InstallRouting, Inner, RoutingStages, SSO, Releases, Masked
<1>b. ASSUME NEW st \in {"routes", "grafanaWait", "sso"}, To(st), Keeps, Working,
             st # "routes" => Ingresses \subseteq host'.objects
      PROVE  Moves
  <2>1. Within("routing", st) /\ st \in Inner
    BY <1>a DEF Within, Simple, Hosts, Plain, Masked, RoutingStages, SSO
  <2> QED
    BY <1>a, <1>b, <2>1, RoutingReaches DEF SSO
<1>c. Working /\ cmd.stage \in {"grafana", "grafanaWait"} => Ingresses \subseteq host.objects
  BY <1>a DEF InstallersIInv, StageInv, Ready, Working
<1>1. CASE cmd.stage = "begin" /\ To("routes") /\ UNCHANGED <<host, left, past>>
  <2>1. Keeps /\ Working
    BY <1>1, HostSame DEF Working, InstallersIInv
  <2> QED
    BY <1>b, <1>1, <2>1
<1>2. CASE ApplyServiceRouting("grafana")
  BY <1>a, <1>2, ServiceRoutingMoves
<1>3. CASE HelmStarts("monitoring", "grafana", "grafanaWait", "sso")
  <2>1. At \notin {"oauth2-proxy", "portainer"} /\ cmd.stage = "grafana"
    BY <1>a, <1>3 DEF HelmStarts
  <2>2. Keeps /\ Working /\ (To("grafanaWait") \/ To("sso"))
    BY <1>3, <1>a, <2>1, HelmStartsTo
  <2>3. Ingresses \subseteq host'.objects
    BY <1>c, <2>1, <2>2 DEF Keeps
  <2> QED
    BY <1>b, <2>2, <2>3
<1>4. CASE cmd.stage = "grafana" /\ To("sso") /\ UNCHANGED <<host, left, past>>
  <2>1. Keeps /\ Working
    BY <1>4, HostSame DEF Working, InstallersIInv
  <2> QED
    BY <1>b, <1>c, <1>4, <2>1
<1>5. CASE HelmEnds("monitoring", "grafanaWait", {}, "sso", "sso")
  <2>1. Keeps /\ Working /\ To("sso") /\ cmd.stage = "grafanaWait" /\ host'.objects = host.objects
    BY <1>5, <1>a, HelmEndsTo DEF HelmEnds
  <2> QED
    BY <1>b, <1>c, <2>1
<1> QED
  BY <1>1, <1>2, <1>3, <1>4, <1>5 DEF InstallRouting

LEMMA InstallAutoUpdateMoves ==
    ASSUME InstallersIInv, InstallAutoUpdate
    PROVE  Moves
<1>a. /\ At = "auto-update" /\ {"begin", "wait", "cron", "application", "mark", "unmarked"} \subseteq Inner
      /\ "updater" \in Releases
  BY DEF InstallAutoUpdate, Inner, Releases
<1>b. ASSUME NEW st \in {"wait", "cron", "application", "mark", "unmarked"}, To(st), Keeps, Working
      PROVE  Moves
  <2>1. Within("auto-update", st) /\ st \in Inner
    BY <1>a DEF Within, Simple, Hosts, Plain, Masked
  <2>2. Ready("auto-update", st)'
    BY <1>b DEF Ready, Has, Hosts, Plain, SSO
  <2> QED
    BY <1>a, <1>b, <2>1, <2>2, Reaches
<1>1. CASE HelmStarts("updater", "begin", "wait", "cron")
  <2>1. At \notin {"oauth2-proxy", "portainer"}
    BY <1>a
  <2>2. Keeps /\ Working /\ (To("wait") \/ To("cron"))
    BY <1>1, <1>a, <2>1, HelmStartsTo
  <2> QED
    BY <1>b, <2>2
<1>2. CASE HelmEnds("updater", "wait", {}, "cron", "cron")
  <2>1. Keeps /\ Working /\ To("cron")
    BY <1>2, <1>a, HelmEndsTo
  <2> QED
    BY <1>b, <2>1
<1>3. ASSUME NEW object \in {"cron", "application"}, cmd.stage = object, UNCHANGED past, Well \/ Fails,
             host' = [host EXCEPT !.objects = @ \cup {object}] \/ host' = host
      PROVE  Keeps /\ Working
  <2>1. left' \in 0 .. MaxMishaps /\ {object} \in SUBSET (Objects \ {"portainer"})
    BY <1>3, FewerLeft DEF InstallersIInv, Objects
  <2>2. CASE host' = [host EXCEPT !.objects = @ \cup {object}]
    BY <1>3, <2>1, <2>2, ObjectsAdded DEF Working
  <2>3. CASE host' = host
    BY <1>3, <2>1, <2>3, HostSame DEF Working
  <2> QED
    BY <1>3, <2>2, <2>3
<1>4. CASE /\ cmd.stage = "cron"
           /\ \/ host' = [host EXCEPT !.objects = @ \cup {"cron"}] /\ Well
              \/ UNCHANGED host /\ Fails
           /\ To("application")
           /\ UNCHANGED past
  <2>1. Keeps /\ Working
    BY <1>3, <1>4
  <2> QED
    BY <1>b, <1>4, <2>1
<1>5. CASE /\ cmd.stage = "application"
           /\ \/ /\ "argocd" \in host.marked
                 /\ host' = [host EXCEPT !.objects = @ \cup {"application"}] /\ To("mark") /\ Well
              \/ /\ UNCHANGED host /\ To("unmarked")
                 /\ IF "argocd" \in host.marked THEN Fails ELSE Well
           /\ UNCHANGED past
  <2>1. Well \/ Fails
    BY <1>5
  <2>2. Keeps /\ Working
    BY <1>3, <1>5, <2>1
  <2> QED
    BY <1>b, <1>5, <2>2
<1> QED
  BY <1>1, <1>2, <1>3, <1>4, <1>5 DEF InstallAutoUpdate

-----------------------------------------------------------------------------
(* The command *)

\* At the start of a step.
LEMMA StartReaches ==
    ASSUME InstallersIInv, cmd.stage = "start", Keeps, NEW k, At = k, NEW st \in Inner, To(st),
           Within(k, st), Ready(k, st)', k \in host.marked => k \in Hosts \cup {"argocd"},
           host' = host \/ At \in Hosts
    PROVE  Moves
<1>1. cmd'.stage = st /\ At' = At
  BY ToFacts DEF InstallersIInv, SetupStages
<1>2. k \in host'.marked => k \in Hosts \cup {"argocd"}
  BY DEF Keeps
<1>3. Within(At, cmd.stage)' /\ Ready(At, cmd.stage)'
  BY <1>1 DEF Within, Ready, Has
<1> QED
  BY <1>1, <1>2, <1>3 DEF Moves, StageInv

\* The host as the end of a command leaves it.
HostLeft(marked) ==
    /\ host' \in HostStates /\ host'.marked = host.marked \cup marked
    /\ host'.present = host.present /\ host'.release = host.release
    /\ host'.objects = host.objects /\ host'.volume = host.volume

LEMMA HasLeft ==
    ASSUME HostLeft({}) \/ HostLeft({At}), past' = past, NEW k, Has(k)
    PROVE  Has(k)'
<1>1. /\ host'.present = host.present /\ host'.release = host.release /\ host'.objects = host.objects
  BY DEF HostLeft
<1>2. ArgoHealthy' = ArgoHealthy
  BY <1>1 DEF ArgoHealthy
<1> QED
  BY <1>1, <1>2 DEF Has

\* A step is over.
LEMMA LeavesKeep ==
    ASSUME InstallersIInv, cmd.stage # "idle", Leave, UNCHANGED <<left, past>>, Has(At),
           NEW marked \in {{}, {At}}, HostLeft(marked),
           At = "portainer" /\ marked # {} => "portainer" \in host.objects \/ past.lost # {}
    PROVE  InstallersIInv'
<1>1. HostLeft({}) \/ HostLeft({At})
  OBVIOUS
<1>2. /\ cmd' \in CmdStates /\ cmd'.to = cmd.to /\ cmd'.stage \in {"idle", "start"}
      /\ cmd'.stage = "start" => cmd.at < cmd.to /\ cmd'.at = cmd.at + 1 /\ cmd'.end = cmd.end
      /\ cmd'.stage = "idle" => /\ ~(cmd.at < cmd.to)
                                /\ cmd'.end = IF cmd.end = "running" THEN "ok" ELSE "none"
  <2>1. cmd \in CmdStates /\ cmd.at \in 1 .. Len(Setup) /\ cmd.to \in 1 .. Len(Setup) /\ Len(Setup) \in Nat
    BY AtIsStep DEF InstallersIInv, CmdStates
  <2>2. CASE cmd.at < cmd.to
    <3>1. cmd' = [cmd EXCEPT !.at = cmd.at + 1, !.stage = "start"]
      BY <2>2 DEF Leave
    <3>2. cmd.at + 1 \in 1 .. Len(Setup)
      BY <2>1, <2>2
    <3> QED
      BY <2>1, <2>2, <3>1, <3>2 DEF CmdStates, SetupStages
  <2>3. CASE ~(cmd.at < cmd.to)
    <3> DEFINE end == IF cmd.end = "running" THEN "ok" ELSE "none"
    <3>1. cmd' = [cmd EXCEPT !.stage = "idle", !.end = end]
      BY <2>3 DEF Leave
    <3>2. end \in {"ok", "none"}
      OBVIOUS
    <3> HIDE DEF end
    <3>3. cmd' \in CmdStates /\ cmd'.to = cmd.to /\ cmd'.stage = "idle" /\ cmd'.end = end
      BY <2>1, <3>1, <3>2 DEF CmdStates, SetupStages
    <3> QED
      BY <2>3, <3>3 DEF end
  <2> QED
    BY <2>2, <2>3
<1>3. cmd.at \in 1 .. Len(Setup) /\ cmd.to \in 1 .. Len(Setup) /\ Len(Setup) \in Nat
      /\ At = Setup[cmd.at] /\ At \in SetupSteps
  BY AtIsStep DEF InstallersIInv, CmdStates
<1>4. ASSUME cmd.end = "running", NEW i \in 1 .. Len(Setup), i <= cmd.at
      PROVE  Has(Setup[i])'
  <2>1. Has(Setup[i])
    <3>1. CASE i = cmd.at
      BY <1>3, <3>1
    <3>2. CASE i < cmd.at
      BY <1>4, <1>3, <3>2 DEF InstallersIInv, Passed
    <3> QED
      BY <1>3, <1>4, <3>1, <3>2
  <2> QED
    BY <1>1, <2>1, HasLeft
<1>5. cmd'.end = "running" => cmd'.stage # "idle" /\ cmd'.to = Len(Setup) /\ Passed'
  <2>1. ASSUME cmd'.end = "running" PROVE cmd'.stage # "idle" /\ cmd'.to = Len(Setup) /\ Passed'
    <3>1. cmd'.stage = "start" /\ cmd.end = "running" /\ cmd'.at = cmd.at + 1
      BY <1>2, <2>1
    <3>2. \A i \in 1 .. Len(Setup) : i < cmd'.at => i <= cmd.at
      BY <1>3, <3>1
    <3> QED
      BY <1>2, <1>4, <3>1, <3>2 DEF Passed, InstallersIInv
  <2> QED
    BY <2>1
<1>6. cmd'.end = "ok" => cmd'.stage = "idle" /\ \A i \in 1 .. Len(Setup) : Has(Setup[i])'
  <2>1. ASSUME cmd'.end = "ok" PROVE cmd'.stage = "idle" /\ \A i \in 1 .. Len(Setup) : Has(Setup[i])'
    <3>1. cmd'.stage = "idle" /\ cmd.end = "running" /\ ~(cmd.at < cmd.to)
      BY <1>2, <2>1 DEF InstallersIInv
    <3>2. cmd.to = Len(Setup)
      BY <3>1 DEF InstallersIInv
    <3>3. \A i \in 1 .. Len(Setup) : i <= cmd.at
      BY <1>3, <3>1, <3>2
    <3> QED
      BY <1>4, <3>1, <3>3
  <2> QED
    BY <2>1
<1>7. \A k \in host'.marked \cap (Plain \cup {"platform", "routing"}) : Has(k)'
  <2>1. ASSUME NEW k \in host'.marked \cap (Plain \cup {"platform", "routing"}) PROVE Has(k)'
    <3>1. k \in host.marked \/ k = At
      BY DEF HostLeft
    <3>2. Has(k)
      BY <3>1 DEF InstallersIInv
    <3> QED
      BY <1>1, <3>2, HasLeft
  <2> QED
    BY <2>1
<1>8. StageInv'
  BY <1>2 DEF StageInv
<1>9. PortainerServes' /\ LocksCleared'
  BY DEF PortainerServes, LocksCleared, HostLeft, InstallersIInv
<1>10. host' \in HostStates /\ past' \in PastStates /\ left' \in 0 .. MaxMishaps
  BY DEF HostLeft, InstallersIInv
<1> QED
  BY <1>2, <1>5, <1>6, <1>7, <1>8, <1>9, <1>10 DEF InstallersIInv

\* A command stops before its end.
LEMMA StopsKeep ==
    ASSUME InstallersIInv, cmd' = [cmd EXCEPT !.stage = "idle", !.end = "none"], past' = past,
           left' \in 0 .. MaxMishaps, HostLeft({})
    PROVE  InstallersIInv'
<1>1. cmd' \in CmdStates /\ cmd'.stage = "idle" /\ cmd'.end = "none"
  BY DEF InstallersIInv, CmdStates, SetupStages
<1>2. \A k \in host'.marked \cap (Plain \cup {"platform", "routing"}) : Has(k)'
  BY HasLeft DEF HostLeft, InstallersIInv
<1>3. StageInv' /\ PortainerServes' /\ LocksCleared' /\ host' \in HostStates /\ past' \in PastStates
  BY <1>1 DEF StageInv, PortainerServes, LocksCleared, HostLeft, InstallersIInv
<1> QED
  BY <1>1, <1>2, <1>3 DEF InstallersIInv

\* A command starts.
LEMMA StartsKeep ==
    ASSUME InstallersIInv, cmd.stage = "idle", UNCHANGED <<host, past>>, left' \in 0 .. MaxMishaps,
           NEW i \in 1 .. Len(Setup), NEW end \in {"none", "running"},
           end = "running" => i = 1,
           cmd' = [at |-> i, to |-> IF end = "running" THEN Len(Setup) ELSE i, stage |-> "start", end |-> end]
    PROVE  InstallersIInv'
<1>1. Len(Setup) \in 1 .. Len(Setup)
  BY AtIsStep DEF InstallersIInv
<1>2. /\ cmd' \in CmdStates /\ cmd'.stage = "start" /\ cmd'.at = i /\ cmd'.end = end
      /\ end = "running" => cmd'.to = Len(Setup)
  BY <1>1 DEF CmdStates, SetupStages
<1>3. cmd'.end = "running" => Passed'
  BY <1>2 DEF Passed
<1>4. HostLeft({})
  BY DEF HostLeft, InstallersIInv
<1>5. \A k \in host'.marked \cap (Plain \cup {"platform", "routing"}) : Has(k)'
  BY <1>4, HasLeft DEF HostLeft, InstallersIInv
<1>6. StageInv' /\ PortainerServes' /\ LocksCleared' /\ host' \in HostStates /\ past' \in PastStates
  BY <1>2 DEF StageInv, PortainerServes, LocksCleared, InstallersIInv
<1> QED
  BY <1>2, <1>3, <1>5, <1>6 DEF InstallersIInv

LEMMA SkipKeeps ==
    ASSUME InstallersIInv, Skip
    PROVE  InstallersIInv' /\ host' = host
<1>1. /\ cmd.stage = "start" /\ UNCHANGED <<host, left, past>> /\ At \in SetupSteps \ (Hosts \cup {"argocd"})
  BY DEF Skip, In
<1>2. CASE At \in host.marked
  <2>1. Leave /\ HostLeft({})
    BY <1>1, <1>2 DEF Skip, HostLeft, InstallersIInv
  <2>2. Has(At)
    <3>1. CASE At \in Plain \cup {"platform", "routing"}
      BY <1>2, <3>1 DEF InstallersIInv
    <3>2. CASE At \notin Plain \cup {"platform", "routing"}
      BY <1>1, <3>2 DEF Has
    <3> QED
      BY <3>1, <3>2
  <2>3. cmd.stage # "idle"
    BY <1>1
  <2> QED
    BY <1>1, <2>1, <2>2, <2>3, LeavesKeep
<1>3. CASE At \notin host.marked
  <2> SUFFICES ASSUME NEW k \in SetupSteps \ (Hosts \cup {"argocd"}), At = k PROVE Moves
    BY <1>1, MovesKeep
  <2>1. To("begin") /\ "begin" \in Inner
    BY <1>3 DEF Skip, Inner
  <2>2. Within(k, "begin")
    BY DEF Within, Simple, Hosts, Plain, Masked, Releases, SetupSteps
  <2>3. Ready(k, "begin")'
    BY DEF Ready, SSO
  <2>4. Keeps
    BY <1>1, HostSame DEF InstallersIInv
  <2> QED
    BY <1>1, <1>3, <2>1, <2>2, <2>3, <2>4, StartReaches
<1> QED
  BY <1>1, <1>2, <1>3

LEMMA MarkKeeps ==
    ASSUME InstallersIInv, Mark
    PROVE  InstallersIInv' /\ HostLeft({At})
<1>1. cmd.stage = "mark" /\ Leave /\ UNCHANGED <<left, past>> /\ At \in SetupSteps
  BY AtIsStep DEF Mark, InstallersIInv
<1>2. HostLeft({At})
  BY <1>1 DEF Mark, HostLeft, InstallersIInv, HostStates
<1>3. Has(At) /\ (At = "portainer" => "portainer" \in host.objects \/ past.lost # {})
  BY <1>1 DEF InstallersIInv, StageInv, Ready
<1> QED
  BY <1>1, <1>2, <1>3, LeavesKeep

LEMMA GiveUpKeeps ==
    ASSUME InstallersIInv, GiveUp
    PROVE  InstallersIInv' /\ host' = host
<1>1. cmd.stage = "unmarked" /\ Leave /\ UNCHANGED <<host, left, past>> /\ At \in SetupSteps
  BY AtIsStep DEF GiveUp, InstallersIInv
<1>2. At \in {"oauth2-proxy", "auto-update"}
  <2>1. Within(At, "unmarked")
    BY <1>1 DEF InstallersIInv, StageInv
  <2> QED
    BY <1>1, <2>1 DEF Within, SSO, RoutingStages, SetupSteps, Releases, Hosts, Simple, Plain, Masked
<1>3. Has(At) /\ HostLeft({})
  BY <1>1, <1>2 DEF Has, Hosts, Plain, HostLeft, InstallersIInv
<1> QED
  BY <1>1, <1>3, LeavesKeep

LEMMA InstallHostKeeps ==
    ASSUME InstallersIInv, InstallHost
    PROVE  InstallersIInv' /\ At \in Hosts
<1>1. At \in Hosts /\ cmd.stage = "start" /\ past' = past
  BY DEF InstallHost, In
<1>2. ASSUME Leave, UNCHANGED host, Well, StillThere(At) PROVE InstallersIInv'
  <2>1. Has(At) /\ HostLeft({}) /\ left' = left
    BY <1>1, <1>2 DEF Has, Hosts, Plain, HostLeft, InstallersIInv, StillThere, Well
  <2> QED
    BY <1>1, <1>2, <2>1, LeavesKeep
<1>3. ASSUME NEW k \in Hosts, At = k, NEW st \in {"mark", "failed"}, To(st), Well \/ Fails,
             host' = host \/ host' = [host EXCEPT !.present = @ \cup {At}],
             st = "mark" => host' = [host EXCEPT !.present = @ \cup {At}]
      PROVE  InstallersIInv'
  <2>1. left' \in 0 .. MaxMishaps
    BY <1>3, FewerLeft DEF InstallersIInv
  <2>2. /\ host' \in HostStates /\ host'.marked = host.marked /\ host.present \subseteq host'.present
        /\ host'.release = host.release /\ host'.objects = host.objects /\ host'.volume = host.volume
        /\ st = "mark" => k \in host'.present
    BY <1>3 DEF HostStates, InstallersIInv
  <2>3. ArgoHealthy => ArgoHealthy'
    BY <2>2 DEF ArgoHealthy
  <2>4. PortainerServes' /\ LocksCleared'
    BY <1>1, <2>2 DEF PortainerServes, LocksCleared, InstallersIInv
  <2>5. Keeps
    BY <1>1, <2>1, <2>2, <2>3, <2>4 DEF Keeps, InstallersIInv
  <2>6. Within(k, st) /\ st \in Inner
    BY DEF Within, Simple, Hosts, Plain, Masked, Inner
  <2>7. Ready(k, st)'
    BY <2>2 DEF Ready, Has, Hosts, Plain, SSO
  <2> QED
    BY <1>1, <1>3, <2>5, <2>6, <2>7, StartReaches, MovesKeep
<1>4. CASE ~StillThere(At) /\ host' = [host EXCEPT !.present = @ \cup {At}] /\ To("mark") /\ Well
  BY <1>1, <1>3, <1>4
<1>5. CASE UNCHANGED host /\ To("failed") /\ Fails
  BY <1>1, <1>3, <1>5
<1>6. CASE host' = [host EXCEPT !.present = @ \cup {At}] /\ To("failed") /\ Fails
  BY <1>1, <1>3, <1>6
<1> QED
  BY <1>1, <1>2, <1>4, <1>5, <1>6 DEF InstallHost

LEMMA ArgoStartsKeeps ==
    ASSUME InstallersIInv, InstallArgoCD, ArgoStarts
    PROVE  InstallersIInv' /\ host' = host
<1>1. At = "argocd" /\ cmd.stage = "start" /\ UNCHANGED <<host, left, past>>
  BY DEF InstallArgoCD, ArgoStarts
<1>2. CASE "argocd" \in host.marked /\ ArgoHealthy
  <2>1. Leave /\ HostLeft({}) /\ Has(At)
    BY <1>1, <1>2 DEF ArgoStarts, HostLeft, InstallersIInv, Has, Hosts, Plain
  <2> QED
    BY <1>1, <2>1, LeavesKeep
<1>3. CASE ~("argocd" \in host.marked /\ ArgoHealthy)
  <2>1. PICK st \in {"upgrade", "reset"} : To(st)
    BY <1>3 DEF ArgoStarts
  <2>2. Within("argocd", st) /\ st \in Inner
    BY DEF Within, Simple, Hosts, Plain, Masked, Inner
  <2>3. Ready("argocd", st)'
    BY DEF Ready, SSO
  <2>4. Keeps
    BY <1>1, HostSame DEF InstallersIInv
  <2> QED
    BY <1>1, <2>1, <2>2, <2>3, <2>4, StartReaches, MovesKeep
<1> QED
  BY <1>2, <1>3

LEMMA TroubleKeeps ==
    ASSUME InstallersIInv, Trouble
    PROVE  InstallersIInv' /\ cmd.stage = "idle"
<1>1. /\ cmd.stage = "idle" /\ left' \in 0 .. MaxMishaps /\ cmd' = [cmd EXCEPT !.end = "none"]
      /\ host \in HostStates /\ past \in PastStates
  BY InstallersAssumption DEF Trouble, InstallersIInv
<1>2. cmd' \in CmdStates /\ cmd'.stage = "idle" /\ cmd'.end = "none" /\ StageInv'
  BY <1>1 DEF InstallersIInv, CmdStates, StageInv
<1>3. /\ host' \in HostStates /\ host'.marked = host.marked /\ past' \in PastStates /\ past'.refused = past.refused
      /\ \/ /\ past' = past /\ host'.release = host.release
            /\ host'.objects = host.objects \/ host'.objects = host.objects \ {"argo-server"}
         \/ past'.lost = past.lost \cup {"cluster"}
  <2>1. CASE host' = [host EXCEPT !.volume = "changed"] /\ UNCHANGED past
    BY <1>1, <2>1 DEF HostStates
  <2>2. CASE host' = [host EXCEPT !.objects = @ \ {"argo-server"}] /\ UNCHANGED past
    BY <1>1, <2>2 DEF HostStates
  <2>3. CASE host' = [host EXCEPT !.present = @ \ {"helm"}] /\ UNCHANGED past
    BY <1>1, <2>3 DEF HostStates
  <2>4. CASE /\ host' = [host EXCEPT !.present = @ \ {"k3s"}, !.objects = {}, !.volume = "none",
                                     !.release = [r \in Releases |-> "none"]]
             /\ past' = [past EXCEPT !.lost = @ \cup {"cluster"}]
    <3> DEFINE release == [r \in Releases |-> "none"]
    <3>1. release \in [Releases -> {"none", "pending", "failed", "deployed"}]
      OBVIOUS
    <3>2. host' = [host EXCEPT !.present = @ \ {"k3s"}, !.objects = {}, !.volume = "none", !.release = release]
      BY <2>4
    <3> HIDE DEF release
    <3>3. host' \in HostStates /\ host'.marked = host.marked
      BY <1>1, <3>1, <3>2 DEF HostStates
    <3>4. past' \in PastStates /\ past'.refused = past.refused /\ past'.lost = past.lost \cup {"cluster"}
      BY <1>1, <2>4 DEF PastStates
    <3> QED
      BY <3>3, <3>4
  <2> QED
    BY <2>1, <2>2, <2>3, <2>4 DEF Trouble
<1>4. PortainerServes' /\ LocksCleared'
  BY <1>3 DEF PortainerServes, LocksCleared, InstallersIInv
<1>5. \A k \in host'.marked \cap (Plain \cup {"platform", "routing"}) : Has(k)'
  <2>1. ASSUME NEW k \in host'.marked \cap (Plain \cup {"platform", "routing"}) PROVE Has(k)'
    <3>1. Has(k) /\ k \notin Hosts /\ k # "argocd"
      BY <1>3 DEF InstallersIInv, Plain, Hosts
    <3>2. CASE "cluster" \in past'.lost
      BY <3>1, <3>2 DEF Has
    <3>3. CASE past' = past /\ host'.release = host.release /\ host.objects \ {"argo-server"} \subseteq host'.objects
      <4>1. k \in {"platform", "routing"} => Ingresses \subseteq host'.objects \/ "cluster" \in past'.lost
        BY <3>1, <3>3 DEF Has, Ingresses
      <4>2. k \in Plain => host'.release[k] # "none" \/ "cluster" \in past'.lost
        BY <3>1, <3>3 DEF Has
      <4> QED
        BY <3>1, <4>1, <4>2 DEF Has
    <3> QED
      BY <1>3, <3>2, <3>3
  <2> QED
    BY <2>1
<1> QED
  BY <1>1, <1>2, <1>3, <1>4, <1>5 DEF InstallersIInv

-----------------------------------------------------------------------------
(* Every step *)

\* The volume and the Portainer that a settled server keeps.
Settled ==
    cmd.stage # "idle" /\ {"portainer", "routing"} \subseteq host.marked =>
        /\ host'.volume = host.volume
        /\ "portainer" \in host'.objects <=> "portainer" \in host.objects

LEMMA MovesSettled ==
    ASSUME InstallersIInv, Moves
    PROVE  Settled
<1>1. CASE At \in {"portainer", "routing"} /\ {"portainer", "routing"} \subseteq host.marked
  <2>1. host' = host
    BY <1>1 DEF InstallersIInv, StageInv, Moves, Working, Hosts
  <2> QED
    BY <2>1 DEF Settled
<1>2. CASE At \notin {"portainer", "routing"}
  BY <1>2 DEF Settled, Moves, Keeps
<1> QED
  BY <1>1, <1>2 DEF Settled

LEMMA InstallersKeep ==
    ASSUME InstallersIInv, InstallersNext
    PROVE  InstallersIInv' /\ Settled
<1>1. ASSUME Moves PROVE InstallersIInv' /\ Settled
  BY <1>1, MovesKeep, MovesSettled
<1>2. ASSUME host' = host \/ HostLeft({}) \/ HostLeft({At}) PROVE Settled
  BY <1>2 DEF Settled, HostLeft
<1>3. CASE RunProvision
  <2>1. 1 \in 1 .. Len(Setup) /\ left' \in 0 .. MaxMishaps
    BY <1>3, AtIsStep DEF InstallersIInv, RunProvision
  <2>2. /\ cmd.stage = "idle" /\ UNCHANGED <<host, past>>
        /\ cmd' = [at |-> 1, to |-> IF "running" = "running" THEN Len(Setup) ELSE 1, stage |-> "start",
                   end |-> "running"]
    BY <1>3 DEF RunProvision
  <2> QED
    BY <1>2, <2>1, <2>2, StartsKeep
<1>4. CASE \E i \in 1 .. Len(Setup) : RunInstall(i)
  <2>1. PICK i \in 1 .. Len(Setup) : RunInstall(i)
    BY <1>4
  <2>2. left' \in 0 .. MaxMishaps
    BY <2>1, InstallersAssumption DEF InstallersIInv, RunInstall
  <2>3. /\ cmd.stage = "idle" /\ UNCHANGED <<host, past>>
        /\ cmd' = [at |-> i, to |-> IF "none" = "running" THEN Len(Setup) ELSE i, stage |-> "start",
                   end |-> "none"]
    BY <2>1 DEF RunInstall
  <2> QED
    BY <1>2, <2>2, <2>3, StartsKeep
<1>5. CASE Kill
  <2>1. HostLeft({}) /\ left' \in 0 .. MaxMishaps /\ past' = past
        /\ cmd' = [cmd EXCEPT !.stage = "idle", !.end = "none"]
    BY <1>5, InstallersAssumption DEF Kill, HostLeft, InstallersIInv
  <2> QED
    BY <1>2, <2>1, StopsKeep
<1>6. CASE Abort
  <2>1. HostLeft({}) /\ left' \in 0 .. MaxMishaps /\ past' = past
        /\ cmd' = [cmd EXCEPT !.stage = "idle", !.end = "none"]
    <3>1. host' = [host EXCEPT !.values = host.values /\ At # "portainer"] /\ host \in HostStates
      BY <1>6 DEF Abort, InstallersIInv
    <3>2. (host.values /\ At # "portainer") \in BOOLEAN
      OBVIOUS
    <3>3. HostLeft({})
      BY <3>1, <3>2 DEF HostLeft, HostStates
    <3> QED
      BY <1>6, <3>3 DEF Abort, InstallersIInv
  <2> QED
    BY <1>2, <2>1, StopsKeep
<1>7. CASE Trouble
  BY <1>7, TroubleKeeps DEF Settled
<1>8. CASE Skip
  BY <1>2, <1>8, SkipKeeps
<1>9. CASE Mark
  BY <1>2, <1>9, MarkKeeps
<1>10. CASE GiveUp
  BY <1>2, <1>10, GiveUpKeeps
<1>11. CASE InstallHost
  <2>1. InstallersIInv' /\ At \in Hosts
    BY <1>11, InstallHostKeeps
  <2>2. host'.volume = host.volume /\ host'.objects = host.objects
    BY <1>11 DEF InstallHost, InstallersIInv, HostStates
  <2> QED
    BY <2>1, <2>2 DEF Settled
<1>12. CASE InstallArgoCD
  BY <1>1, <1>2, <1>12, InstallArgoCDMoves, ArgoStartsKeeps
<1>13. CASE InstallSimple \/ InstallPlain \/ InstallMasked \/ InstallOAuthProxy
  BY <1>1, <1>13, InstallSimpleMoves, InstallPlainMoves, InstallMaskedMoves, InstallOAuthProxyMoves
<1>14. CASE InstallPortainer \/ EnsureSSO
  BY <1>1, <1>14, InstallPortainerMoves, EnsureSSOMoves
<1>15. CASE InstallPlatform \/ InstallRouting \/ InstallAutoUpdate
  BY <1>1, <1>15, InstallPlatformMoves, InstallRoutingMoves, InstallAutoUpdateMoves
<1> QED
  BY <1>3, <1>4, <1>5, <1>6, <1>7, <1>8, <1>9, <1>10, <1>11, <1>12, <1>13, <1>14, <1>15
  DEF InstallersNext, StepNext

LEMMA InstallersStart ==
    ASSUME InstallersInit
    PROVE  InstallersIInv
<1> DEFINE release == [r \in Releases |-> "none"]
<1>1. release \in [Releases -> {"none", "pending", "failed", "deployed"}]
  OBVIOUS
<1>2. host = [present |-> {}, marked |-> {}, release |-> release, objects |-> {}, volume |-> "none", values |-> FALSE]
  BY DEF InstallersInit
<1> HIDE DEF release
<1>3. host \in HostStates /\ host.marked = {}
  BY <1>1, <1>2 DEF HostStates
<1>4. Len(Setup) \in Nat \ {0}
  BY InstallersAssumption
<1>5. cmd \in CmdStates /\ cmd.stage = "idle" /\ cmd.end = "none"
  BY <1>4 DEF InstallersInit, CmdStates, SetupStages
<1>6. past \in PastStates /\ past.refused = {} /\ left \in 0 .. MaxMishaps
  BY InstallersAssumption DEF InstallersInit, PastStates
<1> QED
  BY <1>3, <1>5, <1>6 DEF InstallersIInv, StageInv, PortainerServes, LocksCleared

LEMMA InstallersStutter ==
    ASSUME InstallersIInv, UNCHANGED setupVars
    PROVE  InstallersIInv'
BY DEF InstallersIInv, setupVars, StageInv, Passed, PortainerServes, LocksCleared, Within, Ready, Has, ArgoHealthy, At

LEMMA InstallersShow ==
    ASSUME InstallersIInv
    PROVE  InstallersTypeOK /\ LocksCleared /\ EndsWell /\ PortainerServes
<1>1. InstallersTypeOK
  BY DEF InstallersIInv, InstallersTypeOK, HostStates, CmdStates, PastStates
<1>2. ASSUME cmd.end = "ok", NEW k, \E i \in 1 .. Len(Setup) : Setup[i] = k
      PROVE  Has(k)
  BY <1>2 DEF InstallersIInv
<1>3. EndsWell
  BY <1>2 DEF EndsWell, Has, Hosts, Plain, Ingresses
<1> QED
  BY <1>1, <1>3 DEF InstallersIInv

-----------------------------------------------------------------------------
(* The settings page: what the requests in flight carry *)

SlotStates == [kind : {"free", "load", "reload", "save", "rotate", "change", "list"}, group : FieldGroups,
               at : {"none", "sent", "left", "done"}, body : [plain : FieldValues, secret : FieldValues],
               read : [FieldGroups -> FieldValues], seen : 0 .. MaxActs]
Loads == {"load", "reload"}

\* A slot is free, or has a request that is on its way, given up or answered.
SlotsInv ==
    \A s \in Slots : IF slots[s].kind = "free" THEN slots[s] = FreeSlot ELSE slots[s].at \in {"sent", "left", "done"}

\* What is empty in the row, or on its way to the page or to the row, was saved before the page was filled.
EmptyInv ==
    /\ NothingEmptied
    /\ \A s \in Slots, g \in FieldGroups :
          slots[s].kind \in Loads /\ slots[s].at = "done" /\ slots[s].read[g] = EmptyField => g \in unseen
    /\ \A g \in fresh : inputs[g].plain = EmptyField => g \in unseen
    /\ \A s \in Slots : slots[s].kind = "save" /\ slots[s].body.plain = EmptyField => slots[s].group \in unseen

\* One rotation is waited for at a time, and no values are shown meanwhile; while it is, or its values are shown, no
\* other is at work, unless it was when this one was asked for.
Rotates(s) == slots[s].kind = "rotate" /\ slots[s].at # "left"
RotateInv ==
    /\ \A s, t \in Slots : Rotates(s) /\ Rotates(t) => s = t
    /\ \A s \in Slots : Rotates(s) => rotating
    /\ rotating => rotateValues = 0
    /\ rotating \/ rotateValues # 0 => overlapped \/ \A s \in Slots : ~SlotIs(s, "rotate", "left")
    /\ \A s \in Slots : SlotIs(s, "rotate", "done") => slots[s].seen = rotation \/ overlapped
    /\ ShownValuesInForce

\* While requests come one at a time, an answer says what is stored, and the page shows it but for
\* the groups of fields, or the list, that a request in flight will fill.
ShowInv ==
    oneByOne =>
        /\ \A s, t \in Slots : s # t /\ slots[s].kind # "free" /\ slots[t].kind # "free" =>
              {slots[s].kind, slots[t].kind} \subseteq {"load", "list"}
        /\ \A s \in Slots : slots[s].at # "left"
        /\ \A s \in Slots : slots[s].kind \in Loads /\ slots[s].at = "done" =>
              \A g \in FieldGroups : slots[s].read[g] = columns[g].plain
        /\ \A s \in Slots : SlotIs(s, "list", "done") => slots[s].seen = configs
        /\ (\A s \in Slots : slots[s].kind \notin Loads \cup {"save"}) =>
              \A g \in FieldGroups \ dirty : inputs[g].plain = columns[g].plain
        /\ (\A s \in Slots : slots[s].kind \notin {"change", "list"}) => listShown = configs

\* Every change of the list was asked for.
Changing == {s \in Slots : Arrived(s, "change")}
ChangesInv == IsFiniteSet(Changing) /\ Cardinality(Changing) + configs <= actsSoFar

PageIInv == SettingsTypeOK /\ SecretsDiscarded /\ SlotsInv /\ EmptyInv /\ RotateInv /\ ShowInv /\ ChangesInv

LEMMA EmptySlot ==
    /\ FreeSlot \in SlotStates /\ FreeSlot.kind = "free" /\ FreeSlot.at = "none" /\ FreeSlot.group = LoginGroup
    /\ LoginGroup \in FieldGroups /\ EmptyField \in FieldValues /\ 0 \in 0 .. MaxActs
<1>1. /\ LoginGroup \in FieldGroups /\ MaxTyped \in Nat /\ MaxActs \in Nat
  BY SettingsAssumption
<1>2. EmptyField \in FieldValues /\ 0 \in 0 .. MaxActs
  BY <1>1 DEF EmptyField, FieldValues, StoredBefore
<1> DEFINE read == [g \in FieldGroups |-> EmptyField]
<1>3. read \in [FieldGroups -> FieldValues]
  BY <1>2
<1>4. FreeSlot = [kind |-> "free", group |-> LoginGroup, at |-> "none",
                  body |-> [plain |-> EmptyField, secret |-> EmptyField], read |-> read, seen |-> 0]
  BY DEF FreeSlot
<1> HIDE DEF read
<1> QED
  BY <1>1, <1>2, <1>3, <1>4 DEF SlotStates

LEMMA SlotTypes ==
    ASSUME SettingsTypeOK
    PROVE  slots \in [Slots -> SlotStates] /\ \A s \in Slots : slots[s] \in SlotStates
BY DEF SettingsTypeOK, SlotStates

\* One slot is written.
Becomes(s, kind, at) ==
    /\ slots' \in [Slots -> SlotStates]
    /\ \A t \in Slots \ {s} : slots'[t] = slots[t]
    /\ slots'[s].kind = kind /\ slots'[s].at = at
    /\ IF kind = "free" THEN slots'[s] = FreeSlot ELSE at \in {"sent", "left", "done"}

LEMMA SlotWritten ==
    ASSUME SettingsTypeOK, NEW s \in Slots, NEW new \in SlotStates, slots' = [slots EXCEPT ![s] = new],
           IF new.kind = "free" THEN new = FreeSlot ELSE new.at \in {"sent", "left", "done"}
    PROVE  Becomes(s, new.kind, new.at) /\ slots'[s] = new
BY SlotTypes DEF Becomes

LEMMA BecomesSound ==
    ASSUME SlotsInv, NEW s \in Slots, NEW kind, NEW at, Becomes(s, kind, at)
    PROVE  SlotsInv'
BY DEF Becomes, SlotsInv

LEMMA Asks ==
    ASSUME SettingsTypeOK, NEW s \in Slots, NEW kind \in {"reload", "save", "rotate", "change", "list"},
           NEW request \in SlotStates, request.kind = kind, slots' = [slots EXCEPT ![s] = [request EXCEPT !.at = "sent"]]
    PROVE  /\ Becomes(s, kind, "sent")
           /\ slots'[s].group = request.group /\ slots'[s].body = request.body /\ slots'[s].seen = request.seen
<1> DEFINE new == [request EXCEPT !.at = "sent"]
<1>1. /\ new \in SlotStates /\ new.kind = kind /\ new.at = "sent" /\ new.group = request.group
      /\ new.body = request.body /\ new.seen = request.seen
  BY DEF SlotStates
<1>2. slots' = [slots EXCEPT ![s] = new]
  OBVIOUS
<1> HIDE DEF new
<1>3. Becomes(s, new.kind, new.at) /\ slots'[s] = new
  BY <1>1, <1>2, SlotWritten
<1> QED
  BY <1>1, <1>3

LEMMA Follows ==
    ASSUME SettingsTypeOK, NEW s \in Slots, NEW kind \in {"reload", "list"}, ThenAsk(s, kind)
    PROVE  Becomes(s, kind, "sent")
<1> DEFINE request == [FreeSlot EXCEPT !.kind = kind]
<1>1. request \in SlotStates /\ request.kind = kind
  BY EmptySlot DEF SlotStates
<1>2. [FreeSlot EXCEPT !.kind = kind, !.at = "sent"] = [request EXCEPT !.at = "sent"]
  BY EmptySlot DEF SlotStates
<1>3. slots' = [slots EXCEPT ![s] = [request EXCEPT !.at = "sent"]]
  BY <1>2 DEF ThenAsk
<1> HIDE DEF request
<1> QED
  BY <1>1, <1>3, Asks

LEMMA Served ==
    ASSUME SettingsTypeOK, NEW s \in Slots, NEW request \in SlotStates, request.kind = slots[s].kind,
           slots[s].kind # "free", slots' = [slots EXCEPT ![s] = [request EXCEPT !.at = "done"]]
    PROVE  /\ Becomes(s, slots[s].kind, "done")
           /\ slots'[s].group = request.group /\ slots'[s].body = request.body
           /\ slots'[s].read = request.read /\ slots'[s].seen = request.seen
<1> DEFINE new == [request EXCEPT !.at = "done"]
<1>1. /\ new \in SlotStates /\ new.kind = slots[s].kind /\ new.at = "done" /\ new.group = request.group
      /\ new.body = request.body /\ new.read = request.read /\ new.seen = request.seen
  BY DEF SlotStates
<1>2. slots' = [slots EXCEPT ![s] = new]
  OBVIOUS
<1> HIDE DEF new
<1>3. Becomes(s, new.kind, new.at) /\ slots'[s] = new
  BY <1>1, <1>2, SlotWritten
<1> QED
  BY <1>1, <1>3

LEMMA Freed ==
    ASSUME SettingsTypeOK, NEW s \in Slots, slots' = [slots EXCEPT ![s] = FreeSlot]
    PROVE  Becomes(s, "free", "none")
<1>1. Becomes(s, FreeSlot.kind, FreeSlot.at)
  BY EmptySlot, SlotWritten
<1> QED
  BY <1>1, EmptySlot

-----------------------------------------------------------------------------
(* The requests for the list *)

LEMMA ChangesSame ==
    ASSUME SettingsTypeOK, ChangesInv, UNCHANGED configs, actsSoFar' \in {actsSoFar, actsSoFar + 1},
           Changing' \subseteq Changing
    PROVE  ChangesInv'
<1>1. IsFiniteSet(Changing) /\ Cardinality(Changing) + configs <= actsSoFar
  BY DEF ChangesInv
<1>2. IsFiniteSet(Changing') /\ Cardinality(Changing') <= Cardinality(Changing)
  BY <1>1, FS_Subset
<1>3. Cardinality(Changing) \in Nat /\ Cardinality(Changing') \in Nat /\ configs \in Nat /\ actsSoFar \in Nat
  BY <1>1, <1>2, FS_CardinalityType, SettingsAssumption DEF SettingsTypeOK
<1> QED
  BY <1>1, <1>2, <1>3 DEF ChangesInv

\* A slot that was not asked to change the list, and is not now.
LEMMA ChangesElsewhere ==
    ASSUME SettingsTypeOK, ChangesInv, UNCHANGED configs, actsSoFar' \in {actsSoFar, actsSoFar + 1},
           NEW s \in Slots, NEW kind, NEW at, Becomes(s, kind, at), kind # "change" \/ at = "done"
    PROVE  ChangesInv'
<1>1. Changing' \subseteq Changing
  BY DEF Changing, Arrived, SlotIs, Becomes
<1> QED
  BY <1>1, ChangesSame

LEMMA ChangeAsked ==
    ASSUME SettingsTypeOK, ChangesInv, UNCHANGED configs, actsSoFar' = actsSoFar + 1,
           NEW s \in Slots, slots[s] = FreeSlot, Becomes(s, "change", "sent")
    PROVE  ChangesInv'
<1>1. Changing' = Changing \cup {s} /\ s \notin Changing
  BY EmptySlot DEF Changing, Arrived, SlotIs, Becomes
<1>2. IsFiniteSet(Changing) /\ Cardinality(Changing) + configs <= actsSoFar
  BY DEF ChangesInv
<1>3. IsFiniteSet(Changing') /\ Cardinality(Changing') = Cardinality(Changing) + 1
  BY <1>1, <1>2, FS_AddElement
<1>4. Cardinality(Changing) \in Nat /\ configs \in Nat /\ actsSoFar \in Nat
  BY <1>2, FS_CardinalityType, SettingsAssumption DEF SettingsTypeOK
<1> QED
  BY <1>2, <1>3, <1>4 DEF ChangesInv

LEMMA ChangeServed ==
    ASSUME SettingsTypeOK, ChangesInv, configs' = configs + 1, actsSoFar' = actsSoFar,
           NEW s \in Slots, Arrived(s, "change"), NEW kind, NEW at, Becomes(s, kind, at), kind = "free" \/ at = "done"
    PROVE  ChangesInv' /\ configs' \in 0 .. MaxActs
<1>1. Changing' = Changing \ {s} /\ s \in Changing
  BY DEF Changing, Arrived, SlotIs, Becomes
<1>2. IsFiniteSet(Changing) /\ Cardinality(Changing) + configs <= actsSoFar
  BY DEF ChangesInv
<1>3. IsFiniteSet(Changing') /\ Cardinality(Changing') = Cardinality(Changing) - 1
  BY <1>1, <1>2, FS_RemoveElement
<1>4. Cardinality(Changing) \in Nat /\ Cardinality(Changing') \in Nat /\ configs \in Nat
      /\ actsSoFar \in Nat /\ actsSoFar <= MaxActs /\ MaxActs \in Nat
  BY <1>2, <1>3, FS_CardinalityType, SettingsAssumption DEF SettingsTypeOK
<1> QED
  BY <1>2, <1>3, <1>4 DEF ChangesInv

-----------------------------------------------------------------------------
(* The user *)

LEMMA NewValue ==
    ASSUME SettingsTypeOK, typedInto < MaxTyped
    PROVE  typedInto + 1 \in FieldValues /\ typedInto + 1 \in 0 .. MaxTyped /\ typedInto + 1 # EmptyField
BY SettingsAssumption DEF SettingsTypeOK, FieldValues, EmptyField, StoredBefore

LEMMA TypeIntoKeeps ==
    ASSUME PageIInv, NEW g \in FieldGroups, NEW field \in {"plain", "secret"}, TypeInto(g, field)
    PROVE  PageIInv'
<1> USE DEF PageIInv
<1>1. typedInto' \in FieldValues /\ typedInto' \in 0 .. MaxTyped /\ typedInto' # EmptyField
      /\ slots' = slots
  BY NewValue DEF TypeInto
<1>2. inputs' \in PageFields
      /\ \A h \in FieldGroups : inputs'[h].plain = IF h = g /\ field = "plain" THEN typedInto' ELSE inputs[h].plain
  <2> DEFINE typed == [inputs[g] EXCEPT ![field] = typedInto']
  <2>1. inputs' = [inputs EXCEPT ![g] = typed] /\ inputs \in PageFields
    BY DEF TypeInto, SettingsTypeOK
  <2>2. typed \in [plain : FieldValues, secret : FieldValues]
        /\ typed.plain = IF field = "plain" THEN typedInto' ELSE inputs[g].plain
    BY <1>1, <2>1 DEF PageFields
  <2> HIDE DEF typed
  <2> QED
    BY <2>1, <2>2 DEF PageFields
<1>3. SettingsTypeOK'
  <2>1. {fresh', unseen', dirty'} \subseteq SUBSET FieldGroups
    BY DEF TypeInto, SettingsTypeOK
  <2> QED
    BY <1>1, <1>2, <2>1 DEF TypeInto, SettingsTypeOK, unlessForm
<1>4. EmptyInv'
  <2>1. \A h \in fresh' : inputs'[h].plain = EmptyField => h \in unseen'
    BY <1>1, <1>2 DEF TypeInto, EmptyInv, SettingsTypeOK
  <2> QED
    BY <1>1, <2>1 DEF TypeInto, EmptyInv, NothingEmptied
<1>5. RotateInv' /\ SlotsInv' /\ SecretsDiscarded'
  BY <1>1 DEF TypeInto, RotateInv, Rotates, ShownValuesInForce, SlotIs, unlessForm, SlotsInv, SecretsDiscarded
<1>6. ShowInv'
  <2>1. \A h \in FieldGroups \ dirty' : inputs'[h].plain = inputs[h].plain /\ h \notin dirty
    BY <1>2 DEF TypeInto
  <2> QED
    BY <1>1, <2>1 DEF TypeInto, ShowInv, SlotIs, unlessForm
<1>7. ChangesInv'
  <2>1. Changing' = Changing /\ UNCHANGED <<configs, actsSoFar>>
    BY <1>1 DEF Changing, Arrived, SlotIs, TypeInto, unlessForm
  <2> QED
    BY <2>1 DEF ChangesInv
<1> QED
  BY <1>3, <1>4, <1>5, <1>6, <1>7

\* A request that is asked for while none is in flight is alone.
LEMMA AskedAlone ==
    ASSUME SettingsTypeOK, NEW s \in Slots, NEW request, AskSlot(s, request), NEW kind, NEW at, Becomes(s, kind, at),
           oneByOne'
    PROVE  oneByOne /\ \A t \in Slots \ {s} : slots[t].kind = "free" /\ slots'[t].kind = "free"
BY EmptySlot DEF AskSlot, AloneIn, Becomes

LEMMA ActsTyped ==
    ASSUME SettingsTypeOK, NEW s \in Slots, NEW request, AskSlot(s, request)
    PROVE  /\ actsSoFar' \in 0 .. MaxActs /\ actsSoFar' = actsSoFar + 1 /\ typedInto' = typedInto
           /\ oneByOne' \in BOOLEAN /\ slots[s] = FreeSlot
<1>1. actsSoFar' \in 0 .. MaxActs /\ actsSoFar' = actsSoFar + 1
  BY SettingsAssumption DEF AskSlot, SettingsTypeOK
<1>2. oneByOne' \in BOOLEAN
  BY DEF AskSlot
<1> QED
  BY <1>1, <1>2 DEF AskSlot

LEMMA SaveGroupKeeps ==
    ASSUME PageIInv, NEW s \in Slots, NEW g \in FieldGroups, SaveGroup(s, g)
    PROVE  PageIInv'
<1> USE DEF PageIInv
<1> DEFINE request == [FreeSlot EXCEPT !.kind = "save", !.group = g, !.body = inputs[g]]
<1>1. request \in SlotStates /\ request.kind = "save" /\ request.group = g /\ request.body = inputs[g]
  BY EmptySlot DEF SlotStates, SettingsTypeOK, PageFields
<1>2. AskSlot(s, request)
  BY DEF SaveGroup
<1> HIDE DEF request
<1>3. Becomes(s, "save", "sent") /\ slots'[s].group = g /\ slots'[s].body = inputs[g]
  BY <1>1, <1>2, Asks DEF AskSlot
<1>4. /\ actsSoFar' \in 0 .. MaxActs /\ actsSoFar' = actsSoFar + 1 /\ typedInto' = typedInto
      /\ oneByOne' \in BOOLEAN /\ slots[s] = FreeSlot
  BY <1>2, ActsTyped
<1>5. /\ unseen' \in SUBSET FieldGroups /\ unseen \subseteq unseen' /\ (g \in fresh \/ g \in unseen')
  BY DEF SaveGroup, SettingsTypeOK
<1>6. SettingsTypeOK'
  BY <1>3, <1>4, <1>5 DEF SaveGroup, SettingsTypeOK, unlessForm, Becomes, SlotStates
<1>7. EmptyInv'
  <2>1. NothingEmptied' /\ \A h \in fresh' : inputs'[h].plain = EmptyField => h \in unseen'
    BY <1>5 DEF SaveGroup, EmptyInv, NothingEmptied
  <2>2. inputs[g].plain = EmptyField => g \in unseen'
    BY <1>5 DEF EmptyInv
  <2>3. \A t \in Slots : slots'[t].kind = "save" /\ slots'[t].body.plain = EmptyField => slots'[t].group \in unseen'
    BY <1>3, <1>5, <2>2 DEF Becomes, EmptyInv
  <2>4. \A t \in Slots, h \in FieldGroups :
           slots'[t].kind \in Loads /\ slots'[t].at = "done" /\ slots'[t].read[h] = EmptyField => h \in unseen'
    BY <1>3, <1>5 DEF Becomes, EmptyInv, Loads
  <2> QED
    BY <2>1, <2>3, <2>4 DEF EmptyInv
<1>8. RotateInv'
  BY <1>3, EmptySlot DEF SaveGroup, RotateInv, Rotates, ShownValuesInForce, SlotIs, unlessForm, Becomes
<1>9. ShowInv'
  <2>1. ASSUME oneByOne' PROVE oneByOne /\ \A t \in Slots \ {s} : slots[t].kind = "free" /\ slots'[t].kind = "free"
    BY <1>2, <1>3, <2>1, AskedAlone
  <2>2. \A t \in Slots : slots[t].kind \notin {"change", "list"} \/ ~oneByOne'
    BY <1>4, <2>1, EmptySlot
  <2> QED
    BY <1>3, <2>1, <2>2 DEF SaveGroup, ShowInv, SlotIs, unlessForm, Becomes, Loads
<1>10. ChangesInv' /\ SlotsInv' /\ SecretsDiscarded'
  <2>1. UNCHANGED configs /\ SecretsDiscarded'
    BY DEF SaveGroup, unlessForm, SecretsDiscarded
  <2>2. actsSoFar' \in {actsSoFar, actsSoFar + 1}
    BY <1>4
  <2>3. "save" # "change"
    OBVIOUS
  <2> QED
    BY <1>3, <2>1, <2>2, <2>3, ChangesElsewhere, BecomesSound
<1> QED
  BY <1>6, <1>7, <1>8, <1>9, <1>10

LEMMA RotateSecretsKeeps ==
    ASSUME PageIInv, NEW s \in Slots, RotateSecrets(s)
    PROVE  PageIInv'
<1> USE DEF PageIInv
<1> DEFINE request == [FreeSlot EXCEPT !.kind = "rotate", !.seen = actsSoFar + 1]
<1>1. request \in SlotStates /\ request.kind = "rotate"
  <2>1. actsSoFar + 1 \in 0 .. MaxActs
    BY SettingsAssumption DEF RotateSecrets, AskSlot, SettingsTypeOK
  <2> QED
    BY <2>1, EmptySlot DEF SlotStates
<1>2. AskSlot(s, request)
  BY DEF RotateSecrets
<1> HIDE DEF request
<1>3. Becomes(s, "rotate", "sent")
  BY <1>1, <1>2, Asks DEF AskSlot
<1>4. /\ actsSoFar' \in 0 .. MaxActs /\ actsSoFar' = actsSoFar + 1 /\ typedInto' = typedInto
      /\ oneByOne' \in BOOLEAN /\ slots[s] = FreeSlot
  BY <1>2, ActsTyped
<1>6. SettingsTypeOK'
  BY <1>3, <1>4, EmptySlot DEF RotateSecrets, SettingsTypeOK, unlessRotation, Becomes, SlotStates
<1>7. EmptyInv'
  BY <1>3 DEF RotateSecrets, EmptyInv, NothingEmptied, unlessRotation, Becomes, Loads
<1>8. RotateInv'
  <2>1. \A t \in Slots : ~Rotates(t)
    BY DEF RotateSecrets, RotateInv
  <2>2. overlapped' \/ \A t \in Slots : ~SlotIs(t, "rotate", "left")
    BY DEF RotateSecrets
  <2> QED
    BY <1>3, <2>1, <2>2 DEF RotateSecrets, RotateInv, Rotates, ShownValuesInForce, SlotIs, Becomes
<1>9. ShowInv'
  <2>1. ASSUME oneByOne' PROVE oneByOne /\ \A t \in Slots \ {s} : slots[t].kind = "free" /\ slots'[t].kind = "free"
    BY <1>2, <1>3, <2>1, AskedAlone
  <2>2. \A t \in Slots : slots[t].kind = "free" \/ ~oneByOne'
    BY <1>4, <2>1, EmptySlot
  <2> QED
    BY <1>3, <2>1, <2>2 DEF RotateSecrets, ShowInv, SlotIs, unlessRotation, Becomes, Loads
<1>10. ChangesInv' /\ SlotsInv' /\ SecretsDiscarded'
  <2>1. UNCHANGED configs /\ SecretsDiscarded'
    BY DEF RotateSecrets, unlessRotation, SecretsDiscarded
  <2>2. actsSoFar' \in {actsSoFar, actsSoFar + 1}
    BY <1>4
  <2>3. "rotate" # "change"
    OBVIOUS
  <2> QED
    BY <1>3, <2>1, <2>2, <2>3, ChangesElsewhere, BecomesSound
<1> QED
  BY <1>6, <1>7, <1>8, <1>9, <1>10

LEMMA ChangeConfigsKeeps ==
    ASSUME PageIInv, NEW s \in Slots, ChangeConfigs(s)
    PROVE  PageIInv'
<1> USE DEF PageIInv
<1> DEFINE request == [FreeSlot EXCEPT !.kind = "change"]
<1>1. request \in SlotStates /\ request.kind = "change"
  BY EmptySlot DEF SlotStates
<1>2. AskSlot(s, request)
  BY DEF ChangeConfigs
<1> HIDE DEF request
<1>3. Becomes(s, "change", "sent")
  BY <1>1, <1>2, Asks DEF AskSlot
<1>4. /\ actsSoFar' \in 0 .. MaxActs /\ actsSoFar' = actsSoFar + 1 /\ typedInto' = typedInto
      /\ oneByOne' \in BOOLEAN /\ slots[s] = FreeSlot
  BY <1>2, ActsTyped
<1>6. SettingsTypeOK'
  BY <1>3, <1>4 DEF ChangeConfigs, SettingsTypeOK, unlessList, Becomes, SlotStates
<1>7. EmptyInv'
  BY <1>3 DEF ChangeConfigs, EmptyInv, NothingEmptied, unlessList, Becomes, Loads
<1>8. RotateInv'
  BY <1>3 DEF ChangeConfigs, RotateInv, Rotates, ShownValuesInForce, SlotIs, unlessList, Becomes
<1>9. ShowInv'
  <2>1. ASSUME oneByOne' PROVE oneByOne /\ \A t \in Slots \ {s} : slots[t].kind = "free" /\ slots'[t].kind = "free"
    BY <1>2, <1>3, <2>1, AskedAlone
  <2>2. \A t \in Slots : slots[t].kind = "free" \/ ~oneByOne'
    BY <1>4, <2>1, EmptySlot
  <2> QED
    BY <1>3, <2>1, <2>2 DEF ChangeConfigs, ShowInv, SlotIs, unlessList, Becomes, Loads
<1>10. ChangesInv' /\ SlotsInv' /\ SecretsDiscarded'
  <2>1. UNCHANGED configs /\ SecretsDiscarded'
    BY DEF ChangeConfigs, unlessList, SecretsDiscarded
  <2> QED
    BY <1>3, <1>4, <2>1, ChangeAsked, BecomesSound
<1> QED
  BY <1>6, <1>7, <1>8, <1>9, <1>10

-----------------------------------------------------------------------------
(* The API *)

\* Nobody waits for the answer.
LEMMA LeftServed ==
    ASSUME PageIInv, NEW s \in Slots, slots[s].at = "left", ServesSlot(s, slots[s]),
           columns' \in PageFields, NothingEmptied', rotation' \in 0 .. MaxActs,
           rotation' = rotation \/ slots[s].kind = "rotate",
           (slots[s].kind = "change" /\ configs' = configs + 1) \/ (slots[s].kind # "change" /\ configs' = configs)
    PROVE  PageIInv'
<1> USE DEF PageIInv
<1>1. Becomes(s, "free", "none") /\ slots[s].kind # "free"
  BY EmptySlot, Freed DEF ServesSlot, SlotsInv
<1>2. ChangesInv' /\ configs' \in 0 .. MaxActs
  <2>1. CASE slots[s].kind = "change"
    BY <1>1, <2>1, ChangeServed DEF Arrived, SlotIs, ServesSlot
  <2>2. CASE slots[s].kind # "change"
    BY <1>1, <2>2, ChangesElsewhere DEF ServesSlot, SettingsTypeOK
  <2> QED
    BY <2>1, <2>2
<1>3. SettingsTypeOK'
  BY <1>1, <1>2 DEF ServesSlot, SettingsTypeOK, Becomes, SlotStates
<1>4. EmptyInv'
  BY <1>1 DEF ServesSlot, EmptyInv, NothingEmptied, Becomes, Loads
<1>5. RotateInv'
  <2>1. rotation' = rotation \/ overlapped \/ (~rotating /\ rotateValues = 0)
    BY DEF RotateInv, SlotIs
  <2> QED
    BY <1>1, <2>1 DEF ServesSlot, RotateInv, Rotates, ShownValuesInForce, SlotIs, Becomes
<1>6. ShowInv' /\ SlotsInv' /\ SecretsDiscarded'
  <2>1. ~oneByOne
    BY DEF ShowInv
  <2> QED
    BY <1>1, <2>1, BecomesSound DEF ServesSlot, ShowInv, SecretsDiscarded
<1> QED
  BY <1>2, <1>3, <1>4, <1>5, <1>6

LEMMA ServeSaveKeeps ==
    ASSUME PageIInv, NEW s \in Slots, ServeSave(s)
    PROVE  PageIInv'
<1> USE DEF PageIInv
<1> DEFINE g == slots[s].group
           secret == IF slots[s].body.secret = EmptyField THEN columns[g].secret ELSE slots[s].body.secret
           column == [plain |-> slots[s].body.plain, secret |-> secret]
<1>1. /\ Arrived(s, "save") /\ ServesSlot(s, slots[s]) /\ UNCHANGED <<rotation, configs>>
      /\ columns' = [columns EXCEPT ![g].plain = slots[s].body.plain, ![g].secret = secret]
  BY DEF ServeSave
<1>2. slots[s] \in SlotStates /\ columns \in PageFields
  BY SlotTypes DEF SettingsTypeOK
<1>3. g \in FieldGroups /\ slots[s].body.plain \in FieldValues /\ secret \in FieldValues
  BY <1>2 DEF SlotStates, PageFields
<1>4. /\ columns' \in PageFields /\ columns'[g].plain = slots[s].body.plain
      /\ \A h \in FieldGroups \ {g} : columns'[h] = columns[h]
  <2> HIDE DEF secret, g
  <2> QED
    BY <1>1, <1>2, <1>3 DEF PageFields
<1>0. slots[s].kind = "save" /\ (slots[s].at = "sent" \/ slots[s].at = "left")
  BY <1>1 DEF Arrived, SlotIs
<1>e. NothingEmptied'
  <2>1. slots[s].body.plain = EmptyField => g \in unseen
    BY <1>0 DEF EmptyInv, g
  <2> HIDE DEF secret, g
  <2> QED
    BY <1>1, <1>4, <2>1 DEF ServesSlot, EmptyInv, NothingEmptied
<1>l. CASE slots[s].at = "left"
  <2>1. rotation' \in 0 .. MaxActs
    BY <1>1 DEF SettingsTypeOK
  <2> HIDE DEF secret, g
  <2> QED
    BY <1>0, <1>1, <1>4, <1>e, <1>l, <2>1, LeftServed
<1>s. SUFFICES ASSUME slots[s].at = "sent" PROVE PageIInv'
  BY <1>0, <1>l
<1>5. /\ Becomes(s, "save", "done") /\ slots'[s].group = g /\ slots'[s].body = slots[s].body
  BY <1>0, <1>1, <1>2, <1>s, Served DEF ServesSlot
<1> HIDE DEF secret, g
<1>6. SettingsTypeOK'
  BY <1>1, <1>4, <1>5 DEF ServesSlot, SettingsTypeOK, Becomes, SlotStates
<1>7. EmptyInv'
  <2>1. slots[s].body.plain = EmptyField => g \in unseen
    BY <1>0 DEF EmptyInv, g
  <2>3. \A t \in Slots : slots'[t].kind = "save" /\ slots'[t].body.plain = EmptyField => slots'[t].group \in unseen'
    BY <1>1, <1>5, <2>1 DEF Becomes, EmptyInv, ServesSlot
  <2>4. \A t \in Slots, h \in FieldGroups :
           slots'[t].kind \in Loads /\ slots'[t].at = "done" /\ slots'[t].read[h] = EmptyField => h \in unseen'
    BY <1>1, <1>5 DEF Becomes, EmptyInv, ServesSlot, Loads
  <2> QED
    BY <1>1, <1>e, <2>3, <2>4 DEF EmptyInv, ServesSlot
<1>8. RotateInv'
  BY <1>0, <1>1, <1>5 DEF ServesSlot, RotateInv, Rotates, ShownValuesInForce, SlotIs, Becomes
<1>9. ShowInv'
  <2>1. oneByOne => \A t \in Slots \ {s} : slots[t].kind = "free"
    BY <1>0, <1>1 DEF ShowInv, SlotIs
  <2> QED
    BY <1>0, <1>1, <1>5, <2>1 DEF ServesSlot, ShowInv, SlotIs, Becomes, Loads
<1>10. ChangesInv' /\ SlotsInv' /\ SecretsDiscarded'
  <2>1. UNCHANGED <<configs, actsSoFar>> /\ SecretsDiscarded'
    BY <1>1 DEF ServesSlot, SecretsDiscarded
  <2>2. "done" = "done"
    OBVIOUS
  <2> QED
    BY <1>5, <2>1, <2>2, ChangesElsewhere, BecomesSound
<1> QED
  BY <1>6, <1>7, <1>8, <1>9, <1>10

LEMMA ServeReadKeeps ==
    ASSUME PageIInv, NEW s \in Slots, ServeRead(s)
    PROVE  PageIInv'
<1> USE DEF PageIInv
<1> DEFINE read == [g \in FieldGroups |-> columns[g].plain]
           request == [slots[s] EXCEPT !.read = read, !.seen = configs]
<1>1. /\ slots[s].kind \in {"load", "reload", "list"} /\ slots[s].at = "sent"
      /\ ServesSlot(s, request) /\ UNCHANGED <<columns, rotation, configs>>
  BY DEF ServeRead, SlotIs
<1>2. slots[s] \in SlotStates /\ columns \in PageFields /\ configs \in 0 .. MaxActs
  BY SlotTypes DEF SettingsTypeOK
<1>3. read \in [FieldGroups -> FieldValues] /\ \A g \in FieldGroups : read[g] = columns[g].plain
  BY <1>2 DEF PageFields
<1> HIDE DEF read
<1>4. /\ request \in SlotStates /\ request.kind = slots[s].kind /\ request.read = read /\ request.seen = configs
  BY <1>2, <1>3 DEF SlotStates
<1> HIDE DEF request
<1>5. Becomes(s, slots[s].kind, "done") /\ slots'[s].read = read /\ slots'[s].seen = configs
  BY <1>1, <1>4, Served DEF ServesSlot
<1>6. SettingsTypeOK'
  BY <1>1, <1>5 DEF ServesSlot, SettingsTypeOK, Becomes, SlotStates
<1>7. EmptyInv'
  <2>1. \A g \in FieldGroups : read[g] = EmptyField => g \in unseen
    BY <1>3 DEF EmptyInv, NothingEmptied
  <2>2. \A t \in Slots : slots'[t].kind = "save" /\ slots'[t].body.plain = EmptyField => slots'[t].group \in unseen'
    BY <1>1, <1>5 DEF Becomes, EmptyInv, ServesSlot
  <2>3. \A t \in Slots, h \in FieldGroups :
           slots'[t].kind \in Loads /\ slots'[t].at = "done" /\ slots'[t].read[h] = EmptyField => h \in unseen'
    BY <1>1, <1>5, <2>1 DEF Becomes, EmptyInv, ServesSlot
  <2> QED
    BY <1>1, <2>2, <2>3 DEF EmptyInv, ServesSlot, NothingEmptied
<1>8. RotateInv'
  BY <1>1, <1>5 DEF ServesSlot, RotateInv, Rotates, ShownValuesInForce, SlotIs, Becomes
<1>9. ShowInv'
  BY <1>1, <1>3, <1>5 DEF ServesSlot, ShowInv, SlotIs, Becomes, Loads
<1>10. ChangesInv' /\ SlotsInv' /\ SecretsDiscarded'
  <2>1. UNCHANGED <<configs, actsSoFar>> /\ SecretsDiscarded'
    BY <1>1 DEF ServesSlot, SecretsDiscarded
  <2>2. "done" = "done"
    OBVIOUS
  <2> QED
    BY <1>5, <2>1, <2>2, ChangesElsewhere, BecomesSound
<1> QED
  BY <1>6, <1>7, <1>8, <1>9, <1>10

LEMMA ServeRotationKeeps ==
    ASSUME PageIInv, NEW s \in Slots, ServeRotation(s)
    PROVE  PageIInv'
<1> USE DEF PageIInv
<1>1. /\ slots[s].kind = "rotate" /\ (slots[s].at = "sent" \/ slots[s].at = "left")
      /\ ServesSlot(s, slots[s]) /\ UNCHANGED <<columns, configs>> /\ rotation' = slots[s].seen
  BY DEF ServeRotation, Arrived, SlotIs
<1>2. slots[s] \in SlotStates /\ rotation' \in 0 .. MaxActs
  BY <1>1, SlotTypes DEF SlotStates
<1>3. CASE slots[s].at = "left"
  <2>1. columns' \in PageFields /\ NothingEmptied'
    BY <1>1 DEF SettingsTypeOK, EmptyInv, NothingEmptied, ServesSlot
  <2> QED
    BY <1>1, <1>2, <1>3, <2>1, LeftServed
<1>4. SUFFICES ASSUME slots[s].at = "sent" PROVE PageIInv'
  BY <1>1, <1>3
<1>5. Becomes(s, "rotate", "done") /\ slots'[s].seen = rotation'
  BY <1>1, <1>2, <1>4, Served DEF ServesSlot
<1>6. SettingsTypeOK'
  BY <1>1, <1>2, <1>5 DEF ServesSlot, SettingsTypeOK, Becomes, SlotStates
<1>7. EmptyInv'
  BY <1>1, <1>5 DEF ServesSlot, EmptyInv, NothingEmptied, Becomes, Loads
<1>8. RotateInv'
  <2>1. rotating /\ rotateValues = 0 /\ \A t \in Slots \ {s} : ~Rotates(t)
    BY <1>1, <1>4 DEF RotateInv, Rotates
  <2> QED
    BY <1>1, <1>4, <1>5, <2>1 DEF ServesSlot, RotateInv, Rotates, ShownValuesInForce, SlotIs, Becomes
<1>9. ShowInv'
  BY <1>1, <1>5 DEF ServesSlot, ShowInv, SlotIs, Becomes, Loads
<1>10. ChangesInv' /\ SlotsInv' /\ SecretsDiscarded'
  <2>1. UNCHANGED <<configs, actsSoFar>> /\ SecretsDiscarded'
    BY <1>1 DEF ServesSlot, SecretsDiscarded
  <2>2. "done" = "done"
    OBVIOUS
  <2> QED
    BY <1>5, <2>1, <2>2, ChangesElsewhere, BecomesSound
<1> QED
  BY <1>6, <1>7, <1>8, <1>9, <1>10

LEMMA ServeChangeKeeps ==
    ASSUME PageIInv, NEW s \in Slots, ServeChange(s)
    PROVE  PageIInv'
<1> USE DEF PageIInv
<1>0. slots[s].kind = "change" /\ (slots[s].at = "sent" \/ slots[s].at = "left")
  BY DEF ServeChange, Arrived, SlotIs
<1>1. /\ Arrived(s, "change")
      /\ ServesSlot(s, slots[s]) /\ UNCHANGED <<columns, rotation>> /\ configs' = configs + 1
  BY DEF ServeChange
<1>3. CASE slots[s].at = "left"
  <2>1. columns' \in PageFields /\ NothingEmptied' /\ rotation' \in 0 .. MaxActs
    BY <1>1 DEF SettingsTypeOK, EmptyInv, NothingEmptied, ServesSlot
  <2> QED
    BY <1>0, <1>1, <1>3, <2>1, LeftServed
<1>4. SUFFICES ASSUME slots[s].at = "sent" PROVE PageIInv'
  BY <1>0, <1>3
<1>5. Becomes(s, "change", "done")
  BY <1>0, <1>1, <1>4, SlotTypes, Served DEF ServesSlot
<1>10. ChangesInv' /\ configs' \in 0 .. MaxActs /\ SlotsInv' /\ SecretsDiscarded'
  <2>1. actsSoFar' = actsSoFar /\ SecretsDiscarded'
    BY <1>1 DEF ServesSlot, SecretsDiscarded
  <2>2. "done" = "done"
    OBVIOUS
  <2> QED
    BY <1>1, <1>5, <2>1, <2>2, ChangeServed, BecomesSound
<1>6. SettingsTypeOK'
  BY <1>1, <1>5, <1>10 DEF ServesSlot, SettingsTypeOK, Becomes, SlotStates
<1>7. EmptyInv'
  BY <1>1, <1>5 DEF ServesSlot, EmptyInv, NothingEmptied, Becomes, Loads
<1>8. RotateInv'
  BY <1>0, <1>1, <1>5 DEF ServesSlot, RotateInv, Rotates, ShownValuesInForce, SlotIs, Becomes
<1>9. ShowInv'
  <2>1. oneByOne => \A t \in Slots \ {s} : slots[t].kind = "free"
    BY <1>0, <1>1 DEF ShowInv, SlotIs
  <2> QED
    BY <1>0, <1>1, <1>5, <2>1 DEF ServesSlot, ShowInv, SlotIs, Becomes, Loads
<1> QED
  BY <1>6, <1>7, <1>8, <1>9, <1>10

LEMMA GivenUpKeeps ==
    ASSUME PageIInv, NEW s \in Slots, SlotFails(s) \/ SlotLeft(s)
    PROVE  PageIInv'
<1> USE DEF PageIInv
<1>1. /\ GivenUp(s) /\ slots[s] \in SlotStates
  BY SlotTypes DEF SlotFails, SlotLeft
<1>2. SettingsTypeOK' /\ EmptyInv' /\ ShowInv' /\ SecretsDiscarded' /\ UNCHANGED <<configs, actsSoFar>>
      /\ (\A t \in Slots : slots'[t] # slots[t] => t = s)
  <2>1. listShown' \in 0 .. MaxActs /\ {savingIntegrations', rotating', oneByOne'} \subseteq BOOLEAN
    BY <1>1, EmptySlot DEF GivenUp, SettingsTypeOK
  <2>2. /\ slots' \in [Slots -> SlotStates]
        /\ \A t \in Slots \ {s} : slots'[t] = slots[t]
        /\ slots'[s] = FreeSlot \/ (/\ slots'[s].kind = slots[s].kind /\ slots'[s].at = "left"
                                    /\ slots'[s].group = slots[s].group /\ slots'[s].body = slots[s].body)
    <3>1. CASE SlotFails(s)
      BY <3>1, EmptySlot, SlotTypes DEF SlotFails
    <3>2. CASE SlotLeft(s)
      <4> DEFINE new == [slots[s] EXCEPT !.at = "left"]
      <4>1. /\ new \in SlotStates /\ new.kind = slots[s].kind /\ new.at = "left"
            /\ new.group = slots[s].group /\ new.body = slots[s].body
        BY <1>1 DEF SlotStates
      <4>2. slots' = [slots EXCEPT ![s] = new]
        BY <3>2, SlotTypes DEF SlotLeft
      <4> HIDE DEF new
      <4> QED
        BY <4>1, <4>2, SlotTypes
    <3> QED
      BY <3>1, <3>2
  <2>3. SettingsTypeOK'
    BY <1>1, <2>1, <2>2 DEF GivenUp, SettingsTypeOK, SlotStates
  <2>4. EmptyInv'
    BY <1>1, <2>2, EmptySlot DEF GivenUp, EmptyInv, NothingEmptied, Loads
  <2> QED
    BY <1>1, <2>2, <2>3, <2>4 DEF GivenUp, ShowInv, SecretsDiscarded
<1>3. CASE SlotFails(s)
  <2>1. Becomes(s, "free", "none")
    BY <1>3, Freed DEF SlotFails
  <2>2. ChangesInv' /\ SlotsInv'
    <3>1. "free" # "change"
      OBVIOUS
    <3> QED
      BY <1>2, <2>1, <3>1, ChangesElsewhere, BecomesSound
  <2>3. RotateInv'
    <3>1. slots[s].kind = "rotate" => rotateValues = 0 /\ \A t \in Slots \ {s} : ~Rotates(t)
      BY <1>3 DEF SlotFails, RotateInv, Rotates
    <3>2. rotating' => rotating /\ slots[s].kind # "rotate"
      BY <1>1 DEF GivenUp, SettingsTypeOK
    <3>3. rotating /\ slots[s].kind # "rotate" => rotating'
      BY <1>1 DEF GivenUp
    <3> QED
      BY <1>1, <2>1, <3>1, <3>2, <3>3 DEF GivenUp, RotateInv, Rotates, ShownValuesInForce, SlotIs, Becomes
  <2> QED
    BY <1>2, <2>2, <2>3
<1>4. CASE SlotLeft(s)
  <2>1. Becomes(s, slots[s].kind, "left") /\ slots[s].kind # "free" /\ slots[s].at = "sent"
    BY <1>1, <1>4, SlotTypes DEF SlotLeft, Becomes, SlotStates
  <2>2. ChangesInv' /\ SlotsInv'
    <3>1. Changing' \subseteq Changing
      BY <2>1 DEF Changing, Arrived, SlotIs, Becomes
    <3> QED
      BY <1>2, <2>1, <3>1, ChangesSame, BecomesSound
  <2>3. RotateInv'
    <3>1. slots[s].kind = "rotate" => rotating /\ rotateValues = 0
      BY <2>1 DEF RotateInv, Rotates
    <3>2. rotating' => rotating /\ slots[s].kind # "rotate"
      BY <1>1 DEF GivenUp, SettingsTypeOK
    <3> QED
      BY <1>1, <2>1, <3>1, <3>2 DEF GivenUp, RotateInv, Rotates, ShownValuesInForce, SlotIs, Becomes
  <2> QED
    BY <1>2, <2>2, <2>3
<1> QED
  BY <1>3, <1>4

-----------------------------------------------------------------------------
(* The answers *)

LEMMA SaveAnsweredKeeps ==
    ASSUME PageIInv, NEW s \in Slots, SaveAnswered(s)
    PROVE  PageIInv'
<1> USE DEF PageIInv
<1>1. /\ SlotIs(s, "save", "done") /\ ThenAsk(s, "reload")
      /\ inputs' = [h \in FieldGroups |-> [inputs[h] EXCEPT !.secret = EmptyField]]
      /\ UNCHANGED <<columns, savingIntegrations, unlessForm, typedInto, actsSoFar, fresh, unseen, dirty, oneByOne>>
  BY DEF SaveAnswered
<1>2. discarded' \subseteq [group : FieldGroups, by : FieldGroups, late : BOOLEAN] /\ SecretsDiscarded'
  <2>1. PICK lost \in SUBSET FieldGroups :
           discarded' = discarded \cup {[group |-> h, by |-> slots[s].group, late |-> h = slots[s].group] : h \in lost}
    BY DEF SaveAnswered
  <2>2. slots[s].group \in FieldGroups
    BY SlotTypes DEF SlotStates
  <2>3. ASSUME NEW d \in discarded'
        PROVE  d \in [group : FieldGroups, by : FieldGroups, late : BOOLEAN] /\ (d.by # d.group \/ d.late)
    <3>1. CASE d \in discarded
      BY <3>1 DEF SettingsTypeOK, SecretsDiscarded
    <3>2. CASE d \notin discarded
      <4>1. PICK h \in lost : d = [group |-> h, by |-> slots[s].group, late |-> h = slots[s].group]
        BY <2>1, <3>2
      <4>2. CASE h = slots[s].group
        <5>1. d = [group |-> h, by |-> slots[s].group, late |-> TRUE]
          BY <4>1, <4>2
        <5> QED
          BY <2>2, <5>1
      <4>3. CASE h # slots[s].group
        <5>1. d = [group |-> h, by |-> slots[s].group, late |-> FALSE]
          BY <4>1, <4>3
        <5> QED
          BY <2>2, <4>3, <5>1
      <4> QED
        BY <4>2, <4>3
    <3> QED
      BY <3>1, <3>2
  <2> QED
    BY <2>3 DEF SecretsDiscarded
<1>3. inputs' \in PageFields /\ \A h \in FieldGroups : inputs'[h].plain = inputs[h].plain
  <2>1. inputs \in PageFields /\ EmptyField \in FieldValues
    BY EmptySlot DEF SettingsTypeOK
  <2>2. inputs' = [h \in FieldGroups |-> [inputs[h] EXCEPT !.secret = EmptyField]]
    BY <1>1
  <2>3. \A h \in FieldGroups : /\ [inputs[h] EXCEPT !.secret = EmptyField] \in [plain : FieldValues, secret : FieldValues]
                              /\ [inputs[h] EXCEPT !.secret = EmptyField].plain = inputs[h].plain
    BY <2>1 DEF PageFields
  <2> QED
    BY ONLY <2>2, <2>3 DEF PageFields
<1>5. Becomes(s, "reload", "sent")
  BY <1>1, Follows
<1>6. SettingsTypeOK'
  BY <1>1, <1>2, <1>3, <1>5 DEF SettingsTypeOK, Becomes, SlotStates, unlessForm
<1>7. EmptyInv'
  <2>1. \A h \in fresh' : inputs'[h].plain = EmptyField => h \in unseen'
    BY <1>1, <1>3 DEF EmptyInv, SettingsTypeOK
  <2> QED
    BY <1>1, <1>5, <2>1 DEF EmptyInv, NothingEmptied, Becomes, Loads
<1>8. RotateInv'
  BY <1>1, <1>5 DEF RotateInv, Rotates, ShownValuesInForce, SlotIs, Becomes, unlessForm
<1>9. ShowInv'
  <2>1. oneByOne => \A t \in Slots \ {s} : slots[t].kind = "free"
    BY <1>1 DEF ShowInv, SlotIs
  <2> QED
    BY <1>1, <1>3, <1>5, <2>1 DEF ShowInv, SlotIs, Becomes, Loads, unlessForm
<1>10. ChangesInv' /\ SlotsInv'
  <2>1. UNCHANGED <<configs, actsSoFar>>
    BY <1>1 DEF unlessForm
  <2>2. "reload" # "change"
    OBVIOUS
  <2> QED
    BY <1>5, <2>1, <2>2, ChangesElsewhere, BecomesSound
<1> QED
  BY <1>2, <1>6, <1>7, <1>8, <1>9, <1>10

LEMMA LoadAnsweredKeeps ==
    ASSUME PageIInv, NEW s \in Slots, LoadAnswered(s)
    PROVE  PageIInv'
<1> USE DEF PageIInv
<1>1. /\ slots[s].kind \in Loads /\ slots[s].at = "done"
      /\ inputs' = [g \in FieldGroups |-> [inputs[g] EXCEPT !.plain = slots[s].read[g]]]
      /\ fresh' = FieldGroups /\ dirty' = {}
      /\ UNCHANGED <<columns, unlessForm, typedInto, actsSoFar, unseen, oneByOne, discarded>>
  BY DEF LoadAnswered, SlotIs, Loads
<1>2. savingIntegrations' \in BOOLEAN
  BY DEF LoadAnswered, SettingsTypeOK
<1>3. inputs' \in PageFields /\ \A h \in FieldGroups : inputs'[h].plain = slots[s].read[h]
  <2>1. slots[s].read \in [FieldGroups -> FieldValues] /\ inputs \in PageFields
    BY SlotTypes DEF SettingsTypeOK, SlotStates
  <2> QED
    BY <1>1, <2>1 DEF PageFields
<1>5. Becomes(s, "free", "none")
  BY Freed DEF LoadAnswered
<1>6. SettingsTypeOK'
  BY <1>1, <1>2, <1>3, <1>5 DEF SettingsTypeOK, Becomes, SlotStates, unlessForm
<1>7. EmptyInv'
  <2>1. \A h \in fresh' : inputs'[h].plain = EmptyField => h \in unseen'
    BY <1>1, <1>3 DEF EmptyInv
  <2> QED
    BY <1>1, <1>5, <2>1 DEF EmptyInv, NothingEmptied, Becomes, Loads
<1>8. RotateInv'
  BY <1>1, <1>5 DEF RotateInv, Rotates, ShownValuesInForce, SlotIs, Becomes, unlessForm
<1>9. ShowInv'
  <2>1. oneByOne => \A h \in FieldGroups : inputs'[h].plain = columns[h].plain
    BY <1>1, <1>3 DEF ShowInv
  <2> QED
    BY <1>1, <1>5, <2>1 DEF ShowInv, SlotIs, Becomes, Loads, unlessForm
<1>10. ChangesInv' /\ SlotsInv' /\ SecretsDiscarded'
  <2>1. UNCHANGED <<configs, actsSoFar>> /\ SecretsDiscarded'
    BY <1>1 DEF unlessForm, SecretsDiscarded
  <2>2. "free" # "change"
    OBVIOUS
  <2> QED
    BY <1>5, <2>1, <2>2, ChangesElsewhere, BecomesSound
<1> QED
  BY <1>6, <1>7, <1>8, <1>9, <1>10

LEMMA RotationAnsweredKeeps ==
    ASSUME PageIInv, NEW s \in Slots, RotationAnswered(s)
    PROVE  PageIInv'
<1> USE DEF PageIInv
<1>1. /\ SlotIs(s, "rotate", "done") /\ rotateValues' = slots[s].seen /\ rotating' = FALSE
      /\ UNCHANGED <<unlessRotation, rotation, overlapped, typedInto, actsSoFar, oneByOne>>
  BY DEF RotationAnswered
<1>2. slots[s].seen \in 0 .. MaxActs /\ (slots[s].seen = rotation \/ overlapped)
  BY <1>1, SlotTypes DEF SlotStates, RotateInv
<1>5. Becomes(s, "free", "none")
  BY Freed DEF RotationAnswered
<1>6. SettingsTypeOK'
  BY <1>1, <1>2, <1>5 DEF SettingsTypeOK, Becomes, SlotStates, unlessRotation
<1>7. EmptyInv'
  BY <1>1, <1>5 DEF EmptyInv, NothingEmptied, Becomes, Loads, unlessRotation
<1>8. RotateInv'
  <2>1. \A t \in Slots : ~Rotates(t)'
    BY <1>1, <1>5 DEF RotateInv, Rotates, SlotIs, Becomes
  <2>2. overlapped \/ \A t \in Slots : ~SlotIs(t, "rotate", "left")'
    BY <1>1, <1>5 DEF RotateInv, Rotates, SlotIs, Becomes
  <2> QED
    BY <1>1, <1>2, <2>1, <2>2 DEF RotateInv, Rotates, ShownValuesInForce, SlotIs
<1>9. ShowInv'
  BY <1>1, <1>5 DEF ShowInv, SlotIs, Becomes, Loads, unlessRotation
<1>10. ChangesInv' /\ SlotsInv' /\ SecretsDiscarded'
  <2>1. UNCHANGED <<configs, actsSoFar>> /\ SecretsDiscarded'
    BY <1>1 DEF unlessRotation, SecretsDiscarded
  <2>2. "free" # "change"
    OBVIOUS
  <2> QED
    BY <1>5, <2>1, <2>2, ChangesElsewhere, BecomesSound
<1> QED
  BY <1>6, <1>7, <1>8, <1>9, <1>10

LEMMA ChangeAnsweredKeeps ==
    ASSUME PageIInv, NEW s \in Slots, ChangeAnswered(s)
    PROVE  PageIInv'
<1> USE DEF PageIInv
<1>1. /\ SlotIs(s, "change", "done") /\ ThenAsk(s, "list")
      /\ UNCHANGED <<unlessList, configs, listShown, typedInto, actsSoFar, oneByOne>>
  BY DEF ChangeAnswered
<1>5. Becomes(s, "list", "sent")
  BY <1>1, Follows
<1>6. SettingsTypeOK'
  BY <1>1, <1>5 DEF SettingsTypeOK, Becomes, SlotStates, unlessList
<1>7. EmptyInv'
  BY <1>1, <1>5 DEF EmptyInv, NothingEmptied, Becomes, Loads, unlessList
<1>8. RotateInv'
  BY <1>1, <1>5 DEF RotateInv, Rotates, ShownValuesInForce, SlotIs, Becomes, unlessList
<1>9. ShowInv'
  <2>1. oneByOne => \A t \in Slots \ {s} : slots[t].kind = "free"
    BY <1>1 DEF ShowInv, SlotIs
  <2> QED
    BY <1>1, <1>5, <2>1 DEF ShowInv, SlotIs, Becomes, Loads, unlessList
<1>10. ChangesInv' /\ SlotsInv' /\ SecretsDiscarded'
  <2>1. UNCHANGED <<configs, actsSoFar>> /\ SecretsDiscarded'
    BY <1>1 DEF unlessList, SecretsDiscarded
  <2>2. "list" # "change"
    OBVIOUS
  <2> QED
    BY <1>5, <2>1, <2>2, ChangesElsewhere, BecomesSound
<1> QED
  BY <1>6, <1>7, <1>8, <1>9, <1>10

LEMMA ListAnsweredKeeps ==
    ASSUME PageIInv, NEW s \in Slots, ListAnswered(s)
    PROVE  PageIInv'
<1> USE DEF PageIInv
<1>1. /\ SlotIs(s, "list", "done") /\ listShown' = slots[s].seen
      /\ UNCHANGED <<unlessList, configs, typedInto, actsSoFar, oneByOne>>
  BY DEF ListAnswered
<1>2. slots[s].seen \in 0 .. MaxActs
  BY SlotTypes DEF SlotStates
<1>5. Becomes(s, "free", "none")
  BY Freed DEF ListAnswered
<1>6. SettingsTypeOK'
  BY <1>1, <1>2, <1>5 DEF SettingsTypeOK, Becomes, SlotStates, unlessList
<1>7. EmptyInv'
  BY <1>1, <1>5 DEF EmptyInv, NothingEmptied, Becomes, Loads, unlessList
<1>8. RotateInv'
  BY <1>1, <1>5 DEF RotateInv, Rotates, ShownValuesInForce, SlotIs, Becomes, unlessList
<1>9. ShowInv'
  <2>1. oneByOne => slots[s].seen = configs
    BY <1>1 DEF ShowInv
  <2> QED
    BY <1>1, <1>5, <2>1 DEF ShowInv, SlotIs, Becomes, Loads, unlessList
<1>10. ChangesInv' /\ SlotsInv' /\ SecretsDiscarded'
  <2>1. UNCHANGED <<configs, actsSoFar>> /\ SecretsDiscarded'
    BY <1>1 DEF unlessList, SecretsDiscarded
  <2>2. "free" # "change"
    OBVIOUS
  <2> QED
    BY <1>5, <2>1, <2>2, ChangesElsewhere, BecomesSound
<1> QED
  BY <1>6, <1>7, <1>8, <1>9, <1>10

-----------------------------------------------------------------------------
(* Every step of the page *)

LEMMA PageKeeps ==
    ASSUME PageIInv, SettingsNext
    PROVE  PageIInv'
<1>1. CASE \E g \in FieldGroups, field \in {"plain", "secret"} : TypeInto(g, field)
  BY <1>1, TypeIntoKeeps
<1>2. ASSUME NEW s \in Slots, (\E g \in FieldGroups : SaveGroup(s, g)) \/ RotateSecrets(s) \/ ChangeConfigs(s)
      PROVE  PageIInv'
  BY <1>2, SaveGroupKeeps, RotateSecretsKeeps, ChangeConfigsKeeps
<1>3. ASSUME NEW s \in Slots, ServeSave(s) \/ ServeRead(s) \/ ServeRotation(s) \/ ServeChange(s)
                              \/ SlotFails(s) \/ SlotLeft(s)
      PROVE  PageIInv'
  BY <1>3, ServeSaveKeeps, ServeReadKeeps, ServeRotationKeeps, ServeChangeKeeps, GivenUpKeeps
<1>4. ASSUME NEW s \in Slots, \/ SaveAnswered(s) \/ LoadAnswered(s) \/ RotationAnswered(s)
                              \/ ChangeAnswered(s) \/ ListAnswered(s)
      PROVE  PageIInv'
  BY <1>4, SaveAnsweredKeeps, LoadAnsweredKeeps, RotationAnsweredKeeps, ChangeAnsweredKeeps, ListAnsweredKeeps
<1> QED
  BY <1>1, <1>2, <1>3, <1>4 DEF SettingsNext

LEMMA PageStarts ==
    ASSUME SettingsInit
    PROVE  PageIInv
<1>1. MaxTyped \in Nat /\ MaxActs \in Nat /\ (\E s, t \in Slots : s # t)
  BY SettingsAssumption
<1>2. /\ EmptyField \in FieldValues /\ StoredBefore \in FieldValues /\ StoredBefore # EmptyField
      /\ 0 \in 0 .. MaxActs /\ 0 \in 0 .. MaxTyped
  BY <1>1 DEF EmptyField, FieldValues, StoredBefore
<1>3. columns \in PageFields /\ inputs \in PageFields /\ \A g \in FieldGroups : columns[g].plain # EmptyField
  <2>1. ASSUME NEW g \in FieldGroups PROVE columns[g] = [plain |-> StoredBefore, secret |-> EmptyField]
    BY DEF SettingsInit
  <2>2. columns \in PageFields
    BY <1>2 DEF SettingsInit, PageFields
  <2>3. inputs \in PageFields
    BY <1>2 DEF SettingsInit, PageFields
  <2> QED
    BY <1>2, <2>1, <2>2, <2>3
<1> DEFINE first == CHOOSE u \in Slots : TRUE
           second == CHOOSE u \in Slots : u # first
           load == [FreeSlot EXCEPT !.kind = "load", !.at = "sent"]
           list == [FreeSlot EXCEPT !.kind = "list", !.at = "sent"]
<1>4. first \in Slots /\ second \in Slots /\ first # second
  <2>1. first \in Slots
    BY <1>1
  <2>2. \E u \in Slots : u # first
    BY <1>1
  <2> HIDE DEF first
  <2> QED
    BY <2>1, <2>2
<1>5. /\ load \in SlotStates /\ load.kind = "load" /\ load.at = "sent"
      /\ list \in SlotStates /\ list.kind = "list" /\ list.at = "sent"
  BY EmptySlot DEF SlotStates
<1>6. slots = [[u \in Slots |-> FreeSlot] EXCEPT ![first] = [@ EXCEPT !.kind = "load", !.at = "sent"],
                                                ![second] = [@ EXCEPT !.kind = "list", !.at = "sent"]]
  BY DEF SettingsInit
<1>7. slots = [[u \in Slots |-> FreeSlot] EXCEPT ![first] = load, ![second] = list]
  <2> HIDE DEF first, second
  <2> QED
    BY <1>4, <1>6
<1> HIDE DEF first, second, load, list
<1>8. /\ slots \in [Slots -> SlotStates]
      /\ \A u \in Slots : slots[u] = IF u = first THEN load ELSE IF u = second THEN list ELSE FreeSlot
  BY <1>4, <1>5, <1>7, EmptySlot
<1>9. \A u \in Slots : slots[u].at # "done" /\ slots[u].kind \in {"load", "list", "free"}
                      /\ (slots[u].kind = "free" => slots[u] = FreeSlot)
                      /\ (slots[u].kind # "free" => slots[u].at = "sent")
  BY <1>5, <1>8, EmptySlot
<1>10. SettingsTypeOK
  <2>1. slots \in [Slots -> SlotStates]
    BY <1>8
  <2> QED
    BY <1>2, <1>3, <2>1 DEF SettingsInit, SettingsTypeOK, SlotStates
<1>11. SlotsInv /\ SecretsDiscarded
  BY <1>9 DEF SlotsInv, SecretsDiscarded, SettingsInit
<1>12. EmptyInv
  BY <1>3, <1>9 DEF EmptyInv, NothingEmptied, SettingsInit
<1>13. RotateInv
  BY <1>9 DEF RotateInv, Rotates, ShownValuesInForce, SlotIs, SettingsInit
<1>14. ShowInv
  <2>1. slots[first].kind = "load" /\ slots[second].kind = "list"
    BY <1>4, <1>5, <1>8
  <2> QED
    BY <1>4, <1>9, <2>1, EmptySlot DEF ShowInv, SlotIs, Loads
<1>15. ChangesInv
  <2>1. Changing = {}
    BY <1>9 DEF Changing, Arrived, SlotIs
  <2> QED
    BY <2>1, FS_EmptySet DEF ChangesInv, SettingsInit
<1> QED
  BY <1>10, <1>11, <1>12, <1>13, <1>14, <1>15 DEF PageIInv

LEMMA PageStutter ==
    ASSUME PageIInv, UNCHANGED settingsVars
    PROVE  PageIInv'
<1>1. SettingsTypeOK' /\ SecretsDiscarded' /\ SlotsInv'
  BY DEF PageIInv, settingsVars, SettingsTypeOK, SecretsDiscarded, SlotsInv
<1>2. EmptyInv' /\ RotateInv' /\ ShowInv'
  BY DEF PageIInv, settingsVars, EmptyInv, NothingEmptied, RotateInv, Rotates, ShownValuesInForce, SlotIs, ShowInv
<1>3. Changing' = Changing /\ UNCHANGED <<configs, actsSoFar>>
  BY DEF Changing, Arrived, SlotIs, settingsVars
<1>4. ChangesInv'
  BY <1>3 DEF PageIInv, ChangesInv
<1> QED
  BY <1>1, <1>2, <1>4 DEF PageIInv

LEMMA PageShows ==
    ASSUME PageIInv
    PROVE  SettingsPageInv
<1>1. PageShowsStored
  <2>1. ASSUME oneByOne, \A s \in Slots : slots[s] = FreeSlot
        PROVE  (\A g \in FieldGroups \ dirty : inputs[g].plain = columns[g].plain) /\ listShown = configs
    <3>1. \A s \in Slots : slots[s].kind = "free"
      BY <2>1, EmptySlot
    <3> QED
      BY <2>1, <3>1 DEF PageIInv, ShowInv, Loads
  <2> QED
    BY <2>1 DEF PageShowsStored
<1> QED
  BY <1>1 DEF PageIInv, SettingsPageInv, EmptyInv, RotateInv

-----------------------------------------------------------------------------
(* The lock, the commands and the page together *)

SetUpIInv == LockIInv /\ InstallersIInv /\ PageIInv

LEMMA SetUpStep ==
    ASSUME SetUpIInv, [LockPart(Next) \/ SetupPart(InstallersNext) \/ PagePart]_allVars
    PROVE  SetUpIInv' /\ (setupVars' # setupVars => Settled)
<1>1. CASE LockPart(Next)
  <2>1. LockIInv'
    BY <1>1, LockStep DEF SetUpIInv, LockPart
  <2>2. InstallersIInv' /\ PageIInv' /\ setupVars' = setupVars
    BY <1>1, InstallersStutter, PageStutter DEF SetUpIInv, LockPart
  <2> QED
    BY <2>1, <2>2 DEF SetUpIInv
<1>2. CASE SetupPart(InstallersNext)
  <2>1. InstallersIInv' /\ Settled
    BY <1>2, InstallersKeep DEF SetUpIInv, SetupPart
  <2>2. LockIInv' /\ PageIInv'
    BY <1>2, LockStep, PageStutter DEF SetUpIInv, SetupPart
  <2> QED
    BY <2>1, <2>2 DEF SetUpIInv
<1>3. CASE PagePart
  <2>1. PageIInv'
    BY <1>3, PageKeeps DEF SetUpIInv, PagePart
  <2>2. LockIInv' /\ InstallersIInv' /\ setupVars' = setupVars
    BY <1>3, LockStep, InstallersStutter DEF SetUpIInv, PagePart
  <2> QED
    BY <2>1, <2>2 DEF SetUpIInv
<1>4. CASE UNCHANGED allVars
  <2>1. UNCHANGED vars /\ UNCHANGED setupVars /\ UNCHANGED settingsVars
    BY <1>4 DEF allVars
  <2> QED
    BY <2>1, LockStep, InstallersStutter, PageStutter DEF SetUpIInv
<1> QED
  BY <1>1, <1>2, <1>3, <1>4

LEMMA SetUpInvariant == MCSpec => []SetUpIInv
<1>1. MCInit => SetUpIInv
  BY LockInit, InstallersStart, PageStarts DEF MCInit, SetUpIInv
<1>2. SetUpIInv /\ [LockPart(Next) \/ SetupPart(InstallersNext) \/ PagePart]_allVars => SetUpIInv'
  BY SetUpStep
<1> QED
  BY <1>1, <1>2, PTL DEF MCSpec

\* For any script of steps, in whatever order and however often it names one, any number of failures,
\* kills and troubles, any number of commands at the lock and any number of requests of the page: a
\* provision that ends well leaves what it was asked for, a kill never makes helm refuse a release
\* whose lock is cleared, a marked Portainer is there, and the page empties nothing and shows what is
\* stored and in force.
THEOREM ServerSetUp == MCSpec => []ProvisionInv
<1>1. SetUpIInv => ProvisionInv
  <2>1. SetUpIInv => TypeOK /\ NotAllRefused
    BY DEF SetUpIInv, LockIInv, RefusedForOne, NotAllRefused, Past
  <2>2. SetUpIInv => InstallersTypeOK /\ LocksCleared /\ EndsWell /\ PortainerServes
    BY InstallersShow DEF SetUpIInv
  <2>3. SetUpIInv => SettingsPageInv
    BY PageShows DEF SetUpIInv
  <2> QED
    BY <2>1, <2>2, <2>3 DEF ProvisionInv
<1> QED
  BY <1>1, SetUpInvariant, PTL

\* Once Portainer and the routing are marked, no command touches Portainer or the volume with its
\* administrator, whatever is killed or fails: only a step that is not marked yet does.
THEOREM PortainerSettled == MCSpec => SettledPortainerKept
<1>1. SetUpIInv /\ [LockPart(Next) \/ SetupPart(InstallersNext) \/ PagePart]_allVars
        => [Settled]_setupVars
  BY SetUpStep
<1>2. [Settled]_setupVars =>
        [cmd.stage # "idle" /\ {"portainer", "routing"} \subseteq host.marked =>
            /\ host'.volume = host.volume
            /\ "portainer" \in host'.objects <=> "portainer" \in host.objects]_setupVars
  BY DEF Settled
<1> QED
  BY <1>1, <1>2, SetUpInvariant, PTL DEF MCSpec, SettledPortainerKept
=============================================================================
