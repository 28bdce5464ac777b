-------------------------- MODULE OperationsProofs --------------------------
(***************************************************************************)
(* Theorems about what the API does on its own once it was asked to:       *)
(* SecretRotation, for every set of request slots, every number of         *)
(* rotations and crashes and, unless a theorem says otherwise, every       *)
(* fault; and Deployments, for any number of deployments, requests, polls  *)
(* and failures.                                                           *)
(***************************************************************************)
EXTENDS SecretRotation, Deployments, WellFoundedInduction, TLAPS

-----------------------------------------------------------------------------
(* Secret rotation *)

\* Moving a thread keeps the types of stage and job.
LEMMA GoType ==
    ASSUME TypeOK, NEW t \in Threads, NEW st \in Stages, Go(t, st)
    PROVE  stage' \in [Threads -> Stages]
BY DEF TypeOK, Go

LEMMA BecomeType ==
    ASSUME TypeOK, NEW t \in Threads, NEW st \in Stages, NEW s \in Store, Become(t, st, s)
    PROVE  stage' \in [Threads -> Stages] /\ job' \in [Threads -> Job]
<1>1. \A j \in Job : [j EXCEPT !.store = s] \in Job
  BY DEF Job
<1>2. job' = [job EXCEPT ![t] = [job[t] EXCEPT !.store = s]]
  BY DEF Become
<1>3. job' \in [Threads -> Job]
  BY <1>1, <1>2 DEF TypeOK
<1> QED
  BY <1>3 DEF Become, TypeOK, Go

\* What the end of a recovery does to the control state keeps the types.
LEMMA AfterHealType ==
    ASSUME TypeOK, NEW t \in Threads, NEW s \in Store, AfterHeal(t, s) \/ HealFailed(t, s)
    PROVE  /\ stage' \in [Threads -> Stages]
           /\ job' \in [Threads -> Job]
           /\ api' \in {"down", "booting", "up"}
<1>1. NoJob \in Job
  BY DEF NoJob, Job, Store, Pw, Absent
<1>2. {"alter", "heal", "patchEnv", "idle"} \subseteq Stages
  BY DEF Stages
<1>3. CASE AfterHeal(t, s)
  <2>1. CASE Become(t, "alter", "postgres") /\ UNCHANGED api
    BY <1>2, <2>1, BecomeType DEF TypeOK, Store
  <2>2. CASE Become(t, "heal", "redis") /\ UNCHANGED api
    BY <1>2, <2>2, BecomeType DEF TypeOK, Store
  <2>3. CASE Go(t, "patchEnv") /\ UNCHANGED <<job, api>>
    BY <1>2, <2>3, GoType DEF TypeOK
  <2>4. CASE Go(t, "idle") /\ api' = "up" /\ UNCHANGED job
    BY <1>2, <2>4, GoType DEF TypeOK
  <2> QED
    BY <1>3, <2>1, <2>2, <2>3, <2>4 DEF AfterHeal
<1>4. CASE ProcessGone
  BY <1>1, <1>2, <1>4 DEF ProcessGone
<1> QED
  BY <1>3, <1>4 DEF HealFailed

LEMMA TypeInit == Init => TypeOK
BY DEF Init, TypeOK, Store, Pw, Absent, HostFiles, PendingFields, NoPending, Threads,
       Stages, Job, NoJob

LEMMA TypeStep == TypeOK /\ [Next]_vars => TypeOK'
<1> SUFFICES ASSUME TypeOK, [Next]_vars PROVE TypeOK'
  OBVIOUS
<1> USE DEF TypeOK
<1>1. NoJob \in Job
  BY DEF NoJob, Job, Store, Pw, Absent
<1>2. ASSUME NEW t \in Rotators, Start(t) PROVE TypeOK'
  <2>1. \A j \in Job, e \in [Store -> Pw], n \in Pw :
          [j EXCEPT !.prev = e, !.next = n] \in Job
    BY DEF Job
  <2>2. gen + 1 \in Pw
    BY DEF Pw
  <2>3. job' \in [Threads -> Job]
    BY <1>1, <1>2, <2>1, <2>2 DEF Start
  <2>4. stage' \in [Threads -> Stages]
    BY <1>2, GoType DEF Start, Stages, Threads
  <2> QED
    BY <1>2, <2>2, <2>3, <2>4 DEF Start, copies, Pw
<1>3. ASSUME NEW t \in Rotators, HostAhead(t) PROVE TypeOK'
  <2>1. t \in Threads
    BY DEF Threads
  <2>2. PICK written \in 0 .. 4 :
          /\ host' = [s \in Store |->
                [host[s] EXCEPT
                   !.prev = IF written > AheadPosition[s] THEN job[t].prev[s] ELSE @,
                   !.next = IF written > AheadPosition[s] + 1 THEN job[t].next ELSE @]]
          /\ job' = [job EXCEPT ![t].ahead = (written = 4)]
    BY <1>3 DEF HostAhead
  <2>3. job' \in [Threads -> Job]
    <3>1. \A j \in Job, b \in BOOLEAN : [j EXCEPT !.ahead = b] \in Job
      BY DEF Job
    <3> QED
      BY <2>1, <2>2, <3>1
  <2>4. host' \in [Store -> HostFiles]
    <3>1. job[t].next \in Pw /\ \A st \in Store : job[t].prev[st] \in Pw
      BY <2>1 DEF Job
    <3>2. \A h \in HostFiles, p, n \in Pw : [h EXCEPT !.prev = p, !.next = n] \in HostFiles
      BY DEF HostFiles
    <3>3. \A h \in HostFiles : h.prev \in Pw /\ h.next \in Pw
      BY DEF HostFiles
    <3> QED
      BY <2>2, <3>1, <3>2, <3>3
  <2> QED
    BY <1>3, <2>1, <2>3, <2>4 DEF HostAhead, Go, Stages
<1>4. ASSUME NEW t \in Rotators, WritePending(t) PROVE TypeOK'
  <2>1. t \in Threads /\ {"alter", "idle"} \subseteq Stages /\ "redis" \in Store
    BY DEF Threads, Stages, Store
  <2>2. pending' \in [Store -> PendingFields]
    BY <1>4, <2>1 DEF WritePending, PendingFields, Job
  <2>3. stage' \in [Threads -> Stages] /\ job' \in [Threads -> Job]
    BY <1>4, <2>1, GoType, BecomeType DEF WritePending
  <2> QED
    BY <1>4, <2>2, <2>3 DEF WritePending
<1>5. ASSUME NEW t \in Rotators, Alter(t) PROVE TypeOK'
  BY <1>5 DEF Alter, copies, Go, Stages, Job, Pw, Threads
<1>6. ASSUME NEW t \in Rotators, Reply(t) PROVE TypeOK'
  <2>1. t \in Threads /\ job[t].store \in Store /\ job[t].next \in Pw
    BY DEF Threads, Job
  <2>2. job' \in [Threads -> Job]
    <3>1. Confirmed(job[t], job[t].store) \in Job
      <4>1. \A j \in Job, s \in Store : [j.ok EXCEPT ![s] = TRUE] \in [Store -> BOOLEAN]
        BY DEF Job
      <4>2. \A j \in Job, ok \in [Store -> BOOLEAN] : [j EXCEPT !.ok = ok, !.store = "postgres"] \in Job
        BY DEF Job, Store
      <4>3. job[t] \in Job
        BY <2>1
      <4> QED
        BY <2>1, <4>1, <4>2, <4>3 DEF Confirmed
    <3> QED
      BY <1>6, <2>1, <3>1 DEF Reply
  <2>3. env' \in [Store -> Pw] /\ host' \in [Store -> HostFiles]
    <3>1. env' \in [Store -> Pw]
      BY <1>6, <2>1 DEF Reply
    <3>2. \A h \in HostFiles, p \in Pw : [h EXCEPT !.cur = p] \in HostFiles
      BY DEF HostFiles
    <3>3. host' = host \/ host' = [host EXCEPT ![job[t].store]
                                     = [host[job[t].store] EXCEPT !.cur = job[t].next]]
      BY <1>6 DEF Reply
    <3> QED
      BY <2>1, <3>1, <3>2, <3>3
  <2> QED
    BY <1>6, <2>1, <2>2, <2>3 DEF Reply, Go, Stages
<1>7. ASSUME NEW t \in Rotators, Reconnect(t) PROVE TypeOK'
  BY <1>7 DEF Reconnect, copies, Go, Stages, Job, Pw, Threads, Store
<1>8. ASSUME NEW t \in Rotators, PatchEnv(t) PROVE TypeOK'
  BY <1>8 DEF PatchEnv, Become, Go, Stages, Job, Pw, Threads, Store
<1>9. ASSUME NEW t \in Rotators, PatchSecret(t) PROVE TypeOK'
  BY <1>9 DEF PatchSecret, Become, Go, Stages, Job, Pw, Threads, Store
<1>10. ASSUME NEW t \in Rotators, Clear(t) PROVE TypeOK'
  BY <1>10 DEF Clear, Go, Stages, NoPending, PendingFields, Pw, Absent, Threads
<1>11. ASSUME NEW t \in Rotators, Restart(t) PROVE TypeOK'
  BY <1>1, <1>11 DEF Restart, ProcessGone, copies, Go, Stages, Threads
<1>12. ASSUME NEW t \in Threads, Heal(t) PROVE TypeOK'
  <2>1. job[t].store \in Store /\ live[job[t].store] \in Pw
    BY DEF Job
  <2>2. env' \in [Store -> Pw]
    BY <1>12, <2>1 DEF Heal
  <2>3. /\ stage' \in [Threads -> Stages]
        /\ job' \in [Threads -> Job]
        /\ api' \in {"down", "booting", "up"}
    <3>1. CASE AfterHeal(t, job[t].store) \/ HealFailed(t, job[t].store)
      BY <2>1, <3>1, AfterHealType
    <3>2. CASE Go(t, "syncEnv") /\ job' = [job EXCEPT ![t].found = live[job[t].store]]
               /\ UNCHANGED api
      <4>1. \A j \in Job, pw \in Pw : [j EXCEPT !.found = pw] \in Job
        BY DEF Job
      <4>2. [job[t] EXCEPT !.found = live[job[t].store]] \in Job
        BY <2>1, <4>1
      <4>3. job' \in [Threads -> Job]
        BY <3>2, <4>2
      <4>4. stage' \in [Threads -> Stages]
        BY <3>2, GoType DEF Stages
      <4> QED
        BY <3>2, <4>3, <4>4
    <3> QED
      BY <1>12, <3>1, <3>2 DEF Heal
  <2> QED
    BY <1>12, <2>2, <2>3 DEF Heal, copies
<1>13. ASSUME NEW t \in Threads, SyncEnv(t) PROVE TypeOK'
  BY <1>13 DEF SyncEnv, Go, Stages, Job, Pw
<1>14. ASSUME NEW t \in Threads, SyncSecret(t) PROVE TypeOK'
  <2>1. job[t].store \in Store /\ job[t].found \in Pw
    BY DEF Job
  <2> QED
    BY <1>14, <2>1, AfterHealType DEF SyncSecret
<1>15. CASE Crash
  BY <1>1, <1>15 DEF Crash, ProcessGone, copies, Stages
<1>16. CASE BootStart
  BY <1>16 DEF BootStart, copies, Go, Stages, Threads
<1>17. CASE BootConnect
  <2>1. Boot \in Threads /\ {"heal", "idle"} \subseteq Stages /\ {"redis", "postgres"} \subseteq Store
    BY DEF Threads, Stages, Store
  <2>2. /\ stage' \in [Threads -> Stages] /\ job' \in [Threads -> Job]
        /\ api' \in {"down", "booting", "up"}
    <3>1. CASE ProcessGone
      BY <1>1, <2>1, <3>1 DEF ProcessGone
    <3>2. CASE /\ Become(Boot, "heal", "redis") \/ Become(Boot, "heal", "postgres")
               /\ UNCHANGED api
      BY <2>1, <3>2, BecomeType
    <3> QED
      BY <1>17, <3>1, <3>2 DEF BootConnect
  <2> QED
    BY <1>17, <2>2 DEF BootConnect, copies
<1>18. CASE RedisRestart
  BY <1>18 DEF RedisRestart, copies, Store
<1>19. CASE UNCHANGED vars
  BY <1>19 DEF vars, copies
<1> QED
  BY <1>2, <1>3, <1>4, <1>5, <1>6, <1>7, <1>8, <1>9, <1>10, <1>11, <1>12, <1>13, <1>14,
     <1>15, <1>16, <1>17, <1>18, <1>19
  DEF Next, Rotate, Recover, BootStep, Threads

\* The state keeps its types whatever fails.
THEOREM TypeCorrect == Spec => []TypeOK
<1>1. QED
  BY TypeInit, TypeStep, PTL DEF Spec

-----------------------------------------------------------------------------
(* Write-ahead *)

LEMMA WriteAheadInit == Init => WriteAheadInv
BY DEF Init, WriteAheadInv, ControlInv, At, MustAlter, Threads

\* The end of a recovery keeps the write-ahead invariant: after Redis a rotation goes on
\* with Postgres, whose passwords are still written ahead.
LEMMA HealEnds ==
    ASSUME OneAtATime, TypeOK, WriteAheadInv, NEW t \in Threads,
           stage[t] \in {"heal", "syncSecret"}, AfterHeal(t, job[t].store),
           host' = host, pending' = pending,
           \A s \in Store : s # job[t].store => env'[s] = env[s]
    PROVE  WriteAheadInv'
<1> USE DEF At, Go, Become, MustAlter, OnHost, InPending, ControlInv
<1>1. /\ Boot \notin Rotators /\ Rotators \subseteq Threads /\ Boot \in Threads
      /\ t = Boot \/ t \in Rotators
      /\ stage \in [Threads -> Stages]
      /\ job[t].store \in Store
  BY ConstantsAssumption DEF Threads, TypeOK, Job
<1>2. CASE t = Boot
  <2>1. api # "up" /\ \A u \in Rotators : stage[u] = "idle" /\ stage'[u] = "idle"
    BY <1>1, <1>2 DEF AfterHeal, WriteAheadInv
  <2>2. api' = "up" => stage'[Boot] = "idle"
    BY <1>1, <1>2, <2>1 DEF AfterHeal
  <2> QED
    BY <2>1, <2>2 DEF WriteAheadInv
<1>3. CASE t \in Rotators /\ job[t].store = "redis"
  <2>1. /\ stage' = [stage EXCEPT ![t] = "alter"] /\ api' = api
        /\ job'[t] = [job[t] EXCEPT !.store = "postgres"]
    BY <1>1, <1>3 DEF AfterHeal, TypeOK
  <2>2. /\ job'[t].prev = job[t].prev /\ job'[t].next = job[t].next
        /\ job'[t].store = "postgres"
    BY <1>1, <2>1 DEF TypeOK, Job
  <2>3. /\ job[t].prev["postgres"] = env["postgres"] /\ env'["postgres"] = env["postgres"]
        /\ OnHost(t, "postgres") \/ InPending(t, "postgres")
    BY <1>3 DEF WriteAheadInv, Store
  <2>4. \A s \in Store : MustAlter(t, s)' => s = "postgres"
    BY <1>1, <2>1, <2>2 DEF Store
  <2>5. /\ stage'[t] = "alter" /\ \A u \in Rotators : u = t
        /\ ControlInv'
    BY <1>1, <1>3, <2>1 DEF WriteAheadInv, OneAtATime
  <2> QED
    BY <2>2, <2>3, <2>4, <2>5 DEF WriteAheadInv
<1>4. CASE t \in Rotators /\ job[t].store = "postgres"
  BY <1>1, <1>4 DEF AfterHeal, WriteAheadInv, OneAtATime
<1> QED
  BY <1>1, <1>2, <1>3, <1>4 DEF Store

LEMMA WriteAheadInductive ==
    ASSUME OneAtATime, TypeOK, WriteAheadInv, [Next]_vars
    PROVE  WriteAheadInv'
<1> USE DEF At, Go, Become, MustAlter, OnHost, InPending, ControlInv
<1>1. /\ Boot \notin Rotators /\ Rotators \subseteq Threads /\ Boot \in Threads
      /\ \A t \in Threads : t = Boot \/ t \in Rotators
      /\ stage \in [Threads -> Stages]
      /\ \A t \in Threads : job[t].store \in Store
      /\ "redis" \in Store /\ "postgres" \in Store
  BY ConstantsAssumption DEF Threads, TypeOK, Job, Store
<1>2. ASSUME NEW t \in Rotators, Start(t) PROVE WriteAheadInv'
  <2>1. job'[t].prev = env
    BY <1>1, <1>2 DEF Start, TypeOK, Job, NoJob
  <2> QED
    BY <1>1, <1>2, <2>1 DEF Start, WriteAheadInv, OneAtATime
<1>3. ASSUME NEW t \in Rotators, HostAhead(t) PROVE WriteAheadInv'
  <2>1. PICK written \in 0 .. 4 :
          /\ host' = [s \in Store |->
                [host[s] EXCEPT
                   !.prev = IF written > AheadPosition[s] THEN job[t].prev[s] ELSE @,
                   !.next = IF written > AheadPosition[s] + 1 THEN job[t].next ELSE @]]
          /\ job' = [job EXCEPT ![t].ahead = (written = 4)]
    BY <1>3 DEF HostAhead
  <2>2. /\ job'[t].prev = job[t].prev /\ job'[t].next = job[t].next
        /\ job'[t].ahead = (written = 4) /\ job'[t].store = job[t].store
    BY <1>1, <2>1 DEF TypeOK, Job
  <2>3. ASSUME job'[t].ahead, NEW s \in Store PROVE OnHost(t, s)'
    <3>1. 4 > AheadPosition[s] /\ 4 > AheadPosition[s] + 1
      BY DEF AheadPosition, Store
    <3>2. written = 4
      BY <2>2, <2>3
    <3>3. host[s] \in HostFiles
      BY DEF TypeOK
    <3>4. host'[s] = [host[s] EXCEPT !.prev = job[t].prev[s], !.next = job[t].next]
      BY <2>1, <3>1, <3>2
    <3> QED
      BY <2>2, <3>3, <3>4 DEF HostFiles
  <2>4. /\ stage[t] = "ahead" /\ stage' = [stage EXCEPT ![t] = "pending"]
        /\ env' = env /\ api' = api
    BY <1>3 DEF HostAhead
  <2> QED
    BY <1>1, <2>2, <2>3, <2>4 DEF WriteAheadInv, OneAtATime
<1>4. ASSUME NEW t \in Rotators, WritePending(t) PROVE WriteAheadInv'
  <2>1. stage[t] = "pending" /\ api' = api /\ env' = env /\ host' = host
    BY <1>4 DEF WritePending
  <2>2. CASE Go(t, "idle") /\ UNCHANGED <<pending, job>>
    BY <1>1, <2>1, <2>2 DEF WriteAheadInv, OneAtATime
  <2>3. CASE Become(t, "alter", "redis") /\ UNCHANGED pending /\ job[t].ahead
    <3>1. job'[t].prev = job[t].prev /\ job'[t].next = job[t].next
      BY <1>1, <2>3 DEF TypeOK, Job
    <3> QED
      BY <1>1, <2>1, <2>3, <3>1 DEF WriteAheadInv, OneAtATime
  <2>4. CASE /\ Become(t, "alter", "redis")
             /\ pending' = [s \in Store |-> [old |-> job[t].prev[s], new |-> job[t].next]]
    <3>1. job'[t].prev = job[t].prev /\ job'[t].next = job[t].next
      BY <1>1, <2>4 DEF TypeOK, Job
    <3> QED
      BY <1>1, <2>1, <2>4, <3>1 DEF WriteAheadInv, OneAtATime
  <2> QED
    BY <1>4, <2>2, <2>3, <2>4 DEF WritePending
<1>5. ASSUME NEW t \in Rotators, Alter(t) PROVE WriteAheadInv'
  BY <1>1, <1>5 DEF Alter, copies, WriteAheadInv, OneAtATime
<1>6. ASSUME NEW t \in Rotators, Reply(t) PROVE WriteAheadInv'
  <2>1. stage[t] = "reply" /\ api' = api /\ pending' = pending
    BY <1>6 DEF Reply
  <2>2. CASE Go(t, "heal") /\ UNCHANGED <<env, host, job>>
    BY <1>1, <2>1, <2>2 DEF WriteAheadInv, OneAtATime
  <2>3. CASE /\ env' = [env EXCEPT ![job[t].store] = job[t].next]
             /\ host' = [host EXCEPT ![job[t].store].cur = job[t].next] \/ UNCHANGED host
             /\ job' = [job EXCEPT ![t] = Confirmed(job[t], job[t].store)]
             /\ Go(t, IF job[t].store = "redis" THEN "alter" ELSE "reconnect")
    <3>1. /\ job'[t].prev = job[t].prev /\ job'[t].next = job[t].next
          /\ job'[t].store = "postgres"
      BY <1>1, <2>3 DEF TypeOK, Job, Confirmed
    <3>2. \A s \in Store : host'[s].prev = host[s].prev /\ host'[s].next = host[s].next
      BY <1>1, <2>3 DEF TypeOK, HostFiles
    <3>3. job[t].store = "redis" => env'["postgres"] = env["postgres"]
      BY <1>1, <2>3 DEF TypeOK
    <3>4. CASE job[t].store = "redis"
      <4>1. stage'[t] = "alter" /\ \A u \in Threads \ {t} : stage'[u] = stage[u]
        BY <1>1, <2>3, <3>4
      <4>2. /\ job[t].prev["postgres"] = env["postgres"]
            /\ OnHost(t, "postgres") \/ InPending(t, "postgres")
        BY <1>1, <2>1, <3>4 DEF WriteAheadInv
      <4>3. \A s \in Store : MustAlter(t, s)' => s = "postgres"
        BY <3>1, <4>1
      <4>4. ControlInv'
        BY <1>1, <2>1, <4>1 DEF WriteAheadInv, OneAtATime
      <4>5. ASSUME NEW s \in Store
            PROVE  /\ stage'[t] \notin {"ahead", "pending"}
                   /\ MustAlter(t, s)' => job'[t].prev[s] = env'[s] /\ (OnHost(t, s)' \/ InPending(t, s)')
        BY <1>1, <2>1, <3>1, <3>2, <3>3, <3>4, <4>1, <4>2, <4>3
      <4> QED
        BY <4>1, <4>4, <4>5 DEF WriteAheadInv, OneAtATime
    <3>5. CASE job[t].store # "redis"
      <4>1. stage'[t] = "reconnect" /\ \A u \in Threads \ {t} : stage'[u] = stage[u]
        BY <1>1, <2>3, <3>5
      <4>2. ControlInv'
        BY <1>1, <2>1, <3>1, <4>1 DEF WriteAheadInv, OneAtATime
      <4>3. \A s \in Store : ~MustAlter(t, s)'
        BY <4>1
      <4> QED
        BY <4>1, <4>2, <4>3 DEF WriteAheadInv, OneAtATime
    <3> QED
      BY <3>4, <3>5
  <2> QED
    BY <1>6, <2>2, <2>3 DEF Reply
<1>7. ASSUME NEW t \in Rotators, Reconnect(t) PROVE WriteAheadInv'
  <2>1. stage[t] = "reconnect" /\ job' = job /\ api' = api
    BY <1>7 DEF Reconnect
  <2>2. /\ Go(t, "patchEnv") \/ Go(t, "heal")
        /\ env' = [env EXCEPT !["postgres"] = job[t].next]
    BY <1>7 DEF Reconnect
  <2> QED
    BY <1>1, <2>1, <2>2 DEF WriteAheadInv, OneAtATime
<1>8. ASSUME NEW t \in Rotators, PatchEnv(t) PROVE WriteAheadInv'
  BY <1>1, <1>8 DEF PatchEnv, WriteAheadInv, OneAtATime
<1>9. ASSUME NEW t \in Rotators, PatchSecret(t) PROVE WriteAheadInv'
  BY <1>1, <1>9 DEF PatchSecret, WriteAheadInv, OneAtATime
<1>10. ASSUME NEW t \in Rotators, Clear(t) PROVE WriteAheadInv'
  BY <1>1, <1>10 DEF Clear, WriteAheadInv, OneAtATime
<1>11. ASSUME NEW t \in Rotators, Restart(t) PROVE WriteAheadInv'
  BY <1>1, <1>11 DEF Restart, ProcessGone, copies, WriteAheadInv, OneAtATime
<1>12. ASSUME NEW t \in Threads, Heal(t) PROVE WriteAheadInv'
  <2>1. /\ stage[t] = "heal" /\ host' = host /\ pending' = pending
        /\ \A s \in Store : s # job[t].store => env'[s] = env[s]
    BY <1>1, <1>12 DEF Heal, copies, TypeOK
  <2>2. CASE AfterHeal(t, job[t].store)
    BY <1>1, <2>1, <2>2, HealEnds
  <2>3. CASE ProcessGone
    BY <1>1, <2>1, <2>3 DEF ProcessGone, WriteAheadInv
  <2>4. CASE Go(t, "syncEnv") /\ job' = [job EXCEPT ![t].found = live[job[t].store]] /\ UNCHANGED api
    <3>1. /\ job'[t].prev = job[t].prev /\ job'[t].next = job[t].next
          /\ job'[t].store = job[t].store
      BY <1>1, <2>4 DEF TypeOK, Job
    <3> QED
      BY <1>1, <2>1, <2>4, <3>1 DEF WriteAheadInv, OneAtATime
  <2> QED
    BY <1>12, <2>2, <2>3, <2>4 DEF Heal, HealFailed
<1>13. ASSUME NEW t \in Threads, SyncEnv(t) PROVE WriteAheadInv'
  BY <1>1, <1>13 DEF SyncEnv, WriteAheadInv, OneAtATime
<1>14. ASSUME NEW t \in Threads, SyncSecret(t) PROVE WriteAheadInv'
  <2>1. /\ stage[t] = "syncSecret" /\ host' = host /\ pending' = pending /\ env' = env
        /\ AfterHeal(t, job[t].store)
    BY <1>14 DEF SyncSecret
  <2> QED
    BY <2>1, HealEnds
<1>15. CASE Crash
  BY <1>1, <1>15 DEF Crash, ProcessGone, copies, WriteAheadInv
<1>16. CASE BootStart
  BY <1>1, <1>16 DEF BootStart, copies, WriteAheadInv
<1>17. CASE BootConnect
  BY <1>1, <1>17 DEF BootConnect, ProcessGone, copies, WriteAheadInv
<1>18. CASE RedisRestart
  BY <1>18 DEF RedisRestart, copies, WriteAheadInv
<1>19. CASE UNCHANGED vars
  BY <1>19 DEF vars, copies, WriteAheadInv
<1> QED
  BY <1>1, <1>2, <1>3, <1>4, <1>5, <1>6, <1>7, <1>8, <1>9, <1>10, <1>11, <1>12, <1>13, <1>14,
     <1>15, <1>16, <1>17, <1>18, <1>19
  DEF Next, Rotate, Recover, BootStep

LEMMA WriteAheadAlways == ASSUME OneAtATime PROVE Spec => [](TypeOK /\ WriteAheadInv)
<1>1. TypeOK /\ WriteAheadInv /\ [Next]_vars => TypeOK' /\ WriteAheadInv'
  BY TypeStep, WriteAheadInductive
<1> QED
  BY <1>1, TypeInit, WriteAheadInit, PTL DEF Spec

\* Only Alter takes a thread from "alter" to "reply", and the invariant holds there.
LEMMA AlterIsWrittenAhead ==
    ASSUME OneAtATime, TypeOK, WriteAheadInv, [Next]_vars
    PROVE  WriteAheadStep
<1> SUFFICES ASSUME NEW t \in Rotators, stage[t] = "alter", stage'[t] = "reply"
             PROVE  {live[job[t].store], live'[job[t].store]}
                       \subseteq ClusterCopies(job[t].store) \cup HostCopies(job[t].store)
  BY DEF WriteAheadStep, At
<1>1. /\ Boot \notin Rotators /\ Rotators \subseteq Threads /\ Boot \in Threads
      /\ \A u \in Threads : u = Boot \/ u \in Rotators
      /\ stage \in [Threads -> Stages]
      /\ job[t].store \in Store
      /\ stage[Boot] = "idle"
  BY ConstantsAssumption DEF Threads, TypeOK, Job, WriteAheadInv, ControlInv, At
<1>2. Alter(t)
  BY <1>1 DEF Next, Rotate, Recover, BootStep, Start, HostAhead, WritePending, Reply, Reconnect,
              PatchEnv, PatchSecret, Clear, Restart, Heal, SyncEnv, SyncSecret, Crash, BootStart,
              BootConnect, RedisRestart, ProcessGone, vars, OneAtATime, At, Go, Become
<1>3. /\ env[job[t].store] = live[job[t].store] /\ live'[job[t].store] = job[t].next
  BY <1>1, <1>2 DEF Alter, Go, TypeOK
<1>4. /\ job[t].prev[job[t].store] = live[job[t].store]
      /\ OnHost(t, job[t].store) \/ InPending(t, job[t].store)
  BY <1>1, <1>3 DEF WriteAheadInv, MustAlter, At
<1> QED
  BY <1>3, <1>4 DEF OnHost, InPending, ClusterCopies, HostCopies, CopiesIn, ClusterSources

\* With one rotation at a time a server never takes a password, and never gives one up, that
\* is not stored in Kubernetes or on the host, whatever fails and whenever the API dies.
THEOREM RotationIsWriteAhead == ASSUME OneAtATime PROVE Spec => WriteAhead
<1>1. TypeOK /\ WriteAheadInv /\ [Next]_vars => WriteAheadStep
  BY AlterIsWrittenAhead
<1>2. WriteAheadStep => [WriteAheadStep]_vars
  OBVIOUS
<1> QED
  BY <1>1, <1>2, WriteAheadAlways, PTL DEF Spec, WriteAhead

-----------------------------------------------------------------------------
(* Recoverability *)

CopiesReliable == Faults \cap CopyFaults = {}

LEMMA RecoverableInit == Init => RecoverableInv
BY DEF Init, RecoverableInv, ControlInv, Recoverable, ClusterCopies, CopiesIn, ClusterSources,
       HealInv, RotateInv, Healing, Syncing, InSync, At, Threads

\* A step of the rotation in flight: nothing else runs, so its own facts are the invariant.
LEMMA RotationMoves ==
    ASSUME OneAtATime, TypeOK, RecoverableInv, NEW t \in Rotators, NEW st \in Stages,
           api = "up", api' = "up", Go(t, st),
           st = "reconnect" => job'[t].store = "postgres",
           st = "idle" => \A s \in Store : InSync(s)',
           Recoverable', HealInv(t)', RotateInv(t)'
    PROVE  RecoverableInv'
<1>1. /\ Boot \notin Rotators /\ Rotators \subseteq Threads /\ Boot \in Threads
      /\ \A u \in Threads : u = Boot \/ u = t
      /\ stage \in [Threads -> Stages]
  BY ConstantsAssumption DEF Threads, TypeOK, OneAtATime
<1>2. stage'[t] = st /\ stage'[Boot] = "idle" /\ \A u \in Rotators : u = t
  BY <1>1 DEF Go, RecoverableInv, ControlInv, At, OneAtATime
<1>3. HealInv(Boot)'
  BY <1>2 DEF HealInv, Healing, Syncing
<1>4. ControlInv'
  BY <1>2 DEF ControlInv, At
<1>5. api' = "up" /\ (\A u \in Rotators : At(u, "idle")') => \A s \in Store : InSync(s)'
  BY <1>2 DEF At
<1> QED
  BY <1>1, <1>2, <1>3, <1>4, <1>5 DEF RecoverableInv

\* A step of the boot: no rotation runs.
LEMMA BootMoves ==
    ASSUME TypeOK, RecoverableInv, NEW st \in Stages,
           api # "up", Go(Boot, st),
           api' = "up" => st = "idle" /\ \A s \in Store : InSync(s)',
           Recoverable', HealInv(Boot)'
    PROVE  RecoverableInv'
<1>1. /\ Boot \notin Rotators /\ Rotators \subseteq Threads /\ Boot \in Threads
      /\ \A u \in Threads : u = Boot \/ u \in Rotators
      /\ stage \in [Threads -> Stages]
  BY ConstantsAssumption DEF Threads, TypeOK
<1>2. stage'[Boot] = st /\ \A u \in Rotators : stage'[u] = "idle"
  BY <1>1 DEF Go, RecoverableInv, ControlInv, At
<1>3. ASSUME NEW u \in Rotators PROVE HealInv(u)' /\ RotateInv(u)'
  BY <1>2 DEF HealInv, RotateInv, Healing, Syncing, At
<1>4. ControlInv'
  BY <1>2 DEF ControlInv, At
<1> QED
  BY <1>1, <1>2, <1>3, <1>4 DEF RecoverableInv

\* When the process goes away only the stored copies matter.
LEMMA ProcessGoneKeeps ==
    ASSUME RecoverableInv, ProcessGone, live' = live, copies' = copies
    PROVE  RecoverableInv'
<1>1. \A u \in Threads : stage'[u] = "idle"
  BY DEF ProcessGone
<1>2. /\ Boot \in Threads /\ Rotators \subseteq Threads
  BY DEF Threads
<1>3. \A u \in Threads : HealInv(u)' /\ RotateInv(u)'
  BY <1>1 DEF HealInv, RotateInv, Healing, Syncing, At
<1>4. Recoverable' /\ ControlInv' /\ api' # "up"
  BY <1>1, <1>2 DEF ProcessGone, RecoverableInv, Recoverable, ClusterCopies, CopiesIn, copies,
                    ControlInv, At
<1> QED
  BY <1>2, <1>3, <1>4 DEF RecoverableInv

\* With reliable copies a recovery always ends well: the store it worked on is in sync, and
\* what follows finds its own premises.
LEMMA HealEndsInSync ==
    ASSUME OneAtATime, TypeOK, RecoverableInv, NEW t \in Threads,
           stage[t] \in Healing, AfterHeal(t, job[t].store),
           live' = live, pending' = pending, Recoverable',
           env'[job[t].store] = live[job[t].store],
           \A s \in Store : s # job[t].store => env'[s] = env[s]
    PROVE  RecoverableInv'
<1> DEFINE s == job[t].store
<1>1. /\ Boot \notin Rotators /\ Rotators \subseteq Threads /\ Boot \in Threads
      /\ t = Boot \/ t \in Rotators
      /\ stage \in [Threads -> Stages]
      /\ s \in Store /\ job \in [Threads -> Job]
      /\ HealInv(t)
  BY ConstantsAssumption DEF Threads, TypeOK, Job, RecoverableInv
<1>2. CASE t = Boot
  <2>1. api # "up"
    BY <1>2 DEF Healing, RecoverableInv, ControlInv, At
  <2>2. CASE s = "postgres"
    <3>1. Go(Boot, "heal") /\ api' = api /\ job'[Boot].store = "redis"
      BY <1>1, <1>2, <2>2 DEF AfterHeal, Become, Job
    <3>2. HealInv(Boot)'
      BY <1>1, <1>2, <2>2, <3>1 DEF HealInv, Healing, Syncing, Go, InSync, Store
    <3> QED
      BY <2>1, <3>1, <3>2, BootMoves DEF Stages
  <2>3. CASE s = "redis"
    <3>1. Go(Boot, "idle") /\ api' = "up" /\ job' = job
      BY <1>1, <1>2, <2>3 DEF AfterHeal
    <3>2. \A st \in Store : InSync(st)'
      BY <1>1, <1>2, <2>3 DEF HealInv, InSync
    <3>3. HealInv(Boot)'
      BY <1>1, <3>1 DEF HealInv, Healing, Syncing, Go
    <3> QED
      BY <2>1, <3>1, <3>2, <3>3, BootMoves DEF Stages
  <2> QED
    BY <1>1, <2>2, <2>3 DEF Store
<1>3. CASE t \in Rotators
  <2>1. api = "up" /\ RotateInv(t)
    BY <1>1, <1>3 DEF Healing, RecoverableInv, ControlInv, At
  <2>2. \A st \in Store : InSync(st)'
    BY <1>1, <1>3 DEF HealInv, InSync
  <2>3. \A st \in Store : InPending(t, st) /\ (job[t].ok[st] => live[st] = job[t].next)
    BY <2>1 DEF RotateInv
  <2>4. CASE s = "redis"
    <3>1. /\ Go(t, "alter") /\ api' = api
          /\ job'[t] = [job[t] EXCEPT !.store = "postgres"]
      BY <1>1, <1>3, <2>4 DEF AfterHeal, Become
    <3>2. /\ job'[t].prev = job[t].prev /\ job'[t].next = job[t].next /\ job'[t].ok = job[t].ok
      BY <1>1, <3>1 DEF Job
    <3>3. stage'[t] = "alter"
      BY <1>1, <3>1 DEF Go
    <3>4. HealInv(t)' /\ RotateInv(t)'
      BY <2>2, <2>3, <3>2, <3>3 DEF HealInv, RotateInv, Healing, Syncing, At, InPending
    <3> QED
      BY <1>3, <2>1, <3>1, <3>4, RotationMoves DEF Stages
  <2>5. CASE s = "postgres"
    <3>1. Go(t, "patchEnv") /\ api' = api /\ job' = job
      BY <1>1, <1>3, <2>5 DEF AfterHeal
    <3>2. stage'[t] = "patchEnv"
      BY <1>1, <3>1 DEF Go
    <3>3. HealInv(t)' /\ RotateInv(t)'
      BY <2>2, <2>3, <3>1, <3>2 DEF HealInv, RotateInv, Healing, Syncing, At, InPending
    <3> QED
      BY <1>3, <2>1, <3>1, <3>3, RotationMoves DEF Stages
  <2> QED
    BY <1>1, <2>4, <2>5 DEF Store
<1> QED
  BY <1>1, <1>2, <1>3

\* A rotation's own steps.
LEMMA RotateRecoverable ==
    ASSUME OneAtATime, CopiesReliable, TypeOK, RecoverableInv, NEW t \in Rotators, Rotate(t)
    PROVE  RecoverableInv'
<1> USE DEF At, Go
<1>1. /\ t \in Threads /\ job \in [Threads -> Job] /\ stage \in [Threads -> Stages]
      /\ job[t].store \in Store /\ RotateInv(t) /\ Recoverable
      /\ "redis" \in Store /\ "postgres" \in Store
      /\ ~May("pending") /\ ~May("patch")
      /\ \A u \in Rotators : u = t
      /\ \A j \in Job, s \in Store : [j EXCEPT !.store = s].prev = j.prev
      /\ \A j \in Job, s \in Store : [j EXCEPT !.store = s].next = j.next
      /\ \A j \in Job, s \in Store : [j EXCEPT !.store = s].ok = j.ok
      /\ \A j \in Job, s \in Store : [j EXCEPT !.store = s].store = s
  BY DEF Threads, TypeOK, Job, RecoverableInv, Store, May, CopiesReliable, CopyFaults, OneAtATime
<1>2. stage[t] # "idle" => api = "up"
  BY DEF RecoverableInv, ControlInv
<1>3. CASE Start(t)
  <2>1. /\ api = "up" /\ api' = api /\ Go(t, "ahead") /\ stage'[t] = "ahead"
        /\ live' = live /\ env' = env /\ copies' = copies
    BY <1>1, <1>3 DEF Start
  <2>2. job'[t].prev = env /\ \A s \in Store : ~job'[t].ok[s]
    BY <1>1, <1>3 DEF Start, Job, NoJob
  <2>3. \A s \in Store : InSync(s)
    BY <1>1, <1>3 DEF Start, RecoverableInv
  <2>4. Recoverable' /\ HealInv(t)' /\ RotateInv(t)'
    BY <1>1, <2>1, <2>2, <2>3 DEF Recoverable, ClusterCopies, CopiesIn, copies, HealInv, RotateInv,
       Healing, Syncing, InSync
  <2> QED
    BY <2>1, <2>4, RotationMoves DEF Stages
<1>4. CASE HostAhead(t)
  <2>1. /\ stage[t] = "ahead" /\ api' = api /\ Go(t, "pending") /\ stage'[t] = "pending"
        /\ live' = live /\ env' = env /\ pending' = pending
        /\ platformEnv' = platformEnv /\ secret' = secret
    BY <1>1, <1>4 DEF HostAhead
  <2>2. job'[t].prev = job[t].prev /\ job'[t].ok = job[t].ok
    <3>1. PICK written \in 0 .. 4 : job' = [job EXCEPT ![t].ahead = (written = 4)]
      BY <1>4 DEF HostAhead
    <3> QED
      BY <1>1, <3>1 DEF Job
  <2>3. Recoverable' /\ HealInv(t)' /\ RotateInv(t)'
    BY <1>1, <2>1, <2>2 DEF Recoverable, ClusterCopies, CopiesIn, HealInv, RotateInv,
       Healing, Syncing, InSync
  <2> QED
    BY <1>2, <2>1, <2>3, RotationMoves DEF Stages
<1>5. CASE WritePending(t)
  <2>1. /\ stage[t] = "pending" /\ api' = api /\ Go(t, "alter") /\ stage'[t] = "alter"
        /\ live' = live /\ env' = env /\ platformEnv' = platformEnv /\ secret' = secret
        /\ pending' = [s \in Store |-> [old |-> job[t].prev[s], new |-> job[t].next]]
        /\ job' = [job EXCEPT ![t].store = "redis"]
    BY <1>1, <1>5 DEF WritePending, Become
  <2>2. job'[t].prev = job[t].prev /\ job'[t].next = job[t].next
    BY <1>1, <2>1
  <2>3. job'[t].ok = job[t].ok
    BY <1>1, <2>1
  <2>4. \A s \in Store : pending'[s].old = live[s] /\ InPending(t, s)' /\ InSync(s)'
    BY <1>1, <2>1, <2>2 DEF RotateInv, InPending, InSync
  <2>5. \A s \in Store : ~job[t].ok[s]
    BY <1>1, <2>1 DEF RotateInv
  <2>6. Recoverable' /\ HealInv(t)' /\ RotateInv(t)'
    BY <2>1, <2>3, <2>4, <2>5 DEF Recoverable, ClusterCopies, CopiesIn, ClusterSources, HealInv,
       RotateInv, Healing, Syncing, InSync
  <2> QED
    BY <1>2, <2>1, <2>6, RotationMoves DEF Stages
<1>6. CASE Alter(t)
  <2>1. /\ stage[t] = "alter" /\ api' = api /\ env' = env /\ copies' = copies /\ job' = job
    BY <1>6 DEF Alter
  <2>2. CASE /\ live' = [live EXCEPT ![job[t].store] = job[t].next]
             /\ Go(t, "reply")
    <3>1. stage'[t] = "reply"
      BY <1>1, <2>2
    <3>2. \A s \in Store : IF s = job[t].store THEN live'[s] = pending[s].new /\ live'[s] = job[t].next
                                                ELSE live'[s] = live[s]
      BY <1>1, <2>1, <2>2 DEF TypeOK, RotateInv, InPending
    <3>3. Recoverable' /\ HealInv(t)' /\ RotateInv(t)'
      BY <1>1, <2>1, <3>1, <3>2 DEF Recoverable, ClusterCopies, CopiesIn, ClusterSources, copies,
         HealInv, RotateInv, InPending, Healing, Syncing, InSync
    <3> QED
      BY <1>2, <2>1, <2>2, <3>3, RotationMoves DEF Stages
  <2>3. CASE Go(t, "heal") /\ UNCHANGED live
    <3>1. stage'[t] = "heal"
      BY <1>1, <2>3
    <3>2. Recoverable' /\ HealInv(t)' /\ RotateInv(t)'
      BY <1>1, <2>1, <2>3, <3>1 DEF Recoverable, ClusterCopies, CopiesIn, ClusterSources, copies,
         HealInv, RotateInv, InPending, Healing, Syncing, InSync
    <3> QED
      BY <1>2, <2>1, <2>3, <3>2, RotationMoves DEF Stages
  <2> QED
    BY <1>6, <2>2, <2>3 DEF Alter
<1>7. CASE Reply(t)
  <2>1. /\ stage[t] = "reply" /\ api' = api /\ live' = live /\ pending' = pending
        /\ platformEnv' = platformEnv /\ secret' = secret
    BY <1>7 DEF Reply
  <2>2. Recoverable'
    BY <1>1, <2>1 DEF Recoverable, ClusterCopies, CopiesIn
  <2>3. CASE Go(t, "heal") /\ UNCHANGED <<env, host, job>>
    <3>1. stage'[t] = "heal"
      BY <1>1, <2>3
    <3>2. HealInv(t)' /\ RotateInv(t)'
      BY <1>1, <2>1, <2>3, <3>1 DEF HealInv, RotateInv, InPending, Healing, Syncing, InSync
    <3> QED
      BY <1>2, <2>1, <2>2, <2>3, <3>2, RotationMoves DEF Stages
  <2>4. CASE /\ env' = [env EXCEPT ![job[t].store] = job[t].next]
             /\ job' = [job EXCEPT ![t] = Confirmed(job[t], job[t].store)]
             /\ Go(t, IF job[t].store = "redis" THEN "alter" ELSE "reconnect")
    <3>1. /\ job'[t].prev = job[t].prev /\ job'[t].next = job[t].next
          /\ job'[t].store = "postgres"
          /\ \A s \in Store : job'[t].ok[s] => s = job[t].store \/ job[t].ok[s]
      BY <1>1, <2>4 DEF Confirmed, Job
    <3>2. \A s \in Store : InSync(s)'
      BY <1>1, <2>1, <2>4 DEF RotateInv, InSync, TypeOK
    <3>3. stage'[t] = IF job[t].store = "redis" THEN "alter" ELSE "reconnect"
      BY <1>1, <2>4
    <3>4. HealInv(t)'
      BY <3>3 DEF HealInv, Healing, Syncing
    <3>5. /\ \A s \in Store : InPending(t, s)' /\ (job'[t].ok[s] => live[s] = job[t].next)
          /\ live[job[t].store] = job[t].next
      BY <1>1, <2>1, <3>1 DEF RotateInv, InPending
    <3>6. RotateInv(t)'
      BY <1>1, <2>1, <3>1, <3>2, <3>3, <3>5 DEF RotateInv, Healing, InSync, Store
    <3> QED
      BY <1>1, <1>2, <2>1, <2>2, <2>4, <3>1, <3>4, <3>6, RotationMoves DEF Stages
  <2> QED
    BY <1>7, <2>3, <2>4 DEF Reply
<1>8. CASE Reconnect(t)
  <2>1. /\ stage[t] = "reconnect" /\ api' = api /\ live' = live /\ copies' = copies /\ job' = job
        /\ Go(t, "patchEnv") \/ Go(t, "heal")
        /\ job[t].store = "postgres"
    BY <1>8 DEF Reconnect, RecoverableInv, ControlInv
  <2>2. env' = [env EXCEPT !["postgres"] = job[t].next]
    BY <1>8 DEF Reconnect
  <2>3. \A s \in Store : InSync(s)'
    BY <1>1, <2>1, <2>2 DEF RotateInv, InSync, TypeOK, Store
  <2>4. stage'[t] \in {"patchEnv", "heal"}
    BY <1>1, <2>1
  <2>5. Recoverable' /\ HealInv(t)' /\ RotateInv(t)'
    BY <1>1, <2>1, <2>3, <2>4 DEF Recoverable, ClusterCopies, CopiesIn, copies, HealInv, RotateInv,
       InPending, Healing, Syncing, InSync
  <2> QED
    BY <1>2, <2>1, <2>5, RotationMoves DEF Stages
<1>9. CASE PatchEnv(t)
  <2>1. /\ stage[t] = "patchEnv" /\ api' = api /\ live' = live /\ env' = env
        /\ pending' = pending /\ secret' = secret
        /\ Go(t, "patchSecret") /\ job' = [job EXCEPT ![t].store = "postgres"]
        /\ platformEnv' = [s \in Store |-> IF job[t].ok[s] THEN job[t].next ELSE platformEnv[s]]
    BY <1>1, <1>9 DEF PatchEnv, Become
  <2>2. stage'[t] = "patchSecret"
    BY <1>1, <2>1
  <2>3. job'[t].prev = job[t].prev /\ job'[t].next = job[t].next /\ job'[t].ok = job[t].ok
    BY <1>1, <2>1
  <2>4. \A s \in Store : job[t].ok[s] => live[s] = job[t].next
    BY <1>1, <2>1 DEF RotateInv
  <2>5. Recoverable'
    BY <1>1, <2>1, <2>4 DEF Recoverable, ClusterCopies, CopiesIn, ClusterSources
  <2>6. HealInv(t)' /\ RotateInv(t)'
    BY <1>1, <2>1, <2>2, <2>3 DEF HealInv, RotateInv, InPending, Healing, Syncing, InSync
  <2> QED
    BY <1>2, <2>1, <2>5, <2>6, RotationMoves DEF Stages
<1>10. CASE PatchSecret(t)
  <2>1. /\ stage[t] = "patchSecret" /\ api' = api /\ live' = live /\ env' = env
        /\ pending' = pending /\ platformEnv' = platformEnv
        /\ \/ Go(t, "patchSecret") /\ job' = [job EXCEPT ![t].store = "redis"]
           \/ Go(t, "clear") /\ job' = job
    BY <1>10 DEF PatchSecret, Become
  <2>2. stage'[t] \in {"patchSecret", "clear"}
    BY <1>1, <2>1
  <2>3. job'[t].prev = job[t].prev /\ job'[t].next = job[t].next /\ job'[t].ok = job[t].ok
    <3>1. CASE job' = [job EXCEPT ![t].store = "redis"]
      BY <1>1, <3>1
    <3> QED
      BY <2>1, <3>1
  <2>4. \A s \in Store : secret'[s] = secret[s] \/ secret'[s] = live[s]
    BY <1>1, <1>10 DEF PatchSecret, RotateInv, TypeOK
  <2>5. Recoverable'
    BY <1>1, <2>1, <2>4 DEF Recoverable, ClusterCopies, CopiesIn, ClusterSources
  <2>6. HealInv(t)' /\ RotateInv(t)'
    BY <1>1, <2>1, <2>2, <2>3 DEF HealInv, RotateInv, InPending, Healing, Syncing, InSync
  <2> QED
    BY <1>2, <2>1, <2>2, <2>5, <2>6, RotationMoves DEF Stages
<1>11. CASE Clear(t)
  <2>1. /\ stage[t] = "clear" /\ api' = api /\ live' = live /\ env' = env /\ job' = job
        /\ secret' = secret /\ platformEnv' = platformEnv /\ Go(t, "restart")
    BY <1>11 DEF Clear
  <2>2. stage'[t] = "restart"
    BY <1>1, <2>1
  <2>3. Recoverable'
    <3>1. CASE pending' = pending
      BY <1>1, <2>1, <3>1 DEF Recoverable, ClusterCopies, CopiesIn
    <3>2. CASE \A s \in Store : job[t].ok[s]
      BY <1>1, <2>1, <3>2 DEF RotateInv, Recoverable, ClusterCopies, CopiesIn, ClusterSources
    <3> QED
      BY <1>11, <3>1, <3>2 DEF Clear
  <2>4. HealInv(t)' /\ RotateInv(t)'
    BY <1>1, <2>1, <2>2 DEF HealInv, RotateInv, Healing, Syncing, InSync
  <2> QED
    BY <1>2, <2>1, <2>3, <2>4, RotationMoves DEF Stages
<1>12. CASE Restart(t)
  <2>1. CASE ProcessGone
    BY <1>12, <2>1, ProcessGoneKeeps DEF Restart
  <2>2. CASE Go(t, "idle") /\ UNCHANGED <<api, job>>
    <3>1. /\ stage[t] = "restart" /\ live' = live /\ env' = env /\ copies' = copies
      BY <1>12 DEF Restart
    <3>2. stage'[t] = "idle"
      BY <1>1, <2>2
    <3>3. \A s \in Store : InSync(s)'
      BY <1>1, <3>1 DEF RotateInv, InSync
    <3>4. Recoverable' /\ HealInv(t)' /\ RotateInv(t)'
      BY <1>1, <3>1, <3>2 DEF Recoverable, ClusterCopies, CopiesIn, copies, HealInv, RotateInv,
         Healing, Syncing
    <3> QED
      BY <1>2, <2>2, <3>1, <3>3, <3>4, RotationMoves DEF Stages
  <2> QED
    BY <1>12, <2>1, <2>2 DEF Restart
<1> QED
  BY <1>3, <1>4, <1>5, <1>6, <1>7, <1>8, <1>9, <1>10, <1>11, <1>12 DEF Rotate

\* The steps of a recovery, in a rotation and at boot.
LEMMA RecoverRecoverable ==
    ASSUME OneAtATime, CopiesReliable, TypeOK, RecoverableInv, NEW t \in Threads, Recover(t)
    PROVE  RecoverableInv'
<1> DEFINE s == job[t].store
<1>1. /\ Boot \notin Rotators
      /\ t = Boot \/ t \in Rotators
      /\ stage \in [Threads -> Stages] /\ job \in [Threads -> Job] /\ s \in Store
      /\ live \in [Store -> Pw] /\ env \in [Store -> Pw]
      /\ HealInv(t) /\ Recoverable
      /\ ~May("read") /\ ~May("connect") /\ ~May("patch")
  BY ConstantsAssumption
  DEF Threads, TypeOK, Job, RecoverableInv, May, CopiesReliable, CopyFaults
<1>2. CASE Heal(t)
  <2>1. /\ stage[t] = "heal" /\ live' = live /\ copies' = copies /\ pending' = pending
    BY <1>2 DEF Heal, At, copies
  <2>2. Recoverable'
    BY <1>1, <2>1 DEF Recoverable, ClusterCopies, CopiesIn, copies
  <2>3. live[s] \in CopiesIn(s, ClusterSources)
    BY <1>1 DEF Recoverable, ClusterCopies
  <2>4. /\ env'[s] = live[s] /\ \A st \in Store : st # s => env'[st] = env[st]
        /\ \/ AfterHeal(t, s)
           \/ /\ Go(t, "syncEnv") /\ job' = [job EXCEPT ![t].found = live[s]] /\ api' = api
           \/ HealFailed(t, s)
    BY <1>1, <1>2, <2>3 DEF Heal
  <2>5. CASE AfterHeal(t, s)
    BY <1>1, <2>1, <2>2, <2>4, <2>5, HealEndsInSync DEF Healing
  <2>6. CASE ProcessGone
    BY <2>1, <2>6, ProcessGoneKeeps
  <2>7. CASE Go(t, "syncEnv") /\ job' = [job EXCEPT ![t].found = live[s]] /\ api' = api
    <3>1. /\ stage'[t] = "syncEnv" /\ job'[t].store = s /\ job'[t].found = live[s]
          /\ job'[t].prev = job[t].prev /\ job'[t].next = job[t].next /\ job'[t].ok = job[t].ok
      BY <1>1, <2>7 DEF Go, Job
    <3>2. HealInv(t)'
      BY <1>1, <2>1, <2>4, <3>1 DEF HealInv, Healing, Syncing, InSync
    <3>3. CASE t = Boot
      <4>1. api # "up"
        BY <2>1, <3>3 DEF RecoverableInv, ControlInv, At
      <4> QED
        BY <2>2, <2>7, <3>2, <3>3, <4>1, BootMoves DEF Stages
    <3>4. CASE t \in Rotators
      <4>1. api = "up" /\ RotateInv(t)
        BY <2>1, <3>4 DEF RecoverableInv, ControlInv, At
      <4>2. RotateInv(t)'
        BY <2>1, <3>1, <4>1 DEF RotateInv, Healing, InPending, At
      <4> QED
        BY <2>2, <2>7, <3>2, <3>4, <4>1, <4>2, RotationMoves DEF Stages
    <3> QED
      BY <1>1, <3>3, <3>4
  <2> QED
    BY <2>4, <2>5, <2>6, <2>7 DEF HealFailed
<1>3. CASE SyncEnv(t)
  <2>1. /\ stage[t] = "syncEnv" /\ Go(t, "syncSecret") /\ api' = api /\ job' = job
        /\ live' = live /\ env' = env /\ pending' = pending /\ secret' = secret
        /\ platformEnv' = [platformEnv EXCEPT ![s] = job[t].found]
    BY <1>1, <1>3 DEF SyncEnv, At
  <2>2. stage'[t] = "syncSecret" /\ job[t].found = live[s]
    BY <1>1, <2>1 DEF Go, HealInv, Syncing
  <2>3. Recoverable'
    BY <1>1, <2>1, <2>2 DEF Recoverable, ClusterCopies, CopiesIn, ClusterSources, TypeOK
  <2>4. HealInv(t)'
    BY <1>1, <2>1, <2>2 DEF HealInv, Healing, Syncing, InSync
  <2>5. CASE t = Boot
    <3>1. api # "up"
      BY <2>1, <2>5 DEF RecoverableInv, ControlInv, At
    <3> QED
      BY <2>1, <2>3, <2>4, <2>5, <3>1, BootMoves DEF Stages
  <2>6. CASE t \in Rotators
    <3>1. api = "up" /\ RotateInv(t)
      BY <2>1, <2>6 DEF RecoverableInv, ControlInv, At
    <3>2. RotateInv(t)'
      BY <2>1, <2>2, <3>1 DEF RotateInv, Healing, InPending, At
    <3> QED
      BY <2>1, <2>3, <2>4, <2>6, <3>1, <3>2, RotationMoves DEF Stages
  <2> QED
    BY <1>1, <2>5, <2>6
<1>4. CASE SyncSecret(t)
  <2>1. /\ stage[t] = "syncSecret" /\ AfterHeal(t, s)
        /\ live' = live /\ env' = env /\ pending' = pending /\ platformEnv' = platformEnv
        /\ secret' = [secret EXCEPT ![s] = job[t].found]
    BY <1>1, <1>4 DEF SyncSecret, At
  <2>2. job[t].found = live[s] /\ env'[s] = live[s]
    BY <1>1, <2>1 DEF HealInv, Syncing, InSync
  <2>3. Recoverable'
    BY <1>1, <2>1, <2>2 DEF Recoverable, ClusterCopies, CopiesIn, ClusterSources, TypeOK
  <2> QED
    BY <2>1, <2>2, <2>3, HealEndsInSync DEF Healing
<1> QED
  BY <1>2, <1>3, <1>4 DEF Recover

LEMMA RecoverableInductive ==
    ASSUME OneAtATime, CopiesReliable, TypeOK, RecoverableInv, [Next]_vars
    PROVE  RecoverableInv'
<1>1. /\ Boot \in Threads /\ Rotators \subseteq Threads
      /\ stage \in [Threads -> Stages] /\ job \in [Threads -> Job]
      /\ \A j \in Job, s \in Store : [j EXCEPT !.store = s].store = s
      /\ "redis" \in Store /\ "postgres" \in Store
      /\ ~May("connect") /\ ~May("redisRestart")
  BY DEF Threads, TypeOK, Job, Store, May, CopiesReliable, CopyFaults
<1>2. CASE Crash
  BY <1>2, ProcessGoneKeeps DEF Crash
<1>3. CASE BootStart
  <2>1. /\ api # "up" /\ api' # "up" /\ Go(Boot, "connect") /\ stage'[Boot] = "connect"
        /\ live' = live /\ copies' = copies
    BY <1>1, <1>3 DEF BootStart, Go
  <2>2. Recoverable' /\ HealInv(Boot)'
    BY <2>1 DEF RecoverableInv, Recoverable, ClusterCopies, CopiesIn, copies, HealInv, Healing, Syncing
  <2> QED
    BY <2>1, <2>2, BootMoves DEF Stages
<1>4. CASE BootConnect
  <2>1. /\ stage[Boot] = "connect" /\ api # "up"
        /\ live' = live /\ env' = env /\ copies' = copies
    BY <1>4 DEF BootConnect, At, RecoverableInv, ControlInv
  <2>2. /\ Go(Boot, "heal") /\ api' = api
        /\ \/ InSync("postgres") /\ job' = [job EXCEPT ![Boot].store = "redis"]
           \/ job' = [job EXCEPT ![Boot].store = "postgres"]
    BY <1>1, <1>4 DEF BootConnect, Become, InSync
  <2>3. /\ stage'[Boot] = "heal"
        /\ \/ InSync("postgres") /\ job'[Boot].store = "redis"
           \/ job'[Boot].store = "postgres"
    <3>1. stage'[Boot] = "heal"
      BY <1>1, <2>2 DEF Go
    <3>2. CASE InSync("postgres") /\ job' = [job EXCEPT ![Boot].store = "redis"]
      BY <1>1, <3>1, <3>2
    <3>3. CASE job' = [job EXCEPT ![Boot].store = "postgres"]
      BY <1>1, <3>1, <3>3
    <3> QED
      BY <2>2, <3>2, <3>3
  <2>4. Recoverable'
    BY <2>1 DEF RecoverableInv, Recoverable, ClusterCopies, CopiesIn, copies
  <2>5. HealInv(Boot)'
    BY <2>1, <2>3 DEF HealInv, Healing, Syncing, InSync, Store
  <2> QED
    BY <2>1, <2>2, <2>4, <2>5, BootMoves DEF Stages
<1>5. CASE RedisRestart
  BY <1>1, <1>5 DEF RedisRestart
<1>6. CASE UNCHANGED vars
  BY <1>6 DEF vars, copies, RecoverableInv, ControlInv, Recoverable, ClusterCopies, CopiesIn, InSync,
     HealInv, RotateInv, InPending, At
<1> QED
  BY <1>1, <1>2, <1>3, <1>4, <1>5, <1>6, RotateRecoverable, RecoverRecoverable DEF Next, BootStep

\* With one rotation at a time, secrets that can be read and written and a Redis server that
\* keeps its password, the password each server accepts is always in a secret the next boot
\* reads: however often the API dies, whatever replies are lost, and although the host files
\* cannot be written, reconnects fail, and the pending secret is deleted or survives.
THEOREM AlwaysRecoverable ==
    ASSUME OneAtATime, CopiesReliable PROVE Spec => []Recoverable
<1>1. TypeOK /\ RecoverableInv /\ [Next]_vars => TypeOK' /\ RecoverableInv'
  BY TypeStep, RecoverableInductive
<1>2. RecoverableInv => Recoverable
  BY DEF RecoverableInv
<1> QED
  BY <1>1, <1>2, TypeInit, RecoverableInit, PTL DEF Spec

-----------------------------------------------------------------------------
(* The platform at rest *)

Stored(s) == platformEnv[s] = live[s]

\* Passwords are numbered in the order they are generated.
Bounded ==
    /\ \A s \in Store : live[s] <= gen /\ env[s] <= gen /\ platformEnv[s] <= gen
    /\ \A t \in Rotators : job[t].next <= gen

\* What a rotation still owes platform-env: a store whose change is confirmed is written by
\* the patch, any other one was in step before, or is brought there by its recovery.  A Redis
\* recovery that finds nothing to do must start in step: the reply it missed changed nothing.
SettleInv(t) ==
    LET s == job[t].store IN
    /\ stage[t] \in {"ahead", "pending", "patchSecret", "clear", "restart"} =>
         \A st \in Store : Stored(st)
    /\ stage[t] \in {"ahead", "pending"} => live["redis"] < job[t].next
    /\ stage[t] = "alter" /\ s = "redis" => Stored("redis") /\ live["redis"] < job[t].next
    /\ stage[t] = "reply" /\ s = "redis" => ~InSync("redis")
    /\ stage[t] = "heal" /\ s = "redis" /\ InSync("redis") => Stored("redis")
    /\ stage[t] = "syncSecret" => Stored(s)
    /\ stage[t] \in {"alter", "reply"} \cup Healing =>
         \A st \in Store : st # s => Stored(st) \/ job[t].ok[st]
    /\ stage[t] \in {"reconnect", "patchEnv"} =>
         \A st \in Store : Stored(st) \/ job[t].ok[st]

\* What the boot has not recovered yet is as platform-env gave it to the process.
SettleBoot ==
    LET s == job[Boot].store IN
    /\ stage[Boot] = "connect" => \A st \in Store : env[st] = platformEnv[st]
    /\ stage[Boot] = "heal" => env[s] = platformEnv[s]
    /\ stage[Boot] \in Healing /\ s = "postgres" => env["redis"] = platformEnv["redis"]
    /\ stage[Boot] \in Healing /\ s = "redis" => Stored("postgres")
    /\ stage[Boot] = "syncSecret" => Stored(s)

SettledInv ==
    /\ Bounded
    /\ api = "up" /\ (\A t \in Rotators : stage[t] = "idle") => \A s \in Store : Stored(s)
    /\ \A t \in Rotators : SettleInv(t)
    /\ SettleBoot

LEMMA SettledInit == Init => SettledInv
<1> SUFFICES ASSUME Init PROVE SettledInv
  OBVIOUS
<1>1. /\ \A s \in Store : live[s] = 1 /\ env[s] = 1 /\ platformEnv[s] = 1
      /\ gen = 1
      /\ \A t \in Threads : stage[t] = "idle" /\ job[t].next = 0
  BY DEF Init, NoJob, Absent
<1>2. Bounded
  BY <1>1 DEF Bounded, Threads
<1>3. SettleBoot /\ \A t \in Rotators : SettleInv(t)
  BY <1>1 DEF SettleBoot, SettleInv, Threads, Healing
<1> QED
  BY <1>1, <1>2, <1>3 DEF SettledInv, Stored

\* A thread that turns to another store keeps its other local variables.
LEMMA TurnsTo ==
    ASSUME TypeOK, NEW t \in Threads, NEW s \in Store, job' = [job EXCEPT ![t].store = s]
    PROVE  /\ job'[t].store = s
           /\ \A u \in Threads :
                /\ job'[u].prev = job[u].prev /\ job'[u].next = job[u].next
                /\ job'[u].ok = job[u].ok /\ job'[u].found = job[u].found
                /\ u # t => job'[u] = job[u]
<1>1. job \in [Threads -> Job]
  BY DEF TypeOK
<1>2. \A j \in Job : LET k == [j EXCEPT !.store = s] IN
        /\ k.store = s /\ k.prev = j.prev /\ k.next = j.next /\ k.ok = j.ok
        /\ k.found = j.found
  BY DEF Job
<1>3. /\ job'[t] = [job[t] EXCEPT !.store = s]
      /\ \A u \in Threads : u # t => job'[u] = job[u]
  BY <1>1
<1> QED
  BY <1>1, <1>2, <1>3

\* The rotation in flight moves: only its own facts change.
LEMMA SettleRotationMoves ==
    ASSUME OneAtATime, TypeOK, RecoverableInv, NEW t \in Rotators, NEW st \in Stages,
           api = "up", Go(t, st), Bounded', SettleInv(t)',
           st = "idle" => \A s \in Store : Stored(s)'
    PROVE  SettledInv'
<1>1. /\ Boot \notin Rotators /\ Boot \in Threads /\ t \in Threads
      /\ stage \in [Threads -> Stages] /\ stage[Boot] = "idle"
      /\ \A u \in Rotators : u = t
  BY ConstantsAssumption DEF Threads, TypeOK, OneAtATime, RecoverableInv, ControlInv, At
<1>2. stage'[t] = st /\ stage'[Boot] = "idle"
  BY <1>1 DEF Go
<1>3. SettleBoot'
  BY <1>2 DEF SettleBoot, Healing
<1> QED
  BY <1>1, <1>2, <1>3 DEF SettledInv

\* The boot moves: no rotation runs.
LEMMA SettleBootMoves ==
    ASSUME TypeOK, RecoverableInv, NEW st \in Stages, api # "up", Go(Boot, st), Bounded',
           SettleBoot', api' = "up" => \A s \in Store : Stored(s)'
    PROVE  SettledInv'
<1>1. /\ Boot \notin Rotators /\ Rotators \subseteq Threads
      /\ stage \in [Threads -> Stages]
      /\ \A u \in Rotators : stage[u] = "idle"
  BY ConstantsAssumption DEF Threads, TypeOK, RecoverableInv, ControlInv, At
<1>2. \A u \in Rotators : stage'[u] = "idle"
  BY <1>1 DEF Go
<1>3. \A u \in Rotators : SettleInv(u)'
  BY <1>2 DEF SettleInv, Healing
<1> QED
  BY <1>3 DEF SettledInv

\* The process goes away: the next boot starts from platform-env.
LEMMA SettleProcessGone ==
    ASSUME TypeOK, SettledInv, ProcessGone, live' = live, env' = env, platformEnv' = platformEnv,
           gen' = gen
    PROVE  SettledInv'
<1>1. \A t \in Threads : stage'[t] = "idle" /\ job'[t].next = 0
  BY DEF ProcessGone, NoJob, Absent
<1>2. Bounded'
  <2>1. 0 <= gen
    BY DEF TypeOK
  <2> QED
    BY <1>1, <2>1 DEF SettledInv, Bounded, Threads
<1>3. SettleBoot' /\ \A t \in Rotators : SettleInv(t)'
  BY <1>1 DEF SettleBoot, SettleInv, Threads, Healing
<1> QED
  BY <1>2, <1>3 DEF SettledInv, ProcessGone

\* A rotation's own steps.
LEMMA RotateSettles ==
    ASSUME OneAtATime, CopiesReliable, TypeOK, TypeOK', RecoverableInv, RecoverableInv',
           SettledInv, NEW t \in Rotators, Rotate(t)
    PROVE  SettledInv'
<1> DEFINE s == job[t].store
<1> USE DEF At, Go, Pw
<1>1. /\ t \in Threads /\ job \in [Threads -> Job] /\ stage \in [Threads -> Stages]
      /\ s \in Store /\ "redis" \in Store /\ "postgres" \in Store
      /\ RotateInv(t) /\ SettleInv(t) /\ Bounded
      /\ ~May("patch")
      /\ \A u \in Rotators : u = t
      /\ live \in [Store -> Nat] /\ env \in [Store -> Nat] /\ platformEnv \in [Store -> Nat]
      /\ gen \in Nat /\ job[t].next \in Nat /\ job[t].next <= gen
  BY DEF Threads, TypeOK, Job, RecoverableInv, SettledInv, Bounded, Store, May, CopiesReliable,
         CopyFaults, OneAtATime
<1>2. stage[t] # "idle" => api = "up"
  BY DEF RecoverableInv, ControlInv
<1>3. /\ live' = live => \A st \in Store : live'[st] = live[st]
      /\ env' = env => \A st \in Store : env'[st] = env[st]
  OBVIOUS
<1>4. CASE Start(t)
  <2>1. /\ api = "up" /\ Go(t, "ahead") /\ stage'[t] = "ahead" /\ stage[t] = "idle"
        /\ live' = live /\ env' = env /\ platformEnv' = platformEnv /\ gen' = gen + 1
    BY <1>1, <1>4 DEF Start, copies
  <2>2. job'[t].next = gen + 1
    BY <1>1, <1>4 DEF Start, Job, NoJob
  <2>3. \A st \in Store : Stored(st)
    BY <1>1, <2>1 DEF SettledInv
  <2>4. Bounded'
    BY <1>1, <2>1, <2>2 DEF Bounded
  <2>5. live["redis"] < gen + 1
    BY <1>1 DEF Bounded
  <2>6. SettleInv(t)'
    BY <2>1, <2>2, <2>3, <2>5 DEF SettleInv, Stored, Healing
  <2> QED
    BY <2>1, <2>4, <2>6, SettleRotationMoves DEF Stages
<1>5. CASE HostAhead(t)
  <2>1. /\ stage[t] = "ahead" /\ Go(t, "pending") /\ stage'[t] = "pending"
        /\ live' = live /\ env' = env /\ platformEnv' = platformEnv /\ gen' = gen
    BY <1>1, <1>5 DEF HostAhead
  <2>2. job'[t].next = job[t].next
    <3>1. PICK written \in 0 .. 4 : job' = [job EXCEPT ![t].ahead = (written = 4)]
      BY <1>5 DEF HostAhead
    <3> QED
      BY <1>1, <3>1 DEF Job
  <2>3. Bounded'
    BY <1>1, <2>1, <2>2 DEF Bounded
  <2>4. SettleInv(t)'
    BY <1>1, <2>1, <2>2 DEF SettleInv, Stored, Healing
  <2> QED
    BY <1>2, <2>1, <2>3, <2>4, SettleRotationMoves DEF Stages
<1>6. CASE WritePending(t)
  <2>1. /\ stage[t] = "pending" /\ gen' = gen
        /\ live' = live /\ env' = env /\ platformEnv' = platformEnv
        /\ \/ /\ Go(t, "alter") /\ stage'[t] = "alter" /\ job' = [job EXCEPT ![t].store = "redis"]
           \/ Go(t, "idle") /\ stage'[t] = "idle" /\ job' = job
    BY <1>1, <1>6 DEF WritePending, Become
  <2>2. job'[t].next = job[t].next /\ (stage'[t] = "alter" => job'[t].store = "redis")
    BY <1>1, <2>1, TurnsTo
  <2>3. Bounded'
    BY <1>1, <2>1, <2>2 DEF Bounded
  <2>4. \A st \in Store : Stored(st)'
    BY <1>1, <2>1 DEF SettleInv, Stored
  <2>5. SettleInv(t)'
    BY <1>1, <2>1, <2>2, <2>4 DEF SettleInv, Healing
  <2> QED
    BY <1>2, <2>1, <2>3, <2>4, <2>5, SettleRotationMoves DEF Stages
<1>7. CASE Alter(t)
  <2>1. /\ stage[t] = "alter" /\ env' = env /\ platformEnv' = platformEnv /\ job' = job
        /\ gen' = gen
    BY <1>7 DEF Alter, copies
  <2>2. InSync("redis")
    BY <1>1, <2>1 DEF RotateInv
  <2>3. CASE live' = [live EXCEPT ![s] = job[t].next] /\ Go(t, "reply")
    <3>1. stage'[t] = "reply"
      BY <1>1, <2>3
    <3>2. \A st \in Store : live'[st] = IF st = s THEN job[t].next ELSE live[st]
      BY <1>1, <2>3
    <3>3. Bounded'
      BY <1>1, <2>1, <3>2 DEF Bounded
    <3>4. s = "redis" => ~InSync("redis")'
      BY <1>1, <2>1, <2>2, <3>2 DEF SettleInv, InSync
    <3>5. SettleInv(t)'
      BY <1>1, <2>1, <3>1, <3>2, <3>4 DEF SettleInv, Stored, Healing
    <3> QED
      BY <1>2, <2>1, <2>3, <3>3, <3>5, SettleRotationMoves DEF Stages
  <2>4. CASE Go(t, "heal") /\ live' = live
    <3>1. stage'[t] = "heal"
      BY <1>1, <2>4
    <3>2. Bounded'
      BY <1>1, <2>1, <2>4 DEF Bounded
    <3>3. SettleInv(t)'
      BY <1>1, <2>1, <2>4, <3>1 DEF SettleInv, Stored, Healing
    <3> QED
      BY <1>2, <2>1, <2>4, <3>2, <3>3, SettleRotationMoves DEF Stages
  <2> QED
    BY <1>7, <2>3, <2>4 DEF Alter
<1>8. CASE Reply(t)
  <2>1. /\ stage[t] = "reply" /\ live' = live /\ platformEnv' = platformEnv /\ gen' = gen
    BY <1>8 DEF Reply
  <2>2. CASE Go(t, "heal") /\ env' = env /\ job' = job
    <3>1. stage'[t] = "heal"
      BY <1>1, <2>2
    <3>2. Bounded'
      BY <1>1, <2>1, <2>2 DEF Bounded
    <3>3. SettleInv(t)'
      BY <1>1, <2>1, <2>2, <3>1 DEF SettleInv, Stored, Healing, InSync
    <3> QED
      BY <1>2, <2>1, <2>2, <3>2, <3>3, SettleRotationMoves DEF Stages
  <2>3. CASE /\ env' = [env EXCEPT ![s] = job[t].next]
             /\ job' = [job EXCEPT ![t] = Confirmed(job[t], s)]
             /\ Go(t, IF s = "redis" THEN "alter" ELSE "reconnect")
    <3>1. /\ job'[t].next = job[t].next /\ job'[t].store = "postgres"
          /\ \A st \in Store : job'[t].ok[st] <=> st = s \/ job[t].ok[st]
      BY <1>1, <2>3 DEF Confirmed, Job
    <3>2. stage'[t] = IF s = "redis" THEN "alter" ELSE "reconnect"
      BY <1>1, <2>3
    <3>3. \A st \in Store : env'[st] = IF st = s THEN job[t].next ELSE env[st]
      BY <1>1, <2>3
    <3>4. Bounded'
      BY <1>1, <2>1, <3>1, <3>3 DEF Bounded
    <3>5. \A st \in Store : st # s => Stored(st) \/ job[t].ok[st]
      BY <1>1, <2>1 DEF SettleInv
    <3>6. \A st \in Store : Stored(st)' \/ job'[t].ok[st]
      BY <2>1, <3>1, <3>5 DEF Stored
    <3>7. SettleInv(t)'
      BY <3>1, <3>2, <3>6 DEF SettleInv, Healing
    <3> QED
      BY <1>2, <2>1, <2>3, <3>4, <3>7, SettleRotationMoves DEF Stages
  <2> QED
    BY <1>8, <2>2, <2>3 DEF Reply
<1>9. CASE Reconnect(t)
  <2>1. /\ stage[t] = "reconnect" /\ live' = live /\ platformEnv' = platformEnv /\ job' = job
        /\ gen' = gen /\ env' = [env EXCEPT !["postgres"] = job[t].next]
        /\ live["postgres"] = job[t].next
    BY <1>1, <1>9 DEF Reconnect, RotateInv, copies
  <2>2. \A st \in Store : env'[st] = IF st = "postgres" THEN job[t].next ELSE env[st]
    BY <1>1, <2>1
  <2>3. Bounded'
    BY <1>1, <2>1, <2>2 DEF Bounded
  <2>4. \A st \in Store : Stored(st)' \/ job'[t].ok[st]
    BY <1>1, <2>1 DEF SettleInv, Stored
  <2>5. CASE Go(t, "patchEnv")
    <3>1. stage'[t] = "patchEnv"
      BY <1>1, <2>5
    <3>2. SettleInv(t)'
      BY <2>4, <3>1 DEF SettleInv, Healing
    <3> QED
      BY <1>2, <2>1, <2>3, <2>5, <3>2, SettleRotationMoves DEF Stages
  <2>6. CASE Go(t, "heal")
    <3>1. stage'[t] = "heal" /\ job[t].store = "postgres"
      BY <1>1, <2>1, <2>6 DEF RecoverableInv, ControlInv
    <3>2. SettleInv(t)'
      BY <2>1, <2>4, <3>1 DEF SettleInv, Healing
    <3> QED
      BY <1>2, <2>1, <2>3, <2>6, <3>2, SettleRotationMoves DEF Stages
  <2> QED
    BY <1>9, <2>5, <2>6 DEF Reconnect
<1>10. CASE PatchEnv(t)
  <2>1. /\ stage[t] = "patchEnv" /\ live' = live /\ env' = env /\ gen' = gen
        /\ Go(t, "patchSecret") /\ job' = [job EXCEPT ![t].store = "postgres"]
        /\ platformEnv' = [st \in Store |-> IF job[t].ok[st] THEN job[t].next ELSE platformEnv[st]]
    BY <1>1, <1>10 DEF PatchEnv, Become
  <2>2. stage'[t] = "patchSecret" /\ job'[t].next = job[t].next
    BY <1>1, <2>1, TurnsTo
  <2>3. \A st \in Store : job[t].ok[st] => live[st] = job[t].next
    BY <1>1, <2>1 DEF RotateInv
  <2>4. \A st \in Store : Stored(st)'
    BY <1>1, <2>1, <2>3 DEF SettleInv, Stored
  <2>5. Bounded'
    BY <1>1, <2>1, <2>2 DEF Bounded
  <2>6. SettleInv(t)'
    BY <2>2, <2>4 DEF SettleInv, Healing
  <2> QED
    BY <1>2, <2>1, <2>5, <2>6, SettleRotationMoves DEF Stages
<1>11. CASE PatchSecret(t) \/ Clear(t)
  <2>1. /\ stage[t] \in {"patchSecret", "clear"}
        /\ live' = live /\ env' = env /\ platformEnv' = platformEnv /\ gen' = gen
        /\ \/ Go(t, "patchSecret") /\ job' = [job EXCEPT ![t].store = "redis"]
           \/ Go(t, "clear") /\ job' = job
           \/ Go(t, "restart") /\ job' = job
    BY <1>11 DEF PatchSecret, Clear, Become
  <2>2. stage'[t] \in {"patchSecret", "clear", "restart"} /\ job'[t].next = job[t].next
    BY <1>1, <2>1, TurnsTo
  <2>3. \A st \in Store : Stored(st)'
    BY <1>1, <2>1 DEF SettleInv, Stored
  <2>4. Bounded'
    BY <1>1, <2>1, <2>2 DEF Bounded
  <2>5. SettleInv(t)'
    BY <2>2, <2>3 DEF SettleInv, Healing
  <2> QED
    BY <1>2, <2>1, <2>4, <2>5, SettleRotationMoves DEF Stages
<1>12. CASE Restart(t)
  <2>1. /\ stage[t] = "restart" /\ live' = live /\ env' = env /\ platformEnv' = platformEnv
        /\ gen' = gen
    BY <1>12 DEF Restart, copies
  <2>2. CASE ProcessGone
    BY <2>1, <2>2, SettleProcessGone
  <2>3. CASE Go(t, "idle") /\ UNCHANGED <<api, job>>
    <3>1. stage'[t] = "idle"
      BY <1>1, <2>3
    <3>2. \A st \in Store : Stored(st)'
      BY <1>1, <2>1 DEF SettleInv, Stored
    <3>3. Bounded'
      BY <1>1, <2>1, <2>3 DEF Bounded
    <3>4. SettleInv(t)'
      BY <3>1 DEF SettleInv, Healing
    <3> QED
      BY <1>2, <2>1, <2>3, <3>2, <3>3, <3>4, SettleRotationMoves DEF Stages
  <2> QED
    BY <1>12, <2>2, <2>3 DEF Restart
<1> QED
  BY <1>4, <1>5, <1>6, <1>7, <1>8, <1>9, <1>10, <1>11, <1>12 DEF Rotate

\* The end of a recovery: the store it worked on is stored.
LEMMA HealEndsSettled ==
    ASSUME OneAtATime, TypeOK, RecoverableInv, RecoverableInv', SettledInv,
           NEW t \in Threads, stage[t] \in Healing, AfterHeal(t, job[t].store), Bounded',
           live' = live, env' = env, platformEnv' = platformEnv,
           Stored(job[t].store),
           t = Boot /\ job[t].store = "postgres" => env["redis"] = platformEnv["redis"]
    PROVE  SettledInv'
<1> DEFINE s == job[t].store
<1>1. /\ Boot \notin Rotators
      /\ t = Boot \/ t \in Rotators
      /\ stage \in [Threads -> Stages] /\ job \in [Threads -> Job] /\ s \in Store
      /\ "redis" \in Store /\ "postgres" \in Store
  BY ConstantsAssumption DEF Threads, TypeOK, Job, Store
<1>2. CASE t = Boot
  <2>1. api # "up"
    BY <1>2 DEF Healing, RecoverableInv, ControlInv, At
  <2>2. CASE s = "postgres"
    <3>1. Go(Boot, "heal") /\ api' = api /\ job' = [job EXCEPT ![Boot].store = "redis"]
      BY <1>2, <2>2 DEF AfterHeal, Become
    <3>2. stage'[Boot] = "heal" /\ job'[Boot].store = "redis"
      BY <1>1, <1>2, <3>1, TurnsTo DEF Go
    <3>3. SettleBoot'
      BY <1>2, <2>2, <3>2 DEF SettleBoot, Stored, Healing
    <3> QED
      BY <2>1, <3>1, <3>3, SettleBootMoves DEF Stages
  <2>3. CASE s = "redis"
    <3>1. Go(Boot, "idle")
      BY <1>2, <2>3 DEF AfterHeal
    <3>2. stage'[Boot] = "idle"
      BY <1>1, <1>2, <3>1 DEF Go
    <3>3. \A st \in Store : Stored(st)'
      BY <1>2, <2>3 DEF SettledInv, SettleBoot, Stored, Store
    <3>4. SettleBoot'
      BY <3>2 DEF SettleBoot, Healing
    <3> QED
      BY <2>1, <3>1, <3>3, <3>4, SettleBootMoves DEF Stages
  <2> QED
    BY <1>1, <2>2, <2>3 DEF Store
<1>3. CASE t \in Rotators
  <2>1. api = "up" /\ SettleInv(t)
    BY <1>3 DEF Healing, RecoverableInv, ControlInv, At, SettledInv
  <2>2. \A st \in Store : Stored(st) \/ job[t].ok[st]
    BY <2>1 DEF SettleInv
  <2>3. CASE s = "redis"
    <3>1. Go(t, "alter") /\ job' = [job EXCEPT ![t].store = "postgres"]
      BY <1>1, <1>3, <2>3 DEF AfterHeal, Become
    <3>2. stage'[t] = "alter" /\ job'[t].store = "postgres" /\ job'[t].ok = job[t].ok
      BY <1>1, <3>1, TurnsTo DEF Go
    <3>3. SettleInv(t)'
      BY <2>2, <3>2 DEF SettleInv, Stored, Healing
    <3> QED
      BY <1>3, <2>1, <3>1, <3>3, SettleRotationMoves DEF Stages
  <2>4. CASE s = "postgres"
    <3>1. Go(t, "patchEnv") /\ job' = job
      BY <1>1, <1>3, <2>4 DEF AfterHeal
    <3>2. stage'[t] = "patchEnv"
      BY <1>1, <3>1 DEF Go
    <3>3. SettleInv(t)'
      BY <2>2, <3>1, <3>2 DEF SettleInv, Stored, Healing
    <3> QED
      BY <1>3, <2>1, <3>1, <3>3, SettleRotationMoves DEF Stages
  <2> QED
    BY <1>1, <2>3, <2>4 DEF Store
<1> QED
  BY <1>1, <1>2, <1>3

\* The steps of a recovery, in a rotation and at boot, when reconnecting works.
LEMMA RecoverSettles ==
    ASSUME OneAtATime, CopiesReliable, ~May("reconnect"), TypeOK, RecoverableInv,
           RecoverableInv', SettledInv, NEW t \in Threads, Recover(t)
    PROVE  SettledInv'
<1> DEFINE s == job[t].store
<1> USE DEF Pw
<1>1. /\ Boot \notin Rotators
      /\ t = Boot \/ t \in Rotators
      /\ stage \in [Threads -> Stages] /\ job \in [Threads -> Job] /\ s \in Store
      /\ "redis" \in Store /\ "postgres" \in Store
      /\ live \in [Store -> Nat] /\ env \in [Store -> Nat] /\ platformEnv \in [Store -> Nat]
      /\ gen \in Nat
      /\ HealInv(t) /\ Recoverable /\ Bounded
      /\ ~May("read") /\ ~May("connect") /\ ~May("patch")
  BY ConstantsAssumption
  DEF Threads, TypeOK, Job, RecoverableInv, SettledInv, May, CopiesReliable, CopyFaults, Store
<1>2. CASE Heal(t)
  <2>1. /\ stage[t] = "heal" /\ live' = live /\ platformEnv' = platformEnv /\ gen' = gen
    BY <1>2 DEF Heal, At, copies
  <2>2. live[s] \in CopiesIn(s, ClusterSources)
    BY <1>1 DEF Recoverable, ClusterCopies
  <2>3. \/ s = "redis" /\ InSync(s) /\ AfterHeal(t, s) /\ env' = env
        \/ /\ Go(t, "syncEnv") /\ job' = [job EXCEPT ![t].found = live[s]] /\ api' = api
           /\ env' = [env EXCEPT ![s] = live[s]]
    BY <1>1, <1>2, <2>2 DEF Heal, InSync
  <2>4. CASE s = "redis" /\ InSync(s) /\ AfterHeal(t, s) /\ env' = env
    <3>1. Stored(s)
      BY <1>1, <2>1, <2>4 DEF SettledInv, SettleInv, SettleBoot, InSync, Stored
    <3>2. Bounded'
      <4>1. \A u \in Rotators : job'[u].next <= gen
        <5>1. job' = [job EXCEPT ![t].store = "postgres"] \/ job' = job
          BY <2>4 DEF AfterHeal, Become
        <5>2. \A u \in Rotators : u \in Threads /\ job[u].next <= gen
          BY <1>1 DEF Bounded, Threads
        <5> QED
          BY <1>1, <5>1, <5>2, TurnsTo
      <4> QED
        BY <1>1, <2>1, <2>4, <4>1 DEF Bounded
    <3> QED
      BY <2>1, <2>4, <3>1, <3>2, HealEndsSettled DEF Healing
  <2>5. CASE /\ Go(t, "syncEnv") /\ job' = [job EXCEPT ![t].found = live[s]] /\ api' = api
             /\ env' = [env EXCEPT ![s] = live[s]]
    <3>1. /\ stage'[t] = "syncEnv" /\ job'[t].store = s /\ job'[t].next = job[t].next
          /\ job'[t].ok = job[t].ok
          /\ \A u \in Threads : u # t => job'[u] = job[u]
      BY <1>1, <2>5 DEF Go, Job
    <3>2. \A st \in Store : env'[st] = IF st = s THEN live[s] ELSE env[st]
      BY <1>1, <2>5
    <3>3. \A u \in Rotators : job'[u].next = job[u].next
      BY <3>1 DEF Threads
    <3>4. Bounded'
      BY <1>1, <2>1, <3>2, <3>3 DEF Bounded
    <3>5. CASE t = Boot
      <4>1. api # "up"
        BY <2>1, <3>5 DEF RecoverableInv, ControlInv, At
      <4>2. SettleBoot'
        BY <1>1, <2>1, <3>1, <3>2, <3>5 DEF SettledInv, SettleBoot, Stored, Healing
      <4> QED
        BY <2>5, <3>4, <3>5, <4>1, <4>2, SettleBootMoves DEF Stages
    <3>6. CASE t \in Rotators
      <4>1. api = "up" /\ SettleInv(t)
        BY <2>1, <3>6 DEF RecoverableInv, ControlInv, At, SettledInv
      <4>2. SettleInv(t)'
        BY <2>1, <3>1, <4>1 DEF SettleInv, Stored, Healing
      <4> QED
        BY <2>5, <3>4, <3>6, <4>1, <4>2, SettleRotationMoves DEF Stages
    <3> QED
      BY <1>1, <3>5, <3>6
  <2> QED
    BY <2>3, <2>4, <2>5
<1>3. CASE SyncEnv(t)
  <2>1. /\ stage[t] = "syncEnv" /\ Go(t, "syncSecret") /\ api' = api /\ job' = job
        /\ live' = live /\ env' = env /\ gen' = gen
        /\ platformEnv' = [platformEnv EXCEPT ![s] = job[t].found]
    BY <1>1, <1>3 DEF SyncEnv, At
  <2>2. stage'[t] = "syncSecret" /\ job[t].found = live[s]
    BY <1>1, <2>1 DEF Go, HealInv, Syncing
  <2>3. \A st \in Store : platformEnv'[st] = IF st = s THEN live[s] ELSE platformEnv[st]
    BY <1>1, <2>1, <2>2
  <2>4. Bounded'
    BY <1>1, <2>1, <2>3 DEF Bounded
  <2>5. CASE t = Boot
    <3>1. api # "up"
      BY <2>1, <2>5 DEF RecoverableInv, ControlInv, At
    <3>2. SettleBoot'
      BY <1>1, <2>1, <2>2, <2>3, <2>5 DEF SettledInv, SettleBoot, Stored, Healing
    <3> QED
      BY <2>1, <2>4, <2>5, <3>1, <3>2, SettleBootMoves DEF Stages
  <2>6. CASE t \in Rotators
    <3>1. api = "up" /\ SettleInv(t)
      BY <2>1, <2>6 DEF RecoverableInv, ControlInv, At, SettledInv
    <3>2. SettleInv(t)'
      BY <1>1, <2>1, <2>2, <2>3, <3>1 DEF SettleInv, Stored, Healing
    <3> QED
      BY <2>1, <2>4, <2>6, <3>1, <3>2, SettleRotationMoves DEF Stages
  <2> QED
    BY <1>1, <2>5, <2>6
<1>4. CASE SyncSecret(t)
  <2>1. /\ stage[t] = "syncSecret" /\ AfterHeal(t, s)
        /\ live' = live /\ env' = env /\ platformEnv' = platformEnv /\ gen' = gen
    BY <1>4 DEF SyncSecret, At
  <2>2. /\ Stored(s)
        /\ t = Boot /\ s = "postgres" => env["redis"] = platformEnv["redis"]
    BY <1>1, <2>1 DEF SettledInv, SettleInv, SettleBoot, Healing
  <2>3. Bounded'
    <3>1. \/ \E st \in Store : job' = [job EXCEPT ![t].store = st]
          \/ job' = job
      BY <1>1, <2>1 DEF AfterHeal, Become
    <3>2. \A u \in Rotators : u \in Threads /\ job[u].next <= gen
      BY <1>1 DEF Bounded, Threads
    <3>3. \A u \in Rotators : job'[u].next <= gen
      BY <3>1, <3>2, TurnsTo
    <3> QED
      BY <1>1, <2>1, <3>3 DEF Bounded
  <2> QED
    BY <2>1, <2>2, <2>3, HealEndsSettled DEF Healing
<1> QED
  BY <1>2, <1>3, <1>4 DEF Recover

LEMMA SettledInductive ==
    ASSUME OneAtATime, CopiesReliable, ~May("reconnect"), TypeOK, RecoverableInv, SettledInv,
           [Next]_vars
    PROVE  SettledInv'
<1>1. TypeOK' /\ RecoverableInv'
  BY TypeStep, RecoverableInductive
<1>2. /\ Boot \in Threads /\ Rotators \subseteq Threads /\ Boot \notin Rotators
      /\ stage \in [Threads -> Stages] /\ job \in [Threads -> Job]
      /\ "redis" \in Store /\ "postgres" \in Store
      /\ ~May("connect") /\ ~May("redisRestart")
  BY ConstantsAssumption DEF Threads, TypeOK, Job, Store, May, CopiesReliable, CopyFaults
<1>3. CASE Crash
  BY <1>3, SettleProcessGone DEF Crash, copies
<1>4. CASE BootStart
  <2>1. /\ api # "up" /\ api' # "up" /\ Go(Boot, "connect") /\ stage'[Boot] = "connect"
        /\ live' = live /\ env' = platformEnv /\ platformEnv' = platformEnv /\ job' = job
        /\ gen' = gen
    BY <1>2, <1>4 DEF BootStart, Go, copies
  <2>2. Bounded' /\ SettleBoot'
    BY <2>1 DEF SettledInv, Bounded, SettleBoot, Healing
  <2> QED
    BY <2>1, <2>2, SettleBootMoves DEF Stages
<1>5. CASE BootConnect
  <2>1. /\ stage[Boot] = "connect" /\ api # "up" /\ api' = api
        /\ live' = live /\ env' = env /\ platformEnv' = platformEnv /\ gen' = gen
        /\ Go(Boot, "heal")
        /\ \/ InSync("postgres") /\ job' = [job EXCEPT ![Boot].store = "redis"]
           \/ job' = [job EXCEPT ![Boot].store = "postgres"]
    BY <1>2, <1>5 DEF BootConnect, Become, InSync, At, RecoverableInv, ControlInv, copies
  <2>2. \E st \in Store : job' = [job EXCEPT ![Boot].store = st] /\ (st = "redis" => InSync("postgres"))
    BY <1>2, <2>1
  <2>3. /\ stage'[Boot] = "heal"
        /\ \/ InSync("postgres") /\ job'[Boot].store = "redis"
           \/ job'[Boot].store = "postgres"
        /\ \A u \in Rotators : job'[u] = job[u]
    BY <1>2, <2>1, <2>2, TurnsTo DEF Go, Store
  <2>4. Bounded'
    BY <2>1, <2>3 DEF SettledInv, Bounded
  <2>5. \A st \in Store : env[st] = platformEnv[st]
    BY <2>1 DEF SettledInv, SettleBoot
  <2>6. SettleBoot'
    BY <1>2, <2>1, <2>3, <2>5 DEF SettleBoot, Stored, InSync, Healing
  <2> QED
    BY <2>1, <2>4, <2>6, SettleBootMoves DEF Stages
<1>6. CASE RedisRestart
  BY <1>2, <1>6 DEF RedisRestart
<1>7. CASE UNCHANGED vars
  BY <1>7 DEF vars, copies, SettledInv, Bounded, SettleInv, SettleBoot, Stored, InSync
<1> QED
  BY <1>1, <1>2, <1>3, <1>4, <1>5, <1>6, <1>7, RotateSettles, RecoverSettles DEF Next, BootStep

\* With one rotation at a time, reliable copies and reconnects that work, an API that is up and
\* serves no rotation uses the passwords the servers accept, and platform-env holds them for
\* its next start: whatever crashed, whichever reply was lost, and although the host files
\* were not written, the pending secret survived or the restart was refused.
THEOREM RestIsInSync ==
    ASSUME OneAtATime, CopiesReliable, ~May("reconnect") PROVE Spec => []SettledInSync
<1>1. /\ TypeOK /\ RecoverableInv /\ SettledInv /\ [Next]_vars
           => TypeOK' /\ RecoverableInv' /\ SettledInv'
  BY TypeStep, RecoverableInductive, SettledInductive
<1>2. RecoverableInv /\ SettledInv => SettledInSync
  BY DEF RecoverableInv, SettledInv, SettledInSync, AtRest, At, InSync, Stored, Threads
<1> QED
  BY <1>1, <1>2, TypeInit, RecoverableInit, SettledInit, PTL DEF Spec

-----------------------------------------------------------------------------
(* No password in Kubernetes that the server has not taken *)

\* Thread t can still give the Postgres server a newer password.
PostgresAhead(t) ==
    \/ stage[t] \in {"ahead", "pending", "alter"}
    \/ stage[t] \in {"reply"} \cup Healing /\ job[t].store = "redis"

UnappliedInv ==
    /\ ControlInv
    /\ NoUnappliedPassword
    /\ live["postgres"] <= gen
    /\ \A t \in Rotators :
        /\ PostgresAhead(t) => live["postgres"] < job[t].next
        /\ stage[t] = "reply" /\ job[t].store = "postgres" => live["postgres"] = job[t].next
        /\ job[t].ok["postgres"] => live["postgres"] = job[t].next
        /\ job[t].next <= gen
    /\ \A t \in Threads :
        stage[t] \in Syncing /\ job[t].store = "postgres" => job[t].found = live["postgres"]

LEMMA UnappliedInit == Init => UnappliedInv
<1> SUFFICES ASSUME Init PROVE UnappliedInv
  OBVIOUS
<1>1. /\ live["postgres"] = 1 /\ platformEnv["postgres"] = 1 /\ secret["postgres"] = 1
      /\ gen = 1 /\ api = "up"
      /\ \A t \in Threads : stage[t] = "idle" /\ job[t].next = 0 /\ ~job[t].ok["postgres"]
  BY DEF Init, NoJob, Absent, Store
<1>2. ControlInv
  BY <1>1 DEF ControlInv, At, Threads
<1> QED
  BY <1>1, <1>2 DEF UnappliedInv, NoUnappliedPassword, PostgresAhead, Healing, Syncing, Threads

\* Every step keeps the control part.
LEMMA ControlStep ==
    ASSUME OneAtATime, TypeOK, ControlInv, [Next]_vars
    PROVE  ControlInv'
<1> USE DEF At
<1>1. /\ Boot \notin Rotators /\ Rotators \subseteq Threads /\ Boot \in Threads
      /\ \A u \in Threads : u = Boot \/ u \in Rotators
      /\ stage \in [Threads -> Stages] /\ job \in [Threads -> Job]
      /\ \A u \in Threads : job[u].store \in Store
      /\ \A j \in Job, st \in Store : [j EXCEPT !.store = st].store = st
      /\ "redis" \in Store /\ "postgres" \in Store
  BY ConstantsAssumption DEF Threads, TypeOK, Job, Store
<1>2. ASSUME NEW t \in Rotators, NEW st \in Stages, Go(t, st), api = "up", api' = "up",
             st = "reconnect" => job'[t].store = "postgres"
      PROVE  ControlInv'
  <2>1. stage'[t] = st /\ stage'[Boot] = "idle" /\ \A u \in Rotators : u = t
    BY <1>1, <1>2 DEF Go, ControlInv, OneAtATime
  <2> QED
    BY <1>1, <1>2, <2>1 DEF ControlInv
<1>3. ASSUME NEW st \in Stages, Go(Boot, st), api # "up", api' = "up" => st = "idle"
      PROVE  ControlInv'
  <2>1. stage'[Boot] = st /\ \A u \in Rotators : stage'[u] = "idle"
    BY <1>1, <1>3 DEF Go, ControlInv
  <2> QED
    BY <1>3, <2>1 DEF ControlInv
<1>4. ASSUME ProcessGone PROVE ControlInv'
  BY <1>1, <1>4 DEF ProcessGone, ControlInv
<1>5. ASSUME NEW t \in Rotators, stage[t] # "idle" PROVE api = "up"
  BY <1>5 DEF ControlInv
<1>6. ASSUME stage[Boot] # "idle" PROVE api # "up"
  BY <1>6 DEF ControlInv
<1>7. ASSUME NEW t \in Rotators, Rotate(t) PROVE ControlInv'
  <2>1. CASE Start(t)
    BY <2>1, <1>2 DEF Start, Stages
  <2>2. CASE HostAhead(t)
    BY <2>2, <1>2, <1>5 DEF HostAhead, Stages
  <2>3. CASE WritePending(t)
    BY <2>3, <1>2, <1>5 DEF WritePending, Become, Stages
  <2>4. CASE Alter(t)
    BY <2>4, <1>2, <1>5 DEF Alter, Stages
  <2>5. CASE Reply(t)
    <3>1. CASE Go(t, "heal")
      BY <2>5, <3>1, <1>2, <1>5 DEF Reply, Stages
    <3>2. CASE /\ job' = [job EXCEPT ![t] = Confirmed(job[t], job[t].store)]
               /\ Go(t, IF job[t].store = "redis" THEN "alter" ELSE "reconnect")
      <4>1. job'[t].store = "postgres"
        BY <1>1, <3>2 DEF Confirmed, Job
      <4>2. Go(t, "alter") \/ Go(t, "reconnect")
        BY <3>2
      <4> QED
        BY <2>5, <4>1, <4>2, <1>2, <1>5 DEF Reply, Stages
    <3> QED
      BY <2>5, <3>1, <3>2 DEF Reply
  <2>6. CASE Reconnect(t)
    BY <2>6, <1>2, <1>5 DEF Reconnect, Stages
  <2>7. CASE PatchEnv(t)
    BY <2>7, <1>2, <1>5 DEF PatchEnv, Become, Stages
  <2>8. CASE PatchSecret(t)
    BY <2>8, <1>2, <1>5 DEF PatchSecret, Become, Stages
  <2>9. CASE Clear(t)
    BY <2>9, <1>2, <1>5 DEF Clear, Stages
  <2>10. CASE Restart(t)
    BY <2>10, <1>2, <1>4, <1>5 DEF Restart, Stages
  <2> QED
    BY <1>7, <2>1, <2>2, <2>3, <2>4, <2>5, <2>6, <2>7, <2>8, <2>9, <2>10 DEF Rotate
<1>8. ASSUME NEW t \in Threads, AfterHeal(t, job[t].store) \/ HealFailed(t, job[t].store),
             stage[t] # "idle"
      PROVE  ControlInv'
  <2>1. CASE ProcessGone
    BY <2>1, <1>4
  <2>2. CASE AfterHeal(t, job[t].store)
    <3>1. CASE t = Boot
      BY <2>2, <3>1, <1>1, <1>3, <1>6, <1>8 DEF AfterHeal, Become, Stages
    <3>2. CASE t \in Rotators
      BY <2>2, <3>2, <1>1, <1>2, <1>5, <1>8 DEF AfterHeal, Become, Stages
    <3> QED
      BY <1>1, <3>1, <3>2
  <2> QED
    BY <1>8, <2>1, <2>2 DEF HealFailed
<1>9. ASSUME NEW t \in Threads, NEW st \in {"syncEnv", "syncSecret"}, Go(t, st),
             stage[t] # "idle", api' = api
      PROVE  ControlInv'
  BY <1>1, <1>2, <1>3, <1>5, <1>6, <1>9 DEF Stages
<1>10. ASSUME NEW t \in Threads, Recover(t) PROVE ControlInv'
  <2>1. CASE Heal(t)
    <3>1. \/ AfterHeal(t, job[t].store) \/ HealFailed(t, job[t].store)
          \/ Go(t, "syncEnv") /\ api' = api
      BY <2>1 DEF Heal
    <3> QED
      BY <2>1, <3>1, <1>8, <1>9 DEF Heal
  <2>2. CASE SyncEnv(t)
    BY <2>2, <1>9 DEF SyncEnv
  <2>3. CASE SyncSecret(t)
    BY <2>3, <1>8 DEF SyncSecret
  <2> QED
    BY <1>10, <2>1, <2>2, <2>3 DEF Recover
<1>11. CASE Crash
  BY <1>11, <1>4 DEF Crash
<1>12. CASE BootStart
  BY <1>12, <1>3 DEF BootStart, Stages
<1>13. CASE BootConnect
  BY <1>13, <1>3, <1>4, <1>6 DEF BootConnect, Become, Stages
<1>14. CASE RedisRestart
  BY <1>14 DEF RedisRestart, ControlInv
<1>15. CASE UNCHANGED vars
  BY <1>15 DEF vars, ControlInv
<1> QED
  BY <1>1, <1>7, <1>10, <1>11, <1>12, <1>13, <1>14, <1>15 DEF Next, BootStep

LEMMA UnappliedInductive ==
    ASSUME OneAtATime, TypeOK, UnappliedInv, [Next]_vars
    PROVE  UnappliedInv'
<1> USE DEF At, Go, Pw
<1>1. /\ Boot \notin Rotators /\ Rotators \subseteq Threads /\ Boot \in Threads
      /\ \A u \in Threads : u = Boot \/ u \in Rotators
      /\ stage \in [Threads -> Stages] /\ job \in [Threads -> Job]
      /\ \A u \in Threads : job[u].store \in Store /\ job[u].next \in Nat
      /\ "redis" \in Store /\ "postgres" \in Store
      /\ live \in [Store -> Nat] /\ platformEnv \in [Store -> Nat] /\ secret \in [Store -> Nat]
      /\ gen \in Nat
      /\ ControlInv /\ ControlInv'
  BY ConstantsAssumption, ControlStep DEF Threads, TypeOK, Job, Store, UnappliedInv
<1> DEFINE Turn(t) ==
             /\ PostgresAhead(t) => live["postgres"] < job[t].next
             /\ stage[t] = "reply" /\ job[t].store = "postgres" => live["postgres"] = job[t].next
             /\ job[t].ok["postgres"] => live["postgres"] = job[t].next
             /\ job[t].next <= gen
           Knows(t) ==
             stage[t] \in Syncing /\ job[t].store = "postgres" => job[t].found = live["postgres"]
<1>2. \A t \in Rotators : Turn(t)
  BY DEF UnappliedInv
<1>3. \A t \in Threads : Knows(t)
  BY DEF UnappliedInv
<1>4. NoUnappliedPassword /\ live["postgres"] <= gen
  BY DEF UnappliedInv
<1>5. ASSUME NoUnappliedPassword', live'["postgres"] <= gen',
             \A t \in Rotators : Turn(t)', \A t \in Threads : Knows(t)'
      PROVE  UnappliedInv'
  BY <1>1, <1>5 DEF UnappliedInv
\* A step of the only thread that runs.
<1>6. ASSUME NEW t \in Rotators, stage'[Boot] = "idle",
             NoUnappliedPassword', live'["postgres"] <= gen', Turn(t)', Knows(t)'
      PROVE  UnappliedInv'
  <2>1. \A u \in Rotators : u = t
    BY DEF OneAtATime
  <2>2. Knows(Boot)'
    BY <1>6 DEF Syncing
  <2> QED
    BY <1>1, <1>5, <1>6, <2>1, <2>2
<1>7. ASSUME live' = live, platformEnv' = platformEnv, secret' = secret, gen' = gen, ProcessGone
      PROVE  UnappliedInv'
  <2>1. \A u \in Threads : stage'[u] = "idle" /\ job'[u].next = 0 /\ ~job'[u].ok["postgres"]
    BY <1>7 DEF ProcessGone, NoJob, Absent, Store
  <2>2. \A u \in Rotators : Turn(u)'
    BY <1>1, <1>7, <2>1 DEF PostgresAhead, Healing
  <2>3. \A u \in Threads : Knows(u)'
    BY <2>1 DEF Syncing
  <2> QED
    BY <1>4, <1>5, <1>7, <2>2, <2>3 DEF NoUnappliedPassword
<1>8. ASSUME NEW t \in Rotators, Rotate(t) PROVE UnappliedInv'
  <2>1. t \in Threads /\ Turn(t) /\ Knows(t)
    BY <1>1, <1>2, <1>3
  <2>2. stage[Boot] = "idle" /\ Boot # t
    BY <1>1, <1>8 DEF ControlInv, Rotate, Start, HostAhead, WritePending, Alter, Reply, Reconnect,
       PatchEnv, PatchSecret, Clear, Restart
  <2>3. CASE Start(t)
    <3>1. /\ stage' = [stage EXCEPT ![t] = "ahead"] /\ live' = live /\ platformEnv' = platformEnv
          /\ secret' = secret /\ gen' = gen + 1
      BY <2>3 DEF Start, copies
    <3>2. job'[t].next = gen + 1 /\ ~job'[t].ok["postgres"]
      BY <1>1, <2>1, <2>3 DEF Start, Job, NoJob
    <3>3. Turn(t)' /\ Knows(t)'
      BY <1>1, <1>4, <2>1, <3>1, <3>2 DEF PostgresAhead, Syncing
    <3> QED
      BY <1>1, <1>4, <1>6, <2>1, <2>2, <3>1, <3>3 DEF NoUnappliedPassword
  <2>4. CASE HostAhead(t)
    <3>1. /\ stage[t] = "ahead" /\ stage' = [stage EXCEPT ![t] = "pending"]
          /\ live' = live /\ platformEnv' = platformEnv /\ secret' = secret /\ gen' = gen
      BY <2>4 DEF HostAhead
    <3>2. job'[t].next = job[t].next /\ job'[t].ok = job[t].ok
      <4>1. PICK written \in 0 .. 4 : job' = [job EXCEPT ![t].ahead = (written = 4)]
        BY <2>4 DEF HostAhead
      <4> QED
        BY <1>1, <2>1, <4>1 DEF Job
    <3>3. Turn(t)' /\ Knows(t)'
      BY <1>1, <2>1, <3>1, <3>2 DEF PostgresAhead, Syncing
    <3> QED
      BY <1>1, <1>4, <1>6, <2>1, <2>2, <3>1, <3>3 DEF NoUnappliedPassword
  <2>5. CASE WritePending(t)
    <3>1. /\ stage[t] = "pending"
          /\ live' = live /\ platformEnv' = platformEnv /\ secret' = secret /\ gen' = gen
          /\ \/ stage' = [stage EXCEPT ![t] = "alter"] /\ job' = [job EXCEPT ![t].store = "redis"]
             \/ stage' = [stage EXCEPT ![t] = "idle"] /\ job' = job
      BY <2>5 DEF WritePending, Become
    <3>2. job'[t].next = job[t].next /\ job'[t].ok = job[t].ok
      BY <1>1, <2>1, <3>1, TurnsTo
    <3>3. Turn(t)' /\ Knows(t)'
      BY <1>1, <2>1, <3>1, <3>2 DEF PostgresAhead, Syncing
    <3> QED
      BY <1>1, <1>4, <1>6, <2>1, <2>2, <3>1, <3>3 DEF NoUnappliedPassword
  <2>6. CASE Alter(t)
    <3>1. /\ stage[t] = "alter" /\ platformEnv' = platformEnv /\ secret' = secret /\ gen' = gen
          /\ job' = job
          /\ \/ /\ stage' = [stage EXCEPT ![t] = "reply"]
                /\ live' = [live EXCEPT ![job[t].store] = job[t].next]
             \/ stage' = [stage EXCEPT ![t] = "heal"] /\ live' = live
      BY <2>6 DEF Alter, copies
    <3>2. live["postgres"] < job[t].next
      BY <2>1, <3>1 DEF PostgresAhead
    <3>3. live'["postgres"] = IF stage'[t] = "reply" /\ job[t].store = "postgres"
                                 THEN job[t].next ELSE live["postgres"]
      BY <1>1, <2>1, <3>1
    <3>4. job[t].store \in {"redis", "postgres"}
      BY <1>1, <2>1 DEF Store
    <3>5. Turn(t)' /\ Knows(t)'
      BY <1>1, <2>1, <3>1, <3>2, <3>3, <3>4 DEF PostgresAhead, Syncing, Healing
    <3>6. NoUnappliedPassword' /\ live'["postgres"] <= gen'
      BY <1>1, <1>4, <2>1, <3>1, <3>2, <3>3 DEF NoUnappliedPassword
    <3> QED
      BY <1>1, <1>6, <2>1, <2>2, <3>1, <3>5, <3>6
  <2>7. CASE Reply(t)
    <3>1. /\ stage[t] = "reply" /\ live' = live /\ platformEnv' = platformEnv /\ secret' = secret
          /\ gen' = gen
      BY <2>7 DEF Reply
    <3>2. CASE stage' = [stage EXCEPT ![t] = "heal"] /\ job' = job
      <4>1. Turn(t)' /\ Knows(t)'
        BY <1>1, <2>1, <3>1, <3>2 DEF PostgresAhead, Syncing, Healing
      <4> QED
        BY <1>1, <1>4, <1>6, <2>1, <2>2, <3>1, <3>2, <4>1 DEF NoUnappliedPassword
    <3>3. CASE /\ job' = [job EXCEPT ![t] = Confirmed(job[t], job[t].store)]
               /\ stage' = [stage EXCEPT ![t] = IF job[t].store = "redis" THEN "alter"
                                                                          ELSE "reconnect"]
      <4>1. /\ job'[t].next = job[t].next
            /\ job'[t].ok["postgres"] <=> job[t].store = "postgres" \/ job[t].ok["postgres"]
        BY <1>1, <2>1, <3>3 DEF Confirmed, Job
      <4>2. stage'[t] = IF job[t].store = "redis" THEN "alter" ELSE "reconnect"
        BY <1>1, <2>1, <3>3
      <4>3. job[t].store \in {"redis", "postgres"}
        BY <1>1, <2>1 DEF Store
      <4>4. Turn(t)' /\ Knows(t)'
        BY <2>1, <3>1, <4>1, <4>2, <4>3 DEF PostgresAhead, Syncing, Healing
      <4> QED
        BY <1>1, <1>4, <1>6, <2>1, <2>2, <3>1, <3>3, <4>4 DEF NoUnappliedPassword
    <3> QED
      BY <2>7, <3>2, <3>3 DEF Reply
  <2>8. CASE Reconnect(t)
    <3>1. /\ stage[t] = "reconnect" /\ live' = live /\ platformEnv' = platformEnv
          /\ secret' = secret /\ gen' = gen /\ job' = job
          /\ \/ stage' = [stage EXCEPT ![t] = "patchEnv"]
             \/ stage' = [stage EXCEPT ![t] = "heal"]
          /\ job[t].store = "postgres"
      BY <1>1, <2>8 DEF Reconnect, copies, ControlInv
    <3>2. Turn(t)' /\ Knows(t)'
      BY <1>1, <2>1, <3>1 DEF PostgresAhead, Syncing, Healing
    <3> QED
      BY <1>1, <1>4, <1>6, <2>1, <2>2, <3>1, <3>2 DEF NoUnappliedPassword
  <2>9. CASE PatchEnv(t)
    <3>1. /\ stage[t] = "patchEnv" /\ live' = live /\ secret' = secret /\ gen' = gen
          /\ stage' = [stage EXCEPT ![t] = "patchSecret"]
          /\ job' = [job EXCEPT ![t].store = "postgres"]
          /\ \/ platformEnv'["postgres"] = platformEnv["postgres"]
             \/ job[t].ok["postgres"] /\ platformEnv'["postgres"] = job[t].next
      BY <1>1, <2>9 DEF PatchEnv, Become
    <3>2. job'[t].next = job[t].next /\ job'[t].ok = job[t].ok
      BY <1>1, <2>1, <3>1, TurnsTo
    <3>3. Turn(t)' /\ Knows(t)'
      BY <1>1, <2>1, <3>1, <3>2 DEF PostgresAhead, Syncing, Healing
    <3>4. NoUnappliedPassword'
      BY <1>1, <1>4, <2>1, <3>1 DEF NoUnappliedPassword
    <3> QED
      BY <1>1, <1>4, <1>6, <2>1, <2>2, <3>1, <3>3, <3>4
  <2>10. CASE PatchSecret(t)
    <3>1. /\ stage[t] = "patchSecret" /\ live' = live /\ platformEnv' = platformEnv /\ gen' = gen
          /\ \/ /\ stage' = [stage EXCEPT ![t] = "patchSecret"]
                /\ job' = [job EXCEPT ![t].store = "redis"]
             \/ stage' = [stage EXCEPT ![t] = "clear"] /\ job' = job
      BY <2>10 DEF PatchSecret, Become
    <3>2. \/ secret'["postgres"] = secret["postgres"]
          \/ job[t].ok["postgres"] /\ secret'["postgres"] = job[t].next
      BY <1>1, <2>1, <2>10 DEF PatchSecret
    <3>3. job'[t].next = job[t].next /\ job'[t].ok = job[t].ok
      BY <1>1, <2>1, <3>1, TurnsTo
    <3>4. Turn(t)' /\ Knows(t)'
      BY <1>1, <2>1, <3>1, <3>3 DEF PostgresAhead, Syncing, Healing
    <3>5. NoUnappliedPassword'
      BY <1>1, <1>4, <2>1, <3>1, <3>2 DEF NoUnappliedPassword
    <3> QED
      BY <1>1, <1>4, <1>6, <2>1, <2>2, <3>1, <3>4, <3>5
  <2>11. CASE Clear(t)
    <3>1. /\ stage[t] = "clear" /\ live' = live /\ platformEnv' = platformEnv
          /\ secret' = secret /\ gen' = gen /\ job' = job
          /\ stage' = [stage EXCEPT ![t] = "restart"]
      BY <2>11 DEF Clear
    <3>2. Turn(t)' /\ Knows(t)'
      BY <1>1, <2>1, <3>1 DEF PostgresAhead, Syncing, Healing
    <3> QED
      BY <1>1, <1>4, <1>6, <2>1, <2>2, <3>1, <3>2 DEF NoUnappliedPassword
  <2>12. CASE Restart(t)
    <3>1. /\ stage[t] = "restart" /\ live' = live /\ platformEnv' = platformEnv
          /\ secret' = secret /\ gen' = gen
      BY <2>12 DEF Restart, copies
    <3>2. CASE ProcessGone
      BY <1>7, <3>1, <3>2
    <3>3. CASE stage' = [stage EXCEPT ![t] = "idle"] /\ job' = job
      <4>1. Turn(t)' /\ Knows(t)'
        BY <1>1, <2>1, <3>1, <3>3 DEF PostgresAhead, Syncing, Healing
      <4> QED
        BY <1>1, <1>4, <1>6, <2>1, <2>2, <3>1, <3>3, <4>1 DEF NoUnappliedPassword
    <3> QED
      BY <2>12, <3>2, <3>3 DEF Restart
  <2> QED
    BY <1>8, <2>3, <2>4, <2>5, <2>6, <2>7, <2>8, <2>9, <2>10, <2>11, <2>12 DEF Rotate
\* The end of a recovery.
<1>9. ASSUME NEW t \in Threads, stage[t] \in Healing,
             \/ AfterHeal(t, job[t].store)
             \/ HealFailed(t, job[t].store) /\ platformEnv' = platformEnv /\ secret' = secret,
             live' = live, gen' = gen, NoUnappliedPassword'
      PROVE  UnappliedInv'
  <2>1. CASE ProcessGone /\ platformEnv' = platformEnv /\ secret' = secret
    BY <1>7, <1>9, <2>1
  <2>2. CASE AfterHeal(t, job[t].store)
    <3>1. \/ \E st \in Store : job' = [job EXCEPT ![t].store = st]
          \/ job' = job
      BY <1>1, <2>2 DEF AfterHeal, Become
    <3>2. \A u \in Threads : /\ job'[u].next = job[u].next /\ job'[u].ok = job[u].ok
                             /\ job'[u].found = job[u].found
      BY <3>1, TurnsTo
    <3>3. \A u \in Threads : u # t => stage'[u] = stage[u] /\ job'[u] = job[u]
      BY <1>1, <2>2, <3>1, TurnsTo DEF AfterHeal, Become
    <3>4. /\ stage'[t] \notin Syncing
          /\ PostgresAhead(t)' => PostgresAhead(t) \/ t = Boot
          /\ stage'[t] # "reply"
      BY <1>1, <1>9, <2>2 DEF AfterHeal, Become, Healing, Syncing, PostgresAhead
    <3>5. \A u \in Rotators : Turn(u)'
      <4> SUFFICES ASSUME NEW u \in Rotators PROVE Turn(u)'
        OBVIOUS
      <4>1. CASE u = t
        BY <1>1, <1>2, <1>9, <3>2, <3>4, <4>1
      <4>2. CASE u # t
        BY <1>1, <1>2, <1>9, <3>2, <3>3, <4>2 DEF PostgresAhead
      <4> QED
        BY <4>1, <4>2
    <3>6. \A u \in Threads : Knows(u)'
      BY <1>3, <1>9, <3>3, <3>4
    <3> QED
      BY <1>4, <1>5, <1>9, <3>5, <3>6
  <2> QED
    BY <1>9, <2>1, <2>2 DEF HealFailed
<1>10. ASSUME NEW t \in Threads, Recover(t) PROVE UnappliedInv'
  <2>1. CASE Heal(t)
    <3>1. /\ stage[t] = "heal" /\ live' = live /\ platformEnv' = platformEnv /\ secret' = secret
          /\ gen' = gen
      BY <2>1 DEF Heal, copies
    <3>2. NoUnappliedPassword'
      BY <1>4, <3>1 DEF NoUnappliedPassword
    <3>3. CASE AfterHeal(t, job[t].store) \/ HealFailed(t, job[t].store)
      BY <1>9, <3>1, <3>2, <3>3 DEF Healing
    <3>4. CASE /\ stage' = [stage EXCEPT ![t] = "syncEnv"]
               /\ job' = [job EXCEPT ![t].found = live[job[t].store]]
      <4>1. /\ job'[t].store = job[t].store /\ job'[t].found = live[job[t].store]
            /\ job'[t].next = job[t].next /\ job'[t].ok = job[t].ok
            /\ stage'[t] = "syncEnv"
            /\ \A u \in Threads : u # t => job'[u] = job[u] /\ stage'[u] = stage[u]
        BY <1>1, <3>4 DEF Job
      <4>2. \A u \in Rotators : Turn(u)'
        <5> SUFFICES ASSUME NEW u \in Rotators PROVE Turn(u)'
          OBVIOUS
        <5>1. CASE u = t
          BY <1>2, <3>1, <4>1, <5>1 DEF PostgresAhead, Healing
        <5>2. CASE u # t
          BY <1>1, <1>2, <3>1, <4>1, <5>2 DEF PostgresAhead
        <5> QED
          BY <5>1, <5>2
      <4>3. \A u \in Threads : Knows(u)'
        BY <1>3, <3>1, <4>1
      <4> QED
        BY <1>4, <1>5, <3>1, <3>2, <4>2, <4>3
    <3> QED
      BY <2>1, <3>3, <3>4 DEF Heal
  <2>2. CASE SyncEnv(t)
    <3>1. /\ stage[t] = "syncEnv" /\ live' = live /\ secret' = secret /\ job' = job /\ gen' = gen
          /\ stage' = [stage EXCEPT ![t] = "syncSecret"]
      BY <2>2 DEF SyncEnv
    <3>2. platformEnv'["postgres"] \in {platformEnv["postgres"], live["postgres"]}
      BY <1>1, <1>3, <2>2, <3>1 DEF SyncEnv, Syncing
    <3>3. NoUnappliedPassword'
      BY <1>1, <1>4, <3>1, <3>2 DEF NoUnappliedPassword
    <3>4. \A u \in Rotators : Turn(u)'
      BY <1>1, <1>2, <3>1 DEF PostgresAhead, Healing
    <3>5. \A u \in Threads : Knows(u)'
      BY <1>1, <1>3, <3>1 DEF Syncing
    <3> QED
      BY <1>4, <1>5, <3>1, <3>3, <3>4, <3>5
  <2>3. CASE SyncSecret(t)
    <3>1. /\ stage[t] = "syncSecret" /\ live' = live /\ platformEnv' = platformEnv /\ gen' = gen
          /\ AfterHeal(t, job[t].store)
      BY <2>3 DEF SyncSecret
    <3>2. secret'["postgres"] \in {secret["postgres"], live["postgres"]}
      BY <1>1, <1>3, <2>3, <3>1 DEF SyncSecret, Syncing
    <3>3. NoUnappliedPassword'
      BY <1>1, <1>4, <3>1, <3>2 DEF NoUnappliedPassword
    <3> QED
      BY <1>9, <3>1, <3>3 DEF Healing
  <2> QED
    BY <1>10, <2>1, <2>2, <2>3 DEF Recover
<1>11. CASE Crash
  BY <1>7, <1>11 DEF Crash, copies
<1>12. ASSUME BootStart \/ BootConnect PROVE UnappliedInv'
  <2>1. live' = live /\ platformEnv' = platformEnv /\ secret' = secret /\ gen' = gen
    BY <1>12 DEF BootStart, BootConnect, copies
  <2>2. CASE ProcessGone
    BY <1>7, <2>1, <2>2
  <2>3. CASE /\ \E st \in Stages \ Syncing : stage' = [stage EXCEPT ![Boot] = st]
             /\ job' = job \/ \E st \in Store : job' = [job EXCEPT ![Boot].store = st]
    <3>1. \A u \in Rotators : stage'[u] = stage[u] /\ job'[u] = job[u]
      BY <1>1, <2>3
    <3>2. stage'[Boot] \notin Syncing
      BY <1>1, <2>3
    <3>3. \A u \in Rotators : Turn(u)' /\ Knows(u)'
      BY <1>1, <1>2, <1>3, <2>1, <3>1 DEF PostgresAhead
    <3> QED
      BY <1>1, <1>4, <1>5, <2>1, <3>2, <3>3 DEF NoUnappliedPassword
  <2> QED
    BY <1>1, <1>12, <2>2, <2>3 DEF BootStart, BootConnect, Become, Stages, Syncing
<1>13. CASE RedisRestart
  <2>1. /\ live'["postgres"] = live["postgres"] /\ platformEnv' = platformEnv /\ secret' = secret
        /\ gen' = gen /\ stage' = stage /\ job' = job
    BY <1>1, <1>13 DEF RedisRestart, copies
  <2> QED
    BY <1>2, <1>3, <1>4, <1>5, <2>1 DEF NoUnappliedPassword, PostgresAhead
<1>14. CASE UNCHANGED vars
  <2>1. UNCHANGED <<live, platformEnv, secret, gen, stage, job>>
    BY <1>14 DEF vars, copies
  <2> QED
    BY <1>2, <1>3, <1>4, <1>5, <2>1 DEF NoUnappliedPassword, PostgresAhead
<1> QED
  BY <1>1, <1>8, <1>10, <1>11, <1>12, <1>13, <1>14 DEF Next, BootStep

\* With one rotation at a time Kubernetes never holds a Postgres password the server has not
\* taken, whatever fails and whenever the API dies: a pod never starts with a password that is
\* still to come.
THEOREM NeverUnapplied == ASSUME OneAtATime PROVE Spec => []NoUnappliedPassword
<1>1. TypeOK /\ UnappliedInv /\ [Next]_vars => TypeOK' /\ UnappliedInv'
  BY TypeStep, UnappliedInductive
<1>2. UnappliedInv => NoUnappliedPassword
  BY DEF UnappliedInv
<1> QED
  BY <1>1, <1>2, TypeInit, UnappliedInit, PTL DEF Spec

-----------------------------------------------------------------------------
(* Deployments *)

-----------------------------------------------------------------------------
(* The inductive invariant *)

Early == {"timer", "comment", "building", "deploying", "apply", "poll"}
Own == {"preview", "argo"}

\* Deployment r may say that it is deployed.
Claim(r) == r \notin restarted /\ kind[r] \in Own => success[r]

\* Deployment r may say that it is expired.
Gone(r) == r <= cutoff /\ (~kept => running # r)

IsOver(copy) == copy.status = "terminated" /\ copy.stopped

RowInv(r) ==
    /\ kind[r] = "none" => ~success[r] /\ place[r] = "idle" /\ told[r] = "nothing"
    /\ r <= cutoff => kind[r] # "none" /\ place[r] = "idle"
    /\ about[r] \in {r, Nobody}
    /\ place[r] \in Early /\ kind[r] \in Own => ~success[r]
    /\ place[r] = "poll" => kind[r] \in Own
    /\ row[r].status = "deployed" => Claim(r)
    /\ row[r].status = "expired" => Gone(r)
    /\ told[r] = "terminated alone" => IsOver(row[r])
    /\ place[r] \notin {"idle", "followup", "catch"} /\ r \notin touched =>
         row[r].status \in InProgress
    /\ place[r] \in {"building", "deploying"} => entity[r].status \in InProgress

\* What the decay check has listed is old, and was not over when it was listed.
ListedInv(r) ==
    r \in listed =>
        /\ r <= cutoff
        /\ found[r].status = "deployed" => Claim(r)
        /\ told[r] # "terminated alone"

\* A copy of a row, and who may hold one.
ActorInv(a) ==
    LET r == about[a] IN
    /\ place[a] = "idle" <=> r = Nobody
    /\ place[a] = "idle" => ~chosen[a] /\ entity[a].status = "pending"
    /\ place[a] \in {"restart", "wait"} => r \in restarted
    /\ r # Nobody =>
         /\ kind[r] # "none"
         /\ entity[a].status = "deployed" => Claim(r)
         /\ entity[a].status = "expired" => Gone(r)
         /\ told[r] = "terminated alone" =>
              /\ a \in Ops /\ place[a] \in {"terminate", "scale"}
              /\ IsOver(entity[a]) /\ (chosen[a] => IsOver(selected[a]))
         /\ a # r /\ place[r] # "idle" => r \in touched
         /\ a = Decay => r \in listed

\* A termination nobody shares: it works on the row as it is.
LoneInv(o) ==
    LET r == about[o] IN
    place[o] = "terminate" /\ o \notin shared =>
        /\ IsOver(entity[o]) /\ (chosen[o] => selected[o] = row[r])
        /\ r \notin listed
        /\ \A a \in Actors : a # o => about[a] # r

HistoryInv ==
    /\ \A r \in Rows : RowInv(r) /\ ListedInv(r)
    /\ \A a \in Actors : ActorInv(a)
    /\ \A o \in Ops : LoneInv(o)

IInv == DeploymentsTypeOK /\ HistoryInv

-----------------------------------------------------------------------------
(* Actors and rows *)

LEMMA Sets ==
    /\ Rows \subseteq Actors /\ Ops \subseteq Actors /\ Decay \in Actors
    /\ Nobody \notin Rows /\ Decay \notin Rows /\ Decay \notin Ops
    /\ \A r \in Rows : r \in Nat /\ r \notin Ops
    /\ \A a \in Actors : a \in Rows \/ a \in Ops \/ a = Decay
BY DeploymentsAssumption DEF Rows, Ops, Actors, Decay, Nobody

LEMMA RowCopies ==
    ASSUME NEW x \in Row, NEW s \in Status, NEW b \in BOOLEAN
    PROVE  /\ [x EXCEPT !.status = s] \in Row
           /\ [x EXCEPT !.status = s].status = s /\ [x EXCEPT !.status = s].stopped = x.stopped
           /\ [x EXCEPT !.status = s, !.stopped = b] \in Row
           /\ [x EXCEPT !.status = s, !.stopped = b].status = s
           /\ [x EXCEPT !.status = s, !.stopped = b].stopped = b
           /\ [x EXCEPT !.stopped = b] \in Row
           /\ [x EXCEPT !.stopped = b].status = x.status
           /\ [x EXCEPT !.stopped = b].stopped = b
           /\ Made(s) \in Row /\ Made(s).status = s
           /\ x.status \in Status /\ x.stopped \in BOOLEAN
BY DEF Row, Made

\* What save writes is a row again, column by column the entity's or the row's.
LEMMA SavedColumns ==
    ASSUME NEW x \in Row, NEW sel \in Row, NEW e \in Row
    PROVE  /\ Saved(x, sel, e) \in Row
           /\ Saved(x, sel, e).status = IF e.status # sel.status THEN e.status ELSE x.status
           /\ Saved(x, sel, e).stopped = IF e.stopped # sel.stopped THEN e.stopped ELSE x.stopped
<1>1. DOMAIN x = {"status", "stopped"}
  BY DEF Row
<1>2. Saved(x, sel, e) = [c \in {"status", "stopped"} |-> IF e[c] # sel[c] THEN e[c] ELSE x[c]]
  BY <1>1 DEF Saved
<1>3. Saved(x, sel, e) \in Row
  BY <1>2 DEF Row
<1> QED
  BY <1>2, <1>3

-----------------------------------------------------------------------------
(* A move of one actor *)

WorkType ==
    /\ place \in [Actors -> Places]
    /\ about \in [Actors -> Rows \cup {Nobody}]
    /\ entity \in [Actors -> Row] /\ selected \in [Actors -> Row]
    /\ chosen \in [Actors -> BOOLEAN]

\* Actor a moves to stage st and is then about r; the others stay.
Moves(a, st, r) ==
    /\ WorkType'
    /\ place'[a] = st /\ about'[a] = r
    /\ \A b \in Actors \ {a} :
         /\ place'[b] = place[b] /\ about'[b] = about[b] /\ entity'[b] = entity[b]
         /\ selected'[b] = selected[b] /\ chosen'[b] = chosen[b]

LEMMA DoneMoves ==
    ASSUME DeploymentsTypeOK, NEW a \in Actors, Done(a)
    PROVE  Moves(a, "idle", Nobody) /\ ~chosen'[a]
<1>1. NoRow \in Row /\ "idle" \in Places
  BY RowCopies DEF NoRow, Made, Row, Status, Places
<1> QED
  BY <1>1 DEF Done, GoTo, Moves, WorkType, DeploymentsTypeOK

LEMMA FoundMoves ==
    ASSUME DeploymentsTypeOK, NEW a \in Actors, NEW st \in Places, NEW copy \in Row, Found(a, st, copy)
    PROVE  /\ Moves(a, st, about[a]) /\ entity'[a] = copy
           /\ selected'[a] = selected[a] /\ chosen'[a] = chosen[a]
BY DEF Found, GoTo, Moves, WorkType, DeploymentsTypeOK

LEMMA OnwardMoves ==
    ASSUME DeploymentsTypeOK, NEW a \in Actors, NEW st \in Places, NEW copy \in Row, Onward(a, st, copy)
    PROVE  Moves(a, st, about[a]) /\ entity'[a] = copy /\ ~chosen'[a]
<1>1. NoRow \in Row
  BY DEF NoRow, Made, Row, Status
<1> QED
  BY <1>1 DEF Onward, GoTo, Moves, WorkType, DeploymentsTypeOK

LEMMA GoMoves ==
    ASSUME DeploymentsTypeOK, NEW a \in Actors, NEW st \in Places, GoTo(a, st),
           UNCHANGED <<about, entity, selected, chosen>>
    PROVE  /\ Moves(a, st, about[a]) /\ entity'[a] = entity[a]
           /\ selected'[a] = selected[a] /\ chosen'[a] = chosen[a]
BY DEF GoTo, Moves, WorkType, DeploymentsTypeOK

\* An actor that is about a deployment is at work.
LEMMA AtWork ==
    ASSUME IInv, NEW a \in Actors
    PROVE  /\ place[a] # "idle" => about[a] \in Rows /\ kind[about[a]] # "none"
           /\ place[a] # "idle" /\ a \in Rows => about[a] = a
           /\ entity[a] \in Row /\ selected[a] \in Row /\ ActorInv(a)
           /\ a \in Rows => RowInv(a)
<1>1. /\ ActorInv(a) /\ about[a] \in Rows \cup {Nobody}
      /\ entity[a] \in Row /\ selected[a] \in Row
      /\ a \in Rows => RowInv(a)
  BY DEF IInv, HistoryInv, DeploymentsTypeOK
<1> QED
  BY <1>1 DEF ActorInv, RowInv

-----------------------------------------------------------------------------
(* Steps that write no row *)

\* Only the histories of the actor's own deployment and what runs in Kubernetes may change.
LEMMA QuietTouch ==
    ASSUME IInv, NEW a \in Actors, NEW st \in Places, NEW r \in {about[a], Nobody},
           place[a] # "idle", Moves(a, st, r), st # "terminate",
           UNCHANGED <<kind, row, decay, requests, restarted, shared, kept, told>>, touched \subseteq touched',
           \A q \in Rows \ {a} : success'[q] = success[q],
           a \in Rows => success'[a] = success[a] \/ ~success[a],
           running' = running \/ (a \in Rows /\ running' = a),
           ActorInv(a)', a \in Rows => RowInv(a)'
    PROVE  HistoryInv'
<1> USE Sets
<1>1. /\ listed' = listed /\ found' = found /\ cutoff' = cutoff /\ kind' = kind /\ row' = row
      /\ touched \subseteq touched' /\ restarted' = restarted /\ shared' = shared /\ kept' = kept
      /\ told' = told
  BY DEF decay
<1>2. ASSUME NEW q \in Rows, a \in Rows => q # a \/ success'[a] = success[a] PROVE Claim(q)' <=> Claim(q)
  BY <1>1, <1>2 DEF Claim
<1>3. ASSUME NEW q \in Rows, Claim(q), a = q, a \in Rows, ~success[a] PROVE Claim(q)'
  BY <1>1, <1>3 DEF Claim
<1>4. ASSUME NEW q \in Rows, Claim(q) PROVE Claim(q)'
  BY <1>2, <1>3, <1>4
<1>5. ASSUME NEW q \in Rows, Gone(q) PROVE Gone(q)'
  <2>1. RowInv(q)
    BY DEF IInv, HistoryInv
  <2>2. q # a
    BY <1>5, <2>1 DEF Gone, RowInv
  <2> QED
    BY <1>1, <1>5, <2>2 DEF Gone
<1>6. \A b \in Actors : ActorInv(b)
  BY DEF IInv, HistoryInv
<1>7. ASSUME NEW q \in Rows PROVE RowInv(q)'
  <2>1. CASE q = a
    BY <2>1
  <2>2. CASE q # a
    <3>1. RowInv(q) /\ q \in Actors
      BY DEF IInv, HistoryInv
    <3>2. /\ place'[q] = place[q] /\ about'[q] = about[q] /\ entity'[q] = entity[q]
          /\ success'[q] = success[q]
      BY <2>2, <3>1 DEF Moves
    <3> QED
      BY <1>1, <1>4, <1>5, <3>1, <3>2 DEF RowInv
  <2> QED
    BY <2>1, <2>2
<1>8. ASSUME NEW q \in Rows PROVE ListedInv(q)'
  <2>1. ListedInv(q)
    BY DEF IInv, HistoryInv
  <2> QED
    BY <1>1, <1>4, <2>1 DEF ListedInv
<1>9. ASSUME NEW b \in Actors PROVE ActorInv(b)'
  <2>1. CASE b = a
    BY <2>1
  <2>2. CASE b # a
    <3>1. ActorInv(b) /\ about[b] \in Rows \cup {Nobody}
      BY DEF IInv, HistoryInv, DeploymentsTypeOK
    <3>2. /\ place'[b] = place[b] /\ about'[b] = about[b] /\ entity'[b] = entity[b]
          /\ selected'[b] = selected[b] /\ chosen'[b] = chosen[b]
      BY <2>2 DEF Moves
    <3>3. about[b] \in Rows /\ place'[about[b]] # "idle" => place[about[b]] # "idle"
      BY DEF Moves
    <3> QED
      BY <1>1, <1>4, <1>5, <3>1, <3>2, <3>3 DEF ActorInv
  <2> QED
    BY <2>1, <2>2
<1>10. ASSUME NEW o \in Ops PROVE LoneInv(o)'
  <2> SUFFICES ASSUME place'[o] = "terminate", o \notin shared'
               PROVE  /\ IsOver(entity'[o]) /\ (chosen'[o] => selected'[o] = row'[about'[o]])
                      /\ about'[o] \notin listed'
                      /\ \A b \in Actors : b # o => about'[b] # about'[o]
    BY DEF LoneInv, IsOver
  <2>1. o # a /\ o \in Actors
    BY DEF Moves
  <2>2. /\ place'[o] = place[o] /\ about'[o] = about[o] /\ entity'[o] = entity[o]
        /\ selected'[o] = selected[o] /\ chosen'[o] = chosen[o]
    BY <2>1 DEF Moves
  <2>3. LoneInv(o) /\ ActorInv(o)
    BY <2>1 DEF IInv, HistoryInv
  <2>4. about[o] # Nobody
    BY <2>2, <2>3 DEF ActorInv
  <2>5. ASSUME NEW b \in Actors, b # o PROVE about'[b] # about'[o]
    BY <1>1, <2>2, <2>3, <2>4, <2>5 DEF LoneInv, Moves
  <2> QED
    BY <1>1, <2>2, <2>3, <2>5 DEF LoneInv
<1> QED
  BY <1>7, <1>8, <1>9, <1>10 DEF HistoryInv

LEMMA QuietMove ==
    ASSUME IInv, NEW a \in Actors, NEW st \in Places, NEW r \in {about[a], Nobody},
           place[a] # "idle", Moves(a, st, r), st # "terminate",
           UNCHANGED <<kind, row, decay, history>>,
           \A q \in Rows \ {a} : success'[q] = success[q],
           a \in Rows => success'[a] = success[a] \/ ~success[a],
           running' = running \/ (a \in Rows /\ running' = a),
           ActorInv(a)', a \in Rows => RowInv(a)'
    PROVE  HistoryInv'
<1>1. UNCHANGED <<kind, row, decay, requests, restarted, shared, kept, told>> /\ touched \subseteq touched'
  BY DEF history
<1> QED
  BY <1>1, QuietTouch

\* What a deployment says stays true while its claims do.
LEMMA ClaimStays ==
    ASSUME NEW q, restarted \subseteq restarted', kind'[q] = kind[q], success'[q] = success[q],
           Claim(q)
    PROVE  Claim(q)'
BY DEF Claim

LEMMA GoneStays ==
    ASSUME NEW q \in Rows, cutoff' = cutoff, running' \in {running, Nobody}, kept = TRUE => kept' = TRUE, kept \in BOOLEAN,
           kept' \in BOOLEAN, Gone(q)
    PROVE  Gone(q)'
<1>1. q # Nobody
  BY Sets
<1>2. ~kept' => running' # q
  BY <1>1 DEF Gone
<1>3. q <= cutoff'
  BY DEF Gone
<1> QED
  BY <1>2, <1>3 DEF Gone

-----------------------------------------------------------------------------
(* Steps that save a row *)

\* What is saved tells the truth if the entity and the row do.
LEMMA SavedIsTrue ==
    ASSUME IInv, NEW a \in Actors, place[a] # "idle"
    PROVE  LET r == about[a]
               new == Saved(row[r], selected[a], entity[a])
           IN  /\ new \in Row
               /\ new.status \in {row[r].status, entity[a].status}
               /\ new.status = "deployed" => Claim(r)
               /\ new.status = "expired" => Gone(r)
               /\ told[r] = "terminated alone" => IsOver(new)
               /\ a \in Ops /\ place[a] = "terminate" /\ a \notin shared /\ chosen[a] => IsOver(new)
<1> DEFINE r == about[a]
           new == Saved(row[r], selected[a], entity[a])
<1>1. /\ r \in Rows /\ r # Nobody /\ entity[a] \in Row /\ selected[a] \in Row /\ ActorInv(a)
  BY AtWork, Sets
<1>2. row[r] \in Row /\ RowInv(r)
  BY <1>1 DEF IInv, HistoryInv, DeploymentsTypeOK
<1>3. /\ new \in Row
      /\ new.status = IF entity[a].status # selected[a].status THEN entity[a].status ELSE row[r].status
      /\ new.stopped = IF entity[a].stopped # selected[a].stopped THEN entity[a].stopped ELSE row[r].stopped
  BY <1>1, <1>2, SavedColumns
<1> HIDE DEF new
<1>4. new.status = "deployed" => Claim(r)
  BY <1>1, <1>2, <1>3 DEF ActorInv, RowInv
<1>5. new.status = "expired" => Gone(r)
  BY <1>1, <1>2, <1>3 DEF ActorInv, RowInv
<1>6. ASSUME told[r] = "terminated alone" PROVE IsOver(new)
  <2>1. IsOver(entity[a]) /\ IsOver(row[r])
    BY <1>1, <1>2, <1>6 DEF ActorInv, RowInv
  <2> QED
    BY <1>3, <2>1 DEF IsOver
<1>7. ASSUME a \in Ops, place[a] = "terminate", a \notin shared, chosen[a] PROVE IsOver(new)
  <2>1. LoneInv(a)
    BY <1>7 DEF IInv, HistoryInv
  <2>2. IsOver(entity[a]) /\ selected[a] = row[r]
    BY <1>7, <2>1 DEF LoneInv
  <2> QED
    BY <1>3, <2>2 DEF IsOver
<1> QED
  BY <1>3, <1>4, <1>5, <1>6, <1>7 DEF new

\* The actor saves its row, or gives up; it goes on with the row, or is done with it.
LEMMA UpdateMove ==
    ASSUME IInv, NEW a \in Actors, NEW st \in Places, NEW nx \in {about[a], Nobody},
           place[a] # "idle", Moves(a, st, nx), ~chosen'[a],
           Updated(a) \/ UNCHANGED row,
           UNCHANGED <<kind, success, cutoff, running, touched, restarted, kept>>,
           shared \subseteq shared' \cup {a}, listed' \subseteq listed,
           \A q \in listed' : found'[q] = found[q],
           nx = Nobody => st = "idle" /\ entity'[a].status = "pending",
           nx # Nobody =>
             /\ a # Decay /\ place[a] \notin {"terminate", "scale"} /\ st \notin {"idle", "terminate"}
             /\ entity'[a].status \in InProgress \/ entity'[a].status = entity[a].status
             /\ st \in {"restart", "wait"} => place[a] \in {"restart", "wait"},
           a = Decay \/ UNCHANGED listed,
           \/ UNCHANGED told
           \/ /\ a \in Ops /\ place[a] = "terminate" /\ nx = Nobody /\ Updated(a)
              /\ \A q \in Rows \ {about[a]} : told'[q] = told[q]
              /\ told'[about[a]] = "terminated alone" => a \notin shared,
           a \in Rows =>
             \/ st \in {"idle", "followup"}
             \/ /\ st \in {"deploying", "apply"} /\ place[a] \in {"building", "deploying"}
                /\ entity'[a].status \in InProgress
    PROVE  HistoryInv'
<1> USE Sets
<1>0. PICK r \in Rows : r = about[a]
  BY AtWork
<1> DEFINE new == Saved(row[r], selected[a], entity[a])
<1>1. /\ kind' = kind /\ success' = success /\ cutoff' = cutoff /\ running' = running
      /\ touched' = touched /\ restarted' = restarted /\ kept' = kept /\ kept \in BOOLEAN
  BY DEF IInv, DeploymentsTypeOK
<1>2. /\ r \in Rows /\ r # Nobody /\ kind[r] # "none" /\ (a \in Rows => r = a)
      /\ ActorInv(a) /\ RowInv(r)
  BY <1>0, AtWork DEF IInv, HistoryInv
<1>3. /\ new \in Row
      /\ new.status \in {row[r].status, entity[a].status}
      /\ new.status = "deployed" => Claim(r)
      /\ new.status = "expired" => Gone(r)
      /\ told[r] = "terminated alone" => IsOver(new)
      /\ a \in Ops /\ place[a] = "terminate" /\ a \notin shared /\ chosen[a] => IsOver(new)
  BY <1>0, SavedIsTrue
<1>4. row'[r] \in {new, row[r]} /\ (Updated(a) => row'[r] = new /\ chosen[a])
      /\ \A q \in Rows \ {r} : row'[q] = row[q]
  <2>1. row \in [Rows -> Row]
    BY DEF IInv, DeploymentsTypeOK
  <2>2. Updated(a) => row' = [row EXCEPT ![r] = new] /\ chosen[a]
    BY <1>0 DEF Updated
  <2> HIDE DEF new
  <2>3. CASE Updated(a)
    BY <2>1, <2>2, <2>3
  <2>4. CASE UNCHANGED row
    BY <2>4, <2>2, <2>1
  <2> QED
    BY <2>3, <2>4
<1> HIDE DEF new
<1>5. ASSUME NEW q \in Rows PROVE (Claim(q) => Claim(q)') /\ (Gone(q) => Gone(q)')
  <2>1. Claim(q) => Claim(q)'
    BY <1>1, ClaimStays
  <2>2. Gone(q) => Gone(q)'
    BY <1>1, GoneStays
  <2> QED
    BY <2>1, <2>2
<1>6. ASSUME told'[r] = "terminated alone"
      PROVE  /\ IsOver(row'[r])
             /\ \/ told[r] = "terminated alone"
                \/ a \in Ops /\ place[a] = "terminate" /\ a \notin shared /\ nx = Nobody
  <2>1. CASE told[r] = "terminated alone"
    <3>1. IsOver(row[r]) /\ IsOver(new)
      BY <1>2, <1>3, <2>1 DEF RowInv
    <3> QED
      BY <1>4, <2>1, <3>1
  <2>2. CASE told[r] # "terminated alone"
    <3>1. a \in Ops /\ place[a] = "terminate" /\ a \notin shared /\ nx = Nobody /\ Updated(a)
      BY <1>0, <1>6, <2>2
    <3> QED
      BY <1>3, <1>4, <3>1
  <2> QED
    BY <2>1, <2>2
<1>7. \A q \in Rows \ {r} : told'[q] = told[q]
  BY <1>0
<1>8. \A b \in Actors \ {a} :
        /\ place'[b] = place[b] /\ about'[b] = about[b] /\ entity'[b] = entity[b]
        /\ selected'[b] = selected[b] /\ chosen'[b] = chosen[b]
  BY DEF Moves
<1>9. place'[a] = st /\ about'[a] = nx
  BY DEF Moves
<1>10. RowInv(r)'
  <2>1. a \in Rows => r = a
    BY <1>2
  <2>2. r # a => a \notin Rows /\ place'[r] = place[r] /\ about'[r] = about[r] /\ entity'[r] = entity[r]
    BY <1>2, <1>8
  <2>3. r <= cutoff => place'[r] = "idle"
    BY <1>2, <2>2 DEF RowInv
  <2>4. about'[r] \in {r, Nobody}
    BY <1>0, <1>2, <1>9, <2>2 DEF RowInv
  <2>5. place'[r] \in Early /\ kind[r] \in Own => ~success[r]
    BY <1>2, <1>9, <2>2 DEF RowInv, Early
  <2>6. (row'[r].status = "deployed" => Claim(r)) /\ (row'[r].status = "expired" => Gone(r))
    BY <1>2, <1>3, <1>4 DEF RowInv
  <2>7. ASSUME place'[r] \notin {"idle", "followup", "catch"}, r \notin touched
        PROVE  row'[r].status \in InProgress
    <3>1. r = a
      BY <1>0, <1>2, <2>2, <2>7 DEF ActorInv
    <3>2. place[r] \in {"building", "deploying"}
      BY <1>2, <1>9, <2>7, <3>1
    <3>3. row[r].status \in InProgress /\ entity[a].status \in InProgress
      BY <1>2, <2>7, <3>1, <3>2 DEF RowInv
    <3> QED
      BY <1>3, <1>4, <3>3
  <2>8. place'[r] \in {"building", "deploying"} => entity'[r].status \in InProgress
    BY <1>2, <1>9, <2>2 DEF RowInv
  <2>9. told'[r] = "terminated alone" => IsOver(row'[r])
    BY <1>6
  <2>10. place'[r] = "poll" => kind[r] \in Own
    BY <1>2, <1>9, <2>2 DEF RowInv
  <2> QED
    BY <1>1, <1>2, <1>5, <2>3, <2>4, <2>5, <2>6, <2>7, <2>8, <2>9, <2>10 DEF RowInv, IsOver
<1>11. ASSUME NEW q \in Rows PROVE RowInv(q)'
  <2>1. CASE q = r
    BY <1>10, <2>1
  <2>2. CASE q # r
    <3>1. q # a
      BY <1>2, <2>2
    <3>2. RowInv(q)
      BY DEF IInv, HistoryInv
    <3> QED
      BY <1>1, <1>4, <1>5, <1>7, <1>8, <2>2, <3>1, <3>2 DEF RowInv, IsOver
  <2> QED
    BY <2>1, <2>2
<1>12. ASSUME NEW q \in Rows PROVE ListedInv(q)'
  <2>1. ListedInv(q)
    BY DEF IInv, HistoryInv
  <2>2. q \in listed' /\ q = r => told'[r] # "terminated alone"
    <3> SUFFICES ASSUME q \in listed', q = r, told'[r] = "terminated alone" PROVE FALSE
      OBVIOUS
    <3>1. a \in Ops /\ place[a] = "terminate" /\ a \notin shared
      BY <1>6, <2>1 DEF ListedInv
    <3>2. LoneInv(a)
      BY <3>1 DEF IInv, HistoryInv
    <3> QED
      BY <1>0, <3>1, <3>2 DEF LoneInv
  <2> QED
    BY <1>1, <1>5, <1>7, <2>1, <2>2 DEF ListedInv
<1>13. ActorInv(a)'
  <2>1. CASE nx = Nobody
    BY <1>9, <2>1 DEF ActorInv
  <2>2. CASE nx # Nobody
    <3>1. nx = r /\ UNCHANGED told
      BY <1>0, <2>2
    <3>2. told[r] # "terminated alone"
      BY <1>0, <1>2, <2>2 DEF ActorInv
    <3>3. entity'[a].status = "deployed" => Claim(r)
      BY <1>0, <1>2, <2>2 DEF ActorInv, InProgress
    <3>4. entity'[a].status = "expired" => Gone(r)
      BY <1>0, <1>2, <2>2 DEF ActorInv, InProgress
    <3>5. a # r /\ place'[r] # "idle" => r \in touched
      BY <1>0, <1>2, <1>8 DEF ActorInv
    <3>6. st \in {"restart", "wait"} => r \in restarted
      BY <1>0, <1>2, <2>2 DEF ActorInv
    <3> QED
      BY <1>1, <1>2, <1>5, <1>9, <2>2, <3>1, <3>2, <3>3, <3>4, <3>5, <3>6 DEF ActorInv
  <2> QED
    BY <2>1, <2>2
<1>14. ASSUME NEW b \in Actors PROVE ActorInv(b)'
  <2>1. CASE b = a
    BY <1>13, <2>1
  <2>2. CASE b # a
    <3>1. ActorInv(b) /\ about[b] \in Rows \cup {Nobody}
      BY DEF IInv, HistoryInv, DeploymentsTypeOK
    <3>2. /\ place'[b] = place[b] /\ about'[b] = about[b] /\ entity'[b] = entity[b]
          /\ selected'[b] = selected[b] /\ chosen'[b] = chosen[b]
      BY <1>8, <2>2
    <3>3. about[b] \in Rows /\ place'[about[b]] # "idle" => place[about[b]] # "idle"
      BY <1>8
    <3>4. about[b] # Nobody /\ told'[about[b]] = "terminated alone" => told[about[b]] = "terminated alone"
      <4> SUFFICES ASSUME about[b] # Nobody, told'[about[b]] = "terminated alone",
                          told[about[b]] # "terminated alone"
                   PROVE  FALSE
        OBVIOUS
      <4>1. about[b] = r
        BY <1>7, <3>1
      <4>2. a \in Ops /\ place[a] = "terminate" /\ a \notin shared
        BY <1>6, <4>1
      <4>3. LoneInv(a)
        BY <4>2 DEF IInv, HistoryInv
      <4> QED
        BY <1>0, <2>2, <4>1, <4>2, <4>3 DEF LoneInv
    <3>5. b = Decay /\ about[b] # Nobody => about[b] \in listed'
      BY <2>2, <3>1 DEF ActorInv
    <3> QED
      BY <1>1, <1>5, <3>1, <3>2, <3>3, <3>4, <3>5 DEF ActorInv
  <2> QED
    BY <2>1, <2>2
<1>15. ASSUME NEW o \in Ops PROVE LoneInv(o)'
  <2> SUFFICES ASSUME place'[o] = "terminate", o \notin shared'
               PROVE  /\ IsOver(entity'[o]) /\ (chosen'[o] => selected'[o] = row'[about'[o]])
                      /\ about'[o] \notin listed'
                      /\ \A b \in Actors : b # o => about'[b] # about'[o]
    BY DEF LoneInv, IsOver
  <2>1. o # a /\ o \in Actors
    BY <1>9
  <2>2. /\ place'[o] = place[o] /\ about'[o] = about[o] /\ entity'[o] = entity[o]
        /\ selected'[o] = selected[o] /\ chosen'[o] = chosen[o]
    BY <1>8, <2>1
  <2>3. LoneInv(o) /\ ActorInv(o) /\ place[o] = "terminate" /\ o \notin shared
    BY <2>1, <2>2 DEF IInv, HistoryInv
  <2>4. about[o] \in Rows /\ about[o] # Nobody
    BY <2>1, <2>3, AtWork
  <2>5. /\ IsOver(entity[o]) /\ (chosen[o] => selected[o] = row[about[o]])
        /\ about[o] \notin listed
        /\ \A b \in Actors : b # o => about[b] # about[o]
    BY <2>3 DEF LoneInv
  <2>6. about[o] # r
    BY <1>0, <2>1, <2>5
  <2>7. ASSUME NEW b \in Actors, b # o PROVE about'[b] # about'[o]
    <3>1. about'[b] \in {about[b], Nobody}
      BY <1>8, <1>9
    <3> QED
      BY <2>2, <2>4, <2>5, <2>7, <3>1
  <2>8. IsOver(entity'[o]) /\ row'[about[o]] = row[about[o]] /\ about[o] \notin listed'
    BY <1>4, <2>2, <2>4, <2>5, <2>6 DEF IsOver
  <2> QED
    BY <2>2, <2>5, <2>7, <2>8 DEF IsOver
<1> QED
  BY <1>11, <1>12, <1>14, <1>15 DEF HistoryInv

-----------------------------------------------------------------------------
(* Steps that begin something *)

RestType ==
    /\ kind \in [Rows -> Kinds \cup {"none"}]
    /\ row \in [Rows -> Row]
    /\ success \in [Rows -> BOOLEAN] /\ polls \in [Rows -> 0 .. MaxPolls]
    /\ listed \subseteq Rows /\ found \in [Rows -> Row] /\ cutoff \in Rows \cup {Nobody}
    /\ running \in Rows \cup {Nobody}
    /\ faults \in 0 .. MaxFaults /\ requests \in 0 .. MaxRequests
    /\ touched \subseteq Rows /\ restarted \subseteq Rows /\ shared \subseteq Ops /\ kept \in BOOLEAN
    /\ told \in [Rows -> {"nothing", "terminated", "terminated alone"}]

LEMMA TypeParts == DeploymentsTypeOK <=> WorkType /\ RestType
BY DEF DeploymentsTypeOK, WorkType, RestType

LEMMA RestStays ==
    ASSUME DeploymentsTypeOK, UNCHANGED <<kind, row, tries, decay, running, faults, history>>
    PROVE  RestType'
BY DEF DeploymentsTypeOK, RestType, tries, decay, history

LEMMA FaultBound ==
    ASSUME DeploymentsTypeOK, Fault
    PROVE  faults' \in 0 .. MaxFaults
<1>1. MaxFaults \in Nat
  BY DeploymentsAssumption
<1>2. faults < MaxFaults /\ faults' = faults + 1 /\ faults \in 0 .. MaxFaults
  BY DEF Fault, DeploymentsTypeOK
<1> QED
  BY <1>1, <1>2

\* save selects the row: what it compares with is the row as it is now.
LEMMA SelectStep ==
    ASSUME IInv, NEW a \in Actors, Select(a)
    PROVE  IInv'
<1> DEFINE now == row[about[a]]
           newStopped == IF a \in Rows /\ kind[a] \in {"hook", "push"} THEN now.stopped ELSE entity[a].stopped
<1>1. /\ UNCHANGED <<kind, row, place, about, tries, decay, running, faults, history>>
      /\ selected' = [selected EXCEPT ![a] = now]
      /\ entity' = [entity EXCEPT ![a].stopped = newStopped]
      /\ chosen' = [chosen EXCEPT ![a] = TRUE]
      /\ place[a] \in Saving
  <2>1. entity' = [entity EXCEPT ![a].stopped =
             IF a \in Rows /\ kind[a] \in {"hook", "push"} THEN row[about[a]].stopped ELSE @]
    BY DEF Select
  <2>2. entity' = [entity EXCEPT ![a].stopped = newStopped]
    BY <2>1
  <2> QED
    BY <2>2 DEF Select
<1>2. DeploymentsTypeOK /\ place[a] # "idle"
  BY <1>1 DEF IInv, Saving
<1>3. PICK r \in Rows : r = about[a]
  BY <1>2, AtWork
<1>4. row[r] \in Row /\ entity[a] \in Row /\ selected[a] \in Row /\ RowInv(r) /\ ActorInv(a)
  BY <1>3, AtWork DEF IInv, HistoryInv, DeploymentsTypeOK
<1>5. newStopped \in BOOLEAN
  BY <1>3, <1>4 DEF Row
<1> HIDE DEF newStopped
<1>6. /\ entity'[a] \in Row /\ entity'[a].status = entity[a].status /\ entity'[a].stopped = newStopped
      /\ \A b \in Actors \ {a} : entity'[b] = entity[b]
      /\ entity' \in [Actors -> Row]
  <2> DEFINE copy == [entity[a] EXCEPT !.stopped = newStopped]
  <2>1. copy \in Row /\ copy.status = entity[a].status /\ copy.stopped = newStopped
    BY <1>4, <1>5, RowCopies DEF Row
  <2>2. entity' = [entity EXCEPT ![a] = copy]
    BY <1>1
  <2> HIDE DEF copy
  <2> QED
    BY <1>2, <2>1, <2>2 DEF DeploymentsTypeOK
<1>7. a \in Ops => entity'[a].stopped = entity[a].stopped
  BY <1>6, Sets DEF newStopped
<1>8. /\ selected'[a] = row[r] /\ chosen'[a] /\ selected' \in [Actors -> Row]
      /\ chosen' \in [Actors -> BOOLEAN]
      /\ \A b \in Actors \ {a} : selected'[b] = selected[b] /\ chosen'[b] = chosen[b]
  BY <1>1, <1>2, <1>3, <1>4 DEF DeploymentsTypeOK
<1>9. DeploymentsTypeOK'
  <2>1. RestType'
    BY <1>1, <1>2, RestStays
  <2>2. WorkType'
    BY <1>1, <1>2, <1>6, <1>8 DEF WorkType, DeploymentsTypeOK
  <2> QED
    BY <2>1, <2>2 DEF DeploymentsTypeOK, WorkType, RestType
<1>10. /\ kind' = kind /\ row' = row /\ success' = success /\ cutoff' = cutoff /\ running' = running
       /\ touched' = touched /\ restarted' = restarted /\ kept' = kept /\ told' = told
       /\ shared' = shared /\ listed' = listed /\ found' = found /\ place' = place
       /\ about' = about /\ kept \in BOOLEAN
  BY <1>1, <1>2 DEF tries, decay, history, DeploymentsTypeOK
<1>11. ASSUME NEW q \in Rows PROVE (Claim(q) => Claim(q)') /\ (Gone(q) => Gone(q)')
  BY <1>10, ClaimStays, GoneStays
<1>12. \A b \in Actors : entity'[b].status = entity[b].status
  BY <1>6
<1>13. ASSUME NEW q \in Rows PROVE RowInv(q)'
  <2>1. RowInv(q)
    BY DEF IInv, HistoryInv
  <2>2. entity'[q].status = entity[q].status
    BY <1>12, Sets
  <2> QED
    BY <1>10, <1>11, <2>1, <2>2 DEF RowInv
<1>14. ASSUME NEW q \in Rows PROVE ListedInv(q)'
  <2>1. ListedInv(q)
    BY DEF IInv, HistoryInv
  <2> QED
    BY <1>10, <1>11, <2>1 DEF ListedInv
<1>15. ASSUME NEW b \in Actors PROVE ActorInv(b)'
  <2>1. ActorInv(b) /\ about[b] \in Rows \cup {Nobody}
    BY <1>2 DEF IInv, HistoryInv, DeploymentsTypeOK
  <2>2. ASSUME told[about[b]] = "terminated alone", about[b] # Nobody
        PROVE  /\ b \in Ops /\ place[b] \in {"terminate", "scale"}
               /\ IsOver(entity'[b]) /\ (chosen'[b] => IsOver(selected'[b]))
    <3>1. /\ b \in Ops /\ place[b] \in {"terminate", "scale"}
          /\ IsOver(entity[b]) /\ (chosen[b] => IsOver(selected[b]))
      BY <2>1, <2>2 DEF ActorInv
    <3>2. IsOver(entity'[b])
      BY <1>6, <1>7, <3>1 DEF IsOver
    <3>3. b = a => IsOver(selected'[b])
      BY <1>3, <1>4, <1>8, <2>2 DEF RowInv
    <3> QED
      BY <1>8, <3>1, <3>2, <3>3
  <2>3. place[b] = "idle" => b # a
    BY <1>2
  <2> QED
    BY <1>8, <1>10, <1>11, <1>12, <2>1, <2>2, <2>3 DEF ActorInv
<1>16. ASSUME NEW o \in Ops PROVE LoneInv(o)'
  <2>1. LoneInv(o) /\ o \in Actors
    BY Sets DEF IInv, HistoryInv
  <2>2. place[o] = "terminate" /\ o \notin shared =>
          /\ IsOver(entity'[o])
          /\ chosen'[o] => selected'[o] = row[about[o]]
    <3> SUFFICES ASSUME place[o] = "terminate", o \notin shared
                 PROVE  IsOver(entity'[o]) /\ (chosen'[o] => selected'[o] = row[about[o]])
      OBVIOUS
    <3>1. IsOver(entity[o]) /\ (chosen[o] => selected[o] = row[about[o]])
      BY <2>1 DEF LoneInv
    <3>2. IsOver(entity'[o])
      BY <1>6, <1>7, <2>1, <3>1 DEF IsOver
    <3> QED
      BY <1>3, <1>8, <2>1, <3>1, <3>2
  <2> QED
    BY <1>10, <2>1, <2>2 DEF LoneInv
<1> QED
  BY <1>9, <1>13, <1>14, <1>15, <1>16 DEF IInv, HistoryInv

\* A request has found a row.
LEMMA FindMove ==
    ASSUME IInv, NEW o \in Ops, NEW r \in Rows, NEW st \in Places, NEW copy \in Row,
           place[o] = "idle", kind[r] # "none", FindRow(o, r, st, copy),
           st \in {"terminate", "scale", "restart", "rollback", "close", "merge"},
           UNCHANGED <<kind, row, selected, chosen, success, decay>>,
           running' \in {running, Nobody}, kept' \in BOOLEAN, kept = TRUE => kept' = TRUE,
           restarted \subseteq restarted', st = "restart" => r \in restarted',
           \A q \in Rows : told'[q] \in {told[q], "nothing"},
           copy.status = "deployed" => Claim(r)', copy.status # "expired" \/ Gone(r)',
           st = "terminate" => IsOver(copy),
           \/ told'[r] = "nothing"
           \/ st = "terminate"
           \/ st = "scale" /\ copy = row[r]
    PROVE  WorkType' /\ HistoryInv'
<1> USE Sets
<1>1. /\ place' = [place EXCEPT ![o] = st] /\ about' = [about EXCEPT ![o] = r]
      /\ entity' = [entity EXCEPT ![o] = copy] /\ selected' = selected /\ chosen' = chosen
  BY DEF FindRow, GoTo
<1>2. /\ place'[o] = st /\ about'[o] = r /\ entity'[o] = copy
      /\ \A b \in Actors \ {o} :
           place'[b] = place[b] /\ about'[b] = about[b] /\ entity'[b] = entity[b]
  BY <1>1 DEF IInv, DeploymentsTypeOK
<1>3. WorkType'
  BY <1>1 DEF IInv, DeploymentsTypeOK, WorkType
<1>4. /\ kind' = kind /\ row' = row /\ success' = success /\ cutoff' = cutoff
      /\ listed' = listed /\ found' = found /\ kept \in BOOLEAN
      /\ touched \subseteq touched' /\ (place[r] # "idle" => r \in touched')
  BY DEF decay, FindRow, IInv, DeploymentsTypeOK
<1>5. ASSUME NEW q \in Rows PROVE (Claim(q) => Claim(q)') /\ (Gone(q) => Gone(q)')
  BY <1>4, ClaimStays, GoneStays
<1>6. \A q \in Rows : /\ q # o /\ place'[q] = place[q] /\ about'[q] = about[q] /\ entity'[q] = entity[q]
                      /\ told'[q] = "terminated alone" => told[q] = "terminated alone"
  BY <1>2
<1>7. ASSUME NEW q \in Rows PROVE RowInv(q)'
  <2>1. RowInv(q)
    BY DEF IInv, HistoryInv
  <2> QED
    BY <1>4, <1>5, <1>6, <2>1 DEF RowInv
<1>8. ASSUME NEW q \in Rows PROVE ListedInv(q)'
  <2>1. ListedInv(q)
    BY DEF IInv, HistoryInv
  <2> QED
    BY <1>4, <1>5, <1>6, <2>1 DEF ListedInv
<1>9. ASSUME NEW b \in Actors, b # o PROVE ActorInv(b)'
  <2>1. ActorInv(b) /\ about[b] \in Rows \cup {Nobody}
    BY DEF IInv, HistoryInv, DeploymentsTypeOK
  <2>2. /\ place'[b] = place[b] /\ about'[b] = about[b] /\ entity'[b] = entity[b]
    BY <1>2, <1>9
  <2>3. CASE about[b] = Nobody
    BY <1>1, <1>4, <2>1, <2>2, <2>3 DEF ActorInv
  <2>4. CASE about[b] # Nobody
    <3>1. PICK q \in Rows : q = about[b]
      BY <2>1, <2>4
    <3>2. /\ Claim(q) => Claim(q)'
          /\ Gone(q) => Gone(q)'
          /\ place'[q] = place[q]
          /\ told'[q] = "terminated alone" => told[q] = "terminated alone"
      BY <1>5, <1>6
    <3>3. /\ kind[q] # "none"
          /\ entity[b].status = "deployed" => Claim(q)
          /\ entity[b].status = "expired" => Gone(q)
          /\ told[q] = "terminated alone" =>
               /\ b \in Ops /\ place[b] \in {"terminate", "scale"}
               /\ IsOver(entity[b]) /\ (chosen[b] => IsOver(selected[b]))
          /\ b # q /\ place[q] # "idle" => q \in touched
          /\ b = Decay => q \in listed
          /\ place[b] # "idle"
          /\ place[b] \in {"restart", "wait"} => q \in restarted
      BY <2>1, <2>4, <3>1 DEF ActorInv
    <3>4. q = about'[b] /\ q # Nobody
      BY <2>2, <3>1
    <3>5. /\ kind'[q] # "none"
          /\ entity'[b].status = "deployed" => Claim(q)'
          /\ entity'[b].status = "expired" => Gone(q)'
          /\ told'[q] = "terminated alone" =>
               /\ b \in Ops /\ place'[b] \in {"terminate", "scale"}
               /\ IsOver(entity'[b]) /\ (chosen'[b] => IsOver(selected'[b]))
          /\ b # q /\ place'[q] # "idle" => q \in touched'
          /\ b = Decay => q \in listed'
          /\ place'[b] # "idle"
          /\ place'[b] \in {"restart", "wait"} => q \in restarted'
      BY <1>1, <1>4, <2>2, <3>2, <3>3
    <3> QED
      BY <3>4, <3>5 DEF ActorInv
  <2> QED
    BY <2>3, <2>4
<1>10. ActorInv(o)'
  <2>1. ~chosen[o] /\ RowInv(r)
    BY DEF IInv, HistoryInv, ActorInv
  <2>2. told'[r] = "terminated alone" => st \in {"terminate", "scale"} /\ IsOver(copy)
    BY <1>6, <2>1 DEF RowInv
  <2>3. ~chosen'[o] /\ kind'[r] # "none" /\ (st = "restart" => r \in restarted')
    BY <1>1, <1>4, <2>1
  <2>4. place'[r] # "idle" => r \in touched'
    BY <1>4, <1>6
  <2>5. o # Decay /\ r # Nobody /\ st # "idle" /\ st # "wait"
    OBVIOUS
  <2>6. /\ copy.status = "deployed" => Claim(r)'
        /\ copy.status = "expired" => Gone(r)'
    OBVIOUS
  <2>7. /\ place'[o] # "idle" /\ about'[o] # Nobody
        /\ place'[o] \in {"restart", "wait"} => about'[o] \in restarted'
    BY <1>2, <2>3, <2>5
  <2>8. /\ kind'[r] # "none"
        /\ entity'[o].status = "deployed" => Claim(r)'
        /\ entity'[o].status = "expired" => Gone(r)'
        /\ told'[r] = "terminated alone" =>
             /\ o \in Ops /\ place'[o] \in {"terminate", "scale"}
             /\ IsOver(entity'[o]) /\ (chosen'[o] => IsOver(selected'[o]))
        /\ o # r /\ place'[r] # "idle" => r \in touched'
        /\ o = Decay => r \in listed'
    BY <1>2, <2>2, <2>3, <2>4, <2>5, <2>6
  <2>9. about'[o] = r
    BY <1>2
  <2> QED
    BY <2>7, <2>8, <2>9 DEF ActorInv
<1>11. shared' = (shared \ {o}) \cup {p \in Ops : about[p] = r /\ place[p] = "terminate"}
                   \cup (IF st = "terminate" /\ Held(r) THEN {o} ELSE {})
  BY DEF FindRow
<1>12. ASSUME NEW p \in Ops, p # o PROVE LoneInv(p)'
  <2>1. LoneInv(p) /\ ActorInv(p)
    BY DEF IInv, HistoryInv
  <2>2. /\ place'[p] = place[p] /\ about'[p] = about[p] /\ entity'[p] = entity[p]
        /\ selected'[p] = selected[p] /\ chosen'[p] = chosen[p]
    BY <1>1, <1>2, <1>12
  <2> SUFFICES ASSUME place[p] = "terminate", p \notin shared'
               PROVE  /\ IsOver(entity[p]) /\ (chosen[p] => selected[p] = row[about[p]])
                      /\ about[p] \notin listed
                      /\ \A b \in Actors : b # p => about'[b] # about[p]
    BY <1>4, <2>2 DEF LoneInv, IsOver
  <2>3. p \notin shared /\ about[p] # r
    BY <1>11, <1>12
  <2>4. /\ IsOver(entity[p]) /\ (chosen[p] => selected[p] = row[about[p]])
        /\ about[p] \notin listed
        /\ \A b \in Actors : b # p => about[b] # about[p]
    BY <2>1, <2>3 DEF LoneInv
  <2> QED
    BY <1>2, <2>3, <2>4
<1>13. LoneInv(o)'
  <2> SUFFICES ASSUME st = "terminate", o \notin shared'
               PROVE  /\ IsOver(copy) /\ ~chosen'[o]
                      /\ r \notin listed
                      /\ \A b \in Actors : b # o => about'[b] # r
    BY <1>1, <1>2, <1>4 DEF LoneInv
  <2>1. r \notin listed /\ \A b \in Actors : about[b] # r
    BY <1>11 DEF Held
  <2>2. ~chosen[o]
    BY DEF IInv, HistoryInv, ActorInv
  <2> QED
    BY <1>1, <1>2, <2>1, <2>2
<1> QED
  BY <1>3, <1>7, <1>8, <1>9, <1>10, <1>12, <1>13 DEF HistoryInv

\* A new row of kind k and status s, by a webhook or a job that moves to st, or by a rollback.
Makes(r, k, s, a, st, nx) ==
    /\ kind[r] = "none" /\ Moves(a, st, nx) /\ ~chosen'[a]
    /\ kind' = [kind EXCEPT ![r] = k] /\ row' = [row EXCEPT ![r] = Made(s)]
    /\ UNCHANGED <<tries, decay, running, faults, history>>
    /\ entity'[a].status \in {"pending", "building"}
    /\ nx = Nobody => st = "idle" /\ entity'[a].status = "pending"
    /\ nx = r => a = r /\ st # "idle" /\ s # "deployed"
    /\ s = "deployed" => k = "rollback"

\* Nobody is about a new row, and it has no history.
LEMMA NewMove ==
    ASSUME IInv, NEW r \in Rows, NEW k \in Kinds, NEW s \in {"pending", "building", "deployed"},
           NEW a \in Ops \cup {r}, NEW st \in {"idle", "timer", "comment"}, NEW nx \in {r, Nobody},
           Makes(r, k, s, a, st, nx)
    PROVE  IInv'
<1> USE Sets
<1>0. /\ kind[r] = "none" /\ Moves(a, st, nx) /\ ~chosen'[a]
      /\ kind' = [kind EXCEPT ![r] = k] /\ row' = [row EXCEPT ![r] = Made(s)]
      /\ UNCHANGED <<tries, decay, running, faults, history>>
      /\ entity'[a].status \in InProgress /\ st \in Places
      /\ nx = Nobody => st = "idle" /\ entity'[a].status = "pending"
      /\ nx = r => a = r /\ st \in {"timer", "comment"} /\ s # "deployed"
      /\ s = "deployed" => k = "rollback"
  BY DEF Makes, InProgress, Places
<1>1. DeploymentsTypeOK /\ RowInv(r) /\ ListedInv(r)
  BY DEF IInv, HistoryInv
<1>2. /\ kind'[r] = k /\ k # "none" /\ row'[r].status = s /\ Made(s) \in Row /\ s \in Status
      /\ \A q \in Rows \ {r} : kind'[q] = kind[q] /\ row'[q] = row[q]
  BY <1>0, <1>1 DEF DeploymentsTypeOK, Made, Row, Status, Kinds
<1>3. /\ success' = success /\ cutoff' = cutoff /\ running' = running /\ kept' = kept /\ kept \in BOOLEAN
      /\ touched' = touched /\ restarted' = restarted /\ told' = told /\ shared' = shared
      /\ listed' = listed /\ found' = found /\ polls' = polls
  BY <1>0, <1>1 DEF tries, decay, history, DeploymentsTypeOK
<1>4. RestType'
  <2>1. kind' \in [Rows -> Kinds \cup {"none"}] /\ row' \in [Rows -> Row]
    BY <1>0, <1>1, <1>2 DEF DeploymentsTypeOK
  <2>2. faults' = faults /\ requests' = requests
    BY <1>0 DEF history
  <2> QED
    BY <1>1, <1>3, <2>1, <2>2 DEF RestType, DeploymentsTypeOK
<1>5. /\ place'[a] = st /\ about'[a] = nx /\ WorkType'
      /\ \A b \in Actors \ {a} :
           /\ place'[b] = place[b] /\ about'[b] = about[b] /\ entity'[b] = entity[b]
           /\ selected'[b] = selected[b] /\ chosen'[b] = chosen[b]
  BY <1>0 DEF Moves
<1>6. /\ ~success[r] /\ place[r] = "idle" /\ told[r] = "nothing" /\ ~(r <= cutoff)
      /\ r \notin listed
  BY <1>0, <1>1 DEF RowInv, ListedInv
<1>7. \A b \in Actors : about[b] # r
  BY <1>0, <1>1 DEF IInv, HistoryInv, ActorInv
<1>8. ASSUME NEW q \in Rows, q # r PROVE (Claim(q) => Claim(q)') /\ (Gone(q) => Gone(q)')
  BY <1>2, <1>3, <1>8, ClaimStays, GoneStays
<1>9. ASSUME NEW q \in Rows PROVE RowInv(q)'
  <2>1. RowInv(q)
    BY DEF IInv, HistoryInv
  <2>2. CASE q # r
    <3>1. q # a
      BY <2>2
    <3> QED
      BY <1>2, <1>3, <1>5, <1>8, <2>1, <2>2, <3>1 DEF RowInv
  <2>3. CASE q = r
    <3>1. about'[r] \in {r, Nobody}
      BY <1>1, <1>5 DEF RowInv
    <3>2. place'[r] \in {"idle", "timer", "comment"}
      BY <1>0, <1>5, <1>6
    <3>3. s = "deployed" => Claim(r)'
      BY <1>0, <1>2 DEF Claim, Own
    <3>4. place'[r] # "idle" => s \in InProgress
      BY <1>0, <1>5, <1>6 DEF InProgress
    <3> QED
      BY <1>2, <1>3, <1>6, <2>3, <3>1, <3>2, <3>3, <3>4 DEF RowInv
  <2> QED
    BY <2>2, <2>3
<1>10. ASSUME NEW q \in Rows PROVE ListedInv(q)'
  <2>1. ListedInv(q)
    BY DEF IInv, HistoryInv
  <2> QED
    BY <1>3, <1>6, <1>8, <2>1 DEF ListedInv
<1>11. ASSUME NEW b \in Actors PROVE ActorInv(b)'
  <2>1. CASE b = a
    <3>1. CASE nx = Nobody
      BY <1>0, <1>5, <2>1, <3>1 DEF ActorInv
    <3>2. CASE nx = r
      <4>1. /\ a = r /\ place'[a] \in {"timer", "comment"} /\ about'[a] = r /\ r # Nobody /\ a # Decay
            /\ entity'[a].status \notin {"deployed", "expired"}
        BY <1>0, <1>5, <2>1, <3>2 DEF InProgress
      <4> QED
        BY <1>2, <1>3, <1>6, <2>1, <4>1 DEF ActorInv
    <3> QED
      BY <3>1, <3>2
  <2>2. CASE b # a
    <3>1. ActorInv(b) /\ about[b] \in Rows \cup {Nobody}
      BY <1>1 DEF IInv, HistoryInv, DeploymentsTypeOK
    <3>2. /\ place'[b] = place[b] /\ about'[b] = about[b] /\ entity'[b] = entity[b]
          /\ selected'[b] = selected[b] /\ chosen'[b] = chosen[b]
      BY <1>5, <2>2
    <3>3. CASE about[b] = Nobody
      BY <3>1, <3>2, <3>3 DEF ActorInv
    <3>4. CASE about[b] # Nobody
      <4>1. PICK q \in Rows : q = about[b]
        BY <3>1, <3>4
      <4>2. q # r
        BY <1>7, <4>1
      <4>3. /\ Claim(q) => Claim(q)'
            /\ Gone(q) => Gone(q)'
            /\ kind'[q] = kind[q]
        BY <1>2, <1>8, <4>2
      <4>4. place'[q] # "idle" => place[q] # "idle"
        BY <1>5, <4>2
      <4> QED
        BY <1>3, <3>1, <3>2, <3>4, <4>1, <4>3, <4>4 DEF ActorInv
    <3> QED
      BY <3>3, <3>4
  <2> QED
    BY <2>1, <2>2
<1>12. ASSUME NEW o \in Ops PROVE LoneInv(o)'
  <2> SUFFICES ASSUME place'[o] = "terminate", o \notin shared'
               PROVE  /\ IsOver(entity'[o]) /\ (chosen'[o] => selected'[o] = row'[about'[o]])
                      /\ about'[o] \notin listed'
                      /\ \A b \in Actors : b # o => about'[b] # about'[o]
    BY DEF LoneInv, IsOver
  <2>1. o # a /\ o \in Actors
    BY <1>0, <1>5
  <2>2. /\ place'[o] = place[o] /\ about'[o] = about[o] /\ entity'[o] = entity[o]
        /\ selected'[o] = selected[o] /\ chosen'[o] = chosen[o]
    BY <1>5, <2>1
  <2>3. LoneInv(o) /\ place[o] = "terminate" /\ o \notin shared
    BY <1>3, <2>2 DEF IInv, HistoryInv
  <2>4. about[o] \in Rows /\ about[o] # r /\ about[o] # Nobody
    BY <1>7, <2>1, <2>3, AtWork
  <2>5. /\ IsOver(entity[o]) /\ (chosen[o] => selected[o] = row[about[o]])
        /\ about[o] \notin listed
        /\ \A b \in Actors : b # o => about[b] # about[o]
    BY <2>3 DEF LoneInv
  <2>6. ASSUME NEW b \in Actors, b # o PROVE about'[b] # about'[o]
    <3>1. about'[b] \in {about[b], r, Nobody}
      BY <1>5
    <3> QED
      BY <2>2, <2>4, <2>5, <2>6, <3>1
  <2>7. IsOver(entity'[o]) /\ row'[about[o]] = row[about[o]] /\ about[o] \notin listed'
    BY <1>2, <1>3, <2>2, <2>4, <2>5
  <2> QED
    BY <2>2, <2>5, <2>6, <2>7
<1> QED
  BY <1>4, <1>5, <1>9, <1>10, <1>11, <1>12 DEF IInv, HistoryInv, DeploymentsTypeOK, WorkType, RestType

-----------------------------------------------------------------------------
(* The decay check and the end of the process *)

LEMMA AgeStep ==
    ASSUME IInv, Age
    PROVE  IInv'
<1> USE Sets
<1>1. /\ DeploymentsTypeOK /\ cutoff' = cutoff + 1 /\ cutoff + 1 \in Rows /\ kind[cutoff + 1] # "none"
      /\ place[cutoff + 1] = "idle"
      /\ UNCHANGED <<kind, row, work, tries, listed, found, running, faults, history>>
  BY DEF Age, Created, IInv
<1>2. /\ kind' = kind /\ success' = success /\ running' = running /\ kept' = kept /\ row' = row
      /\ touched' = touched /\ restarted' = restarted /\ told' = told /\ shared' = shared
      /\ listed' = listed /\ found' = found /\ place' = place /\ about' = about
      /\ entity' = entity /\ selected' = selected /\ chosen' = chosen
  BY <1>1 DEF work, tries, history
<1>3. DeploymentsTypeOK'
  BY <1>1, <1>2 DEF DeploymentsTypeOK, tries, history
<1>4. cutoff \in Nat
  <2>1. cutoff \in Rows \cup {Nobody}
    BY <1>1 DEF DeploymentsTypeOK
  <2> QED
    BY <2>1 DEF Nobody
<1>5. \A q \in Rows : q <= cutoff' <=> q <= cutoff \/ q = cutoff + 1
  BY <1>1, <1>4
<1>6. ASSUME NEW q \in Rows PROVE (Claim(q) => Claim(q)') /\ (Gone(q) => Gone(q)')
  <2>1. Claim(q) => Claim(q)'
    BY <1>2, ClaimStays
  <2>2. ASSUME Gone(q) PROVE Gone(q)'
    BY <1>2, <1>5, <2>2 DEF Gone
  <2> QED
    BY <2>1, <2>2
<1>7. ASSUME NEW q \in Rows PROVE RowInv(q)' /\ ListedInv(q)'
  <2>1. RowInv(q) /\ ListedInv(q)
    BY DEF IInv, HistoryInv
  <2>2. RowInv(q)'
    BY <1>1, <1>2, <1>5, <1>6, <2>1 DEF RowInv
  <2>3. ListedInv(q)'
    BY <1>2, <1>5, <1>6, <2>1 DEF ListedInv
  <2> QED
    BY <2>2, <2>3
<1>8. ASSUME NEW b \in Actors PROVE ActorInv(b)'
  <2>1. ActorInv(b) /\ about[b] \in Rows \cup {Nobody}
    BY <1>1 DEF IInv, HistoryInv, DeploymentsTypeOK
  <2> QED
    BY <1>2, <1>6, <2>1 DEF ActorInv
<1>9. ASSUME NEW o \in Ops PROVE LoneInv(o)'
  <2>1. LoneInv(o)
    BY DEF IInv, HistoryInv
  <2> QED
    BY <1>2, <2>1 DEF LoneInv
<1> QED
  BY <1>3, <1>7, <1>8, <1>9 DEF IInv, HistoryInv

LEMMA ListStaleStep ==
    ASSUME IInv, ListStale
    PROVE  IInv'
<1> USE Sets
<1>1. /\ DeploymentsTypeOK /\ listed' = Stale /\ place[Decay] = "idle" /\ kept \in BOOLEAN
      /\ found' = [r \in Rows |-> IF r \in Stale THEN row[r] ELSE NoRow]
      /\ shared' = shared \cup {o \in Ops : about[o] \in Stale /\ place[o] = "terminate"}
      /\ UNCHANGED <<kind, row, work, tries, cutoff, running, faults, requests, touched, restarted, kept, told>>
  BY DEF ListStale, IInv, DeploymentsTypeOK
<1>2. /\ kind' = kind /\ success' = success /\ running' = running /\ kept' = kept /\ row' = row
      /\ touched' = touched /\ restarted' = restarted /\ told' = told /\ cutoff' = cutoff
      /\ place' = place /\ about' = about
      /\ entity' = entity /\ selected' = selected /\ chosen' = chosen
  BY <1>1 DEF work, tries
<1>3. \A r \in Stale : /\ r \in Rows /\ r <= cutoff
                       /\ row[r].status \in {"deployed", "building", "deploying"}
  <2>1. MaxRows \in Nat
    BY DeploymentsAssumption
  <2>2. cutoff \in 0 .. MaxRows
    <3>1. cutoff \in Rows \cup {Nobody}
      BY <1>1 DEF DeploymentsTypeOK
    <3> QED
      BY <2>1, <3>1 DEF Nobody, Rows
  <2> QED
    BY <2>1, <2>2 DEF Stale, Rows
<1>4. DeploymentsTypeOK'
  <2>1. NoRow \in Row
    BY DEF NoRow, Made, Row, Status
  <2>2. found' \in [Rows -> Row] /\ listed' \subseteq Rows /\ shared' \subseteq Ops
    BY <1>1, <1>3, <2>1 DEF DeploymentsTypeOK
  <2> QED
    BY <1>1, <1>2, <2>2 DEF DeploymentsTypeOK, tries
<1>5. ASSUME NEW q \in Rows PROVE (Claim(q) => Claim(q)') /\ (Gone(q) => Gone(q)')
  BY <1>1, <1>2, ClaimStays, GoneStays
<1>6. ASSUME NEW q \in Rows PROVE RowInv(q)'
  <2>1. RowInv(q)
    BY DEF IInv, HistoryInv
  <2> QED
    BY <1>2, <1>5, <2>1 DEF RowInv
<1>7. ASSUME NEW q \in Rows PROVE ListedInv(q)'
  <2> SUFFICES ASSUME q \in Stale
               PROVE  q <= cutoff' /\ (found'[q].status = "deployed" => Claim(q)')
                      /\ told'[q] # "terminated alone"
    BY <1>1 DEF ListedInv
  <2>1. RowInv(q) /\ found'[q] = row[q]
    BY <1>1 DEF IInv, HistoryInv
  <2>2. told[q] # "terminated alone"
    BY <1>3, <2>1 DEF RowInv, IsOver
  <2> QED
    BY <1>2, <1>3, <1>5, <2>1, <2>2 DEF RowInv
<1>8. ASSUME NEW b \in Actors PROVE ActorInv(b)'
  <2>1. ActorInv(b) /\ about[b] \in Rows \cup {Nobody}
    BY <1>1 DEF IInv, HistoryInv, DeploymentsTypeOK
  <2>2. b = Decay => about[b] = Nobody
    BY <1>1, <2>1 DEF ActorInv
  <2> QED
    BY <1>2, <1>5, <2>1, <2>2 DEF ActorInv
<1>9. ASSUME NEW o \in Ops PROVE LoneInv(o)'
  <2>1. LoneInv(o)
    BY DEF IInv, HistoryInv
  <2>2. place[o] = "terminate" /\ o \notin shared' => o \notin shared /\ about[o] \notin listed'
    BY <1>1
  <2> QED
    BY <1>2, <2>1, <2>2 DEF LoneInv
<1> QED
  BY <1>4, <1>6, <1>7, <1>8, <1>9 DEF IInv, HistoryInv

\* The objects are gone, or their deletion failed unnoticed.
LEMMA DeleteObjectsGone ==
    ASSUME DeploymentsTypeOK, NEW deleted \in BOOLEAN, DeleteObjects(deleted)
    PROVE  /\ running' \in {running, Nobody} /\ running' \in Rows \cup {Nobody}
           /\ kept' \in BOOLEAN /\ (kept = TRUE => kept' = TRUE)
           /\ kept' = TRUE \/ running' = Nobody
<1>1. running \in Rows \cup {Nobody} /\ kept \in BOOLEAN
  BY DEF DeploymentsTypeOK
<1>2. running' = (IF deleted THEN Nobody ELSE running) /\ kept' = (kept \/ (~deleted /\ running # Nobody))
  BY DEF DeleteObjects
<1>3. CASE deleted
  BY <1>1, <1>2, <1>3
<1>4. CASE ~deleted
  <2>1. running' = running /\ kept' = (kept \/ running # Nobody)
    BY <1>2, <1>4
  <2> QED
    BY <1>1, <2>1
<1> QED
  BY <1>3, <1>4

LEMMA ExpireStep ==
    ASSUME IInv, NEW r \in Rows, NEW deleted \in BOOLEAN, Expire(r, deleted)
    PROVE  IInv'
<1> USE Sets
<1> DEFINE copy == [found[r] EXCEPT !.status = "expired", !.stopped = TRUE]
<1>1. /\ DeploymentsTypeOK /\ place[Decay] = "idle" /\ r \in listed /\ kept \in BOOLEAN
      /\ place' = [place EXCEPT ![Decay] = "expire"] /\ about' = [about EXCEPT ![Decay] = r]
      /\ entity' = [entity EXCEPT ![Decay] = copy]
      /\ selected' = selected /\ chosen' = chosen
      /\ UNCHANGED <<kind, row, tries, decay, faults, requests, touched, restarted, shared, told>>
  BY DEF Expire, GoTo, IInv, DeploymentsTypeOK
<1>2. /\ kind' = kind /\ success' = success /\ row' = row /\ cutoff' = cutoff
      /\ touched' = touched /\ restarted' = restarted /\ told' = told /\ shared' = shared
      /\ listed' = listed /\ found' = found
  BY <1>1 DEF tries, decay
<1>3. /\ running' \in {running, Nobody} /\ running' \in Rows \cup {Nobody}
      /\ kept' \in BOOLEAN /\ (kept = TRUE => kept' = TRUE)
      /\ kept' = TRUE \/ running' = Nobody
  BY <1>1, DeleteObjectsGone DEF Expire
<1>4. copy \in Row /\ copy.status = "expired"
  <2>1. found[r] \in Row
    BY <1>1 DEF DeploymentsTypeOK
  <2>2. "expired" \in Status
    BY DEF Status
  <2> QED
    BY <2>1, <2>2, RowCopies
<1> HIDE DEF copy
<1>5. /\ place'[Decay] = "expire" /\ about'[Decay] = r /\ entity'[Decay] = copy
      /\ \A b \in Actors \ {Decay} :
           place'[b] = place[b] /\ about'[b] = about[b] /\ entity'[b] = entity[b]
  BY <1>1 DEF DeploymentsTypeOK
<1>6. DeploymentsTypeOK'
  <2>1. WorkType'
    BY <1>1, <1>4 DEF DeploymentsTypeOK, WorkType, Places
  <2>2. RestType'
    BY <1>1, <1>2, <1>3 DEF DeploymentsTypeOK, RestType, tries
  <2> QED
    BY <2>1, <2>2 DEF DeploymentsTypeOK, WorkType, RestType
<1>7. ASSUME NEW q \in Rows PROVE (Claim(q) => Claim(q)') /\ (Gone(q) => Gone(q)')
  BY <1>1, <1>2, <1>3, ClaimStays, GoneStays
<1>8. \A q \in Rows : q # Decay /\ place'[q] = place[q] /\ about'[q] = about[q] /\ entity'[q] = entity[q]
  BY <1>5
<1>9. ASSUME NEW q \in Rows PROVE RowInv(q)'
  <2>1. RowInv(q)
    BY DEF IInv, HistoryInv
  <2> QED
    BY <1>2, <1>7, <1>8, <2>1 DEF RowInv
<1>10. ASSUME NEW q \in Rows PROVE ListedInv(q)'
  <2>1. ListedInv(q)
    BY DEF IInv, HistoryInv
  <2> QED
    BY <1>2, <1>7, <2>1 DEF ListedInv
<1>11. r <= cutoff /\ told[r] # "terminated alone" /\ kind[r] # "none" /\ place[r] = "idle"
  <2>1. ListedInv(r) /\ RowInv(r)
    BY DEF IInv, HistoryInv
  <2> QED
    BY <1>1, <2>1 DEF ListedInv, RowInv
<1>12. ASSUME NEW b \in Actors PROVE ActorInv(b)'
  <2>1. CASE b = Decay
    <3>1. Gone(r)'
      BY <1>2, <1>3, <1>11 DEF Gone
    <3>2. place'[r] = "idle"
      BY <1>8, <1>11
    <3>3. /\ place'[b] = "expire" /\ about'[b] = r /\ r # Nobody
          /\ entity'[b].status = "expired"
      BY <1>4, <1>5, <2>1
    <3>4. kind'[r] # "none" /\ told'[r] # "terminated alone" /\ r \in listed'
      BY <1>1, <1>2, <1>11
    <3> QED
      BY <3>1, <3>2, <3>3, <3>4 DEF ActorInv
  <2>2. CASE b # Decay
    <3>1. ActorInv(b) /\ about[b] \in Rows \cup {Nobody}
      BY <1>1 DEF IInv, HistoryInv, DeploymentsTypeOK
    <3>2. CASE about[b] = Nobody
      BY <1>1, <1>5, <2>2, <3>1, <3>2 DEF ActorInv
    <3>3. CASE about[b] # Nobody
      <4>1. PICK q \in Rows : q = about[b]
        BY <3>1, <3>3
      <4>2. (Claim(q) => Claim(q)') /\ (Gone(q) => Gone(q)') /\ place'[q] = place[q]
        BY <1>7, <1>8
      <4> QED
        BY <1>1, <1>2, <1>5, <2>2, <3>1, <3>3, <4>1, <4>2 DEF ActorInv
    <3> QED
      BY <3>2, <3>3
  <2> QED
    BY <2>1, <2>2
<1>13. ASSUME NEW o \in Ops PROVE LoneInv(o)'
  <2> SUFFICES ASSUME place'[o] = "terminate", o \notin shared'
               PROVE  /\ IsOver(entity'[o]) /\ (chosen'[o] => selected'[o] = row'[about'[o]])
                      /\ about'[o] \notin listed'
                      /\ \A b \in Actors : b # o => about'[b] # about'[o]
    BY DEF LoneInv, IsOver
  <2>1. /\ o # Decay /\ o \in Actors
        /\ place'[o] = place[o] /\ about'[o] = about[o] /\ entity'[o] = entity[o]
    BY <1>5
  <2>2. LoneInv(o) /\ place[o] = "terminate" /\ o \notin shared
    BY <1>2, <2>1 DEF IInv, HistoryInv
  <2>3. /\ IsOver(entity[o]) /\ (chosen[o] => selected[o] = row[about[o]])
        /\ about[o] \notin listed
        /\ \A b \in Actors : b # o => about[b] # about[o]
    BY <2>2 DEF LoneInv
  <2>4. about[o] # r
    BY <1>1, <2>3
  <2>5. ASSUME NEW b \in Actors, b # o PROVE about'[b] # about'[o]
    BY <1>5, <2>1, <2>3, <2>4, <2>5
  <2>6. IsOver(entity'[o]) /\ row'[about[o]] = row[about[o]] /\ about[o] \notin listed'
    BY <1>2, <2>1, <2>3
  <2> QED
    BY <1>1, <2>1, <2>3, <2>5, <2>6
<1> QED
  BY <1>6, <1>9, <1>10, <1>12, <1>13 DEF IInv, HistoryInv

\* Nothing survives the process but the rows, the objects and the histories.
LEMMA StopStep ==
    ASSUME IInv, Stop, faults' \in 0 .. MaxFaults
    PROVE  IInv'
<1> USE Sets
<1>1. /\ DeploymentsTypeOK /\ NoRow \in Row /\ NoRow.status = "pending" /\ 0 \in 0 .. MaxPolls
  BY DeploymentsAssumption DEF IInv, NoRow, Made, Row, Status
<1>2. /\ place' = [a \in Actors |-> "idle"] /\ about' = [a \in Actors |-> Nobody]
      /\ entity' = [a \in Actors |-> NoRow] /\ selected' = [a \in Actors |-> NoRow]
      /\ chosen' = [a \in Actors |-> FALSE]
      /\ listed' = {} /\ found' = [r \in Rows |-> NoRow]
      /\ touched' = touched \cup {r \in Rows : place[r] # "idle"}
      /\ polls' = [r \in Rows |-> 0]
      /\ kind' = kind /\ row' = row /\ success' = success /\ cutoff' = cutoff /\ running' = running
      /\ requests' = requests /\ restarted' = restarted /\ shared' = shared /\ kept' = kept
      /\ told' = told
  BY DEF Stop
<1>3. DeploymentsTypeOK'
  <2>1. WorkType'
    BY <1>1, <1>2 DEF WorkType, Places
  <2>2. RestType'
    BY <1>1, <1>2 DEF DeploymentsTypeOK, RestType
  <2> QED
    BY <2>1, <2>2 DEF DeploymentsTypeOK, WorkType, RestType
<1>4. ASSUME NEW q \in Rows PROVE (Claim(q) => Claim(q)') /\ (Gone(q) => Gone(q)')
  <2>1. kept \in BOOLEAN /\ kept' \in BOOLEAN
    BY <1>1, <1>2 DEF DeploymentsTypeOK
  <2> QED
    BY <1>2, <2>1, ClaimStays, GoneStays
<1>5. ASSUME NEW q \in Rows PROVE RowInv(q)'
  <2>1. RowInv(q)
    BY DEF IInv, HistoryInv
  <2> QED
    BY <1>2, <1>4, <2>1 DEF RowInv, Early
<1>6. ASSUME NEW q \in Rows PROVE ListedInv(q)'
  BY <1>2 DEF ListedInv
<1>7. ASSUME NEW b \in Actors PROVE ActorInv(b)'
  BY <1>1, <1>2 DEF ActorInv
<1>8. ASSUME NEW o \in Ops PROVE LoneInv(o)'
  BY <1>2 DEF LoneInv
<1> QED
  BY <1>3, <1>5, <1>6, <1>7, <1>8 DEF IInv, HistoryInv

-----------------------------------------------------------------------------
(* Requests *)

LEMMA FindRest ==
    ASSUME DeploymentsTypeOK, NEW o \in Ops, NEW r \in Rows, NEW st, NEW copy, FindRow(o, r, st, copy)
    PROVE  requests' \in 0 .. MaxRequests /\ touched' \subseteq Rows /\ shared' \subseteq Ops
<1>1. MaxRequests \in Nat
  BY DeploymentsAssumption
<1>2. requests < MaxRequests /\ requests' = requests + 1 /\ requests \in 0 .. MaxRequests
  BY DEF FindRow, DeploymentsTypeOK
<1>3. requests' \in 0 .. MaxRequests
  BY <1>1, <1>2
<1>4. touched' \subseteq Rows /\ shared' \subseteq Ops
  BY DEF FindRow, DeploymentsTypeOK
<1> QED
  BY <1>3, <1>4

\* The steps that find the row of a deployment by its id.
LEMMA BeginStep ==
    ASSUME IInv, NEW o \in Ops, NEW r \in Rows,
           Terminate(o, r) \/ Scale(o, r) \/ RestartDeployment(o, r) \/ Rollback(o, r)
    PROVE  IInv'
<1> USE Sets
<1> DEFINE answer == [told EXCEPT ![r] = "nothing"]
<1>1. DeploymentsTypeOK /\ row[r] \in Row /\ RowInv(r)
  BY DEF IInv, HistoryInv, DeploymentsTypeOK
<1>2. PICK s \in {"terminate", "scale", "restart", "rollback"}, c \in Row :
        /\ Begin(o, r, s, c)
        /\ IF s = "restart" THEN restarted' = restarted \cup {r} ELSE restarted' = restarted
        /\ IF s \in {"restart", "rollback"} THEN told' = answer ELSE told' = told
        /\ s = "terminate" => IsOver(c)
        /\ s = "scale" => c = row[r]
        /\ s # "scale" => c.status \notin {"deployed", "expired"}
  <2> DEFINE c1 == [row[r] EXCEPT !.status = "terminated", !.stopped = TRUE]
             c2 == [row[r] EXCEPT !.status = "pending"]
             c3 == [row[r] EXCEPT !.status = "rolled_back", !.stopped = TRUE]
  <2>1. /\ c1 \in Row /\ c1.status = "terminated" /\ c1.stopped = TRUE
        /\ c2 \in Row /\ c2.status = "pending" /\ c3 \in Row /\ c3.status = "rolled_back"
    <3>1. {"terminated", "pending", "rolled_back"} \subseteq Status /\ TRUE \in BOOLEAN
      BY DEF Status
    <3>2. c1 \in Row /\ c1.status = "terminated" /\ c1.stopped = TRUE
      BY <1>1, <3>1, RowCopies
    <3>3. c2 \in Row /\ c2.status = "pending"
      BY <1>1 DEF Row, Status
    <3>4. c3 \in Row /\ c3.status = "rolled_back"
      BY <1>1, <3>1, RowCopies
    <3> QED
      BY <3>2, <3>3, <3>4
  <2>2. CASE Terminate(o, r)
    <3>1. Begin(o, r, "terminate", c1) /\ restarted' = restarted /\ told' = told
      BY <2>2 DEF Terminate
    <3> HIDE DEF c1
    <3> QED
      BY <2>1, <3>1 DEF IsOver
  <2>3. CASE Scale(o, r)
    <3>1. Begin(o, r, "scale", row[r]) /\ restarted' = restarted /\ told' = told
      BY <2>3 DEF Scale
    <3> QED
      BY <1>1, <3>1
  <2>4. CASE RestartDeployment(o, r)
    <3>1. Begin(o, r, "restart", c2) /\ restarted' = restarted \cup {r} /\ told' = answer
      BY <2>4 DEF RestartDeployment
    <3> HIDE DEF c2
    <3> QED
      BY <2>1, <3>1
  <2>5. CASE Rollback(o, r)
    <3>1. Begin(o, r, "rollback", c3) /\ restarted' = restarted /\ told' = answer
      BY <2>5 DEF Rollback
    <3> HIDE DEF c3
    <3> QED
      BY <2>1, <3>1
  <2> QED
    BY <2>2, <2>3, <2>4, <2>5
<1>3. /\ place[o] = "idle" /\ kind[r] # "none" /\ FindRow(o, r, s, c)
      /\ UNCHANGED <<kind, row, selected, chosen, tries, decay, running, faults, kept>>
  BY <1>2 DEF Begin, Free, Created
<1>4. /\ kind' = kind /\ row' = row /\ success' = success /\ cutoff' = cutoff /\ running' = running
      /\ kept' = kept /\ listed' = listed /\ kept \in BOOLEAN /\ UNCHANGED decay
  BY <1>1, <1>3 DEF tries, decay, DeploymentsTypeOK
<1>5. /\ restarted \subseteq restarted' /\ restarted' \subseteq Rows
      /\ s = "restart" => r \in restarted'
  <2>1. restarted \subseteq Rows
    BY <1>1 DEF DeploymentsTypeOK
  <2>2. CASE s = "restart"
    <3>1. restarted' = restarted \cup {r}
      BY <1>2, <2>2
    <3> QED
      BY <2>1, <3>1
  <2>3. CASE s # "restart"
    <3>1. restarted' = restarted
      BY <1>2, <2>3
    <3> QED
      BY <2>1, <2>3, <3>1
  <2> QED
    BY <2>2, <2>3
<1>6. /\ told' \in [Rows -> {"nothing", "terminated", "terminated alone"}]
      /\ \A q \in Rows : told'[q] \in {told[q], "nothing"}
      /\ told'[r] = "nothing" \/ s \in {"terminate", "scale"}
  BY <1>1, <1>2 DEF DeploymentsTypeOK
<1>7. RestType'
  BY <1>1, <1>3, <1>5, <1>6, FindRest DEF DeploymentsTypeOK, RestType, tries, decay
<1>8. c.status = "deployed" => Claim(r)'
  <2>1. c.status = "deployed" => Claim(r)
    BY <1>1, <1>2 DEF RowInv
  <2> QED
    BY <1>4, <1>5, <2>1, ClaimStays
<1>9. c.status # "expired" \/ Gone(r)'
  <2>1. c.status = "expired" => Gone(r)
    BY <1>1, <1>2 DEF RowInv
  <2> QED
    BY <1>4, <2>1, GoneStays
<1>10. WorkType' /\ HistoryInv'
  <2>1. s \in Places /\ (s = "terminate" => IsOver(c))
    BY <1>2 DEF Places
  <2>2. told'[r] = "nothing" \/ s = "terminate" \/ (s = "scale" /\ c = row[r])
    BY <1>2, <1>6
  <2> QED
    BY <1>3, <1>4, <1>5, <1>6, <1>8, <1>9, <2>1, <2>2, FindMove
<1> QED
  BY <1>7, <1>10 DEF IInv, DeploymentsTypeOK, WorkType, RestType

\* A step that only deletes the branch's objects.
LEMMA DeleteStep ==
    ASSUME IInv, UNCHANGED <<kind, row, work, tries, decay, faults, history>> \/
                 UNCHANGED <<kind, row, work, tries, decay, faults, requests, touched, restarted, shared, told>>,
           running' \in {running, Nobody}, kept' \in BOOLEAN, kept = TRUE => kept' = TRUE
    PROVE  IInv'
<1> USE Sets
<1>1. /\ DeploymentsTypeOK /\ kept \in BOOLEAN
      /\ kind' = kind /\ row' = row /\ success' = success /\ cutoff' = cutoff /\ polls' = polls
      /\ listed' = listed /\ found' = found /\ place' = place /\ about' = about
      /\ entity' = entity /\ selected' = selected /\ chosen' = chosen /\ faults' = faults
      /\ requests' = requests /\ touched' = touched /\ restarted' = restarted
      /\ shared' = shared /\ told' = told
  BY DEF IInv, DeploymentsTypeOK, work, tries, decay, history
<1>2. DeploymentsTypeOK'
  BY <1>1 DEF DeploymentsTypeOK
<1>3. ASSUME NEW q \in Rows PROVE (Claim(q) => Claim(q)') /\ (Gone(q) => Gone(q)')
  BY <1>1, ClaimStays, GoneStays
<1>4. ASSUME NEW q \in Rows PROVE RowInv(q)'
  <2>1. RowInv(q)
    BY DEF IInv, HistoryInv
  <2> QED
    BY <1>1, <1>3, <2>1 DEF RowInv
<1>5. ASSUME NEW q \in Rows PROVE ListedInv(q)'
  <2>1. ListedInv(q)
    BY DEF IInv, HistoryInv
  <2> QED
    BY <1>1, <1>3, <2>1 DEF ListedInv
<1>6. ASSUME NEW b \in Actors PROVE ActorInv(b)'
  <2>1. ActorInv(b) /\ about[b] \in Rows \cup {Nobody}
    BY <1>1 DEF IInv, HistoryInv, DeploymentsTypeOK
  <2>2. CASE about[b] = Nobody
    BY <1>1, <2>1, <2>2 DEF ActorInv
  <2>3. CASE about[b] # Nobody
    <3>1. PICK q \in Rows : q = about[b]
      BY <2>1, <2>3
    <3>2. (Claim(q) => Claim(q)') /\ (Gone(q) => Gone(q)')
      BY <1>3
    <3> QED
      BY <1>1, <2>1, <2>3, <3>1, <3>2 DEF ActorInv
  <2> QED
    BY <2>2, <2>3
<1>7. ASSUME NEW o \in Ops PROVE LoneInv(o)'
  <2>1. LoneInv(o)
    BY DEF IInv, HistoryInv
  <2> QED
    BY <1>1, <2>1 DEF LoneInv
<1> QED
  BY <1>2, <1>4, <1>5, <1>6, <1>7 DEF IInv, HistoryInv

\* The newest row of a set.
LEMMA LatestIn ==
    ASSUME NEW s \in SUBSET Rows, s # {}
    PROVE  Latest(s) \in s
<1> DEFINE less == OpToRel(<, Nat)
           T == {MaxRows - r : r \in s}
<1>1. \A y, z \in Nat : y < z => <<y, z>> \in less
  BY DEF OpToRel
<1>2. IsWellFoundedOn(less, Nat)
  BY NatLessThanWellFounded
<1> HIDE DEF less
<1>3. MaxRows \in Nat /\ \A r \in s : r \in Int /\ r <= MaxRows /\ MaxRows - r \in Nat
  <2>1. MaxRows \in Nat
    BY DeploymentsAssumption
  <2> QED
    BY <2>1 DEF Rows
<1>4. T \subseteq Nat /\ T # {}
  BY <1>3
<1>5. PICK x \in T : \A y \in T : <<y, x>> \notin less
  <2> HIDE DEF T
  <2> QED
    BY <1>2, <1>4, WFMin
<1>6. PICK r \in s : x = MaxRows - r
  OBVIOUS
<1>7. ASSUME NEW q \in s PROVE q <= r
  <2>1. MaxRows - q \in T /\ MaxRows - q \in Nat /\ x \in Nat
    BY <1>4
  <2>2. ~ (MaxRows - q < x)
    BY <1>1, <1>5, <2>1
  <2> QED
    BY <1>3, <1>6, <2>2
<1> QED
  BY <1>7 DEF Latest

\* A closing webhook.
LEMMA CloseStep ==
    ASSUME IInv, NEW o \in Ops, NEW st \in {"close", "merge"}, NEW deleted \in BOOLEAN,
           CloseNewest(o, st, deleted)
    PROVE  IInv'
<1> USE Sets
<1> DEFINE hooks == {q \in Rows : kind[q] = "hook"}
<1>1. DeploymentsTypeOK /\ kept \in BOOLEAN
  BY DEF IInv, DeploymentsTypeOK
<1>2. /\ running' \in {running, Nobody} /\ running' \in Rows \cup {Nobody}
      /\ kept' \in BOOLEAN /\ (kept = TRUE => kept' = TRUE)
  BY <1>1, DeleteObjectsGone DEF CloseNewest
<1>3. CASE hooks = {}
  <2>1. UNCHANGED <<kind, row, work, tries, decay, faults, requests, touched, restarted, shared, told>>
    BY <1>3 DEF CloseNewest
  <2> QED
    BY <1>2, <2>1, DeleteStep
<1>4. CASE hooks # {}
  <2>1. PICK r \in hooks : r = Latest(hooks)
    BY <1>4, LatestIn
  <2> DEFINE ending == IF st = "close" THEN "terminated" ELSE "deployed"
             c == [row[r] EXCEPT !.stopped = TRUE, !.status = ending]
  <2>2. /\ place[o] = "idle" /\ r \in Rows /\ kind[r] = "hook" /\ FindRow(o, r, st, c)
        /\ told' = [told EXCEPT ![r] = "nothing"]
        /\ UNCHANGED <<kind, row, selected, chosen, tries, decay, faults, restarted>>
    BY <1>4, <2>1 DEF CloseNewest, Free
  <2>3. c \in Row /\ c.status = ending
    <3>1. row[r] \in Row /\ ending \in Status
      BY <1>1, <2>2 DEF DeploymentsTypeOK, Status
    <3>2. c \in Row
      BY <3>1 DEF Row
    <3>3. c.status = ending
      BY <3>1 DEF Row
    <3> QED
      BY <3>2, <3>3
  <2> HIDE DEF c
  <2>4. RestType'
    <3>1. told' \in [Rows -> {"nothing", "terminated", "terminated alone"}]
      BY <1>1, <2>2 DEF DeploymentsTypeOK
    <3> QED
      BY <1>1, <1>2, <2>2, <3>1, FindRest DEF DeploymentsTypeOK, RestType, tries, decay
  <2>5. WorkType' /\ HistoryInv'
    <3>1. told'[r] = "nothing" /\ \A q \in Rows : told'[q] \in {told[q], "nothing"}
      BY <1>1, <2>2 DEF DeploymentsTypeOK
    <3>2. c.status # "expired" /\ Claim(r)'
      BY <2>2, <2>3 DEF Claim, Own
    <3>3. UNCHANGED <<kind, row, selected, chosen, success, decay>> /\ restarted' = restarted
      BY <2>2 DEF tries
    <3> QED
      BY <1>2, <2>2, <2>3, <3>1, <3>2, <3>3, FindMove DEF Places
  <2> QED
    BY <2>4, <2>5 DEF IInv, DeploymentsTypeOK, WorkType, RestType
<1> QED
  BY <1>3, <1>4

\* An answer, or a failure: the request is over, or goes on with what it saved.
LEMMA RequestStep ==
    ASSUME IInv, NEW o \in Ops,
           \/ Terminated(o) \/ Answered(o) \/ RestartSaved(o) \/ RestartTimer(o)
           \/ RollbackSaved(o) \/ RequestFails(o)
    PROVE  IInv'
<1> USE Sets
<1>1. DeploymentsTypeOK /\ o \in Actors /\ kept \in BOOLEAN
  BY DEF IInv, DeploymentsTypeOK
<1>2. "idle" \in Places /\ "wait" \in Places /\ "create" \in Places /\ "resave" \in Places
  BY DEF Places
<1>3. ASSUME place[o] # "idle"
      PROVE  /\ about[o] \in Rows /\ entity[o] \in Row
             /\ Updated(o) => row' \in [Rows -> Row]
  <2>1. about[o] \in Rows /\ entity[o] \in Row /\ selected[o] \in Row
    BY <1>1, <1>3, AtWork
  <2>2. ASSUME Updated(o) PROVE row' \in [Rows -> Row]
    <3>1. Saved(row[about[o]], selected[o], entity[o]) \in Row
      BY <1>1, <2>1, SavedColumns DEF DeploymentsTypeOK
    <3> QED
      BY <1>1, <2>1, <2>2, <3>1 DEF Updated, DeploymentsTypeOK
  <2> QED
    BY <2>1, <2>2
<1>4. NoRow.status = "pending"
  BY DEF NoRow, Made
<1>5. ASSUME Done(o), place[o] # "idle"
      PROVE  Moves(o, "idle", Nobody) /\ ~chosen'[o] /\ entity'[o].status = "pending"
  <2>1. entity'[o] = NoRow
    BY <1>1, <1>5 DEF Done, DeploymentsTypeOK
  <2> QED
    BY <1>1, <1>4, <1>5, <2>1, DoneMoves
<1>6. CASE Terminated(o)
  <2>1. /\ place[o] = "terminate" /\ Updated(o) /\ Done(o)
        /\ told' = [told EXCEPT ![about[o]] =
                      IF o \in shared THEN "terminated" ELSE "terminated alone"]
        /\ shared' = shared \ {o}
        /\ UNCHANGED <<kind, tries, decay, running, faults, requests, touched, restarted, kept>>
    BY <1>6 DEF Terminated
  <2>2. RestType'
    <3>1. row' \in [Rows -> Row]
      BY <1>3, <2>1
    <3>2. told' \in [Rows -> {"nothing", "terminated", "terminated alone"}]
      BY <1>1, <2>1 DEF DeploymentsTypeOK
    <3> QED
      BY <1>1, <2>1, <3>1, <3>2 DEF DeploymentsTypeOK, RestType, tries, decay
  <2>3. HistoryInv'
    <3>1. Moves(o, "idle", Nobody) /\ ~chosen'[o] /\ entity'[o].status = "pending"
      BY <1>5, <2>1
    <3>2. /\ \A q \in Rows \ {about[o]} : told'[q] = told[q]
          /\ told'[about[o]] = "terminated alone" => o \notin shared
      <4>1. about[o] \in Rows
        BY <1>3, <2>1
      <4> QED
        BY <1>1, <2>1, <4>1 DEF DeploymentsTypeOK
    <3>3. /\ UNCHANGED <<kind, success, cutoff, running, touched, restarted, kept>>
          /\ listed' = listed /\ found' = found
      BY <2>1 DEF tries, decay
    <3>4. shared \subseteq shared' \cup {o}
      BY <2>1
    <3> QED
      BY <1>1, <1>2, <2>1, <3>1, <3>2, <3>3, <3>4, UpdateMove
  <2> QED
    BY <2>2, <2>3, <1>5, <2>1 DEF IInv, DeploymentsTypeOK, WorkType, RestType, Moves
<1>7. ASSUME Updated(o), place[o] \in {"scale", "close", "merge", "resave", "restart", "rollback"},
             UNCHANGED <<kind, tries, decay, running, faults, history>>,
             NEW st \in {"idle", "wait", "create"}, NEW nx \in {about[o], Nobody},
             Moves(o, st, nx), ~chosen'[o],
             nx = Nobody => st = "idle" /\ entity'[o].status = "pending",
             nx # Nobody => /\ entity'[o].status = entity[o].status /\ place[o] # "scale"
                            /\ st # "idle" /\ (st = "wait" => place[o] = "restart")
      PROVE  IInv'
  <2>1. RestType'
    <3>1. row' \in [Rows -> Row]
      BY <1>3, <1>7
    <3> QED
      BY <1>1, <1>7, <3>1 DEF DeploymentsTypeOK, RestType, tries, decay, history
  <2>2. HistoryInv'
    <3>1. /\ UNCHANGED <<kind, success, cutoff, running, touched, restarted, kept>>
          /\ listed' = listed /\ found' = found /\ shared' = shared /\ UNCHANGED told
      BY <1>7 DEF tries, decay, history
    <3>2. st \in Places /\ place[o] # "idle" /\ o # Decay /\ o \notin Rows
      BY <1>2, <1>7
    <3> QED
      BY <1>1, <1>7, <3>1, <3>2, UpdateMove
  <2> QED
    BY <1>7, <2>1, <2>2 DEF IInv, DeploymentsTypeOK, WorkType, RestType, Moves
<1>8. CASE Answered(o)
  <2>1. /\ place[o] \in {"scale", "close", "merge", "resave"} /\ Updated(o) /\ Done(o)
        /\ UNCHANGED <<kind, tries, decay, running, faults, history>>
    BY <1>8 DEF Answered
  <2>2. Moves(o, "idle", Nobody) /\ ~chosen'[o] /\ entity'[o].status = "pending"
    BY <1>5, <2>1
  <2> QED
    BY <1>7, <2>1, <2>2
<1>9. CASE RestartSaved(o)
  <2>1. /\ place[o] = "restart" /\ Updated(o) /\ Onward(o, "wait", entity[o])
        /\ UNCHANGED <<kind, tries, decay, running, faults, history>>
    BY <1>9 DEF RestartSaved
  <2>2. Moves(o, "wait", about[o]) /\ ~chosen'[o] /\ entity'[o] = entity[o]
    BY <1>1, <1>2, <1>3, <2>1, OnwardMoves
  <2>3. about[o] # Nobody
    BY <1>3, <2>1
  <2> QED
    BY <1>7, <2>1, <2>2, <2>3
<1>10. CASE RollbackSaved(o)
  <2>1. /\ place[o] = "rollback" /\ Updated(o) /\ Onward(o, "create", entity[o])
        /\ UNCHANGED <<kind, tries, decay, running, faults, history>>
    BY <1>10 DEF RollbackSaved
  <2>2. Moves(o, "create", about[o]) /\ ~chosen'[o] /\ entity'[o] = entity[o]
    BY <1>1, <1>2, <1>3, <2>1, OnwardMoves
  <2>3. about[o] # Nobody
    BY <1>3, <2>1
  <2> QED
    BY <1>7, <2>1, <2>2, <2>3
<1>11. CASE RestartTimer(o)
  <2> DEFINE copy == [entity[o] EXCEPT !.status = "deployed"]
  <2>1. /\ place[o] = "wait" /\ Onward(o, "resave", copy)
        /\ UNCHANGED <<kind, row, tries, decay, running, faults, history>>
    BY <1>11 DEF RestartTimer
  <2>2. copy \in Row /\ copy.status = "deployed"
    <3>1. entity[o] \in Row
      BY <1>3, <2>1
    <3> QED
      BY <3>1 DEF Row, Status
  <2> HIDE DEF copy
  <2>3. Moves(o, "resave", about[o]) /\ ~chosen'[o] /\ entity'[o] = copy
    BY <1>1, <1>2, <2>1, <2>2, OnwardMoves
  <2>4. ActorInv(o)'
    <3>1. PICK r \in Rows : r = about[o]
      BY <1>3, <2>1
    <3>2. ActorInv(o) /\ about'[o] = r /\ place'[o] = "resave" /\ place[o] = "wait" /\ r # Nobody
      BY <1>1, <2>1, <2>3, <3>1 DEF IInv, HistoryInv, Moves
    <3>3. r \in restarted /\ told[r] # "terminated alone" /\ kind[r] # "none"
          /\ (place[r] # "idle" => r \in touched)
      BY <3>1, <3>2 DEF ActorInv
    <3>4. /\ kind' = kind /\ told' = told /\ restarted' = restarted /\ touched' = touched
          /\ place'[r] = place[r]
      BY <2>1, <2>3 DEF history, Moves
    <3>5. Claim(r)'
      BY <3>3, <3>4 DEF Claim
    <3> QED
      BY <2>2, <2>3, <3>2, <3>3, <3>4, <3>5 DEF ActorInv
  <2>5. HistoryInv'
    <3>1. \A q \in Rows : success'[q] = success[q]
      BY <2>1 DEF tries
    <3> QED
      BY <1>1, <1>2, <2>1, <2>3, <2>4, <3>1, QuietMove
  <2>6. RestType'
    BY <1>1, <2>1, RestStays
  <2> QED
    BY <2>3, <2>5, <2>6 DEF IInv, DeploymentsTypeOK, WorkType, RestType, Moves
<1>12. CASE RequestFails(o)
  <2>1. /\ place[o] # "idle" /\ Done(o) /\ Fault
        /\ UNCHANGED <<kind, row, tries, decay, running, history>>
    BY <1>12 DEF RequestFails
  <2>2. Moves(o, "idle", Nobody) /\ ~chosen'[o] /\ entity'[o].status = "pending"
    BY <1>5, <2>1
  <2>3. HistoryInv'
    <3>1. ActorInv(o)'
      BY <2>2 DEF ActorInv, Moves
    <3>2. \A q \in Rows : success'[q] = success[q]
      BY <2>1 DEF tries
    <3> QED
      BY <1>1, <1>2, <2>1, <2>2, <3>1, <3>2, QuietMove
  <2>4. RestType'
    <3>1. faults' \in 0 .. MaxFaults
      BY <1>1, <2>1, FaultBound
    <3> QED
      BY <1>1, <2>1, <3>1 DEF DeploymentsTypeOK, RestType, tries, decay, history
  <2> QED
    BY <2>2, <2>3, <2>4 DEF IInv, DeploymentsTypeOK, WorkType, RestType, Moves
<1> QED
  BY <1>6, <1>8, <1>9, <1>10, <1>11, <1>12

-----------------------------------------------------------------------------
(* Jobs *)

\* A step of a job that saves its row.
LEMMA JobSaves ==
    ASSUME IInv, NEW r \in Rows, BuildingSaved(r) \/ DeployingSaved(r) \/ ResultSaved(r) \/ FailingSaved(r)
    PROVE  IInv'
<1> USE Sets
<1>1. DeploymentsTypeOK /\ r \in Actors /\ r # Decay
  BY DEF IInv
<1>2. /\ Updated(r) /\ UNCHANGED <<kind, tries, decay, running, faults, history>>
      /\ place[r] \in {"building", "deploying", "result", "failing"}
  BY DEF BuildingSaved, DeployingSaved, ResultSaved, FailingSaved
<1>3. about[r] = r /\ entity[r] \in Row /\ selected[r] \in Row /\ RowInv(r)
  BY <1>1, <1>2, AtWork
<1>4. NoRow.status = "pending" /\ {"idle", "deploying", "apply", "followup"} \subseteq Places
  BY DEF NoRow, Made, Places
<1>5. ASSUME Done(r)
      PROVE  Moves(r, "idle", Nobody) /\ ~chosen'[r] /\ entity'[r].status = "pending"
  <2>1. entity'[r] = NoRow
    BY <1>1, <1>5 DEF Done, DeploymentsTypeOK
  <2> QED
    BY <1>1, <1>4, <1>5, <2>1, DoneMoves
<1>6. PICK st \in {"idle", "deploying", "apply", "followup"}, nx \in {r, Nobody} :
        /\ Moves(r, st, nx) /\ ~chosen'[r]
        /\ nx = Nobody => st = "idle" /\ entity'[r].status = "pending"
        /\ nx # Nobody => /\ st # "idle"
                          /\ entity'[r].status \in InProgress \/ entity'[r].status = entity[r].status
        /\ \/ st \in {"idle", "followup"}
           \/ place[r] \in {"building", "deploying"} /\ entity'[r].status \in InProgress
  <2>1. CASE BuildingSaved(r)
    <3> DEFINE copy == [entity[r] EXCEPT !.status = "deploying"]
    <3>1. Onward(r, "deploying", copy) /\ place[r] = "building"
      BY <2>1 DEF BuildingSaved
    <3>2. copy \in Row /\ copy.status = "deploying"
      BY <1>3 DEF Row, Status
    <3> HIDE DEF copy
    <3>3. Moves(r, "deploying", r) /\ entity'[r] = copy /\ ~chosen'[r]
      BY <1>1, <1>3, <1>4, <3>1, <3>2, OnwardMoves
    <3> QED
      BY <3>1, <3>2, <3>3 DEF InProgress
  <2>2. CASE DeployingSaved(r)
    <3>1. Onward(r, "apply", entity[r]) /\ place[r] = "deploying"
      BY <2>2 DEF DeployingSaved
    <3>2. Moves(r, "apply", r) /\ entity'[r] = entity[r] /\ ~chosen'[r]
      BY <1>1, <1>3, <1>4, <3>1, OnwardMoves
    <3>3. entity[r].status \in InProgress
      BY <1>3, <3>1 DEF RowInv
    <3> QED
      BY <3>1, <3>2, <3>3
  <2>3. CASE ResultSaved(r) /\ success[r] /\ kind[r] \in {"preview", "argo"}
    <3>1. Onward(r, "followup", entity[r])
      BY <2>3 DEF ResultSaved
    <3>2. Moves(r, "followup", r) /\ entity'[r] = entity[r] /\ ~chosen'[r]
      BY <1>1, <1>3, <1>4, <3>1, OnwardMoves
    <3> QED
      BY <3>2
  <2>4. CASE Done(r)
    BY <1>5, <2>4
  <2> QED
    BY <2>1, <2>2, <2>3, <2>4 DEF ResultSaved, FailingSaved
<1>7. RestType'
  <2>1. Saved(row[r], selected[r], entity[r]) \in Row
    BY <1>1, <1>3, SavedColumns DEF DeploymentsTypeOK
  <2>2. row' \in [Rows -> Row]
    BY <1>1, <1>2, <1>3, <2>1 DEF Updated, DeploymentsTypeOK
  <2> QED
    BY <1>1, <1>2, <2>2 DEF DeploymentsTypeOK, RestType, tries, decay, history
<1>8. HistoryInv'
  <2>1. /\ UNCHANGED <<kind, success, cutoff, running, touched, restarted, kept>>
        /\ listed' = listed /\ found' = found /\ shared' = shared /\ UNCHANGED told
    BY <1>2 DEF tries, decay, history
  <2>2. st \in Places /\ place[r] # "idle" /\ st \notin {"restart", "wait", "terminate"}
        /\ place[r] \notin {"terminate", "scale"}
    BY <1>2, <1>4
  <2>3. st \in {"idle", "followup"} \/ st \in {"deploying", "apply"}
    OBVIOUS
  <2> QED
    BY <1>1, <1>2, <1>3, <1>6, <2>1, <2>2, <2>3, UpdateMove
<1> QED
  BY <1>6, <1>7, <1>8 DEF IInv, DeploymentsTypeOK, WorkType, RestType, Moves

\* Of the row of a job that has not ended.
LEMMA JobFacts ==
    ASSUME IInv, NEW r \in Rows, place[r] # "idle"
    PROVE  /\ DeploymentsTypeOK /\ r \in Actors /\ about[r] = r /\ r # Nobody /\ r # Decay /\ r \notin Ops
           /\ entity[r] \in Row /\ row[r] \in Row /\ kind[r] # "none" /\ RowInv(r) /\ ActorInv(r)
           /\ told[r] # "terminated alone" /\ ~(r <= cutoff)
<1>1. DeploymentsTypeOK /\ row[r] \in Row /\ r \in Actors /\ r # Decay /\ r \notin Ops /\ r # Nobody
  BY Sets DEF IInv, DeploymentsTypeOK
<1>2. about[r] = r /\ kind[r] # "none" /\ RowInv(r) /\ ActorInv(r) /\ entity[r] \in Row
  BY <1>1, AtWork
<1>3. told[r] # "terminated alone" /\ ~(r <= cutoff)
  BY <1>1, <1>2 DEF ActorInv, RowInv
<1> QED
  BY <1>1, <1>2, <1>3

\* The job goes on with a copy whose status is true of the row.
LEMMA JobGoesOn ==
    ASSUME IInv, NEW r \in Rows, NEW st \in Places, place[r] # "idle", st \notin {"idle", "terminate", "restart", "wait"},
           Moves(r, st, r), UNCHANGED <<kind, row, decay, history>>,
           \A q \in Rows \ {r} : success'[q] = success[q],
           success'[r] = success[r] \/ ~success[r],
           running' = running \/ running' = r,
           entity'[r].status = "deployed" => Claim(r)',
           entity'[r].status # "expired",
           st \in Early /\ kind[r] \in Own => ~success'[r], st = "poll" => kind[r] \in Own,
           st \notin {"followup", "catch"} => place[r] \notin {"followup", "catch"} \/ row[r].status \in InProgress,
           st \in {"building", "deploying"} => entity'[r].status \in InProgress
    PROVE  HistoryInv'
<1> USE Sets
<1>1. /\ DeploymentsTypeOK /\ r \in Actors /\ about[r] = r /\ r # Nobody /\ r # Decay /\ r \notin Ops
      /\ entity[r] \in Row /\ row[r] \in Row /\ kind[r] # "none" /\ RowInv(r) /\ ActorInv(r)
      /\ told[r] # "terminated alone" /\ ~(r <= cutoff)
  BY JobFacts
<1>2. /\ kind' = kind /\ row' = row /\ cutoff' = cutoff /\ told' = told
      /\ touched' = touched /\ restarted' = restarted
      /\ place'[r] = st /\ about'[r] = r
  BY DEF decay, history, Moves
<1>3. Claim(r) => Claim(r)'
  BY <1>2 DEF Claim
<1>4. ActorInv(r)'
  BY <1>1, <1>2 DEF ActorInv
<1>5. RowInv(r)'
  <2>1. row'[r].status = "deployed" => Claim(r)'
    BY <1>1, <1>2, <1>3 DEF RowInv
  <2>2. row'[r].status # "expired"
    BY <1>1, <1>2 DEF RowInv, Gone
  <2>3. place'[r] \notin {"idle", "followup", "catch"} /\ r \notin touched' => row'[r].status \in InProgress
    BY <1>1, <1>2 DEF RowInv
  <2> QED
    BY <1>1, <1>2, <2>1, <2>2, <2>3 DEF RowInv
<1> QED
  BY <1>1, <1>4, <1>5, QuietMove

\* The job or the webhook is over without another save.
LEMMA JobEnds ==
    ASSUME IInv, NEW r \in Rows, place[r] # "idle", Done(r),
           UNCHANGED <<kind, row, tries, decay, running, requests, restarted, shared, kept, told>>,
           touched' \in {touched, touched \cup {r}}, faults' \in 0 .. MaxFaults
    PROVE  IInv'
<1> USE Sets
<1>1. DeploymentsTypeOK /\ r \in Actors /\ about[r] = r /\ RowInv(r) /\ ~(r <= cutoff) /\ kind[r] # "none"
      /\ told[r] # "terminated alone"
  BY JobFacts
<1>2. Moves(r, "idle", Nobody) /\ ~chosen'[r] /\ entity'[r].status = "pending" /\ "idle" \in Places
  <2>1. entity'[r] = NoRow /\ NoRow.status = "pending"
    BY <1>1 DEF Done, DeploymentsTypeOK, NoRow, Made
  <2> QED
    BY <1>1, <2>1, DoneMoves DEF Places
<1>3. /\ kind' = kind /\ row' = row /\ cutoff' = cutoff /\ told' = told /\ success' = success
      /\ touched \subseteq touched' /\ restarted' = restarted /\ kept' = kept /\ running' = running
      /\ place'[r] = "idle" /\ about'[r] = Nobody
  BY <1>2 DEF tries, decay, Moves
<1>4. ActorInv(r)'
  BY <1>2, <1>3 DEF ActorInv
<1>5. RowInv(r)'
  <2>1. row'[r].status = "deployed" => Claim(r)'
    BY <1>1, <1>3, ClaimStays DEF RowInv
  <2>2. row'[r].status # "expired"
    BY <1>1, <1>3 DEF RowInv, Gone
  <2> QED
    BY <1>1, <1>3, <2>1, <2>2 DEF RowInv, Early
<1>6. HistoryInv'
  BY <1>1, <1>2, <1>3, <1>4, <1>5, QuietTouch
<1>7. RestType'
  BY <1>1 DEF DeploymentsTypeOK, RestType, tries, decay
<1> QED
  BY <1>2, <1>6, <1>7 DEF IInv, DeploymentsTypeOK, WorkType, RestType, Moves

LEMMA JobFinds ==
    ASSUME IInv, NEW r \in Rows, StartJob(r) \/ Final(r) \/ Catch(r)
    PROVE  IInv'
<1> USE Sets
<1>1. place[r] \in {"timer", "final", "catch"}
  BY DEF StartJob, Final, Catch
<1>2. /\ DeploymentsTypeOK /\ r \in Actors /\ about[r] = r /\ r # Nobody /\ row[r] \in Row /\ RowInv(r)
      /\ success[r] \in BOOLEAN
  BY <1>1, JobFacts DEF DeploymentsTypeOK
<1>3. {"building", "result", "failing"} \subseteq Places
  BY DEF Places
<1>4. ASSUME NEW s \in {"building", "deployed", "failed"}, NEW st \in {"building", "result", "failing"},
             Found(r, st, [row[r] EXCEPT !.status = s]),
             UNCHANGED <<kind, row, success, decay, running, faults, history>>,
             polls' \in [Rows -> 0 .. MaxPolls],
             st = "building" => s = "building" /\ place[r] = "timer",
             s = "deployed" => success[r],
             place[r] = "catch" => row[r].status \in InProgress
      PROVE  IInv'
  <2> DEFINE copy == [row[r] EXCEPT !.status = s]
  <2>1. copy \in Row /\ copy.status = s
    BY <1>2 DEF Row, Status
  <2>2. Found(r, st, copy)
    BY <1>4
  <2> HIDE DEF copy
  <2>3. Moves(r, st, r) /\ entity'[r] = copy
    BY <1>2, <1>3, <2>1, <2>2, FoundMoves
  <2>4. s = "deployed" => Claim(r)'
    BY <1>4 DEF Claim
  <2>5. HistoryInv'
    <3>1. /\ UNCHANGED <<kind, row, decay, history>> /\ running' = running
          /\ \A q \in Rows : success'[q] = success[q]
      BY <1>4
    <3>2. st \in Early /\ kind[r] \in Own => ~success[r]
      BY <1>1, <1>2, <1>4 DEF RowInv, Early
    <3>3. st \notin {"followup", "catch"} => place[r] \notin {"followup", "catch"} \/ row[r].status \in InProgress
      BY <1>1, <1>4
    <3>4. st \in {"building", "deploying"} => entity'[r].status \in InProgress
      BY <1>4, <2>1, <2>3 DEF InProgress
    <3>5. st \in Places /\ place[r] # "idle" /\ st \notin {"idle", "terminate", "restart", "wait", "poll"}
      BY <1>1, <1>3
    <3>6. (entity'[r].status = "deployed" => Claim(r)') /\ entity'[r].status # "expired"
      BY <2>1, <2>3, <2>4
    <3> QED
      BY <2>3, <3>1, <3>2, <3>3, <3>4, <3>5, <3>6, JobGoesOn
  <2>6. RestType'
    BY <1>2, <1>4 DEF DeploymentsTypeOK, RestType, decay, history
  <2> QED
    BY <2>3, <2>5, <2>6 DEF IInv, DeploymentsTypeOK, WorkType, RestType, Moves
<1>5. CASE StartJob(r)
  <2>1. /\ place[r] = "timer" /\ Found(r, "building", [row[r] EXCEPT !.status = "building"])
        /\ UNCHANGED <<kind, row, success, decay, running, faults, history>>
        /\ polls' \in [Rows -> 0 .. MaxPolls]
    BY <1>2, <1>5 DEF StartJob, tries, DeploymentsTypeOK
  <2>2. ~success[r] \/ success[r]
    OBVIOUS
  <2> QED
    BY <1>4, <2>1
<1>6. CASE Final(r)
  <2>1. MaxPolls \in Nat
    BY DeploymentsAssumption
  <2>2. polls' \in [Rows -> 0 .. MaxPolls]
    <3>1. polls' = [polls EXCEPT ![r] = 0] /\ polls \in [Rows -> 0 .. MaxPolls]
      BY <1>2, <1>6 DEF Final, DeploymentsTypeOK
    <3>2. 0 \in 0 .. MaxPolls
      BY <2>1
    <3> QED
      BY <3>1, <3>2
  <2>3. /\ place[r] = "final"
        /\ UNCHANGED <<kind, row, success, decay, running, faults, history>>
    BY <1>6 DEF Final
  <2>4. CASE success[r]
    <3>1. Found(r, "result", [row[r] EXCEPT !.status = "deployed"])
      BY <1>6, <2>4 DEF Final
    <3> QED
      BY <1>4, <2>2, <2>3, <2>4, <3>1
  <2>5. CASE ~success[r]
    <3>1. Found(r, "result", [row[r] EXCEPT !.status = "failed"])
      BY <1>6, <2>5 DEF Final
    <3> QED
      BY <1>4, <2>2, <2>3, <3>1
  <2> QED
    BY <2>4, <2>5
<1>7. CASE Catch(r) /\ row[r].status \in InProgress
  <2>1. /\ place[r] = "catch" /\ Found(r, "failing", [row[r] EXCEPT !.status = "failed"])
        /\ UNCHANGED <<kind, row, success, decay, running, faults, history>>
        /\ polls' \in [Rows -> 0 .. MaxPolls]
    BY <1>2, <1>7 DEF Catch, tries, DeploymentsTypeOK
  <2> QED
    BY <1>4, <1>7, <2>1
<1>8. CASE Catch(r) /\ row[r].status \notin InProgress
  <2>1. /\ Done(r) /\ UNCHANGED <<kind, row, tries, decay, running, requests, restarted, shared, kept, told>>
        /\ touched' = touched /\ faults' \in 0 .. MaxFaults
    BY <1>2, <1>8 DEF Catch, DeploymentsTypeOK, history
  <2> QED
    BY <1>1, <2>1, JobEnds
<1> QED
  BY <1>5, <1>6, <1>7, <1>8

\* What the job learns from the cluster or Argo CD.
Learns(r, st, good) ==
    /\ GoTo(r, st)
    /\ success' = [success EXCEPT ![r] = good] /\ polls' \in [Rows -> 0 .. MaxPolls]
    /\ running' \in {running, r}
    /\ UNCHANGED <<kind, row, about, entity, selected, chosen, decay, faults, history>>

LEMMA LearnsStep ==
    ASSUME IInv, NEW r \in Rows, NEW st \in {"poll", "final"}, NEW good \in BOOLEAN,
           place[r] \in {"apply", "poll"}, kind[r] \in Own, Learns(r, st, good),
           st = "poll" => ~good
    PROVE  IInv'
<1> USE Sets
<1>1. /\ DeploymentsTypeOK /\ r \in Actors /\ about[r] = r /\ r # Nobody /\ RowInv(r) /\ ActorInv(r)
      /\ kind[r] # "none" /\ ~(r <= cutoff)
  BY JobFacts
<1>2. {"poll", "final"} \subseteq Places /\ "apply" \in Early /\ "poll" \in Early /\ "final" \notin Early
  BY DEF Places, Early
<1>3. /\ GoTo(r, st)
      /\ UNCHANGED <<kind, row, about, entity, selected, chosen, decay, faults, history>>
      /\ success' = [success EXCEPT ![r] = good] /\ polls' \in [Rows -> 0 .. MaxPolls]
      /\ running' \in {running, r}
  BY DEF Learns
<1>4. ~success[r]
  BY <1>1, <1>2 DEF RowInv
<1>5. Moves(r, st, r) /\ entity'[r] = entity[r]
  BY <1>1, <1>2, <1>3, GoMoves
<1>6. /\ success'[r] = good /\ \A q \in Rows \ {r} : success'[q] = success[q]
      /\ success' \in [Rows -> BOOLEAN]
  BY <1>1, <1>3 DEF DeploymentsTypeOK
<1>7. entity'[r].status = "deployed" => Claim(r)'
  <2>1. restarted' = restarted
    BY <1>3 DEF history
  <2>2. entity'[r].status = "deployed" => r \in restarted
    BY <1>1, <1>4, <1>5 DEF ActorInv, Claim
  <2> QED
    BY <2>1, <2>2 DEF Claim
<1>8. entity'[r].status # "expired"
  BY <1>1, <1>5 DEF ActorInv, Gone
<1>9. HistoryInv'
  <2>1. UNCHANGED <<kind, row, decay, history>> /\ (running' = running \/ running' = r)
    BY <1>3
  <2>2. st \in Early /\ kind[r] \in Own => ~success'[r]
    BY <1>2, <1>6
  <2>3. st \in Places /\ place[r] # "idle" /\ st \notin {"idle", "terminate", "restart", "wait", "building", "deploying"}
        /\ place[r] \notin {"followup", "catch"}
    BY <1>2
  <2> QED
    BY <1>4, <1>5, <1>6, <1>7, <1>8, <2>1, <2>2, <2>3, JobGoesOn
<1>10. RestType'
  BY <1>1, <1>3, <1>6 DEF DeploymentsTypeOK, RestType, decay, history
<1> QED
  BY <1>5, <1>9, <1>10 DEF IInv, DeploymentsTypeOK, WorkType, RestType, Moves

LEMMA JobApplies ==
    ASSUME IInv, NEW r \in Rows,
           \/ \E ok \in BOOLEAN : ApplyPreview(r, ok) \/ ApplyArgo(r, ok)
           \/ \E seen \in {"healthy", "progressing", "degraded", "other"} : Poll(r, seen)
    PROVE  IInv'
<1> USE Sets
<1>1. place[r] \in {"apply", "poll"}
  BY DEF ApplyPreview, ApplyArgo, Poll
<1>2. DeploymentsTypeOK /\ RowInv(r)
  BY <1>1, JobFacts
<1>3. ASSUME NEW ok \in BOOLEAN, ApplyPreview(r, ok) PROVE IInv'
  <2>1. kind[r] \in Own /\ Learns(r, "final", ok)
    BY <1>2, <1>3 DEF ApplyPreview, DeployK8sPreview, Learns, DeploymentsTypeOK, Own
  <2> QED
    BY <1>1, <2>1, LearnsStep
<1>4. ASSUME NEW ok \in BOOLEAN, ApplyArgo(r, ok) PROVE IInv'
  <2> DEFINE st == IF ok THEN "poll" ELSE "final"
  <2>1. kind[r] \in Own /\ place[r] = "apply"
    BY <1>4 DEF ApplyArgo, Own
  <2>2. success[r] = FALSE
    BY <1>2, <2>1 DEF RowInv, Early, DeploymentsTypeOK
  <2>3. success' = [success EXCEPT ![r] = FALSE]
    BY <1>2, <1>4, <2>2 DEF ApplyArgo, tries, DeploymentsTypeOK
  <2>4. Learns(r, st, FALSE) /\ st \in {"poll", "final"}
    BY <1>2, <1>4, <2>3 DEF ApplyArgo, Learns, tries, DeploymentsTypeOK
  <2> HIDE DEF st
  <2> QED
    BY <1>1, <2>1, <2>4, LearnsStep
<1>5. ASSUME NEW seen \in {"healthy", "progressing", "degraded", "other"}, Poll(r, seen) PROVE IInv'
  <2> DEFINE good == seen = "healthy" \/ (seen = "progressing" /\ polls'[r] >= EarlyPolls)
             st == IF good \/ seen = "degraded" \/ polls'[r] = MaxPolls THEN "final" ELSE "poll"
  <2>1. /\ place[r] = "poll" /\ polls[r] < MaxPolls
        /\ polls' = [polls EXCEPT ![r] = @ + 1]
        /\ success' = [success EXCEPT ![r] = good]
        /\ GoTo(r, st)
        /\ UNCHANGED <<kind, row, about, entity, selected, chosen, decay, running, faults, history>>
    BY <1>5 DEF Poll
  <2>2. good \in BOOLEAN /\ st \in {"poll", "final"} /\ (st = "poll" => ~good)
    OBVIOUS
  <2> HIDE DEF good, st
  <2>3. polls' \in [Rows -> 0 .. MaxPolls]
    <3>1. MaxPolls \in Nat /\ polls[r] \in 0 .. MaxPolls
      BY <1>2, DeploymentsAssumption DEF DeploymentsTypeOK
    <3>2. polls[r] + 1 \in 0 .. MaxPolls
      BY <2>1, <3>1
    <3> QED
      BY <1>2, <2>1, <3>2 DEF DeploymentsTypeOK
  <2>4. Learns(r, st, good)
    BY <2>1, <2>3 DEF Learns
  <2>5. kind[r] \in Own
    BY <1>2, <2>1 DEF RowInv
  <2> QED
    BY <1>1, <2>2, <2>4, <2>5, LearnsStep
<1> QED
  BY <1>3, <1>4, <1>5

LEMMA JobLeaves ==
    ASSUME IInv, NEW r \in Rows, Followup(r) \/ JobFault(r) \/ \E ok \in BOOLEAN : HookApply(r, ok)
    PROVE  IInv'
<1> USE Sets
<1>1. place[r] # "idle"
  BY DEF Followup, JobFault, JobFails, CatchFails, HookFails, CommentFails, HookApply
<1>2. /\ DeploymentsTypeOK /\ r \in Actors /\ about[r] = r /\ r # Nobody /\ entity[r] \in Row /\ RowInv(r)
      /\ kind[r] # "none"
  BY <1>1, JobFacts
<1>3. faults \in 0 .. MaxFaults /\ (Fault => faults' \in 0 .. MaxFaults)
  BY <1>2, FaultBound DEF DeploymentsTypeOK
<1>4. CASE Followup(r) \/ CatchFails(r) \/ CommentFails(r)
  <2>1. /\ Done(r) /\ UNCHANGED <<kind, row, tries, decay, running, requests, restarted, shared, kept, told>>
        /\ touched' \in {touched, touched \cup {r}} /\ faults' \in 0 .. MaxFaults
    BY <1>3, <1>4 DEF Followup, CatchFails, CommentFails, history
  <2> QED
    BY <1>1, <2>1, JobEnds
<1>5. ASSUME NEW st \in {"catch", "failing", "result"}, NEW copy \in Row, Onward(r, st, copy),
             UNCHANGED <<kind, row, tries, decay, history>>, running' \in {running, r},
             faults' \in 0 .. MaxFaults,
             copy.status = "deployed" => kind[r] \notin Own, copy.status # "expired",
             st # "catch" => place[r] \notin {"followup", "catch"}
      PROVE  IInv'
  <2>1. {"catch", "failing", "result"} \subseteq Places /\ st \notin Early /\ st \in Places
    BY DEF Places, Early
  <2>2. Moves(r, st, r) /\ entity'[r] = copy
    BY <1>2, <1>5, <2>1, OnwardMoves
  <2>3. HistoryInv'
    <3>1. /\ UNCHANGED <<kind, row, decay, history>> /\ (running' = running \/ running' = r)
          /\ success' = success /\ kind' = kind
      BY <1>5 DEF tries
    <3>2. (entity'[r].status = "deployed" => Claim(r)') /\ entity'[r].status # "expired"
      BY <1>5, <2>2, <3>1 DEF Claim
    <3> QED
      BY <1>1, <1>5, <2>1, <2>2, <3>1, <3>2, JobGoesOn
  <2>4. RestType'
    BY <1>2, <1>5 DEF DeploymentsTypeOK, RestType, tries, decay, history
  <2> QED
    BY <2>2, <2>3, <2>4 DEF IInv, DeploymentsTypeOK, WorkType, RestType, Moves
<1>6. CASE JobFails(r)
  <2>1. NoRow \in Row /\ NoRow.status = "pending"
    BY DEF NoRow, Made, Row, Status
  <2>2. /\ Onward(r, "catch", NoRow) /\ UNCHANGED <<kind, row, tries, decay, history>> /\ running' = running
        /\ faults' \in 0 .. MaxFaults
    BY <1>3, <1>6 DEF JobFails
  <2> QED
    BY <1>5, <2>1, <2>2
<1>7. CASE HookFails(r)
  <2> DEFINE copy == [entity[r] EXCEPT !.status = "failed"]
  <2>1. copy \in Row /\ copy.status = "failed"
    BY <1>2 DEF Row, Status
  <2>2. /\ Onward(r, "failing", copy) /\ UNCHANGED <<kind, row, tries, decay, history>> /\ running' = running
        /\ faults' \in 0 .. MaxFaults /\ place[r] = "result"
    BY <1>3, <1>7 DEF HookFails
  <2> HIDE DEF copy
  <2> QED
    BY <1>5, <2>1, <2>2
<1>8. ASSUME NEW ok \in BOOLEAN, HookApply(r, ok) PROVE IInv'
  <2> DEFINE copy == [entity[r] EXCEPT !.status = "deployed"]
  <2>1. copy \in Row /\ copy.status = "deployed"
    BY <1>2 DEF Row, Status
  <2>2. /\ Onward(r, "result", copy) /\ UNCHANGED <<kind, row, tries, decay, history>>
        /\ running' \in {running, r} /\ faults' \in 0 .. MaxFaults /\ place[r] = "apply"
        /\ kind[r] \notin Own
    BY <1>3, <1>8 DEF HookApply, DeployK8sPreview, Own
  <2> HIDE DEF copy
  <2> QED
    BY <1>5, <2>1, <2>2
<1> QED
  BY <1>4, <1>6, <1>7, <1>8 DEF JobFault

-----------------------------------------------------------------------------
(* New rows and expired ones *)

LEMMA NewStep ==
    ASSUME IInv, NEW r \in Rows,
           \/ \E k \in Kinds : Deploy(r, k) \/ Hook(r, k)
           \/ HookMain(r)
           \/ \E o \in Ops : RollbackCreate(o, r)
    PROVE  IInv'
<1> USE Sets
<1>1. /\ DeploymentsTypeOK /\ kind[r] = "none" /\ r \in Actors /\ RowInv(r) /\ ActorInv(r) /\ r # Nobody
      /\ place[r] = "idle" /\ about[r] = Nobody /\ ~chosen[r] /\ entity[r].status = "pending"
  <2>1. kind[r] = "none" /\ DeploymentsTypeOK /\ RowInv(r) /\ ActorInv(r)
    BY DEF Deploy, Hook, HookMain, RollbackCreate, NewRow, IInv, HistoryInv
  <2>2. place[r] = "idle"
    BY <2>1 DEF RowInv
  <2> QED
    BY <2>1, <2>2 DEF ActorInv
<1>2. {"idle", "timer", "comment"} \subseteq Places /\ {"pending", "building"} \subseteq InProgress
      /\ Made("building") \in Row /\ Made("building").status = "building"
      /\ NoRow.status = "pending"
  BY DEF Places, InProgress, Made, Row, Status, NoRow
<1>4. ASSUME NEW k \in Kinds, Deploy(r, k) PROVE IInv'
  <2>1. /\ kind' = [kind EXCEPT ![r] = k] /\ row' = [row EXCEPT ![r] = Made("pending")]
        /\ GoTo(r, "timer") /\ about' = [about EXCEPT ![r] = r]
        /\ UNCHANGED <<entity, selected, chosen, tries, decay, running, faults, history>>
    BY <1>4 DEF Deploy
  <2>2. Moves(r, "timer", r) /\ ~chosen'[r] /\ entity'[r].status = "pending"
    BY <1>1, <1>2, <2>1 DEF GoTo, Moves, WorkType, DeploymentsTypeOK
  <2>3. Makes(r, k, "pending", r, "timer", r)
    BY <1>1, <2>1, <2>2 DEF Makes
  <2> QED
    BY <2>3, NewMove
<1>5. ASSUME NEW k \in Kinds, Hook(r, k) PROVE IInv'
  <2>1. /\ kind' = [kind EXCEPT ![r] = k] /\ row' = [row EXCEPT ![r] = Made("building")]
        /\ about' = [about EXCEPT ![r] = r] /\ entity' = [entity EXCEPT ![r] = Made("building")]
        /\ GoTo(r, "comment") /\ UNCHANGED <<selected, chosen, tries, decay, running, faults, history>>
    BY <1>5 DEF Hook
  <2>2. Moves(r, "comment", r) /\ ~chosen'[r] /\ entity'[r].status = "building"
    BY <1>1, <1>2, <2>1 DEF GoTo, Moves, WorkType, DeploymentsTypeOK
  <2>3. Makes(r, k, "building", r, "comment", r)
    BY <1>1, <2>1, <2>2 DEF Makes
  <2> QED
    BY <2>3, NewMove
<1>6. CASE HookMain(r)
  <2>1. /\ kind' = [kind EXCEPT ![r] = "main"] /\ row' = [row EXCEPT ![r] = Made("pending")]
        /\ UNCHANGED <<work, tries, decay, running, faults, history>> /\ "main" \in Kinds
    BY <1>6 DEF HookMain, Kinds
  <2>2. Moves(r, "idle", Nobody) /\ ~chosen'[r] /\ entity'[r].status = "pending"
    BY <1>1, <2>1 DEF work, Moves, WorkType, DeploymentsTypeOK
  <2>3. Makes(r, "main", "pending", r, "idle", Nobody)
    BY <1>1, <2>1, <2>2 DEF Makes
  <2> QED
    BY <2>1, <2>3, NewMove
<1>7. ASSUME NEW o \in Ops, RollbackCreate(o, r) PROVE IInv'
  <2>1. /\ kind' = [kind EXCEPT ![r] = "rollback"] /\ row' = [row EXCEPT ![r] = Made("deployed")]
        /\ Done(o) /\ UNCHANGED <<tries, decay, running, faults, history>> /\ "rollback" \in Kinds
    BY <1>7 DEF RollbackCreate, Kinds
  <2>2. Moves(o, "idle", Nobody) /\ ~chosen'[o] /\ entity'[o].status = "pending"
    <3>1. entity'[o] = NoRow
      BY <1>1, <2>1 DEF Done, DeploymentsTypeOK
    <3> QED
      BY <1>1, <1>2, <2>1, <3>1, DoneMoves
  <2>3. Makes(r, "rollback", "deployed", o, "idle", Nobody)
    BY <1>1, <2>1, <2>2 DEF Makes
  <2> QED
    BY <2>1, <2>3, NewMove
<1> QED
  BY <1>4, <1>5, <1>6, <1>7

LEMMA ExpiredStep ==
    ASSUME IInv, Expired \/ ExpireFails
    PROVE  IInv'
<1> USE Sets
<1>1. /\ DeploymentsTypeOK /\ place[Decay] = "expire" /\ NextStale
      /\ (Updated(Decay) \/ UNCHANGED row) /\ faults' \in 0 .. MaxFaults
  BY FaultBound DEF IInv, Expired, ExpireFails, DeploymentsTypeOK
<1>2. /\ about[Decay] \in Rows /\ entity[Decay] \in Row /\ selected[Decay] \in Row
  BY <1>1, AtWork
<1>3. /\ listed' = listed \ {about[Decay]}
      /\ found' = [found EXCEPT ![about[Decay]] = NoRow]
      /\ Done(Decay)
      /\ UNCHANGED <<kind, tries, cutoff, running, history>>
  BY <1>1 DEF NextStale
<1>4. Moves(Decay, "idle", Nobody) /\ ~chosen'[Decay] /\ entity'[Decay].status = "pending"
  <2>1. entity'[Decay] = NoRow /\ NoRow.status = "pending"
    BY <1>1, <1>3 DEF Done, DeploymentsTypeOK, NoRow, Made
  <2> QED
    BY <1>1, <1>3, <2>1, DoneMoves
<1>5. HistoryInv'
  <2>1. \A q \in listed' : found'[q] = found[q]
    BY <1>1, <1>3 DEF DeploymentsTypeOK
  <2>2. /\ UNCHANGED <<kind, success, cutoff, running, touched, restarted, kept>>
        /\ shared' = shared /\ UNCHANGED told
    BY <1>3 DEF tries, history
  <2>3. listed' \subseteq listed /\ "idle" \in Places
    BY <1>3 DEF Places
  <2> QED
    BY <1>1, <1>4, <2>1, <2>2, <2>3, UpdateMove
<1>6. RestType'
  <2>1. row' \in [Rows -> Row]
    <3>1. Saved(row[about[Decay]], selected[Decay], entity[Decay]) \in Row
      BY <1>1, <1>2, SavedColumns DEF DeploymentsTypeOK
    <3>2. row \in [Rows -> Row]
      BY <1>1 DEF DeploymentsTypeOK
    <3>3. CASE Updated(Decay)
      BY <1>2, <3>1, <3>2, <3>3 DEF Updated
    <3> QED
      BY <1>1, <3>2, <3>3
  <2>2. found' \in [Rows -> Row] /\ listed' \subseteq Rows
    <3>1. NoRow \in Row
      BY DEF NoRow, Made, Row, Status
    <3> QED
      BY <1>1, <1>3, <3>1 DEF DeploymentsTypeOK
  <2> QED
    BY <1>1, <1>3, <2>1, <2>2 DEF DeploymentsTypeOK, RestType, tries, history
<1> QED
  BY <1>4, <1>5, <1>6 DEF IInv, DeploymentsTypeOK, WorkType, RestType, Moves

-----------------------------------------------------------------------------
(* The theorems *)

LEMMA InitInv == DeploymentsInit => IInv
<1> SUFFICES ASSUME DeploymentsInit PROVE IInv
  OBVIOUS
<1> USE Sets
<1>1. NoRow \in Row /\ NoRow.status = "pending"
  BY DEF NoRow, Made, Row, Status
<1>2. MaxPolls \in Nat /\ MaxFaults \in Nat /\ MaxRequests \in Nat
  BY DeploymentsAssumption
<1>3. /\ kind = [r \in Rows |-> "none"] /\ row = [r \in Rows |-> NoRow]
      /\ place = [a \in Actors |-> "idle"] /\ about = [a \in Actors |-> Nobody]
      /\ entity = [a \in Actors |-> NoRow] /\ selected = [a \in Actors |-> NoRow]
      /\ chosen = [a \in Actors |-> FALSE]
      /\ success = [r \in Rows |-> FALSE] /\ polls = [r \in Rows |-> 0]
      /\ listed = {} /\ found = [r \in Rows |-> NoRow] /\ cutoff = Nobody
      /\ running = Nobody /\ faults = 0 /\ requests = 0
      /\ touched = {} /\ restarted = {} /\ shared = {} /\ kept = FALSE
      /\ told = [r \in Rows |-> "nothing"]
  BY DEF DeploymentsInit
<1>4. DeploymentsTypeOK
  <2>1. WorkType
    BY <1>1, <1>3 DEF WorkType, Places
  <2>2. RestType
    <3>1. 0 \in 0 .. MaxPolls /\ 0 \in 0 .. MaxFaults /\ 0 \in 0 .. MaxRequests
      BY <1>2
    <3> QED
      BY <1>1, <1>3, <3>1 DEF RestType
  <2> QED
    BY <2>1, <2>2, TypeParts
<1>5. \A r \in Rows : ~(r <= cutoff)
  BY <1>3, DeploymentsAssumption DEF Rows, Nobody
<1>6. ASSUME NEW r \in Rows PROVE RowInv(r)
  BY <1>1, <1>3, <1>5 DEF RowInv, Early
<1>7. ASSUME NEW r \in Rows PROVE ListedInv(r)
  BY <1>3 DEF ListedInv
<1>8. ASSUME NEW a \in Actors PROVE ActorInv(a)
  BY <1>1, <1>3 DEF ActorInv
<1>9. ASSUME NEW o \in Ops PROVE LoneInv(o)
  BY <1>3 DEF LoneInv
<1> QED
  BY <1>4, <1>6, <1>7, <1>8, <1>9 DEF IInv, HistoryInv

\* The webhook goes on to its preview.
LEMMA HookApplies ==
    ASSUME IInv, NEW r \in Rows, HookGoesOn(r)
    PROVE  IInv'
<1> USE Sets
<1>1. place[r] = "comment" /\ "comment" \in Early /\ "apply" \in Early /\ "apply" \in Places
  BY DEF HookGoesOn, Early, Places
<1>2. /\ DeploymentsTypeOK /\ r \in Actors /\ about[r] = r /\ r # Nobody /\ RowInv(r) /\ ActorInv(r)
      /\ ~(r <= cutoff)
  BY <1>1, JobFacts
<1>3. /\ GoTo(r, "apply")
      /\ UNCHANGED <<kind, row, about, entity, selected, chosen, tries, decay, running, faults, history>>
  BY DEF HookGoesOn
<1>4. Moves(r, "apply", r) /\ entity'[r] = entity[r]
  BY <1>1, <1>2, <1>3, GoMoves
<1>5. (entity'[r].status = "deployed" => Claim(r)') /\ entity'[r].status # "expired"
  <2>1. success' = success /\ kind' = kind /\ restarted' = restarted
    BY <1>3 DEF tries, history
  <2>2. entity'[r].status = "deployed" => Claim(r)
    BY <1>2, <1>4 DEF ActorInv
  <2>3. entity'[r].status # "expired"
    BY <1>2, <1>4 DEF ActorInv, Gone
  <2> QED
    BY <2>1, <2>2, <2>3 DEF Claim
<1>6. HistoryInv'
  <2>1. UNCHANGED <<kind, row, decay, history>> /\ success' = success /\ running' = running
    BY <1>3 DEF tries
  <2>2. "apply" \in Early /\ kind[r] \in Own => ~success'[r]
    BY <1>1, <1>2, <2>1 DEF RowInv
  <2> QED
    BY <1>1, <1>4, <1>5, <2>1, <2>2, JobGoesOn
<1>7. RestType'
  BY <1>2, <1>3 DEF DeploymentsTypeOK, RestType, tries, decay, history
<1> QED
  BY <1>4, <1>6, <1>7 DEF IInv, DeploymentsTypeOK, WorkType, RestType, Moves

LEMMA NextInv == IInv /\ [DeploymentsNext]_deploymentVars => IInv'
<1> SUFFICES ASSUME IInv, [DeploymentsNext]_deploymentVars PROVE IInv'
  OBVIOUS
<1> USE Sets
<1>1. CASE UNCHANGED deploymentVars
  <2>1. /\ running' \in {running, Nobody} /\ kept' \in BOOLEAN /\ (kept = TRUE => kept' = TRUE)
        /\ UNCHANGED <<kind, row, work, tries, decay, faults, history>>
    BY <1>1 DEF deploymentVars, history, IInv, DeploymentsTypeOK
  <2> QED
    BY <2>1, DeleteStep
<1>2. ASSUME NEW r \in Rows, NEW k \in Kinds, Deploy(r, k) \/ Hook(r, k) PROVE IInv'
  BY <1>2, NewStep
<1>3. ASSUME NEW r \in Rows, HookMain(r) PROVE IInv'
  BY <1>3, NewStep
<1>4. ASSUME NEW r \in Rows, JobStep(r) PROVE IInv'
  <2>1. r \in Actors
    OBVIOUS
  <2>2. CASE StartJob(r) \/ Final(r) \/ Catch(r)
    BY <2>2, JobFinds
  <2>3. CASE BuildingSaved(r) \/ DeployingSaved(r) \/ ResultSaved(r) \/ FailingSaved(r)
    BY <2>3, JobSaves
  <2>4. CASE Select(r)
    BY <2>1, <2>4, SelectStep
  <2>5. CASE \/ \E ok \in BOOLEAN : ApplyPreview(r, ok) \/ ApplyArgo(r, ok)
             \/ \E seen \in {"healthy", "progressing", "degraded", "other"} : Poll(r, seen)
    BY <2>5, JobApplies
  <2>6. CASE Followup(r) \/ \E ok \in BOOLEAN : HookApply(r, ok)
    BY <2>6, JobLeaves
  <2> QED
    BY <1>4, <2>2, <2>3, <2>4, <2>5, <2>6, HookApplies DEF JobStep
<1>5. ASSUME NEW r \in Rows, JobFault(r) PROVE IInv'
  BY <1>5, JobLeaves
<1>6. ASSUME NEW o \in Ops, Request(o) PROVE IInv'
  <2>1. o \in Actors
    OBVIOUS
  <2>2. ASSUME NEW r \in Rows, Terminate(o, r) \/ Scale(o, r) \/ RestartDeployment(o, r) \/ Rollback(o, r)
        PROVE  IInv'
    BY <2>2, BeginStep
  <2>3. ASSUME NEW st \in {"close", "merge"}, NEW deleted \in BOOLEAN, CloseNewest(o, st, deleted)
        PROVE  IInv'
    BY <2>3, CloseStep
  <2>4. CASE Select(o)
    BY <2>1, <2>4, SelectStep
  <2>5. CASE \/ Terminated(o) \/ Answered(o) \/ RestartSaved(o) \/ RestartTimer(o)
             \/ RollbackSaved(o) \/ RequestFails(o)
    BY <2>5, RequestStep
  <2>6. ASSUME NEW r \in Rows, RollbackCreate(o, r) PROVE IInv'
    BY <2>6, NewStep
  <2> QED
    BY <1>6, <2>2, <2>3, <2>4, <2>5, <2>6 DEF Request
<1>7. CASE DecayCheck
  <2>1. ASSUME NEW r \in Rows, NEW deleted \in BOOLEAN, Expire(r, deleted) PROVE IInv'
    BY <2>1, ExpireStep
  <2> QED
    BY <1>7, <2>1, AgeStep, ListStaleStep, SelectStep, ExpiredStep DEF DecayCheck
<1>8. CASE ApiCrash \/ TimerRejected
  <2>1. faults' \in 0 .. MaxFaults /\ Stop
    BY <1>8, FaultBound DEF ApiCrash, TimerRejected, IInv
  <2> QED
    BY <2>1, StopStep
<1> QED
  BY <1>1, <1>2, <1>3, <1>4, <1>5, <1>6, <1>7, <1>8 DEF DeploymentsNext

LEMMA HistoryHolds == DeploymentsSpec => []IInv
<1>1. DeploymentsInit => IInv
  BY InitInv
<1>2. IInv /\ [DeploymentsNext]_deploymentVars => IInv'
  BY NextInv
<1> QED
  BY <1>1, <1>2, PTL DEF DeploymentsSpec

\* Every step leaves the rows alone, saves the row of an actor at work, or makes a new one.
LEMMA RowWrites ==
    ASSUME IInv, DeploymentsNext
    PROVE  \/ row' = row
           \/ \E a \in Actors : Updated(a) /\ place[a] \notin {"idle", "followup", "catch"}
           \/ \E q \in Rows, s \in Status : kind[q] = "none" /\ row' = [row EXCEPT ![q] = Made(s)]
<1> USE Sets
<1> DEFINE Kept == row' = row
           Saves == \E a \in Actors : Updated(a) /\ place[a] \notin {"idle", "followup", "catch"}
           New == \E q \in Rows, s \in Status : kind[q] = "none" /\ row' = [row EXCEPT ![q] = Made(s)]
<1>1. ASSUME NEW r \in Rows, NEW k \in Kinds, Deploy(r, k) \/ Hook(r, k) PROVE New
  BY <1>1 DEF Deploy, Hook, NewRow, Status
<1>2. ASSUME NEW r \in Rows, HookMain(r) PROVE New
  BY <1>2 DEF HookMain, NewRow, Status
<1>3. ASSUME NEW r \in Rows, JobStep(r) PROVE Kept \/ Saves
  <2>1. CASE BuildingSaved(r) \/ DeployingSaved(r) \/ ResultSaved(r) \/ FailingSaved(r)
    <3>1. Updated(r) /\ place[r] \in {"building", "deploying", "result", "failing"}
      BY <2>1 DEF BuildingSaved, DeployingSaved, ResultSaved, FailingSaved
    <3> QED
      BY <3>1
  <2>2. CASE \/ StartJob(r) \/ Final(r) \/ Catch(r) \/ Select(r) \/ Followup(r) \/ HookGoesOn(r)
             \/ \E ok \in BOOLEAN : ApplyPreview(r, ok) \/ ApplyArgo(r, ok) \/ HookApply(r, ok)
             \/ \E seen \in {"healthy", "progressing", "degraded", "other"} : Poll(r, seen)
    <3>1. Kept
      BY <2>2 DEF HookGoesOn, StartJob, Final, Catch, Select, Followup, ApplyPreview, ApplyArgo, HookApply, Poll
    <3> QED
      BY <3>1
  <2> QED
    BY <1>3, <2>1, <2>2 DEF JobStep
<1>4. ASSUME NEW r \in Rows, JobFault(r) PROVE Kept
  BY <1>4 DEF JobFault, JobFails, CatchFails, HookFails, CommentFails
<1>5. ASSUME NEW o \in Ops, Request(o) PROVE Kept \/ Saves \/ New
  <2>1. CASE Terminated(o) \/ Answered(o) \/ RestartSaved(o) \/ RollbackSaved(o)
    <3>1. Updated(o) /\ place[o] \in {"terminate", "scale", "close", "merge", "resave", "restart", "rollback"}
      BY <2>1 DEF Terminated, Answered, RestartSaved, RollbackSaved
    <3> QED
      BY <3>1
  <2>2. ASSUME NEW r \in Rows, Terminate(o, r) \/ Scale(o, r) \/ RestartDeployment(o, r) \/ Rollback(o, r)
        PROVE  Kept
    BY <2>2 DEF Terminate, Scale, RestartDeployment, Rollback, Begin
  <2>3. ASSUME NEW st \in {"close", "merge"}, NEW deleted \in BOOLEAN, CloseNewest(o, st, deleted)
        PROVE  Kept
    BY <2>3 DEF CloseNewest
  <2>4. CASE Select(o) \/ RestartTimer(o) \/ RequestFails(o)
    <3>1. Kept
      BY <2>4 DEF Select, RestartTimer, RequestFails
    <3> QED
      BY <3>1
  <2>5. ASSUME NEW r \in Rows, RollbackCreate(o, r) PROVE New
    BY <2>5 DEF RollbackCreate, NewRow, Status
  <2> QED
    BY <1>5, <2>1, <2>2, <2>3, <2>4, <2>5 DEF Request
<1>6. CASE DecayCheck
  <2>1. ASSUME NEW r \in Rows, NEW deleted \in BOOLEAN, Expire(r, deleted) PROVE Kept
    BY <2>1 DEF Expire
  <2>2. CASE Age \/ ListStale \/ Select(Decay) \/ ExpireFails
    <3>1. Kept
      BY <2>2 DEF Age, ListStale, Select, ExpireFails
    <3> QED
      BY <3>1
  <2>3. CASE Expired
    <3>1. Updated(Decay) /\ place[Decay] = "expire"
      BY <2>3 DEF Expired
    <3> QED
      BY <3>1
  <2> QED
    BY <1>6, <2>1, <2>2, <2>3 DEF DecayCheck
<1>7. CASE ApiCrash \/ TimerRejected
  BY <1>7 DEF ApiCrash, TimerRejected, Stop
<1> QED
  BY <1>1, <1>2, <1>3, <1>4, <1>5, <1>6, <1>7 DEF DeploymentsNext

\* A row that says deployed while its own job or webhook runs was found by somebody else, or hit by a crash.
LEMMA DeployedMeansTouched ==
    ASSUME IInv, DeploymentsNext, NEW r \in Rows, place[r] # "idle", row[r].status = "deployed",
           row'[r].status = "failed"
    PROVE  r \in touched
<1> USE Sets
<1>1. DeploymentsTypeOK /\ RowInv(r) /\ kind[r] # "none"
  BY JobFacts
<1>2. row'[r] # row[r]
  OBVIOUS
<1>3. CASE row' = row
  BY <1>2, <1>3
<1>4. ASSUME NEW q \in Rows, NEW s \in Status, kind[q] = "none", row' = [row EXCEPT ![q] = Made(s)]
      PROVE  FALSE
  <2>1. r # q
    BY <1>1, <1>4
  <2> QED
    BY <1>1, <1>2, <1>4, <2>1 DEF DeploymentsTypeOK
<1>5. ASSUME NEW a \in Actors, Updated(a), place[a] \notin {"idle", "followup", "catch"}
      PROVE  r \in touched
  <2>1. about[a] \in Rows /\ ActorInv(a)
    BY <1>5, AtWork
  <2>2. about[a] = r
    BY <1>1, <1>2, <1>5, <2>1 DEF Updated, DeploymentsTypeOK
  <2>3. CASE a = r
    BY <1>1, <1>5, <2>3 DEF RowInv, InProgress
  <2>4. CASE a # r
    BY <2>1, <2>2, <2>4 DEF ActorInv
  <2> QED
    BY <2>3, <2>4
<1> QED
  BY <1>3, <1>4, <1>5, RowWrites

\* The rows of the deployments say what Kubernetes and Argo CD confirmed, through every overlap of
\* jobs, requests, webhooks, decay checks and crashes, and a termination that nothing overlapped stands
\* (routes/deployments.ts, routes/webhooks.ts, lib/preview-decay.ts).
THEOREM RowsStayTrue == DeploymentsSpec => []RowsTrue
<1>1. IInv => RowsTrue
  <2> SUFFICES ASSUME IInv PROVE RowsTrue
    OBVIOUS
  <2>1. DeploymentsTypeOK /\ \A r \in Rows : RowInv(r)
    BY DEF IInv, HistoryInv
  <2>2. DeployedSucceeded
    BY <2>1 DEF DeployedSucceeded, RowInv, Claim, Own
  <2>3. ExpiredIsGone
    BY <2>1 DEF ExpiredIsGone, RowInv, Gone
  <2>4. LoneTerminationSticks
    BY <2>1 DEF LoneTerminationSticks, RowInv, IsOver
  <2> QED
    BY <2>1, <2>2, <2>3, <2>4 DEF RowsTrue
<1> QED
  BY <1>1, HistoryHolds, PTL

\* An error after the result was saved does not turn a deployed deployment into a failed one, unless somebody
\* else found its row while the job ran: the catch clause of the job looks at the status first.
THEOREM FollowupErrorsAreHarmless == DeploymentsSpec => FollowupKeepsDeployed
<1>1. IInv /\ [DeploymentsNext]_deploymentVars =>
        [\A r \in Rows :
           place[r] # "idle" /\ row[r].status = "deployed" /\ row'[r].status = "failed" =>
             r \in touched]_deploymentVars
  <2> SUFFICES ASSUME IInv, DeploymentsNext, NEW r \in Rows, place[r] # "idle", row[r].status = "deployed",
                      row'[r].status = "failed"
               PROVE  r \in touched
    OBVIOUS
  <2> QED
    BY DeployedMeansTouched
<1> QED
  BY <1>1, HistoryHolds, PTL DEF DeploymentsSpec, FollowupKeepsDeployed
=============================================================================
