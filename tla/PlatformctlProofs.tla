-------------------------- MODULE PlatformctlProofs --------------------------
(***************************************************************************)
(* The progress file of platformctl provision, for every plan and any      *)
(* number of commands: what is marked done is installed, a good end is     *)
(* complete, and what is recorded is not run again.  And the password of   *)
(* Postgres under provision, recover and the API: where it lies whatever   *)
(* is killed, and in which order recover writes it.                        *)
(***************************************************************************)
EXTENDS ProvisionSteps, Credentials, SequenceTheorems, TLAPS

-----------------------------------------------------------------------------
(* The plan and its keys *)

LEMMA PlanLength == Len(Plan) \in Nat \ {0} /\ SeedStep \in Nat /\ SeedStep = Len(Plan) + 1
BY PlanAssumption DEF SeedStep

LEMMA PlanKeys ==
    ASSUME NEW i \in 1 .. SeedStep, i # SeedStep
    PROVE  /\ i \in 1 .. Len(Plan)
           /\ Plan[i].mark \in Keys
           /\ Plan[i].key \in Keys \ {SeedKey}
           /\ Plan[i].marks \in BOOLEAN
<1>1. i \in 1 .. Len(Plan)
  BY PlanLength
<1>2. Plan[i] \in [mark : STRING, key : STRING, marks : BOOLEAN]
  BY <1>1, PlanAssumption, ElementOfSeq
<1>3. Plan[i].key # SeedKey
  BY <1>1, PlanAssumption
<1>4. Plan[i].mark \in {Plan[j].mark : j \in 1 .. Len(Plan)}
  BY <1>1
<1>5. Plan[i].key \in {Plan[j].key : j \in 1 .. Len(Plan)}
  BY <1>1
<1>6. Plan[i].mark \in Keys /\ Plan[i].key \in Keys
  BY <1>4, <1>5 DEF Keys
<1>7. Plan[i].marks \in BOOLEAN
  BY <1>2
<1> QED
  BY <1>1, <1>3, <1>6, <1>7

LEMMA KeyInKeys ==
    ASSUME TypeOK, NEW p \in All
    PROVE  Key(p) \in Keys
<1>1. at[p] \in 1 .. SeedStep
  BY DEF TypeOK
<1>2. SeedKey \in Keys
  BY DEF Keys
<1> QED
  BY <1>1, <1>2, PlanKeys DEF Key

-----------------------------------------------------------------------------
(* A step of one command *)

IndInv == TypeOK /\ StepsInv

\* p's step changes nothing of another command, and uninstalls nothing.
OnlyOf(p) ==
    /\ installed \subseteq installed'
    /\ \A q \in All \ {p} : /\ pc'[q] = pc[q] /\ at'[q] = at[q]
                            /\ last'[q] = last[q] /\ map'[q] = map[q]

\* What p's step establishes.
Preserves(p) ==
    /\ TypeOK' /\ DoneIsInstalled' /\ OnlyOf(p)
    /\ ControlInv(p)' /\ ClaimInv(p)'

LEMMA OthersKeep ==
    ASSUME IndInv, NEW p \in All, Preserves(p)
    PROVE  IndInv'
<1> SUFFICES ASSUME NEW q \in All PROVE ControlInv(q)' /\ ClaimInv(q)'
  BY DEF Preserves, IndInv, StepsInv, All
<1>1. CASE q = p
  BY <1>1 DEF Preserves
<1>2. CASE q # p
  <2>1. /\ pc'[q] = pc[q] /\ at'[q] = at[q] /\ last'[q] = last[q] /\ map'[q] = map[q]
        /\ installed \subseteq installed'
    BY <1>2 DEF Preserves, OnlyOf
  <2>2. ControlInv(q) /\ ClaimInv(q)
    BY DEF IndInv, StepsInv
  <2>3. ControlInv(q)'
    BY <2>1, <2>2 DEF ControlInv, SeedStep
  <2>4. ClaimInv(q)'
    BY <2>1, <2>2 DEF ClaimInv, SeedStep, Keys
  <2> QED
    BY <2>3, <2>4
<1> QED
  BY <1>1, <1>2

\* The facts about one command that every step below starts from.
LEMMA OwnFacts ==
    ASSUME IndInv, NEW p \in All
    PROVE  /\ file \in Files /\ installed \subseteq Keys /\ recorded \subseteq Keys
           /\ lock \in Cmds \cup {None} /\ pc \in [All -> Stages]
           /\ at \in [All -> 1 .. SeedStep] /\ last \in [All -> 1 .. SeedStep]
           /\ map \in [All -> Files]
           /\ DoneIsInstalled /\ ControlInv(p) /\ ClaimInv(p)
BY DEF IndInv, TypeOK, StepsInv

-----------------------------------------------------------------------------
(* The steps *)

LEMMA BeginStep ==
    ASSUME IndInv, NEW p \in All, NEW first \in 1 .. SeedStep, NEW to \in 1 .. SeedStep,
           NEW st \in {"mark", "check", "install"}, Begin(p, first, to, st),
           lock' \in Cmds \cup {None}, first <= to,
           st # "install" => first # SeedStep,
           p \in Cmds /\ to = SeedStep => first = 1
    PROVE  Preserves(p)
<1> USE OwnFacts
<1>1. /\ file' = file /\ installed' = installed /\ recorded' = recorded /\ map' = map
      /\ at' = [at EXCEPT ![p] = first] /\ last' = [last EXCEPT ![p] = to]
      /\ pc' = [pc EXCEPT ![p] = st]
  BY DEF Begin, Go
<1>2. TypeOK'
  BY <1>1 DEF TypeOK, Stages, SeedStep, Files, Keys
<1>3. OnlyOf(p)
  BY <1>1 DEF OnlyOf
<1>4. DoneIsInstalled'
  BY <1>1 DEF DoneIsInstalled, Keys
<1>5. at'[p] = first /\ last'[p] = to /\ pc'[p] = st
  BY <1>1
<1>6. ControlInv(p)'
  BY <1>5 DEF ControlInv, SeedStep
<1>7. ClaimInv(p)'
  BY <1>1, <1>5, PlanLength DEF ClaimInv, SeedStep, Keys
<1> QED
  BY <1>2, <1>3, <1>4, <1>6, <1>7 DEF Preserves

LEMMA MarkInProgressStep ==
    ASSUME IndInv, NEW p \in All, NEW key \in Keys,
           NEW from \in {"mark", "remark"}, NEW save \in {"markTruncate", "remarkTruncate"},
           NEW next \in {"check", "install"}, MarkInProgress(p, key, from, save, next)
    PROVE  Preserves(p)
<1> USE OwnFacts
<1>1. /\ file' = file /\ installed' = installed /\ recorded' = recorded /\ lock' = lock
      /\ at' = at /\ last' = last /\ pc[p] = from
  BY DEF MarkInProgress
<1>2. \/ map' = map /\ pc' = [pc EXCEPT ![p] = next]
      \/ /\ map' = [map EXCEPT ![p] = [file EXCEPT ![key] = "in_progress"]]
         /\ pc' = [pc EXCEPT ![p] = save]
  BY DEF MarkInProgress, Go, InProgress
<1>3. [file EXCEPT ![key] = "in_progress"] \in Files
  BY DEF Files
<1>4. TypeOK'
  <2>1. pc' \in [All -> Stages]
    BY <1>2 DEF TypeOK, Stages
  <2>2. map' \in [All -> Files]
    BY <1>2, <1>3 DEF TypeOK
  <2> QED
    BY <1>1, <2>1, <2>2 DEF TypeOK, MarkInProgress
<1>5. OnlyOf(p)
  BY <1>1, <1>2 DEF OnlyOf
<1>6. DoneIsInstalled'
  BY <1>1 DEF DoneIsInstalled, Keys
<1>7. at'[p] = at[p] /\ last'[p] = last[p] /\ pc'[p] \in {save, next}
  BY <1>1, <1>2
<1>8. at[p] # SeedStep
  BY <1>1 DEF ControlInv
<1>9. ControlInv(p)'
  BY <1>7, <1>8 DEF ControlInv, SeedStep
<1>10. \A k \in Keys \ {SeedKey} : map'[p][k] = "done" => k \in installed
  BY <1>2 DEF ClaimInv, DoneIsInstalled, Files
<1>11. pc[p] # "out"
  BY <1>1
<1>12. ClaimInv(p)'
  BY <1>1, <1>7, <1>10, <1>11 DEF ClaimInv, SeedStep, Keys
<1> QED
  BY <1>4, <1>5, <1>6, <1>9, <1>12 DEF Preserves

LEMMA TruncateStep ==
    ASSUME IndInv, NEW p \in All,
           NEW from \in {"markTruncate", "remarkTruncate", "doneTruncate"},
           NEW to \in {"markWrite", "remarkWrite", "doneWrite"}, Truncate(p, from, to),
           from = "doneTruncate" <=> to = "doneWrite"
    PROVE  Preserves(p)
<1> USE OwnFacts
<1>1. /\ file' = Empty /\ installed' = installed /\ recorded' = recorded /\ lock' = lock
      /\ at' = at /\ last' = last /\ map' = map /\ pc[p] = from
      /\ pc' = [pc EXCEPT ![p] = to]
  BY DEF Truncate, Go
<1>2. TypeOK'
  BY <1>1 DEF TypeOK, Stages, SeedStep, Files, Keys, Empty
<1>3. OnlyOf(p)
  BY <1>1 DEF OnlyOf
<1>4. DoneIsInstalled'
  BY <1>1 DEF DoneIsInstalled, Keys, Empty
<1>5. pc'[p] = to
  BY <1>1
<1>6. ControlInv(p)'
  BY <1>1, <1>5 DEF ControlInv, SeedStep
<1>7. ClaimInv(p)'
  BY <1>1, <1>5 DEF ClaimInv, SeedStep, Keys
<1> QED
  BY <1>2, <1>3, <1>4, <1>6, <1>7 DEF Preserves

LEMMA MarkWriteStep ==
    ASSUME IndInv, NEW p \in All, NEW from \in {"markWrite", "remarkWrite"},
           NEW to \in {"check", "install"}, MarkWrite(p, from, to)
    PROVE  Preserves(p)
<1> USE OwnFacts
<1>1. /\ file' = map[p] /\ installed' = installed /\ recorded' = recorded /\ lock' = lock
      /\ at' = at /\ last' = last /\ map' = map /\ pc[p] = from
      /\ pc' = [pc EXCEPT ![p] = to]
  BY DEF MarkWrite, Go
<1>2. TypeOK'
  BY <1>1 DEF TypeOK, Stages, SeedStep, Files, Keys
<1>3. OnlyOf(p)
  BY <1>1 DEF OnlyOf
<1>4. DoneIsInstalled'
  BY <1>1 DEF DoneIsInstalled, Keys, ClaimInv
<1>5. pc'[p] = to
  BY <1>1
<1>6. ControlInv(p)'
  BY <1>1, <1>5 DEF ControlInv, SeedStep
<1>7. ClaimInv(p)'
  BY <1>1, <1>5 DEF ClaimInv, SeedStep, Keys
<1> QED
  BY <1>2, <1>3, <1>4, <1>6, <1>7 DEF Preserves

\* Going on from a step that is installed keeps the control and the claims of the command.
LEMMA AdvanceKeeps ==
    ASSUME IndInv, NEW p \in All, Advance(p), pc[p] \in {"check", "doneWrite"},
           installed' = installed, last' = last, map' = map,
           at[p] # SeedStep => Plan[at[p]].key \in installed
    PROVE  /\ lock' \in Cmds \cup {None} /\ pc' \in [All -> Stages]
           /\ at' \in [All -> 1 .. SeedStep]
           /\ OnlyOf(p) /\ ControlInv(p)' /\ ClaimInv(p)'
<1> USE OwnFacts
<1>1. CASE at[p] = last[p] /\ Go(p, "ok") /\ Unlock(p) /\ UNCHANGED at
  <2>1. pc'[p] = "ok" /\ at'[p] = at[p] /\ last'[p] = last[p] /\ map'[p] = map[p]
    BY <1>1 DEF Go
  <2>2. lock' \in Cmds \cup {None} /\ pc' \in [All -> Stages] /\ at' \in [All -> 1 .. SeedStep]
    BY <1>1 DEF Go, Unlock, Stages, Ended
  <2>3. OnlyOf(p)
    BY <1>1 DEF OnlyOf, Go
  <2>4. ControlInv(p)'
    BY <1>1, <2>1 DEF ControlInv, SeedStep
  <2>5. ClaimInv(p)'
    BY <1>1, <2>1 DEF ClaimInv, SeedStep, Keys
  <2> QED
    BY <2>2, <2>3, <2>4, <2>5
<1>2. CASE /\ at[p] < last[p]
           /\ at' = [at EXCEPT ![p] = @ + 1]
           /\ Go(p, IF at[p] + 1 = SeedStep THEN "install" ELSE "mark")
           /\ UNCHANGED lock
  <2>1. /\ at'[p] = at[p] + 1 /\ last'[p] = last[p] /\ map'[p] = map[p]
        /\ pc'[p] = IF at[p] + 1 = SeedStep THEN "install" ELSE "mark"
    BY <1>2 DEF Go
  <2>2. at[p] \in 1 .. SeedStep /\ last[p] \in 1 .. SeedStep
    OBVIOUS
  <2>3. at[p] # SeedStep /\ at[p] + 1 \in 1 .. SeedStep
    BY <1>2, <2>2, PlanLength
  <2>4. lock' \in Cmds \cup {None} /\ pc' \in [All -> Stages] /\ at' \in [All -> 1 .. SeedStep]
    BY <1>2, <2>3 DEF Go, Stages
  <2>5. OnlyOf(p)
    BY <1>2 DEF OnlyOf, Go
  <2>6. ControlInv(p)'
    BY <1>2, <2>1, <2>2 DEF ControlInv, SeedStep
  <2>7. p \in Cmds /\ last[p] = SeedStep =>
          \A i \in 1 .. Len(Plan) : i < at[p] + 1 => Plan[i].key \in installed
    <3> SUFFICES ASSUME p \in Cmds, last[p] = SeedStep, NEW i \in 1 .. Len(Plan), i < at[p] + 1
                 PROVE  Plan[i].key \in installed
      OBVIOUS
    <3>1. CASE i = at[p]
      BY <2>3, <3>1
    <3>2. CASE i < at[p]
      <4>1. pc[p] # "out" /\ ClaimInv(p)
        OBVIOUS
      <4> QED
        BY <3>2, <4>1 DEF ClaimInv
    <3>3. i = at[p] \/ i < at[p]
      BY <2>2, PlanLength
    <3> QED
      BY <3>1, <3>2, <3>3
  <2>8. ClaimInv(p)'
    BY <2>1, <2>7 DEF ClaimInv, SeedStep, Keys
  <2> QED
    BY <2>4, <2>5, <2>6, <2>8
<1> QED
  BY <1>1, <1>2 DEF Advance

LEMMA CheckStep ==
    ASSUME IndInv, NEW p \in All, Check(p)
    PROVE  Preserves(p)
<1> USE OwnFacts
<1>1. /\ file' = file /\ installed' = installed /\ recorded' = recorded /\ last' = last
      /\ map' = map /\ pc[p] = "check"
  BY DEF Check
<1>2. DoneIsInstalled'
  BY <1>1 DEF DoneIsInstalled, Keys
<1>3. at[p] \in 1 .. SeedStep /\ at[p] # SeedStep
  BY <1>1 DEF ControlInv
<1>4. Key(p) = Plan[at[p]].key /\ Key(p) \in Keys \ {SeedKey}
  BY <1>3, PlanKeys DEF Key
<1>5. CASE file[Key(p)] = "done"
  <2>1. Key(p) \in installed
    BY <1>4, <1>5 DEF DoneIsInstalled
  <2>2. Advance(p)
    BY <1>5 DEF Check
  <2>3. /\ lock' \in Cmds \cup {None} /\ pc' \in [All -> Stages]
        /\ at' \in [All -> 1 .. SeedStep] /\ OnlyOf(p) /\ ControlInv(p)' /\ ClaimInv(p)'
    <3>1. Plan[at[p]].key \in installed
      BY <1>4, <2>1
    <3> HIDE OwnFacts
    <3> QED
      BY <1>1, <2>2, <3>1, AdvanceKeeps
  <2>4. TypeOK'
    BY <1>1, <2>3 DEF TypeOK, SeedStep, Files, Keys
  <2> QED
    BY <1>2, <2>3, <2>4 DEF Preserves
<1>6. CASE file[Key(p)] # "done"
  <2>1. /\ pc' = [pc EXCEPT ![p] = IF Plan[at[p]].marks THEN "remark" ELSE "install"]
        /\ lock' = lock /\ at' = at
    BY <1>6 DEF Check, Enter, Go
  <2>2. pc'[p] \in {"remark", "install"}
    BY <2>1
  <2>3. pc' \in [All -> Stages]
    BY <2>1 DEF Stages
  <2>4. TypeOK'
    BY <1>1, <2>1, <2>3 DEF TypeOK, SeedStep, Files, Keys
  <2>5. OnlyOf(p)
    BY <1>1, <2>1 DEF OnlyOf
  <2>6. ControlInv(p)'
    BY <1>1, <1>3, <2>1, <2>2 DEF ControlInv, SeedStep
  <2>7. ClaimInv(p)'
    BY <1>1, <2>1, <2>2 DEF ClaimInv, SeedStep, Keys
  <2> QED
    BY <1>2, <2>4, <2>5, <2>6, <2>7 DEF Preserves
<1> QED
  BY <1>5, <1>6

LEMMA RunStepStep ==
    ASSUME IndInv, NEW p \in All, RunStep(p)
    PROVE  Preserves(p)
<1> USE OwnFacts
<1>1. /\ file' = file /\ recorded' = recorded /\ at' = at /\ last' = last /\ map' = map
      /\ pc[p] = "install"
  BY DEF RunStep
<1>2. /\ installed \subseteq installed' /\ installed' \subseteq Keys
      /\ pc' \in [All -> Stages] /\ lock' \in Cmds \cup {None}
  <2>1. pc'[p] \in Stages /\ pc' = [pc EXCEPT ![p] = pc'[p]]
    BY DEF RunStep, Go, Stages, Ended
  <2>2. pc' \in [All -> Stages]
    BY <2>1
  <2>3. installed \subseteq installed' /\ installed' \subseteq Keys
    BY KeyInKeys DEF RunStep, IndInv
  <2>4. lock' \in Cmds \cup {None}
    BY DEF RunStep, Unlock
  <2> QED
    BY <2>2, <2>3, <2>4
<1>3. TypeOK'
  BY <1>1, <1>2 DEF TypeOK, SeedStep, Files, Keys
<1>4. OnlyOf(p)
  BY <1>1, <1>2 DEF OnlyOf, RunStep, Go
<1>5. DoneIsInstalled'
  BY <1>1, <1>2 DEF DoneIsInstalled, Keys
<1>6. /\ pc'[p] \in {"done", "ok", "failed"}
      /\ pc'[p] = "ok" => at[p] = SeedStep
      /\ pc'[p] = "done" /\ at[p] # SeedStep => Key(p) \in installed'
  BY DEF RunStep, Go
<1>7. ControlInv(p)'
  BY <1>1, <1>6 DEF ControlInv, SeedStep
<1>8. at[p] # SeedStep => Key(p) = Plan[at[p]].key
  BY DEF Key
<1>9. ClaimInv(p)'
  BY <1>1, <1>2, <1>6, <1>8 DEF ClaimInv, SeedStep, Keys
<1> QED
  BY <1>3, <1>4, <1>5, <1>7, <1>9 DEF Preserves

LEMMA MarkDoneStep ==
    ASSUME IndInv, NEW p \in All, MarkDone(p)
    PROVE  Preserves(p)
<1> USE OwnFacts
<1> DEFINE m == [file EXCEPT ![Key(p)] = "done"]
<1>1. /\ file' = file /\ installed' = installed /\ recorded' = recorded /\ lock' = lock
      /\ at' = at /\ last' = last /\ pc[p] = "done"
      /\ map' = [map EXCEPT ![p] = m] /\ pc' = [pc EXCEPT ![p] = "doneTruncate"]
  BY DEF MarkDone, Go
<1>2. Key(p) \in Keys
  BY KeyInKeys DEF IndInv
<1>3. m \in Files
  BY DEF Files
<1>4. TypeOK'
  <2>1. map' \in [All -> Files]
    BY <1>1, <1>3
  <2>2. pc' \in [All -> Stages]
    BY <1>1 DEF Stages
  <2> QED
    BY <1>1, <2>1, <2>2 DEF TypeOK, SeedStep, Files, Keys
<1>5. OnlyOf(p)
  BY <1>1 DEF OnlyOf
<1>6. DoneIsInstalled'
  BY <1>1 DEF DoneIsInstalled, Keys
<1>7. pc'[p] = "doneTruncate" /\ map'[p] = m
  BY <1>1
<1>8. ControlInv(p)'
  BY <1>1, <1>7 DEF ControlInv, SeedStep
<1>9. \A k \in Keys \ {SeedKey} : m[k] = "done" => k \in installed
  <2>1. Key(p) = SeedKey \/ Key(p) \in installed
    BY <1>1 DEF Key, ClaimInv
  <2>2. \A k \in Keys : m[k] = IF k = Key(p) THEN "done" ELSE file[k]
    BY DEF Files
  <2> QED
    BY <2>1, <2>2 DEF DoneIsInstalled
<1>10. ClaimInv(p)'
  BY <1>1, <1>7, <1>9 DEF ClaimInv, SeedStep, Keys
<1> QED
  BY <1>4, <1>5, <1>6, <1>8, <1>10 DEF Preserves

LEMMA DoneWriteStep ==
    ASSUME IndInv, NEW p \in All, DoneWrite(p)
    PROVE  Preserves(p)
<1> USE OwnFacts
<1>1. /\ file' = map[p] /\ installed' = installed /\ last' = last /\ map' = map
      /\ recorded' = recorded \cup {Key(p)} /\ pc[p] = "doneWrite" /\ Advance(p)
  BY DEF DoneWrite
<1>2. at[p] # SeedStep => Plan[at[p]].key \in installed
  BY <1>1 DEF ClaimInv
<1>3. /\ lock' \in Cmds \cup {None} /\ pc' \in [All -> Stages]
      /\ at' \in [All -> 1 .. SeedStep] /\ OnlyOf(p) /\ ControlInv(p)' /\ ClaimInv(p)'
  BY <1>1, <1>2, AdvanceKeeps
<1>4. recorded' \subseteq Keys
  BY <1>1, KeyInKeys DEF IndInv
<1>5. TypeOK'
  BY <1>1, <1>3, <1>4 DEF TypeOK, SeedStep, Files, Keys
<1>6. DoneIsInstalled'
  BY <1>1 DEF DoneIsInstalled, Keys, ClaimInv
<1> QED
  BY <1>3, <1>5, <1>6 DEF Preserves

LEMMA CrashStep ==
    ASSUME IndInv, NEW p \in All, Crash(p)
    PROVE  Preserves(p)
<1> USE OwnFacts
<1> DEFINE End == IF Saving(p) THEN "torn" ELSE "dead"
<1>1. /\ file' = file /\ installed' = installed /\ recorded' = recorded
      /\ at' = at /\ last' = last /\ map' = map /\ pc[p] # "out"
      /\ pc' = [pc EXCEPT ![p] = End] /\ lock' \in Cmds \cup {None}
  BY DEF Crash, Go, Unlock
<1>2. End \in {"torn", "dead"}
  OBVIOUS
<1> HIDE DEF End
<1>3. pc' \in [All -> Stages]
  BY <1>1, <1>2 DEF Stages, Ended
<1>4. TypeOK'
  BY <1>1, <1>3 DEF TypeOK, SeedStep, Files, Keys
<1>5. OnlyOf(p)
  BY <1>1 DEF OnlyOf
<1>6. DoneIsInstalled'
  BY <1>1 DEF DoneIsInstalled, Keys
<1>7. pc'[p] \in {"torn", "dead"}
  BY <1>1, <1>2
<1>8. ControlInv(p)'
  BY <1>1, <1>7 DEF ControlInv, SeedStep
<1>9. ClaimInv(p)'
  BY <1>1, <1>7 DEF ClaimInv, SeedStep, Keys
<1> QED
  BY <1>4, <1>5, <1>6, <1>8, <1>9 DEF Preserves

-----------------------------------------------------------------------------
(* The theorems *)

LEMMA InitInd == Init => IndInv
<1> SUFFICES ASSUME Init PROVE IndInv
  OBVIOUS
<1>1. TypeOK
  BY PlanLength DEF Init, TypeOK, Files, Empty, Stages
<1>2. DoneIsInstalled
  BY DEF Init, DoneIsInstalled, Empty
<1>3. ASSUME NEW p \in All PROVE ControlInv(p) /\ ClaimInv(p)
  BY <1>3 DEF Init, ControlInv, ClaimInv, Empty
<1> QED
  BY <1>1, <1>2, <1>3 DEF IndInv, StepsInv

LEMMA StepInd ==
    ASSUME IndInv, NEW p \in All, Step(p)
    PROVE  Preserves(p)
<1> USE OwnFacts
<1>1. at[p] \in 1 .. SeedStep
  OBVIOUS
<1>2. CASE MarkInProgress(p, Plan[at[p]].mark, "mark", "markTruncate", "check")
  <2>1. at[p] # SeedStep
    BY <1>2 DEF MarkInProgress, ControlInv
  <2> QED
    BY <1>1, <1>2, <2>1, PlanKeys, MarkInProgressStep
<1>3. CASE MarkInProgress(p, Plan[at[p]].key, "remark", "remarkTruncate", "install")
  <2>1. at[p] # SeedStep
    BY <1>3 DEF MarkInProgress, ControlInv
  <2> QED
    BY <1>1, <1>3, <2>1, PlanKeys, MarkInProgressStep
<1>4. CASE \/ Truncate(p, "markTruncate", "markWrite")
           \/ Truncate(p, "remarkTruncate", "remarkWrite")
           \/ Truncate(p, "doneTruncate", "doneWrite")
  BY <1>4, TruncateStep
<1>5. CASE MarkWrite(p, "markWrite", "check") \/ MarkWrite(p, "remarkWrite", "install")
  BY <1>5, MarkWriteStep
<1>6. CASE Check(p) \/ RunStep(p) \/ MarkDone(p) \/ DoneWrite(p)
  BY <1>6, CheckStep, RunStepStep, MarkDoneStep, DoneWriteStep
<1> QED
  BY <1>2, <1>3, <1>4, <1>5, <1>6 DEF Step

LEMMA NextInd == IndInv /\ [Next]_vars => IndInv'
<1> SUFFICES ASSUME IndInv, [Next]_vars PROVE IndInv'
  OBVIOUS
<1> USE PlanLength
<1>1. ASSUME NEW p \in Cmds, Provision(p) PROVE IndInv'
  <2>1. p \in All /\ lock' \in Cmds \cup {None} /\ Begin(p, 1, SeedStep, "mark")
    BY <1>1 DEF All, Provision
  <2> QED
    BY <2>1, BeginStep, OthersKeep
<1>2. ASSUME NEW p \in Cmds, Install(p) PROVE IndInv'
  <2>1. PICK i \in 1 .. Len(Plan) : Begin(p, i, i, "check")
    BY <1>2 DEF Install
  <2>2. p \in All /\ lock' \in Cmds \cup {None} /\ i \in 1 .. SeedStep /\ i # SeedStep
    BY <1>2 DEF All, Install
  <2> QED
    BY <2>1, <2>2, BeginStep, OthersKeep
<1>3. ASSUME NEW p \in Seeds, Seed(p) PROVE IndInv'
  <2>1. /\ p \in All /\ p \notin Cmds /\ lock' \in Cmds \cup {None}
        /\ Begin(p, SeedStep, SeedStep, "install")
    BY <1>3, PlanAssumption DEF All, Seed, IndInv, TypeOK
  <2> QED
    BY <2>1, BeginStep, OthersKeep
<1>4. ASSUME NEW p \in All, Step(p) \/ Crash(p) PROVE IndInv'
  BY <1>4, StepInd, CrashStep, OthersKeep
<1>5. CASE UNCHANGED vars
  <2>1. TypeOK'
    BY <1>5 DEF IndInv, TypeOK, vars, SeedStep, Files, Keys
  <2>2. DoneIsInstalled'
    BY <1>5 DEF IndInv, StepsInv, DoneIsInstalled, vars, Keys
  <2>3. ASSUME NEW p \in All PROVE ControlInv(p)' /\ ClaimInv(p)'
    BY <1>5 DEF IndInv, StepsInv, ControlInv, ClaimInv, vars, SeedStep, Keys
  <2> QED
    BY <2>1, <2>2, <2>3 DEF IndInv, StepsInv, All
<1> QED
  BY <1>1, <1>2, <1>3, <1>4, <1>5 DEF Next

LEMMA StepsInvariant == Spec => []IndInv
BY InitInd, NextInd, PTL DEF Spec

\* Every state is type-correct, for any plan and any number of commands.
THEOREM TypeCorrect == Spec => []TypeOK
<1>1. IndInv => TypeOK
  BY DEF IndInv
<1> QED
  BY <1>1, StepsInvariant, PTL

\* The progress file (state.go) claims no step whose software is not installed, for any plan,
\* any number of commands and of unlocked seeds beside them, and kills inside a save.
THEOREM DoneMeansInstalled == Spec => []DoneIsInstalled
<1>1. IndInv => DoneIsInstalled
  BY DEF IndInv, StepsInv
<1> QED
  BY <1>1, StepsInvariant, PTL

\* A provision (runProvision) that ends without an error has every step of its plan installed.
THEOREM GoodEndIsComplete == Spec => []EndsComplete
<1>1. IndInv => EndsComplete
  <2> SUFFICES ASSUME IndInv, NEW p \in Cmds, pc[p] = "ok", last[p] = SeedStep,
                      NEW i \in 1 .. Len(Plan)
               PROVE  Plan[i].key \in installed
    BY DEF EndsComplete
  <2>1. p \in All
    BY DEF All
  <2>2. at[p] = SeedStep
    BY <2>1, OwnFacts DEF ControlInv
  <2>3. i < at[p]
    BY <2>2, PlanLength
  <2> QED
    BY <2>1, <2>3, OwnFacts DEF ClaimInv
<1> QED
  BY <1>1, StepsInvariant, PTL

-----------------------------------------------------------------------------
(* What the progress file remembers while nothing disturbs it *)

Active(p) == pc[p] \notin Ended \cup {"out"}
Written == {"markWrite", "remarkWrite", "doneWrite"}
Saves == {"markTruncate", "remarkTruncate", "doneTruncate"} \cup Written
Entered == {"remark", "remarkTruncate", "remarkWrite", "install"}

\* A command works under the lock.  What it saves forgets nothing that was recorded, and it enters
\* no step that is.
Remembers(p) ==
    /\ Active(p) => lock = p
    /\ pc[p] \in Saves => \A k \in recorded : map[p][k] = "done"
    /\ pc[p] \in {"doneTruncate", "doneWrite"} => map[p][Key(p)] = "done"
    /\ pc[p] \in Entered /\ at[p] # SeedStep => Key(p) \notin recorded

\* The file lacks a recorded step only between a command's truncation and its write.
MemoryInv ==
    Undisturbed =>
        /\ \A p \in Cmds : Remembers(p)
        /\ \A k \in recorded : file[k] = "done" \/ \E p \in Cmds : pc[p] \in Written

LEMMA MemoryInit == Init => MemoryInv
BY DEF Init, MemoryInv, Remembers, Active, Saves, Written, Entered, All

\* A step is of one command or seed that had not ended, and leaves the others where they are.
LEMMA OneMoves ==
    ASSUME IndInv, NEW p \in All, Step(p) \/ Crash(p)
    PROVE  /\ pc[p] \notin Ended \cup {"out"} /\ pc'[p] # "out"
           /\ \A q \in All \ {p} : pc'[q] = pc[q]
<1>1. pc \in [All -> Stages]
  BY OwnFacts
<1>2. ASSUME Crash(p) PROVE OnlyOf(p)
  BY <1>2, CrashStep DEF Preserves
<1>3. ASSUME Step(p) PROVE OnlyOf(p)
  BY <1>3, StepInd DEF Preserves
<1>4. \A q \in All \ {p} : pc'[q] = pc[q]
  BY <1>2, <1>3 DEF OnlyOf
<1>5. pc[p] \notin Ended \cup {"out"}
  BY DEF Step, Crash, MarkInProgress, Truncate, MarkWrite, Check, RunStep, MarkDone, DoneWrite, Ended
<1>6. pc'[p] # "out"
  <2>1. \E st \in Stages \ {"out"} : Go(p, st)
    BY DEF Step, Crash, MarkInProgress, Truncate, MarkWrite, Check, Enter, Advance, RunStep, MarkDone,
           DoneWrite, Stages, Ended
  <2> QED
    BY <1>1, <2>1 DEF Go
<1> QED
  BY <1>4, <1>5, <1>6

\* A command alone under the lock keeps the memory when its own part holds.
LEMMA MemoryMoves ==
    ASSUME IndInv, NEW p \in Cmds, \A q \in Cmds \ {p} : ~Active(q),
           \A q \in All \ {p} : pc'[q] = pc[q],
           Undisturbed' =>
             /\ Remembers(p)'
             /\ \A k \in recorded' : file'[k] = "done" \/ pc'[p] \in Written
    PROVE  MemoryInv'
<1> SUFFICES ASSUME Undisturbed'
             PROVE  /\ \A q \in Cmds : Remembers(q)'
                    /\ \A k \in recorded' : file'[k] = "done" \/ \E q \in Cmds : pc'[q] \in Written
  BY DEF MemoryInv
<1>1. ASSUME NEW q \in Cmds, q # p PROVE Remembers(q)'
  <2>1. pc'[q] = pc[q] /\ ~Active(q)
    BY <1>1 DEF All
  <2>2. pc'[q] \in Ended \cup {"out"}
    BY <2>1 DEF Active
  <2> QED
    BY <2>2 DEF Remembers, Active, Saves, Written, Entered, Ended
<1> QED
  BY <1>1

LEMMA MemoryStep ==
    ASSUME IndInv, MemoryInv, Undisturbed, NEW p \in Cmds, Step(p) \/ Crash(p)
    PROVE  MemoryInv'
<1> USE DEF Go
<1>1. /\ p \in All /\ pc \in [All -> Stages] /\ at \in [All -> 1 .. SeedStep]
      /\ map \in [All -> Files] /\ file \in Files /\ recorded \subseteq Keys
      /\ None \notin Cmds /\ Key(p) \in Keys
      /\ ControlInv(p)
  BY OwnFacts, KeyInKeys, PlanAssumption DEF All, IndInv
<1>2. /\ Active(p) /\ pc'[p] # "out"
      /\ \A q \in All \ {p} : pc'[q] = pc[q]
  BY <1>1, OneMoves DEF Active
<1>3. /\ Remembers(p) /\ lock = p
      /\ \A q \in Cmds \ {p} : ~Active(q)
      /\ \A k \in recorded : file[k] = "done" \/ pc[p] \in Written
  <2>1. \A q \in Cmds : Remembers(q)
    BY DEF MemoryInv
  <2>2. lock = p
    BY <1>2, <2>1 DEF Remembers
  <2>3. \A q \in Cmds \ {p} : ~Active(q)
    BY <2>1, <2>2 DEF Remembers
  <2>4. \A k \in recorded : file[k] = "done" \/ \E q \in Cmds : pc[q] \in Written
    BY DEF MemoryInv
  <2>5. \A q \in Cmds : pc[q] \in Written => q = p
    BY <2>3 DEF Active, Written, Ended
  <2> QED
    BY <2>1, <2>2, <2>3, <2>4, <2>5
<1>4. SUFFICES ASSUME Undisturbed'
               PROVE  /\ Remembers(p)'
                      /\ \A k \in recorded' : file'[k] = "done" \/ pc'[p] \in Written
  BY <1>2, <1>3, MemoryMoves
\* A step that is not a save leaves the recorded steps in the file.
<1>5. ASSUME pc[p] \notin Written PROVE \A k \in recorded : file[k] = "done"
  BY <1>3, <1>5
\* After a step: nothing is left to remember but the lock.
<1>6. ASSUME Advance(p) PROVE Remembers(p)'
  <2>1. CASE pc' = [pc EXCEPT ![p] = "ok"]
    <3>1. pc'[p] = "ok"
      BY <1>1, <2>1
    <3> QED
      BY <3>1 DEF Remembers, Active, Saves, Written, Entered, Ended
  <2>2. CASE /\ at' = [at EXCEPT ![p] = @ + 1] /\ lock' = lock
             /\ pc' = [pc EXCEPT ![p] = IF at[p] + 1 = SeedStep THEN "install" ELSE "mark"]
    <3>1. /\ at'[p] = at[p] + 1
          /\ pc'[p] = IF at[p] + 1 = SeedStep THEN "install" ELSE "mark"
      BY <1>1, <2>2
    <3>2. SeedStep' = SeedStep
      BY DEF SeedStep
    <3> QED
      BY <1>3, <2>2, <3>1, <3>2 DEF Remembers, Saves, Written, Entered
  <2> QED
    BY <1>6, <2>1, <2>2 DEF Advance
<1>k. at'[p] = at[p] => Key(p)' = Key(p)
  BY DEF Key, SeedStep
<1>7. ASSUME NEW key \in Keys, NEW from \in {"mark", "remark"},
             NEW save \in {"markTruncate", "remarkTruncate"}, NEW next \in {"check", "install"},
             MarkInProgress(p, key, from, save, next),
             from = "mark" => save = "markTruncate" /\ next = "check"
      PROVE  /\ Remembers(p)'
             /\ \A k \in recorded' : file'[k] = "done" \/ pc'[p] \in Written
  <2>1. /\ pc[p] = from /\ file' = file /\ recorded' = recorded /\ lock' = lock /\ at' = at
        /\ Key(p)' = Key(p)
    BY <1>7, <1>k DEF MarkInProgress
  <2>2. \A k \in recorded : file[k] = "done"
    BY <1>5, <2>1 DEF Written
  <2>3. from = "remark" /\ at[p] # SeedStep => Key(p) \notin recorded
    BY <1>3, <2>1 DEF Remembers, Entered
  <2>4. CASE file[key] = "done" /\ pc' = [pc EXCEPT ![p] = next]
    <3>1. pc'[p] = next
      BY <1>1, <2>4
    <3> QED
      BY <1>3, <1>7, <2>1, <2>2, <2>3, <3>1 DEF Remembers, Saves, Written, Entered, SeedStep
  <2>5. CASE /\ file[key] # "done" /\ pc' = [pc EXCEPT ![p] = save]
             /\ map' = [map EXCEPT ![p] = [file EXCEPT ![key] = "in_progress"]]
    <3>1. pc'[p] = save /\ map'[p] = [file EXCEPT ![key] = "in_progress"]
      BY <1>1, <2>5
    <3>2. key \notin recorded
      BY <2>2, <2>5
    <3>3. \A k \in recorded : map'[p][k] = "done"
      BY <1>1, <2>2, <3>1, <3>2 DEF Files
    <3> QED
      BY <1>3, <1>7, <2>1, <2>2, <2>3, <3>1, <3>3 DEF Remembers, Saves, Written, Entered, SeedStep
  <2> QED
    BY <1>7, <2>4, <2>5 DEF MarkInProgress, InProgress
<1>8. ASSUME NEW from \in {"markTruncate", "remarkTruncate", "doneTruncate"}, NEW to \in Written,
             Truncate(p, from, to), from = "doneTruncate" <=> to = "doneWrite",
             from = "remarkTruncate" <=> to = "remarkWrite"
      PROVE  /\ Remembers(p)'
             /\ \A k \in recorded' : file'[k] = "done" \/ pc'[p] \in Written
  <2>1. /\ pc[p] = from /\ recorded' = recorded /\ lock' = lock /\ at' = at /\ map' = map
        /\ pc'[p] = to /\ Key(p)' = Key(p)
    BY <1>1, <1>8, <1>k DEF Truncate
  <2> QED
    BY <1>3, <1>8, <2>1 DEF Remembers, Saves, Written, Entered, SeedStep
<1>9. ASSUME NEW from \in {"markWrite", "remarkWrite"}, NEW to \in {"check", "install"},
             MarkWrite(p, from, to), from = "markWrite" => to = "check"
      PROVE  /\ Remembers(p)'
             /\ \A k \in recorded' : file'[k] = "done" \/ pc'[p] \in Written
  <2>1. /\ pc[p] = from /\ recorded' = recorded /\ lock' = lock /\ at' = at /\ file' = map[p]
        /\ pc'[p] = to /\ Key(p)' = Key(p)
    BY <1>1, <1>9, <1>k DEF MarkWrite
  <2>2. \A k \in recorded : map[p][k] = "done"
    BY <1>3, <2>1 DEF Remembers, Saves, Written
  <2> QED
    BY <1>3, <1>9, <2>1, <2>2 DEF Remembers, Saves, Written, Entered, SeedStep
<1>10. CASE Check(p)
  <2>1. /\ pc[p] = "check" /\ file' = file /\ recorded' = recorded
    BY <1>10 DEF Check
  <2>2. \A k \in recorded : file[k] = "done"
    BY <1>5, <2>1 DEF Written
  <2>3. CASE file[Key(p)] = "done"
    BY <1>6, <1>10, <2>1, <2>2, <2>3 DEF Check
  <2>4. CASE file[Key(p)] # "done"
    <3>1. pc'[p] \in {"remark", "install"} /\ lock' = lock /\ at' = at /\ Key(p)' = Key(p)
      BY <1>1, <1>10, <1>k, <2>4 DEF Check, Enter
    <3> QED
      BY <1>3, <2>1, <2>2, <2>4, <3>1 DEF Remembers, Saves, Written, Entered
  <2> QED
    BY <2>3, <2>4
<1>11. CASE RunStep(p)
  <2>1. /\ pc[p] = "install" /\ file' = file /\ recorded' = recorded
        /\ pc'[p] \in {"done", "ok", "failed"} /\ (pc'[p] = "done" => lock' = lock)
    BY <1>1, <1>11 DEF RunStep
  <2>2. \A k \in recorded : file[k] = "done"
    BY <1>5, <2>1 DEF Written
  <2> QED
    BY <1>3, <2>1, <2>2 DEF Remembers, Active, Saves, Written, Entered, Ended
<1>12. CASE MarkDone(p)
  <2>1. /\ pc[p] = "done" /\ file' = file /\ recorded' = recorded /\ lock' = lock
        /\ map'[p] = [file EXCEPT ![Key(p)] = "done"] /\ pc'[p] = "doneTruncate"
        /\ Key(p)' = Key(p)
    BY <1>1, <1>12, <1>k DEF MarkDone
  <2>2. \A k \in recorded : file[k] = "done"
    BY <1>5, <2>1 DEF Written
  <2>3. map'[p][Key(p)] = "done" /\ \A k \in recorded : map'[p][k] = "done"
    BY <1>1, <2>1, <2>2 DEF Files
  <2> QED
    BY <1>3, <2>1, <2>2, <2>3 DEF Remembers, Saves, Written, Entered
<1>13. CASE DoneWrite(p)
  <2>1. /\ pc[p] = "doneWrite" /\ file' = map[p] /\ recorded' = recorded \cup {Key(p)}
        /\ Advance(p)
    BY <1>13 DEF DoneWrite
  <2>2. \A k \in recorded' : file'[k] = "done"
    BY <1>3, <2>1 DEF Remembers, Saves, Written
  <2> QED
    BY <1>6, <2>1, <2>2
<1>14. CASE Crash(p)
  <2>1. /\ file' = file /\ recorded' = recorded
        /\ pc'[p] = IF pc[p] \in Written THEN "torn" ELSE "dead"
    BY <1>1, <1>14 DEF Crash, Saving, Written
  <2>2. pc[p] \notin Written
    BY <1>1, <1>4, <2>1 DEF Undisturbed
  <2> QED
    BY <1>5, <2>1, <2>2 DEF Remembers, Active, Saves, Written, Entered, Ended
<1>15. CASE Step(p)
  <2>1. at[p] \in 1 .. SeedStep
    BY <1>1
  <2>2. ASSUME pc[p] \in {"mark", "remark"}
        PROVE  Plan[at[p]].mark \in Keys /\ Plan[at[p]].key \in Keys
    BY <1>1, <2>1, <2>2, PlanKeys DEF ControlInv
  <2>3. CASE MarkInProgress(p, Plan[at[p]].mark, "mark", "markTruncate", "check")
    BY <1>7, <2>2, <2>3 DEF MarkInProgress
  <2>4. CASE MarkInProgress(p, Plan[at[p]].key, "remark", "remarkTruncate", "install")
    BY <1>7, <2>2, <2>4 DEF MarkInProgress
  <2>5. CASE \/ Truncate(p, "markTruncate", "markWrite")
             \/ Truncate(p, "remarkTruncate", "remarkWrite")
             \/ Truncate(p, "doneTruncate", "doneWrite")
    BY <1>8, <2>5 DEF Written
  <2>6. CASE MarkWrite(p, "markWrite", "check") \/ MarkWrite(p, "remarkWrite", "install")
    BY <1>9, <2>6
  <2> QED
    BY <1>10, <1>11, <1>12, <1>13, <1>15, <2>3, <2>4, <2>5, <2>6 DEF Step
<1> QED
  BY <1>14, <1>15

LEMMA MemoryNext ==
    ASSUME IndInv, MemoryInv, [Next]_vars
    PROVE  MemoryInv'
<1>1. CASE UNCHANGED vars
  BY <1>1 DEF vars, MemoryInv, Undisturbed, Remembers, Active, Key, SeedStep
<1>2. ASSUME NEW p \in Cmds, Provision(p) \/ Install(p) PROVE MemoryInv'
  <2>1. /\ p \in All /\ pc[p] = "out" /\ lock = None /\ lock' = p
        /\ file' = file /\ recorded' = recorded
        /\ pc' = [pc EXCEPT ![p] = "mark"] \/ pc' = [pc EXCEPT ![p] = "check"]
    BY <1>2 DEF Provision, Install, Begin, Go, All
  <2>2. pc \in [All -> Stages] /\ None \notin Cmds
    BY OwnFacts, <2>1, PlanAssumption
  <2>3. pc'[p] \in {"mark", "check"} /\ \A q \in All \ {p} : pc'[q] = pc[q]
    BY <2>1, <2>2
  <2>4. ASSUME Undisturbed' PROVE Undisturbed
    BY <2>1, <2>3, <2>4 DEF Undisturbed, All
  <2>5. CASE ~Undisturbed'
    BY <2>5 DEF MemoryInv
  <2>6. CASE Undisturbed'
    <3>1. \A q \in Cmds : Remembers(q) /\ ~Active(q)
      BY <2>1, <2>2, <2>4, <2>6 DEF MemoryInv, Remembers
    <3>2. \A k \in recorded : file[k] = "done"
      BY <2>4, <2>6, <3>1 DEF MemoryInv, Active, Written, Ended
    <3>3. Remembers(p)'
      BY <2>1, <2>3 DEF Remembers, Saves, Written, Entered
    <3> QED
      BY <2>1, <2>3, <3>1, <3>2, <3>3, MemoryMoves
  <2> QED
    BY <2>5, <2>6
<1>3. ASSUME NEW p \in Seeds, Seed(p) PROVE MemoryInv'
  <2>1. p \in All /\ pc \in [All -> Stages] /\ pc' = [pc EXCEPT ![p] = "install"]
    BY <1>3, OwnFacts DEF Seed, Begin, Go, All
  <2>2. ~Undisturbed'
    BY <2>1 DEF Undisturbed
  <2> QED
    BY <2>2 DEF MemoryInv
<1>4. ASSUME NEW p \in All, Step(p) \/ Crash(p) PROVE MemoryInv'
  <2>1. /\ pc[p] \notin Ended \cup {"out"} /\ pc'[p] # "out"
        /\ \A q \in All \ {p} : pc'[q] = pc[q]
    BY <1>4, OneMoves
  <2>2. ASSUME Undisturbed' PROVE Undisturbed /\ p \in Cmds
    <3>1. \A q \in All : pc[q] # "torn"
      BY <2>1, <2>2 DEF Undisturbed, Ended
    <3>2. p \notin Seeds
      BY <2>1, <2>2 DEF Undisturbed
    <3>3. \A q \in Seeds : pc[q] = "out"
      BY <2>1, <2>2, <3>2 DEF Undisturbed, All
    <3> QED
      BY <3>1, <3>2, <3>3 DEF Undisturbed, All
  <2>3. CASE ~Undisturbed'
    BY <2>3 DEF MemoryInv
  <2>4. CASE Undisturbed'
    BY <1>4, <2>2, <2>4, MemoryStep
  <2> QED
    BY <2>3, <2>4
<1> QED
  BY <1>1, <1>2, <1>3, <1>4 DEF Next

\* "Progress saved - completed steps are skipped" (root.go): a step whose completion was saved is
\* never installed again, for any plan and any number of commands killed outside a save, while
\* seeds, which write the file beside the lock, have not begun.
THEOREM RecordedIsNotRepeated == Spec => []NotRepeated
<1>1. IndInv /\ MemoryInv /\ [Next]_vars => IndInv' /\ MemoryInv'
  BY NextInd, MemoryNext
<1>2. MemoryInv => NotRepeated
  BY DEF MemoryInv, NotRepeated, Remembers, Entered
<1> QED
  BY <1>1, <1>2, InitInd, MemoryInit, PTL DEF Spec

-----------------------------------------------------------------------------
(* Passwords: the inductive invariant *)

Inside == {"save", "open", "write", "postgresql", "donePostgresql", "platform", "donePlatform", "finish", "rewrite",
           "provisioned"}
Persisting == {"persistFile", "persistEnv"}
Altering == {"trust", "alter", "untrust"}
Syncing == {"patchEnv", "patchSecret", "clear", "restart", "adoptFile", "adoptEnv", "recovered"}
RecoverStages == {"gather"} \cup Persisting \cup {"try"} \cup Altering \cup Syncing
Installing == {"donePostgresql", "platform", "donePlatform", "finish", "rewrite", "provisioned"}
Adopting == {"restart", "adoptFile", "adoptEnv"}

Command == [kind : {"none", "provision", "recover"}, at : {"out", "lock"} \cup Inside \cup RecoverStages,
            cfg : Pw, known : Pw, pw : Pw, tried : SUBSET Pw, sure : BOOLEAN]

\* What a command's stage says of it and of the lock.
StageInv(p) == LET c == cmd[p] IN
    /\ c.at = "out" <=> c.kind = "none"
    /\ c.at \in {"lock"} \cup Inside <=> c.kind = "provision"
    /\ c.at \in Inside <=> inside = p
    /\ c.at \in Inside \ {"save"} => c.cfg # 0
    /\ c.at \in {"lock", "save", "postgresql"} \cup (Installing \ {"rewrite"}) => c.known = c.cfg
    /\ c.at = "open" => c.known \in {0, c.cfg}
    /\ c.at \in {"gather"} \cup Persisting => c.known = c.cfg
    /\ c.at \in Persisting /\ c.cfg # 0 => c.pw = c.cfg
    /\ c.at \in RecoverStages \ {"gather"} => c.pw # 0
    /\ c.at \in {"try"} \cup Altering => tmp.alter # 0

\* Alone, recover finds on disk and under /tmp what it put there, and knows what it patched.
LoneInv(p) == LET c == cmd[p] IN
    /\ c.at # "out" /\ \A q \in Commands \ {p} : At(q, "out")
    /\ c.at \in {"try"} \cup Altering => tmp.alter = c.pw /\ envFile = c.pw
    /\ c.at \in {"persistEnv", "try"} \cup Altering => credFile = c.pw
    /\ c.at \in Altering \cup Syncing => tmp.working = c.pw
    /\ c.at \in Syncing /\ c.sure => live = c.pw
    /\ c.at \in Syncing \ {"patchEnv"} /\ c.sure => platformEnv = live
    /\ c.at \in Syncing \ {"patchEnv", "patchSecret"} /\ c.sure => secret = live
    /\ c.at = "recovered" /\ c.sure => envFile = c.pw

Writing(p) == cmd[p].at \in {"write", "rewrite"}

\* Where the password is while no accident has happened.
WhereInv ==
    /\ \A p \in Commands : cmd[p].kind = "recover" => p \in lone
    /\ \A p \in Commands : cmd[p].at \in Syncing => live = cmd[p].pw
    /\ \A p \in Commands : cmd[p].at \in Adopting => cmd[p].sure
    /\ live # 0 => \/ live \in {envFile, pending.old, pending.new}
                   \/ \E p \in Commands : Writing(p) /\ cmd[p].cfg = live
                   \/ \E p \in Commands : cmd[p].at \in Adopting
    /\ live = 0 => \A p \in Commands : At(p, "postgresql") => envFile = cmd[p].cfg
    /\ pending = NoPending /\ ("platform" \in done \/ \E p \in Commands : At(p, "donePlatform")) =>
          platformEnv = live

CredentialsIInv ==
    /\ CredentialsTypeOK /\ cmd \in [Commands -> Command]
    /\ \A p \in Commands : StageInv(p)
    /\ \A p \in lone : LoneInv(p)
    /\ live = 0 => done = {} /\ \A p \in Commands : cmd[p].at \notin Installing
    /\ \A p \in Commands : cmd[p].at \in {"finish", "rewrite", "provisioned"} => "platform" \in done
    /\ ~lapse => WhereInv

-----------------------------------------------------------------------------
(* A step of one command *)

CommandStages == {"out", "lock"} \cup Inside \cup RecoverStages

LEMMA NumbersOfPw == MaxPasswords \in Nat /\ Pw = 0 .. MaxPasswords /\ 0 \in Pw
BY CredentialsAssumption DEF Pw

LEMMA CommandNumbers ==
    ASSUME cmd' \in [Commands -> Command]
    PROVE  \A p \in Commands : /\ cmd'[p].cfg \in Pw /\ cmd'[p].known \in Pw /\ cmd'[p].pw \in Pw
                               /\ cmd'[p].tried \subseteq Pw
BY DEF Command

LEMMA IdleIsCommand == Idle \in Command
BY NumbersOfPw DEF Idle, Command

LEMMA GoFacts ==
    ASSUME cmd \in [Commands -> Command], NEW p \in Commands, NEW st \in CommandStages, GoTo(p, st)
    PROVE  /\ cmd' \in [Commands -> Command]
           /\ \A q \in Commands \ {p} : cmd'[q] = cmd[q]
           /\ cmd'[p] = [cmd[p] EXCEPT !.at = st]
           /\ cmd'[p].at = st /\ cmd'[p].kind = cmd[p].kind /\ cmd'[p].cfg = cmd[p].cfg
           /\ cmd'[p].known = cmd[p].known /\ cmd'[p].pw = cmd[p].pw /\ cmd'[p].sure = cmd[p].sure
<1>1. cmd[p] \in Command
  OBVIOUS
<1>2. [cmd[p] EXCEPT !.at = st] \in Command
  BY <1>1 DEF Command, CommandStages
<1> QED
  BY <1>1, <1>2 DEF GoTo, Command

LEMMA BecomeFacts ==
    ASSUME cmd \in [Commands -> Command], NEW p \in Commands, NEW c \in Command, Become(p, c)
    PROVE  /\ cmd' \in [Commands -> Command]
           /\ \A q \in Commands \ {p} : cmd'[q] = cmd[q]
           /\ cmd'[p] = c
BY DEF Become

\* What p's step says of everything but the places of the password.
Moved(p) ==
    /\ CredentialsTypeOK' /\ cmd' \in [Commands -> Command]
    /\ \A q \in Commands \ {p} : cmd'[q] = cmd[q]
    /\ inside' = inside \/ (inside = p /\ inside' = "free") \/ (inside = "free" /\ inside' = p)
    /\ tmp.alter # 0 => tmp'.alter # 0
    /\ StageInv(p)'
    /\ lone' \subseteq {p} /\ (p \in lone' => LoneInv(p)')
    /\ live' = 0 => live = 0 /\ done' = {} /\ cmd'[p].at \notin Installing
    /\ done \subseteq done' \/ inside = p
    /\ cmd'[p].at \in {"finish", "rewrite", "provisioned"} => "platform" \in done'

LEMMA StepKeeps ==
    ASSUME CredentialsIInv, NEW p \in Commands, Moved(p), ~lapse' => WhereInv'
    PROVE  CredentialsIInv'
<1>1. \A q \in Commands : StageInv(q)
  BY DEF CredentialsIInv
<1>2. ASSUME NEW q \in Commands \ {p} PROVE StageInv(q)'
  <2>1. cmd'[q] = cmd[q] /\ StageInv(q) /\ q # "free"
    BY <1>1, CredentialsAssumption DEF Moved
  <2>2. inside = q <=> inside' = q
    BY <1>1, <2>1 DEF Moved
  <2>3. tmp.alter # 0 => tmp'.alter # 0
    BY DEF Moved
  <2> QED
    BY <2>1, <2>2, <2>3 DEF StageInv
<1>3. \A q \in Commands : StageInv(q)'
  BY <1>2 DEF Moved
<1>4. \A q \in lone' : LoneInv(q)'
  BY DEF Moved
<1>5. live' = 0 => done' = {} /\ \A q \in Commands : cmd'[q].at \notin Installing
  BY DEF Moved, CredentialsIInv
<1>6. ASSUME NEW q \in Commands, cmd'[q].at \in {"finish", "rewrite", "provisioned"}
      PROVE  "platform" \in done'
  <2>1. CASE q = p
    BY <1>6, <2>1 DEF Moved
  <2>2. CASE q # p
    <3>1. cmd[q].at \in {"finish", "rewrite", "provisioned"} /\ "platform" \in done
      BY <1>6, <2>2 DEF Moved, CredentialsIInv
    <3>2. inside = q
      BY <1>1, <3>1 DEF StageInv, Inside
    <3> QED
      BY <2>2, <3>1, <3>2 DEF Moved
  <2> QED
    BY <2>1, <2>2
<1> QED
  BY <1>3, <1>4, <1>5, <1>6 DEF Moved, CredentialsIInv

\* Without an accident recover runs alone.
LEMMA RecoverIsAlone ==
    ASSUME CredentialsIInv, ~lapse, NEW p \in Commands, ~At(p, "out"), NEW q \in Commands, q # p
    PROVE  cmd[q].kind # "recover" /\ cmd[q].at \notin RecoverStages
<1>1. cmd[q].at \in RecoverStages => cmd[q].kind = "recover"
  BY DEF CredentialsIInv, StageInv, Command, RecoverStages, Persisting, Altering, Syncing, Inside
<1>2. cmd[q].kind = "recover" => q \in lone
  BY DEF CredentialsIInv, WhereInv
<1>3. q \in lone => At(p, "out")
  BY DEF CredentialsIInv, LoneInv
<1> QED
  BY <1>1, <1>2, <1>3

\* A step that leaves every place as it is.
LEMMA WhereQuiet ==
    ASSUME CredentialsIInv, ~lapse, NEW p \in Commands,
           \A q \in Commands \ {p} : cmd'[q] = cmd[q] /\ cmd[q].kind # "recover",
           \A q \in Commands \ {p} : cmd[q].at \notin RecoverStages,
           live' = live, envFile' = envFile, pending' = pending, platformEnv' = platformEnv,
           done' \subseteq done,
           cmd'[p].kind = "recover" => p \in lone',
           cmd'[p].at \in Syncing => live = cmd'[p].pw,
           cmd'[p].at \in Adopting => cmd'[p].sure,
           ~Writing(p), cmd[p].at \in Adopting => cmd'[p].at \in Adopting,
           cmd'[p].at \notin {"postgresql", "donePlatform"}
    PROVE  WhereInv'
<1>1. WhereInv
  BY DEF CredentialsIInv
<1>2. \A q \in Commands \ {p} : cmd'[q].at \notin Syncing \cup Adopting
  BY DEF RecoverStages, Syncing, Adopting
<1>3. /\ \A q \in Commands : cmd'[q].kind = "recover" => q \in lone'
      /\ \A q \in Commands : cmd'[q].at \in Syncing => live' = cmd'[q].pw
      /\ \A q \in Commands : cmd'[q].at \in Adopting => cmd'[q].sure
  BY <1>2
<1>4. live' # 0 => \/ live' \in {envFile', pending'.old, pending'.new}
                   \/ \E q \in Commands : Writing(q)' /\ cmd'[q].cfg = live'
                   \/ \E q \in Commands : cmd'[q].at \in Adopting
  BY <1>1 DEF WhereInv, Writing
<1>5. live' = 0 => \A q \in Commands : At(q, "postgresql")' => envFile' = cmd'[q].cfg
  BY <1>1 DEF WhereInv, At
<1>6. pending' = NoPending /\ ("platform" \in done' \/ \E q \in Commands : At(q, "donePlatform")') =>
          platformEnv' = live'
  BY <1>1 DEF WhereInv, At
<1> QED
  BY <1>3, <1>4, <1>5, <1>6 DEF WhereInv

-----------------------------------------------------------------------------
(* The steps of provision *)

LEMMA CommandFacts ==
    ASSUME CredentialsIInv, NEW p \in Commands
    PROVE  /\ CredentialsTypeOK /\ cmd \in [Commands -> Command] /\ cmd[p] \in Command
           /\ StageInv(p) /\ (p \in lone => LoneInv(p)) /\ p # "free"
           /\ live = 0 => done = {} /\ cmd[p].at \notin Installing
           /\ cmd[p].at \in {"finish", "rewrite", "provisioned"} => "platform" \in done
           /\ ~lapse => WhereInv
BY CredentialsAssumption DEF CredentialsIInv

\* A command that acts leaves alone only itself.
LEMMA LoneAfter ==
    ASSUME CredentialsIInv, NEW p \in Commands, ~At(p, "out"), Ran(p)
    PROVE  lone' \subseteq {p} /\ (p \in lone' <=> p \in lone /\ cmd'[p].at # "out")
BY DEF Ran

LEMMA StartStep ==
    ASSUME CredentialsIInv, NEW p \in Commands,
           NEW kind \in {"provision", "recover"}, NEW st \in {"lock", "gather"},
           st = (IF kind = "provision" THEN "lock" ELSE "gather"), Start(p, kind, st)
    PROVE  CredentialsIInv'
<1> USE CommandFacts
<1> DEFINE c == [Idle EXCEPT !.kind = kind, !.at = st, !.cfg = Load, !.known = envFile]
<1>1. c \in Command /\ c.at = st /\ c.kind = kind /\ c.cfg = envFile /\ c.known = envFile
  BY NumbersOfPw DEF Idle, Command, CredentialsTypeOK, Load, RecoverStages
<1>2. /\ cmd' \in [Commands -> Command] /\ cmd'[p] = c
      /\ \A q \in Commands \ {p} : cmd'[q] = cmd[q]
  <2>1. Become(p, c)
    BY DEF Start
  <2> HIDE DEF c
  <2> QED
    BY <1>1, <2>1, BecomeFacts
<1> HIDE DEF c
<1>3. /\ live' = live /\ trust' = trust /\ envFile' = envFile /\ credFile' = credFile
      /\ platformEnv' = platformEnv /\ secret' = secret /\ pending' = pending /\ api' = api
      /\ done' = done /\ inside' = inside /\ tmp' = tmp /\ made' = made /\ At(p, "out")
  BY DEF Start, stores
<1>4. lone' \subseteq {p} /\ (p \in lone' <=> \A q \in Commands : At(q, "out"))
  BY DEF Start
<1>5. CredentialsTypeOK'
  <2>1. /\ runs' \in [commands : 0 .. MaxRuns, rotations : 0 .. MaxRotations] /\ lapse' \in BOOLEAN
    BY CredentialsAssumption DEF Start, CredentialsTypeOK, Lapsed
  <2> QED
    BY <1>2, <1>3, <1>4, <2>1 DEF CredentialsTypeOK, Command
<1>6. StageInv(p)'
  BY <1>1, <1>2, <1>3 DEF StageInv, At, Command, Inside, RecoverStages, Persisting, Altering, Syncing, Installing
<1>7. p \in lone' => LoneInv(p)'
  BY <1>1, <1>2, <1>4 DEF LoneInv, At, Altering, Syncing
<1>8. Moved(p)
  BY <1>1, <1>2, <1>3, <1>4, <1>5, <1>6, <1>7 DEF Moved, Installing
<1>9. ASSUME ~lapse' PROVE WhereInv'
  <2>1. ~lapse /\ ~(\E q \in Commands : ~At(q, "out") /\ "recover" \in {kind, cmd[q].kind})
    BY <1>9 DEF Start, Lapsed
  <2>2. \A q \in Commands : cmd[q].kind # "recover" /\ cmd[q].at \notin RecoverStages
    BY <2>1 DEF CredentialsIInv, StageInv, At, Command, RecoverStages, Persisting, Altering, Syncing, Inside
  <2>3. cmd'[p].kind = "recover" => p \in lone'
    BY <1>1, <1>2, <1>4, <2>1
  <2> QED
    BY <1>1, <1>2, <1>3, <2>1, <2>2, <2>3, WhereQuiet DEF Writing, At, Syncing, Adopting
<1> QED
  BY <1>8, <1>9, StepKeeps

LEMMA LockStep ==
    ASSUME CredentialsIInv, NEW p \in Commands, Lock(p)
    PROVE  CredentialsIInv'
<1> USE CommandFacts
<1>1. /\ live' = live /\ trust' = trust /\ envFile' = envFile /\ credFile' = credFile
      /\ platformEnv' = platformEnv /\ secret' = secret /\ pending' = pending /\ api' = api
      /\ done' = done /\ tmp' = tmp /\ made' = made /\ runs' = runs /\ lapse' = lapse
      /\ cmd[p].at = "lock"
  BY DEF Lock, stores, At
<1>2. /\ cmd' \in [Commands -> Command] /\ \A q \in Commands \ {p} : cmd'[q] = cmd[q]
      /\ \/ /\ inside = "free" /\ inside' = p
            /\ cmd'[p].at = "save" /\ cmd'[p].kind = cmd[p].kind /\ cmd'[p].cfg = cmd[p].cfg
            /\ cmd'[p].known = cmd[p].known
         \/ inside' = inside /\ cmd'[p] = Idle
  <2>1. CASE inside = "free" /\ inside' = p /\ GoTo(p, "save")
    <3>1. "save" \in CommandStages
      BY DEF CommandStages, Inside
    <3> QED
      BY <2>1, <3>1, GoFacts
  <2>2. CASE inside' = inside /\ Become(p, Idle)
    BY <2>2, IdleIsCommand, BecomeFacts
  <2> QED
    BY <2>1, <2>2 DEF Lock
<1>3. lone' \subseteq {p} /\ (p \in lone' => p \in lone /\ cmd'[p].at # "out")
  BY <1>1, LoneAfter DEF Lock, At
<1>4. CredentialsTypeOK'
  BY <1>1, <1>2, <1>3 DEF CredentialsTypeOK, Command
<1>5. StageInv(p)'
  <2>1. CASE inside' = p /\ cmd'[p].at = "save"
    BY <1>1, <1>2, <2>1 DEF StageInv, Idle, Inside, RecoverStages, Persisting, Altering, Syncing, Installing
  <2>2. CASE inside' = inside /\ cmd'[p] = Idle
    <3>1. inside # p
      BY <1>1 DEF StageInv, Inside
    <3> QED
      BY <2>2, <3>1 DEF StageInv, Idle, Inside, RecoverStages, Persisting, Altering, Syncing, Installing
  <2> QED
    BY <1>2, <2>1, <2>2
<1>6. p \in lone' => LoneInv(p)'
  BY <1>1, <1>2, <1>3 DEF LoneInv, At, Idle, Altering, Syncing
<1>7. Moved(p)
  BY <1>1, <1>2, <1>3, <1>4, <1>5, <1>6 DEF Moved, Installing, Idle
<1>8. ASSUME ~lapse' PROVE WhereInv'
  <2>1. \A q \in Commands \ {p} : cmd'[q] = cmd[q] /\ cmd[q].kind # "recover" /\ cmd[q].at \notin RecoverStages
    BY <1>1, <1>2, <1>8, RecoverIsAlone DEF At
  <2>2. cmd'[p].kind # "recover" /\ cmd'[p].at \in {"save", "out"}
    BY <1>1, <1>2 DEF StageInv, Idle
  <2> QED
    BY <1>1, <1>8, <2>1, <2>2, WhereQuiet DEF Writing, Syncing, Adopting
<1> QED
  BY <1>7, <1>8, StepKeeps

\* Inside the lock there is one command.
LEMMA InsideAlone ==
    ASSUME CredentialsIInv, NEW p \in Commands, cmd[p].at \in Inside, NEW q \in Commands, q # p
    PROVE  cmd[q].at \notin Inside
BY DEF CredentialsIInv, StageInv

\* A step of provision that goes on inside the lock, recover nowhere.
LEMMA ProvisionAlone ==
    ASSUME CredentialsIInv, ~lapse, NEW p \in Commands, cmd[p].at \in Inside
    PROVE  /\ \A q \in Commands : cmd[q].kind # "recover"
           /\ \A q \in Commands : cmd[q].at \notin RecoverStages
           /\ \A q \in Commands \ {p} : cmd[q].at \notin Inside
<1>1. cmd[p].kind = "provision" /\ cmd[p].at \notin RecoverStages /\ ~At(p, "out")
  BY DEF CredentialsIInv, StageInv, Inside, RecoverStages, Persisting, Altering, Syncing, At
<1>2. \A q \in Commands \ {p} : cmd[q].kind # "recover" /\ cmd[q].at \notin RecoverStages
  BY <1>1, RecoverIsAlone
<1>3. \A q \in Commands \ {p} : cmd[q].at \notin Inside
  BY InsideAlone
<1> QED
  BY <1>1, <1>2, <1>3

LEMMA GenerateSecretsStep ==
    ASSUME CredentialsIInv, NEW p \in Commands, GenerateSecrets(p)
    PROVE  CredentialsIInv'
<1> USE CommandFacts
<1> DEFINE pw == IF cmd[p].cfg = 0 THEN made + 1 ELSE cmd[p].cfg
           c == [cmd[p] EXCEPT !.at = "open", !.cfg = pw]
<1>1. /\ live' = live /\ trust' = trust /\ envFile' = envFile /\ credFile' = credFile
      /\ platformEnv' = platformEnv /\ secret' = secret /\ pending' = pending /\ api' = api
      /\ done' = done /\ inside' = inside /\ tmp' = tmp /\ runs' = runs /\ lapse' = lapse
      /\ cmd[p].at = "save" /\ cmd[p].at \in Inside /\ cmd[p].known = cmd[p].cfg
  BY DEF GenerateSecrets, At, stores, Inside, StageInv
<1>2. made' \in Pw /\ pw \in Pw \ {0} /\ pw \in {made', cmd[p].cfg} /\ (cmd[p].cfg # 0 => pw = cmd[p].cfg)
  <2>1. made \in 0 .. MaxPasswords /\ MaxPasswords \in Nat /\ cmd[p].cfg \in Pw
    BY NumbersOfPw DEF CredentialsTypeOK, Command
  <2>2. /\ made' = IF cmd[p].cfg = 0 THEN made + 1 ELSE made
        /\ cmd[p].cfg = 0 => made < MaxPasswords
    BY DEF GenerateSecrets
  <2> QED
    BY ONLY <2>1, <2>2 DEF Pw
<1>3. c \in Command /\ c.at = "open" /\ c.kind = cmd[p].kind /\ c.known = cmd[p].known /\ c.cfg = pw
  <2> HIDE DEF pw
  <2> QED
    BY <1>2 DEF Command, Inside
<1>4. Become(p, c) /\ Ran(p)
  <2>1. [cmd[p] EXCEPT !.at = "open", !.cfg = IF cmd[p].cfg = 0 THEN made + 1 ELSE @] = c
    OBVIOUS
  <2> QED
    BY <2>1 DEF GenerateSecrets
<1> HIDE DEF c, pw
<1>5. /\ cmd' \in [Commands -> Command] /\ cmd'[p] = c
      /\ \A q \in Commands \ {p} : cmd'[q] = cmd[q]
  BY <1>3, <1>4, BecomeFacts
<1>6. lone' \subseteq {p} /\ (p \in lone' => p \in lone)
  BY <1>1, <1>4, LoneAfter DEF At
<1>7. CredentialsTypeOK'
  BY <1>1, <1>2, <1>5, <1>6, CommandNumbers DEF CredentialsTypeOK
<1>8. StageInv(p)'
  BY <1>1, <1>2, <1>3, <1>5 DEF StageInv, Inside, RecoverStages, Persisting, Altering, Syncing, Installing
<1>9. p \in lone' => LoneInv(p)'
  BY <1>3, <1>5, <1>6, <1>1 DEF LoneInv, At, Altering, Syncing
<1>10. Moved(p)
  BY <1>1, <1>3, <1>5, <1>6, <1>7, <1>8, <1>9 DEF Moved, Installing
<1>11. ASSUME ~lapse' PROVE WhereInv'
  <2>1. \A q \in Commands : cmd[q].kind # "recover" /\ cmd[q].at \notin RecoverStages
    BY <1>1, <1>11, ProvisionAlone
  <2>2. cmd'[p].kind # "recover" /\ cmd'[p].at = "open"
    BY <1>3, <1>5, <2>1
  <2> QED
    BY <1>1, <1>5, <1>11, <2>1, <2>2, WhereQuiet DEF Writing, Syncing, Adopting
<1> QED
  BY <1>10, <1>11, StepKeeps

LEMMA TruncateEnvStep ==
    ASSUME CredentialsIInv, NEW p \in Commands, NEW from \in {"open", "finish"},
           NEW to \in {"write", "rewrite"}, from = "open" <=> to = "write", TruncateEnv(p, from, to)
    PROVE  CredentialsIInv'
<1> USE CommandFacts
<1>1. /\ live' = live /\ trust' = trust /\ envFile' = 0 /\ credFile' = credFile /\ made' = made
      /\ platformEnv' = platformEnv /\ secret' = secret /\ pending' = pending /\ api' = api
      /\ done' = done /\ inside' = inside /\ tmp' = tmp /\ runs' = runs
      /\ cmd[p].at = from /\ cmd[p].at \in Inside /\ cmd[p].cfg # 0 /\ cmd[p].known \in {0, cmd[p].cfg}
  BY DEF TruncateEnv, At, Inside, StageInv, Installing
<1>2. /\ cmd' \in [Commands -> Command] /\ \A q \in Commands \ {p} : cmd'[q] = cmd[q]
      /\ cmd'[p].at = to /\ cmd'[p].kind = cmd[p].kind /\ cmd'[p].cfg = cmd[p].cfg
  <2>1. to \in CommandStages
    BY DEF CommandStages, Inside
  <2> QED
    BY <2>1, GoFacts DEF TruncateEnv
<1>3. lone' \subseteq {p} /\ (p \in lone' => p \in lone)
  BY <1>1, LoneAfter DEF TruncateEnv, At
<1>4. CredentialsTypeOK'
  <2>1. lapse' \in BOOLEAN
    BY DEF TruncateEnv, CredentialsTypeOK, Lapsed
  <2> QED
    BY <1>1, <1>2, <1>3, <2>1, CommandNumbers, NumbersOfPw DEF CredentialsTypeOK
<1>5. StageInv(p)'
  BY <1>1, <1>2 DEF StageInv, Inside, RecoverStages, Persisting, Altering, Syncing, Installing
<1>6. p \in lone' => LoneInv(p)'
  BY <1>1, <1>2, <1>3 DEF LoneInv, At, Altering, Syncing
<1>7. Moved(p)
  BY <1>1, <1>2, <1>3, <1>4, <1>5, <1>6 DEF Moved, Installing
<1>8. ASSUME ~lapse' PROVE WhereInv'
  <2>1. ~lapse /\ envFile \in {0, cmd[p].cfg}
    BY <1>1, <1>8 DEF TruncateEnv, Lapsed
  <2>2. /\ \A q \in Commands : cmd[q].kind # "recover" /\ cmd[q].at \notin RecoverStages
        /\ \A q \in Commands \ {p} : cmd[q].at \notin Inside
    BY <1>1, <2>1, ProvisionAlone
  <2>3. \A q \in Commands : cmd'[q].kind # "recover" /\ cmd'[q].at \notin Syncing \cup Adopting \cup {"donePlatform", "postgresql"}
    <3>1. \A q \in Commands \ {p} : cmd'[q].kind # "recover" /\ cmd'[q].at \notin Syncing \cup Adopting \cup {"donePlatform", "postgresql"}
      BY <1>2, <2>2 DEF Inside, RecoverStages, Syncing, Adopting
    <3>2. cmd'[p].kind # "recover" /\ cmd'[p].at \notin Syncing \cup Adopting \cup {"donePlatform", "postgresql"}
      BY <1>2, <2>2 DEF Syncing, Adopting
    <3> QED
      BY <3>1, <3>2
  <2>4. live' # 0 => live' \in {pending'.old, pending'.new} \/ (Writing(p)' /\ cmd'[p].cfg = live')
    BY <1>1, <1>2, <2>1, <2>2 DEF WhereInv, Writing, Inside, RecoverStages, Syncing, Adopting
  <2>5. pending' = NoPending /\ "platform" \in done' => platformEnv' = live'
    BY <1>1, <2>1 DEF WhereInv
  <2> QED
    BY <1>1, <2>3, <2>4, <2>5 DEF WhereInv, At
<1> QED
  BY <1>7, <1>8, StepKeeps

\* However a save ends: without an accident .env has what the command has.
LEMMA SaveEndsStep ==
    ASSUME CredentialsIInv, NEW p \in Commands, NEW from \in {"open", "write", "finish", "rewrite"},
           NEW to \in {"postgresql", "provisioned"}, to = "postgresql" <=> from \in {"open", "write"},
           NEW left \in Pw, At(p, from), SaveEnds(p, to, left), made' \in Pw, lapse' \in BOOLEAN,
           ~lapse' => ~lapse /\ left = cmd[p].cfg /\ envFile \in {0, left}
    PROVE  CredentialsIInv'
<1> USE CommandFacts
<1> DEFINE c == [cmd[p] EXCEPT !.at = to, !.known = cmd[p].cfg]
<1>1. /\ live' = live /\ trust' = trust /\ envFile' = left /\ credFile' = credFile
      /\ platformEnv' = platformEnv /\ secret' = secret /\ pending' = pending /\ api' = api
      /\ done' = done /\ inside' = inside /\ tmp' = tmp /\ runs' = runs
      /\ cmd[p].at = from /\ cmd[p].at \in Inside /\ cmd[p].cfg # 0
  BY DEF SaveEnds, At, Inside, StageInv
<1>2. /\ c \in Command /\ c.at = to /\ c.kind = cmd[p].kind /\ c.known = cmd[p].cfg /\ c.cfg = cmd[p].cfg
  <2>1. cmd[p] \in Command /\ cmd[p].cfg \in Pw /\ to \in {"out", "lock"} \cup Inside \cup RecoverStages
    BY DEF Command, Inside
  <2>2. ASSUME NEW d \in Command PROVE [d EXCEPT !.at = to, !.known = cmd[p].cfg] \in Command
    BY <2>1, <2>2 DEF Command
  <2>3. c \in Command
    BY <2>1, <2>2
  <2>4. c.at = to /\ c.kind = cmd[p].kind /\ c.known = cmd[p].cfg /\ c.cfg = cmd[p].cfg
    BY ONLY cmd[p] \in Command DEF Command
  <2> QED
    BY <2>3, <2>4
<1>3. /\ cmd' \in [Commands -> Command] /\ cmd'[p] = c
      /\ \A q \in Commands \ {p} : cmd'[q] = cmd[q]
  <2>1. Become(p, c)
    BY DEF SaveEnds
  <2> HIDE DEF c
  <2> QED
    BY <1>2, <2>1, BecomeFacts
<1> HIDE DEF c
<1>4. lone' \subseteq {p} /\ (p \in lone' => p \in lone)
  BY <1>1, LoneAfter DEF SaveEnds, At
<1>5. CredentialsTypeOK'
  BY <1>1, <1>3, <1>4, CommandNumbers DEF CredentialsTypeOK
<1>6. StageInv(p)'
  BY <1>1, <1>2, <1>3 DEF StageInv, Inside, RecoverStages, Persisting, Altering, Syncing, Installing
<1>7. p \in lone' => LoneInv(p)'
  BY <1>1, <1>2, <1>3, <1>4 DEF LoneInv, At, Altering, Syncing
<1>8. Moved(p)
  BY <1>1, <1>2, <1>3, <1>4, <1>5, <1>6, <1>7 DEF Moved, Installing
<1>9. ASSUME ~lapse' PROVE WhereInv'
  <2>1. ~lapse /\ envFile \in {0, left} /\ left = cmd[p].cfg
    BY <1>9
  <2>2. /\ \A q \in Commands : cmd[q].kind # "recover" /\ cmd[q].at \notin RecoverStages
        /\ \A q \in Commands \ {p} : cmd[q].at \notin Inside
    BY <1>1, <2>1, ProvisionAlone
  <2>3. \A q \in Commands : cmd'[q].kind # "recover" /\ cmd'[q].at \notin Syncing \cup Adopting \cup {"donePlatform"}
    <3>1. \A q \in Commands \ {p} : cmd'[q].kind # "recover" /\ cmd'[q].at \notin Syncing \cup Adopting \cup {"donePlatform"}
      BY <1>3, <2>2 DEF Inside, RecoverStages, Syncing, Adopting
    <3>2. cmd'[p].kind # "recover" /\ cmd'[p].at \notin Syncing \cup Adopting \cup {"donePlatform"}
      BY <1>2, <1>3, <2>2 DEF Syncing, Adopting
    <3> QED
      BY <3>1, <3>2
  <2>4. live' # 0 => live' \in {pending'.old, pending'.new, envFile'}
    BY <1>1, <2>1, <2>2 DEF WhereInv, Writing, Inside, RecoverStages, Syncing, Adopting
  <2>5. pending' = NoPending /\ "platform" \in done' => platformEnv' = live'
    BY <1>1, <2>1 DEF WhereInv
  <2>6. \A q \in Commands : At(q, "postgresql")' => envFile' = cmd'[q].cfg
    BY <1>1, <1>2, <1>3, <2>1, <2>2 DEF At, Inside
  <2> QED
    BY <1>1, <2>3, <2>4, <2>5, <2>6 DEF WhereInv, At
<1> QED
  BY <1>8, <1>9, StepKeeps

LEMMA WriteStep ==
    ASSUME CredentialsIInv, NEW p \in Commands, NEW from \in {"write", "rewrite"},
           NEW to \in {"postgresql", "provisioned"}, from = "write" <=> to = "postgresql", WriteEnv(p, from, to)
    PROVE  CredentialsIInv'
<1>1. At(p, from) /\ made \in Pw /\ cmd[p].cfg \in Pw /\ lapse \in BOOLEAN /\ 0 \in Pw
  BY CommandFacts, NumbersOfPw DEF WriteEnv, CredentialsTypeOK
<1>2. CASE SaveEnds(p, to, cmd[p].cfg) /\ Lapsed(envFile # 0) /\ UNCHANGED made
  BY <1>1, <1>2, SaveEndsStep DEF Lapsed
<1>3. CASE SaveEnds(p, to, 0) /\ Lapsed(TRUE) /\ UNCHANGED made
  BY <1>1, <1>3, SaveEndsStep DEF Lapsed
<1>4. CASE made < MaxPasswords /\ SaveEnds(p, to, made + 1) /\ Lapsed(TRUE) /\ made' = made + 1
  <2>1. made + 1 \in Pw
    BY <1>1, <1>4, NumbersOfPw
  <2>2. lapse' = TRUE
    BY <1>4 DEF Lapsed
  <2> QED
    BY <1>1, <1>4, <2>1, <2>2, SaveEndsStep
<1> QED
  BY <1>2, <1>3, <1>4 DEF WriteEnv

LEMMA OpenFailsStep ==
    ASSUME CredentialsIInv, NEW p \in Commands, NEW from \in {"open", "finish"},
           NEW to \in {"postgresql", "provisioned"}, from = "open" <=> to = "postgresql", OpenFails(p, from, to)
    PROVE  CredentialsIInv'
<1>1. At(p, from) /\ made \in Pw /\ envFile \in Pw /\ lapse \in BOOLEAN
  BY CommandFacts DEF OpenFails, CredentialsTypeOK
<1>2. SaveEnds(p, to, envFile) /\ lapse' = (lapse \/ envFile # cmd[p].cfg) /\ made' = made
  BY DEF OpenFails, Lapsed
<1> QED
  BY <1>1, <1>2, SaveEndsStep

\* How a command ends: the lock is free of it.
LEMMA FailFacts ==
    ASSUME CredentialsIInv, NEW p \in Commands, Fail(p)
    PROVE  /\ cmd' \in [Commands -> Command] /\ cmd'[p] = Idle /\ cmd'[p].at = "out" /\ cmd'[p].kind = "none"
           /\ \A q \in Commands \ {p} : cmd'[q] = cmd[q]
           /\ inside' # p /\ inside' \in Commands \cup {"free"}
           /\ inside' = inside \/ (inside = p /\ inside' = "free")
           /\ StageInv(p)'
<1> USE CommandFacts
<1>1. /\ cmd' \in [Commands -> Command] /\ cmd'[p] = Idle
      /\ \A q \in Commands \ {p} : cmd'[q] = cmd[q]
  BY IdleIsCommand, BecomeFacts DEF Fail
<1>2. /\ inside' # p /\ inside' \in Commands \cup {"free"}
      /\ inside' = inside \/ (inside = p /\ inside' = "free")
  BY DEF Fail, LeaveLock, CredentialsTypeOK
<1>3. StageInv(p)'
  BY <1>1, <1>2 DEF StageInv, Idle, Inside, RecoverStages, Persisting, Altering, Syncing, Installing
<1> QED
  BY <1>1, <1>2, <1>3 DEF Idle

LEMMA InstallPostgreSQLStep ==
    ASSUME CredentialsIInv, NEW p \in Commands, InstallPostgreSQL(p)
    PROVE  CredentialsIInv'
<1> USE CommandFacts
<1>1. /\ trust' = trust /\ envFile' = envFile /\ credFile' = credFile
      /\ platformEnv' = platformEnv /\ pending' = pending /\ api' = api
      /\ done' = done /\ tmp' = tmp /\ runs' = runs /\ made' = made /\ lapse' = lapse
      /\ cmd[p].at = "postgresql" /\ cmd[p].at \in Inside /\ cmd[p].cfg \in Pw \ {0} /\ inside = p
  BY DEF InstallPostgreSQL, At, Inside, StageInv, Command
<1>2. /\ cmd' \in [Commands -> Command] /\ \A q \in Commands \ {p} : cmd'[q] = cmd[q]
      /\ StageInv(p)'
      /\ \/ /\ inside' = inside /\ cmd'[p].at \in {"donePostgresql", "platform"}
         \/ cmd'[p].at = "out" /\ inside' \in {inside, "free"}
      /\ cmd'[p].kind # "recover"
  <2>1. CASE Fail(p)
    BY <1>1, <2>1, FailFacts
  <2>2. CASE GoTo(p, "platform") /\ UNCHANGED inside
    <3>1. /\ cmd' \in [Commands -> Command] /\ \A q \in Commands \ {p} : cmd'[q] = cmd[q]
          /\ cmd'[p].at = "platform" /\ cmd'[p].kind = cmd[p].kind /\ cmd'[p].cfg = cmd[p].cfg
          /\ cmd'[p].known = cmd[p].known
      BY <2>2, GoFacts DEF CommandStages, Inside
    <3> QED
      BY <1>1, <2>2, <3>1 DEF StageInv, Inside, RecoverStages, Persisting, Altering, Syncing, Installing
  <2>3. CASE GoTo(p, "donePostgresql") /\ UNCHANGED inside
    <3>1. /\ cmd' \in [Commands -> Command] /\ \A q \in Commands \ {p} : cmd'[q] = cmd[q]
          /\ cmd'[p].at = "donePostgresql" /\ cmd'[p].kind = cmd[p].kind /\ cmd'[p].cfg = cmd[p].cfg
          /\ cmd'[p].known = cmd[p].known
      BY <2>3, GoFacts DEF CommandStages, Inside
    <3> QED
      BY <1>1, <2>3, <3>1 DEF StageInv, Inside, RecoverStages, Persisting, Altering, Syncing, Installing
  <2> QED
    BY <2>1, <2>2, <2>3 DEF InstallPostgreSQL
<1>3. lone' \subseteq {p} /\ (p \in lone' => p \in lone /\ cmd'[p].at # "out")
  BY <1>1, LoneAfter DEF InstallPostgreSQL, At
<1>4. /\ live' = live \/ (live = 0 /\ live' = cmd[p].cfg)
      /\ live' # 0 /\ live' \in Pw /\ secret' \in Pw
  BY <1>1 DEF InstallPostgreSQL, CredentialsTypeOK
<1>5. CredentialsTypeOK'
  BY <1>1, <1>2, <1>3, <1>4, CommandNumbers DEF CredentialsTypeOK
<1>6. p \in lone' => LoneInv(p)'
  BY <1>1, <1>2, <1>3 DEF LoneInv, At, Altering, Syncing
<1>7. Moved(p)
  BY <1>1, <1>2, <1>3, <1>4, <1>5, <1>6 DEF Moved
<1>8. ASSUME ~lapse' PROVE WhereInv'
  <2>1. /\ \A q \in Commands : cmd[q].kind # "recover" /\ cmd[q].at \notin RecoverStages
        /\ \A q \in Commands \ {p} : cmd[q].at \notin Inside
    BY <1>1, <1>8, ProvisionAlone
  <2>2. \A q \in Commands : cmd'[q].kind # "recover"
                           /\ cmd'[q].at \notin Syncing \cup Adopting \cup {"donePlatform", "postgresql"}
    <3>1. \A q \in Commands \ {p} : cmd'[q].kind # "recover"
                           /\ cmd'[q].at \notin Syncing \cup Adopting \cup {"donePlatform", "postgresql"}
      BY <1>2, <2>1 DEF Inside, RecoverStages, Syncing, Adopting
    <3>2. cmd'[p].kind # "recover" /\ cmd'[p].at \notin Syncing \cup Adopting \cup {"donePlatform", "postgresql"}
      BY <1>2 DEF Syncing, Adopting
    <3> QED
      BY <3>1, <3>2
  <2>3. live' \in {pending'.old, pending'.new, envFile'}
    <3>1. CASE live = 0
      BY <1>1, <1>4, <1>8, <3>1 DEF WhereInv, At
    <3>2. CASE live # 0
      BY <1>1, <1>4, <1>8, <2>1, <3>2 DEF WhereInv, Writing, Inside, RecoverStages, Syncing, Adopting
    <3> QED
      BY <3>1, <3>2
  <2>4. pending' = NoPending /\ "platform" \in done' => platformEnv' = live'
    BY <1>1, <1>4, <1>8 DEF WhereInv
  <2> QED
    BY <1>1, <1>4, <2>2, <2>3, <2>4 DEF WhereInv, At
<1> QED
  BY <1>7, <1>8, StepKeeps

LEMMA MarkStepStep ==
    ASSUME CredentialsIInv, NEW p \in Commands, NEW step \in {"postgresql", "platform"},
           NEW from \in {"donePostgresql", "donePlatform"}, NEW to \in {"platform", "finish"},
           step = "postgresql" <=> from = "donePostgresql", step = "postgresql" <=> to = "platform",
           MarkStep(p, step, from, to)
    PROVE  CredentialsIInv'
<1> USE CommandFacts
<1>1. /\ live' = live /\ trust' = trust /\ envFile' = envFile /\ credFile' = credFile
      /\ platformEnv' = platformEnv /\ secret' = secret /\ pending' = pending /\ api' = api /\ inside' = inside
      /\ done' = done \cup {step} /\ tmp' = tmp /\ runs' = runs /\ made' = made /\ lapse' = lapse
      /\ cmd[p].at = from /\ cmd[p].at \in Inside /\ live # 0
  BY DEF MarkStep, At, Inside, stores, Installing
<1>2. /\ cmd' \in [Commands -> Command] /\ \A q \in Commands \ {p} : cmd'[q] = cmd[q]
      /\ cmd'[p].at = to /\ cmd'[p].kind = cmd[p].kind /\ cmd'[p].cfg = cmd[p].cfg
      /\ cmd'[p].known = cmd[p].known
  BY GoFacts DEF MarkStep, CommandStages, Inside
<1>3. lone' \subseteq {p} /\ (p \in lone' => p \in lone /\ cmd'[p].at # "out")
  BY <1>1, LoneAfter DEF MarkStep, At
<1>4. CredentialsTypeOK'
  BY <1>1, <1>2, <1>3, CommandNumbers DEF CredentialsTypeOK
<1>5. StageInv(p)'
  BY <1>1, <1>2 DEF StageInv, Inside, RecoverStages, Persisting, Altering, Syncing, Installing
<1>6. p \in lone' => LoneInv(p)'
  BY <1>1, <1>2, <1>3 DEF LoneInv, At, Altering, Syncing
<1>7. Moved(p)
  BY <1>1, <1>2, <1>3, <1>4, <1>5, <1>6 DEF Moved
<1>8. ASSUME ~lapse' PROVE WhereInv'
  <2>1. /\ \A q \in Commands : cmd[q].kind # "recover" /\ cmd[q].at \notin RecoverStages
        /\ \A q \in Commands \ {p} : cmd[q].at \notin Inside
    BY <1>1, <1>8, ProvisionAlone
  <2>2. \A q \in Commands : cmd'[q].kind # "recover"
                           /\ cmd'[q].at \notin Syncing \cup Adopting \cup {"donePlatform", "postgresql"}
    <3>1. \A q \in Commands \ {p} : cmd'[q].kind # "recover"
                           /\ cmd'[q].at \notin Syncing \cup Adopting \cup {"donePlatform", "postgresql"}
      BY <1>2, <2>1 DEF Inside, RecoverStages, Syncing, Adopting
    <3>2. cmd'[p].kind # "recover" /\ cmd'[p].at \notin Syncing \cup Adopting \cup {"donePlatform", "postgresql"}
      BY <1>2, <2>1 DEF Syncing, Adopting
    <3> QED
      BY <3>1, <3>2
  <2>3. live' \in {pending'.old, pending'.new, envFile'}
    BY <1>1, <1>8, <2>1 DEF WhereInv, Writing, Inside, RecoverStages, Syncing, Adopting
  <2>4. pending' = NoPending /\ "platform" \in done' => platformEnv' = live'
    BY <1>1, <1>8 DEF WhereInv, At
  <2> QED
    BY <1>1, <2>2, <2>3, <2>4 DEF WhereInv, At
<1> QED
  BY <1>7, <1>8, StepKeeps

LEMMA InstallPlatformStep ==
    ASSUME CredentialsIInv, NEW p \in Commands, InstallPlatform(p)
    PROVE  CredentialsIInv'
<1> USE CommandFacts
<1>1. /\ live' = live /\ trust' = trust /\ envFile' = envFile /\ credFile' = credFile
      /\ secret' = secret /\ pending' = pending /\ api' = api
      /\ done' = done /\ tmp' = tmp /\ runs' = runs /\ made' = made
      /\ cmd[p].at = "platform" /\ cmd[p].at \in Inside /\ inside = p /\ live # 0 /\ cmd[p].cfg \in Pw
  BY DEF InstallPlatform, At, Inside, StageInv, Installing, Command
<1>2. /\ cmd' \in [Commands -> Command] /\ \A q \in Commands \ {p} : cmd'[q] = cmd[q]
      /\ StageInv(p)'
      /\ \/ /\ inside' = inside /\ cmd'[p].at \in {"donePlatform", "finish"}
            /\ (cmd'[p].at = "finish" => "platform" \in done)
         \/ cmd'[p].at = "out" /\ inside' \in {inside, "free"}
      /\ cmd'[p].kind # "recover"
  <2>1. CASE Fail(p)
    BY <1>1, <2>1, FailFacts
  <2>2. CASE GoTo(p, "finish") /\ UNCHANGED inside /\ "platform" \in done
    <3>1. /\ cmd' \in [Commands -> Command] /\ \A q \in Commands \ {p} : cmd'[q] = cmd[q]
          /\ cmd'[p].at = "finish" /\ cmd'[p].kind = cmd[p].kind /\ cmd'[p].cfg = cmd[p].cfg
          /\ cmd'[p].known = cmd[p].known
      BY <2>2, GoFacts DEF CommandStages, Inside
    <3> QED
      BY <1>1, <2>2, <3>1 DEF StageInv, Inside, RecoverStages, Persisting, Altering, Syncing, Installing
  <2>3. CASE GoTo(p, "donePlatform") /\ UNCHANGED inside
    <3>1. /\ cmd' \in [Commands -> Command] /\ \A q \in Commands \ {p} : cmd'[q] = cmd[q]
          /\ cmd'[p].at = "donePlatform" /\ cmd'[p].kind = cmd[p].kind /\ cmd'[p].cfg = cmd[p].cfg
          /\ cmd'[p].known = cmd[p].known
      BY <2>3, GoFacts DEF CommandStages, Inside
    <3> QED
      BY <1>1, <2>3, <3>1 DEF StageInv, Inside, RecoverStages, Persisting, Altering, Syncing, Installing
  <2> QED
    BY <2>1, <2>2, <2>3 DEF InstallPlatform
<1>3. lone' \subseteq {p} /\ (p \in lone' => p \in lone /\ cmd'[p].at # "out")
  BY <1>1, LoneAfter DEF InstallPlatform, At
<1>4. /\ platformEnv' \in Pw /\ lapse' \in BOOLEAN
      /\ ~lapse' => ~lapse
      /\ ~lapse' => \/ platformEnv' = platformEnv /\ "platform" \in done
                    \/ platformEnv' = envFile /\ "platform" \notin done
  <2>1. CASE "platform" \in done
    <3>1. platformEnv' = platformEnv /\ lapse' = lapse
      BY <2>1 DEF InstallPlatform
    <3> QED
      BY <2>1, <3>1 DEF CredentialsTypeOK
  <2>2. CASE "platform" \notin done
    BY <1>1, <2>2 DEF InstallPlatform, CredentialsTypeOK, Lapsed
  <2> QED
    BY <2>1, <2>2
<1>5. CredentialsTypeOK'
  BY <1>1, <1>2, <1>3, <1>4, CommandNumbers DEF CredentialsTypeOK
<1>6. p \in lone' => LoneInv(p)'
  BY <1>1, <1>2, <1>3 DEF LoneInv, At, Altering, Syncing
<1>7. Moved(p)
  BY <1>1, <1>2, <1>3, <1>5, <1>6 DEF Moved
<1>8. ASSUME ~lapse' PROVE WhereInv'
  <2>1. /\ \A q \in Commands : cmd[q].kind # "recover" /\ cmd[q].at \notin RecoverStages
        /\ \A q \in Commands \ {p} : cmd[q].at \notin Inside
    BY <1>1, <1>4, <1>8, ProvisionAlone
  <2>2. \A q \in Commands : cmd'[q].kind # "recover"
                           /\ cmd'[q].at \notin Syncing \cup Adopting \cup {"postgresql"}
    <3>1. \A q \in Commands \ {p} : cmd'[q].kind # "recover"
                           /\ cmd'[q].at \notin Syncing \cup Adopting \cup {"postgresql"}
      BY <1>2, <2>1 DEF Inside, RecoverStages, Syncing, Adopting
    <3>2. cmd'[p].kind # "recover" /\ cmd'[p].at \notin Syncing \cup Adopting \cup {"postgresql"}
      BY <1>2 DEF Syncing, Adopting
    <3> QED
      BY <3>1, <3>2
  <2>3. live' \in {pending'.old, pending'.new, envFile'}
    BY <1>1, <1>4, <1>8, <2>1 DEF WhereInv, Writing, Inside, RecoverStages, Syncing, Adopting
  <2>4. pending' = NoPending => platformEnv' = live'
    <3>1. CASE platformEnv' = platformEnv /\ "platform" \in done
      BY <1>1, <1>4, <1>8, <3>1 DEF WhereInv
    <3>2. CASE platformEnv' = envFile
      BY <1>1, <2>3, <3>2 DEF NoPending
    <3> QED
      BY <1>4, <1>8, <3>1, <3>2
  <2> QED
    BY <1>1, <2>2, <2>3, <2>4 DEF WhereInv, At
<1> QED
  BY <1>7, <1>8, StepKeeps

-----------------------------------------------------------------------------
(* The steps of recover *)

\* Of the five places the first that holds a password is taken, the loaded one before all others.
LEMMA FirstFilledOf5 ==
    ASSUME NEW a \in Pw, NEW b \in Pw, NEW c \in Pw, NEW d \in Pw, NEW e \in Pw
    PROVE  FirstFilled(<<a, b, c, d, e>>) \in Pw /\ (a # 0 => FirstFilled(<<a, b, c, d, e>>) = a)
<1> DEFINE s == <<a, b, c, d, e>>
           filled == {i \in DOMAIN s : s[i] # 0}
           first == CHOOSE i \in filled : \A j \in filled : i <= j
<1>1. DOMAIN s = 1 .. 5 /\ \A i \in 1 .. 5 : s[i] \in Pw
  OBVIOUS
<1>2. s[1] = a
  OBVIOUS
<1> HIDE DEF s
<1>3. filled # {} => \E i \in filled : \A j \in filled : i <= j
  <2>1. filled \subseteq 1 .. 5
    BY <1>1
  <2> HIDE DEF filled
  <2>2. ASSUME filled # {} PROVE \E i \in filled : \A j \in filled : i <= j
    <3>1. CASE 1 \in filled
      BY <2>1, <3>1
    <3>2. CASE 1 \notin filled /\ 2 \in filled
      BY <2>1, <3>2
    <3>3. CASE 1 \notin filled /\ 2 \notin filled /\ 3 \in filled
      BY <2>1, <3>3
    <3>4. CASE 1 \notin filled /\ 2 \notin filled /\ 3 \notin filled /\ 4 \in filled
      BY <2>1, <3>4
    <3>5. CASE 1 \notin filled /\ 2 \notin filled /\ 3 \notin filled /\ 4 \notin filled
      <4>1. PICK i \in filled : TRUE
        BY <2>2
      <4>2. \A j \in filled : j = 5
        <5>1. ASSUME NEW j \in filled PROVE j = 5
          <6>1. j \in 1 .. 5 /\ j # 1 /\ j # 2 /\ j # 3 /\ j # 4
            BY <2>1, <3>5
          <6> QED
            BY <6>1
        <5> QED
          BY <5>1
      <4> QED
        BY <4>1, <4>2
    <3> QED
      BY <3>1, <3>2, <3>3, <3>4, <3>5
  <2> QED
    BY <2>2
<1>4. filled # {} => first \in filled /\ \A j \in filled : first <= j
  BY <1>3
<1>5. a # 0 => 1 \in filled
  BY <1>1, <1>2
<1>6. filled \subseteq 1 .. 5
  BY <1>1
<1>7. FirstFilled(s) = IF filled = {} THEN 0 ELSE s[first]
  BY DEF FirstFilled
<1> HIDE DEF filled, first
<1>8. FirstFilled(s) \in Pw
  BY <1>1, <1>4, <1>6, <1>7, NumbersOfPw
<1>9. ASSUME a # 0 PROVE FirstFilled(s) = a
  <2>1. first \in 1 .. 5 /\ first <= 1 /\ filled # {}
    BY <1>4, <1>5, <1>6, <1>9
  <2>2. first = 1
    BY <2>1
  <2> QED
    BY <1>2, <1>7, <2>1, <2>2
<1> QED
  BY <1>8, <1>9 DEF s

\* A step of recover and of the commands beside it, when there was no accident.
LEMMA RecoverStays ==
    ASSUME CredentialsIInv, ~lapse, NEW p \in Commands, cmd[p].at \in RecoverStages
    PROVE  /\ p \in lone /\ cmd[p].kind = "recover" /\ LoneInv(p)
           /\ \A q \in Commands \ {p} : cmd[q].kind # "recover" /\ cmd[q].at = "out"
<1>1. cmd[p].kind = "recover" /\ ~At(p, "out")
  BY DEF CredentialsIInv, StageInv, Command, RecoverStages, Persisting, Altering, Syncing, Inside, At
<1>2. p \in lone /\ LoneInv(p)
  BY <1>1 DEF CredentialsIInv, WhereInv
<1>3. \A q \in Commands \ {p} : cmd[q].kind # "recover"
  BY <1>1, RecoverIsAlone
<1> QED
  BY <1>1, <1>2, <1>3 DEF LoneInv, At

\* A step of recover that leaves the places as they are.
LEMMA RecoverQuiet ==
    ASSUME CredentialsIInv, ~lapse, NEW p \in Commands, cmd[p].at \in RecoverStages, Ran(p),
           \A q \in Commands \ {p} : cmd'[q] = cmd[q],
           live' = live, envFile' = envFile, pending' = pending, platformEnv' = platformEnv,
           done' = done,
           cmd'[p].at \in RecoverStages \/ (cmd'[p].at = "out" /\ cmd'[p].kind = "none"),
           cmd'[p].at \in Syncing => live = cmd'[p].pw,
           cmd'[p].at \in Adopting => cmd'[p].sure,
           cmd[p].at \in Adopting => cmd'[p].at \in Adopting
    PROVE  WhereInv'
<1>1. /\ p \in lone /\ \A q \in Commands \ {p} : cmd[q].kind # "recover" /\ cmd[q].at = "out"
  BY RecoverStays
<1>2. cmd'[p].kind = "recover" => p \in lone'
  BY <1>1 DEF Ran, RecoverStages, Persisting, Altering, Syncing
<1>3. ~Writing(p) /\ cmd'[p].at \notin {"postgresql", "donePlatform"}
  BY DEF Writing, RecoverStages, Persisting, Altering, Syncing
<1>4. \A q \in Commands \ {p} : cmd[q].at \notin RecoverStages
  BY <1>1 DEF RecoverStages, Persisting, Altering, Syncing
<1> QED
  BY <1>1, <1>2, <1>3, <1>4, WhereQuiet

LEMMA GatherStep ==
    ASSUME CredentialsIInv, NEW p \in Commands, Gather(p)
    PROVE  CredentialsIInv'
<1> USE CommandFacts
<1> DEFINE candidates == <<cmd[p].cfg, platformEnv, secret, pending.old, pending.new>>
           pw == FirstFilled(candidates)
           set == IF pw = 0 THEN made + 1 ELSE pw
           tried == {candidates[i] : i \in 1 .. 5} \ {0}
           c == [cmd[p] EXCEPT !.at = "persistFile", !.pw = set, !.tried = tried]
<1>1. /\ live' = live /\ trust' = trust /\ envFile' = envFile /\ credFile' = credFile
      /\ platformEnv' = platformEnv /\ secret' = secret /\ pending' = pending /\ api' = api
      /\ done' = done /\ inside' = inside /\ tmp' = tmp /\ runs' = runs /\ lapse' = lapse
      /\ cmd[p].at = "gather" /\ cmd[p].at \in RecoverStages
  BY DEF Gather, At, stores, RecoverStages
<1>2. /\ cmd[p].cfg \in Pw /\ platformEnv \in Pw /\ secret \in Pw /\ pending.old \in Pw /\ pending.new \in Pw
  BY DEF CredentialsTypeOK, Command
<1>3. pw \in Pw /\ (cmd[p].cfg # 0 => pw = cmd[p].cfg) /\ tried \subseteq Pw
  <2>1. pw \in Pw /\ (cmd[p].cfg # 0 => pw = cmd[p].cfg)
    BY <1>2, FirstFilledOf5
  <2>2. \A i \in 1 .. 5 : candidates[i] \in Pw
    BY <1>2
  <2> QED
    BY <2>1, <2>2
<1>4. made' \in Pw /\ set \in Pw \ {0} /\ (cmd[p].cfg # 0 => set = cmd[p].cfg)
  <2>1. /\ pw = 0 => made < MaxPasswords
        /\ made' = IF pw = 0 THEN made + 1 ELSE made
    BY DEF Gather
  <2>2. made \in Pw
    BY DEF CredentialsTypeOK
  <2>3. pw \in Pw /\ (cmd[p].cfg # 0 => pw = cmd[p].cfg)
    BY <1>3
  <2> HIDE DEF pw
  <2> QED
    BY <2>1, <2>2, <2>3, NumbersOfPw
<1>5. Become(p, c) /\ Ran(p)
  BY DEF Gather
<1> HIDE DEF set, tried, pw
<1>6. /\ c \in Command /\ c.at = "persistFile" /\ c.kind = cmd[p].kind /\ c.cfg = cmd[p].cfg
      /\ c.known = cmd[p].known /\ c.pw = set
  BY <1>3, <1>4 DEF Command, RecoverStages, Persisting
<1> HIDE DEF c
<1>7. /\ cmd' \in [Commands -> Command] /\ cmd'[p] = c
      /\ \A q \in Commands \ {p} : cmd'[q] = cmd[q]
  BY <1>5, <1>6, BecomeFacts
<1>8. lone' \subseteq {p} /\ (p \in lone' => p \in lone)
  BY <1>1, <1>5, LoneAfter DEF At
<1>9. CredentialsTypeOK'
  BY <1>1, <1>4, <1>7, <1>8, CommandNumbers DEF CredentialsTypeOK
<1>10. StageInv(p)'
  BY <1>1, <1>4, <1>6, <1>7 DEF StageInv, Inside, RecoverStages, Persisting, Altering, Syncing, Installing
<1>11. p \in lone' => LoneInv(p)'
  BY <1>1, <1>6, <1>7, <1>8 DEF LoneInv, At, Altering, Syncing
<1>12. Moved(p)
  BY <1>1, <1>6, <1>7, <1>8, <1>9, <1>10, <1>11 DEF Moved, Installing
<1>13. ~lapse' => WhereInv'
  BY <1>1, <1>5, <1>6, <1>7, RecoverQuiet DEF RecoverStages, Persisting, Syncing, Adopting
<1> QED
  BY <1>12, <1>13, StepKeeps

LEMMA PersistFileStep ==
    ASSUME CredentialsIInv, NEW p \in Commands, NEW from \in {"persistFile", "adoptFile"},
           NEW to \in {"persistEnv", "adoptEnv"}, from = "persistFile" <=> to = "persistEnv", NEW pw \in Pw,
           to = "persistEnv" => pw = cmd[p].pw, to = "adoptEnv" => pw = tmp.working, pw # 0 \/ to = "persistEnv",
           PersistFile(p, from, to, pw)
    PROVE  CredentialsIInv'
<1> USE CommandFacts
<1> DEFINE c == [cmd[p] EXCEPT !.at = to, !.pw = pw]
<1>1. /\ live' = live /\ trust' = trust /\ envFile' = envFile /\ credFile' = pw /\ made' = made
      /\ platformEnv' = platformEnv /\ secret' = secret /\ pending' = pending /\ api' = api
      /\ done' = done /\ inside' = inside /\ tmp' = tmp /\ runs' = runs /\ lapse' = lapse
      /\ cmd[p].at = from /\ cmd[p].at \in RecoverStages /\ Ran(p) /\ Become(p, c)
  BY DEF PersistFile, At, stores, RecoverStages, Persisting, Syncing
<1>2. /\ c \in Command /\ c.at = to /\ c.kind = cmd[p].kind /\ c.cfg = cmd[p].cfg
      /\ c.known = cmd[p].known /\ c.pw = pw /\ c.sure = cmd[p].sure
  BY DEF Command, RecoverStages, Persisting, Syncing
<1> HIDE DEF c
<1>3. /\ cmd' \in [Commands -> Command] /\ cmd'[p] = c
      /\ \A q \in Commands \ {p} : cmd'[q] = cmd[q]
  BY <1>1, <1>2, BecomeFacts
<1>4. lone' \subseteq {p} /\ (p \in lone' => p \in lone)
  BY <1>1, LoneAfter DEF At
<1>5. CredentialsTypeOK'
  BY <1>1, <1>3, <1>4, CommandNumbers DEF CredentialsTypeOK
<1>6. StageInv(p)'
  BY <1>1, <1>2, <1>3 DEF StageInv, Inside, RecoverStages, Persisting, Altering, Syncing, Installing
<1>7. p \in lone' => LoneInv(p)'
  <2>1. ASSUME p \in lone PROVE LoneInv(p) /\ (to = "adoptEnv" => pw = cmd[p].pw)
    BY <1>1, <2>1 DEF LoneInv, Syncing
  <2> QED
    BY <1>1, <1>2, <1>3, <1>4, <2>1 DEF LoneInv, At, Altering, Syncing
<1>8. Moved(p)
  BY <1>1, <1>2, <1>3, <1>4, <1>5, <1>6, <1>7 DEF Moved, Installing
<1>9. ASSUME ~lapse' PROVE WhereInv'
  <2>1. WhereInv /\ LoneInv(p)
    BY <1>1, <1>9, RecoverStays
  <2>2. to = "adoptEnv" => pw = live /\ cmd[p].sure
    BY <1>1, <2>1 DEF WhereInv, LoneInv, Syncing, Adopting
  <2> QED
    BY <1>1, <1>2, <1>3, <1>9, <2>2, RecoverQuiet DEF RecoverStages, Persisting, Syncing, Adopting
<1> QED
  BY <1>8, <1>9, StepKeeps

\* .env gets the password that recover found, before it alters anything and again at its end.
LEMMA PersistEnvStep ==
    ASSUME CredentialsIInv, NEW p \in Commands, NEW from \in {"persistEnv", "adoptEnv"},
           NEW to \in {"try", "recovered"}, from = "persistEnv" <=> to = "try", NEW pw \in Pw,
           NEW files \in [alter : Pw, working : Pw],
           to = "try" => pw = cmd[p].pw /\ files.alter = pw,
           to = "recovered" => pw = cmd[p].pw /\ files = tmp,
           PersistEnv(p, from, to, pw, files)
    PROVE  CredentialsIInv'
<1> USE CommandFacts
<1> DEFINE c == [cmd[p] EXCEPT !.at = to, !.known = pw]
<1>1. /\ live' = live /\ trust' = trust /\ envFile' = pw /\ credFile' = credFile /\ made' = made
      /\ platformEnv' = platformEnv /\ secret' = secret /\ pending' = pending /\ api' = api
      /\ done' = done /\ inside' = inside /\ tmp' = files /\ runs' = runs
      /\ cmd[p].at = from /\ cmd[p].at \in RecoverStages /\ Ran(p) /\ Become(p, c)
      /\ lapse' \in BOOLEAN
  BY DEF PersistEnv, At, RecoverStages, Persisting, Syncing, Lapsed, CredentialsTypeOK
<1>2. /\ c \in Command /\ c.at = to /\ c.kind = cmd[p].kind /\ c.cfg = cmd[p].cfg
      /\ c.known = pw /\ c.pw = cmd[p].pw /\ c.sure = cmd[p].sure
  BY DEF Command, RecoverStages, Syncing
<1> HIDE DEF c
<1>3. /\ cmd' \in [Commands -> Command] /\ cmd'[p] = c
      /\ \A q \in Commands \ {p} : cmd'[q] = cmd[q]
  BY <1>1, <1>2, BecomeFacts
<1>4. lone' \subseteq {p} /\ (p \in lone' => p \in lone)
  BY <1>1, LoneAfter DEF At
<1>5. CredentialsTypeOK'
  BY <1>1, <1>3, <1>4, CommandNumbers DEF CredentialsTypeOK
<1>6. StageInv(p)'
  BY <1>1, <1>2, <1>3 DEF StageInv, Inside, RecoverStages, Persisting, Altering, Syncing, Installing
<1>7. p \in lone' => LoneInv(p)'
  BY <1>1, <1>2, <1>3, <1>4 DEF LoneInv, At, Altering, Syncing
<1>8. tmp.alter # 0 => tmp'.alter # 0
  BY <1>1 DEF StageInv, RecoverStages, Persisting
<1>9. Moved(p)
  BY <1>1, <1>2, <1>3, <1>4, <1>5, <1>6, <1>7, <1>8 DEF Moved, Installing
<1>10. ASSUME ~lapse' PROVE WhereInv'
  <2>1. ~lapse /\ envFile = cmd[p].known /\ WhereInv
    BY <1>10 DEF PersistEnv, Lapsed
  <2>2. /\ p \in lone /\ LoneInv(p) /\ \A q \in Commands \ {p} : cmd'[q].kind # "recover" /\ cmd'[q].at = "out"
    BY <1>1, <1>3, <2>1, RecoverStays
  <2>3. p \in lone'
    BY <1>1, <1>2, <1>3, <2>2 DEF Ran
  <2>4. cmd[p].at \in Syncing => live = cmd[p].pw /\ tmp.working = cmd[p].pw
    BY <2>1, <2>2 DEF WhereInv, LoneInv
  <2>5. cmd'[p].at \in Syncing => live = cmd'[p].pw
    BY <1>1, <1>2, <1>3, <2>4 DEF Syncing
  <2>6. live # 0 => live \in {envFile', pending'.old, pending'.new}
    <3>1. CASE from = "adoptEnv"
      BY <1>1, <2>4, <3>1 DEF Syncing
    <3>2. CASE from = "persistEnv"
      <4>1. live # 0 => live \in {envFile, pending.old, pending.new}
        BY <1>1, <1>3, <2>1, <2>2, <3>2 DEF WhereInv, Writing, Adopting
      <4>2. cmd[p].known = cmd[p].cfg /\ (cmd[p].cfg # 0 => cmd[p].pw = cmd[p].cfg)
        BY <1>1, <3>2 DEF StageInv, Persisting
      <4> QED
        BY <1>1, <2>1, <3>2, <4>1, <4>2
    <3> QED
      BY <3>1, <3>2
  <2>7. \A q \in Commands : cmd'[q].at \notin Adopting \cup {"postgresql", "donePlatform"}
    <3>1. cmd'[p].at \notin Adopting \cup {"postgresql", "donePlatform"}
      BY <1>2, <1>3 DEF Adopting
    <3> QED
      BY <2>2, <3>1 DEF Adopting
  <2>8. \A q \in Commands : cmd'[q].at \in Syncing => live' = cmd'[q].pw
    BY <1>1, <2>2, <2>5 DEF Syncing
  <2>9. pending' = NoPending /\ "platform" \in done' => platformEnv' = live'
    BY <1>1, <2>1 DEF WhereInv
  <2> QED
    BY <1>1, <2>2, <2>3, <2>6, <2>7, <2>8, <2>9 DEF WhereInv, At
<1> QED
  BY <1>9, <1>10, StepKeeps

LEMMA TryStep ==
    ASSUME CredentialsIInv, NEW p \in Commands, Try(p)
    PROVE  CredentialsIInv'
<1> USE CommandFacts
<1>1. /\ live' = live /\ trust' = trust /\ envFile' = envFile /\ made' = made
      /\ platformEnv' = platformEnv /\ secret' = secret /\ pending' = pending /\ api' = api
      /\ done' = done /\ runs' = runs
      /\ cmd[p].at = "try" /\ cmd[p].at \in RecoverStages /\ Ran(p)
      /\ lapse' \in BOOLEAN /\ (~lapse' => ~lapse /\ ~trust)
      /\ tmp'.alter = tmp.alter
  BY DEF Try, At, RecoverStages, Lapsed, CredentialsTypeOK
<1>2. cmd[p].pw \in Pw \ {0} /\ live \in Pw /\ inside # p
  BY <1>1 DEF StageInv, Command, CredentialsTypeOK, RecoverStages, Inside
<1>3. /\ cmd' \in [Commands -> Command] /\ \A q \in Commands \ {p} : cmd'[q] = cmd[q]
      /\ StageInv(p)'
      /\ inside' \in Commands \cup {"free"} /\ inside' = inside
      /\ credFile' \in Pw /\ tmp' \in [alter : Pw, working : Pw]
      /\ \/ /\ cmd'[p].at = "patchEnv" /\ tmp'.working = cmd'[p].pw
            /\ (~trust => cmd'[p].pw = live) /\ (cmd'[p].sure => cmd'[p].pw = live)
         \/ /\ cmd'[p].at = "trust" /\ cmd'[p].pw = cmd[p].pw
            /\ credFile' = cmd[p].pw /\ tmp'.working = cmd[p].pw
         \/ cmd'[p].at = "out" /\ cmd'[p].kind = "none"
  <2> DEFINE Works(pw) ==
            /\ Become(p, [cmd[p] EXCEPT !.at = "patchEnv", !.pw = pw, !.sure = ~trust])
            /\ credFile' = pw /\ tmp' = [tmp EXCEPT !.working = pw] /\ UNCHANGED inside
  <2>1. ASSUME NEW pw \in Pw \ {0}, Works(pw), ~trust => pw = live
        PROVE  /\ cmd' \in [Commands -> Command] /\ \A q \in Commands \ {p} : cmd'[q] = cmd[q]
               /\ StageInv(p)' /\ inside' = inside
               /\ credFile' \in Pw /\ tmp' \in [alter : Pw, working : Pw]
               /\ cmd'[p].at = "patchEnv" /\ tmp'.working = cmd'[p].pw
               /\ (~trust => cmd'[p].pw = live) /\ (cmd'[p].sure => cmd'[p].pw = live)
    <3> DEFINE c == [cmd[p] EXCEPT !.at = "patchEnv", !.pw = pw, !.sure = ~trust]
    <3>1. /\ c \in Command /\ c.at = "patchEnv" /\ c.kind = cmd[p].kind /\ c.cfg = cmd[p].cfg
          /\ c.known = cmd[p].known /\ c.pw = pw
      BY DEF Command, RecoverStages, Syncing
    <3>2. c.sure => pw = live
      <4>1. c.sure = ~trust
        BY DEF Command
      <4> QED
        BY <2>1, <4>1, Zenon
    <3> HIDE DEF c
    <3>3. Become(p, c)
      BY <2>1 DEF c
    <3>4. /\ cmd' \in [Commands -> Command] /\ cmd'[p] = c
          /\ \A q \in Commands \ {p} : cmd'[q] = cmd[q]
      BY <3>1, <3>3, BecomeFacts
    <3>5. StageInv(p)'
      BY <1>1, <1>2, <2>1, <3>1, <3>4 DEF StageInv, Inside, RecoverStages, Persisting, Altering, Syncing, Installing
    <3>6. credFile' \in Pw /\ tmp' \in [alter : Pw, working : Pw] /\ tmp'.working = pw
      BY <2>1 DEF CredentialsTypeOK
    <3> QED
      BY <2>1, <3>1, <3>2, <3>4, <3>5, <3>6
  <2>2. CASE Works(cmd[p].pw) /\ trust
    BY <1>2, <2>1, <2>2 DEF CredentialsTypeOK
  <2>3. CASE Works(live) /\ live # 0
    BY <1>2, <2>1, <2>3 DEF CredentialsTypeOK
  <2>4. CASE /\ GoTo(p, "trust")
             /\ credFile' = cmd[p].pw /\ tmp' = [tmp EXCEPT !.working = cmd[p].pw] /\ UNCHANGED inside
    <3>1. /\ cmd' \in [Commands -> Command] /\ \A q \in Commands \ {p} : cmd'[q] = cmd[q]
          /\ cmd'[p].at = "trust" /\ cmd'[p].kind = cmd[p].kind /\ cmd'[p].cfg = cmd[p].cfg
          /\ cmd'[p].known = cmd[p].known /\ cmd'[p].pw = cmd[p].pw
      BY <2>4, GoFacts DEF CommandStages, RecoverStages, Altering
    <3>2. StageInv(p)'
      BY <1>1, <1>2, <2>4, <3>1 DEF StageInv, Inside, RecoverStages, Persisting, Altering, Syncing, Installing
    <3>3. tmp' \in [alter : Pw, working : Pw] /\ tmp'.working = cmd[p].pw
      BY <1>2, <2>4 DEF CredentialsTypeOK
    <3> QED
      BY <1>2, <2>4, <3>1, <3>2, <3>3 DEF CredentialsTypeOK
  <2>5. CASE Fail(p) /\ credFile' = cmd[p].pw /\ tmp' = [tmp EXCEPT !.working = cmd[p].pw]
    <3>1. tmp' \in [alter : Pw, working : Pw]
      BY <1>2, <2>5 DEF CredentialsTypeOK
    <3> QED
      BY <1>2, <2>5, <3>1, FailFacts DEF CredentialsTypeOK
  <2> HIDE DEF Works
  <2> QED
    <3>1. \/ Works(cmd[p].pw) /\ trust
          \/ Works(live) /\ live # 0
          \/ (GoTo(p, "trust") /\ credFile' = cmd[p].pw /\ tmp' = [tmp EXCEPT !.working = cmd[p].pw] /\ UNCHANGED inside)
          \/ (Fail(p) /\ credFile' = cmd[p].pw /\ tmp' = [tmp EXCEPT !.working = cmd[p].pw])
      BY DEF Try, Works
    <3> QED
      BY <2>2, <2>3, <2>4, <2>5, <3>1
<1>4. lone' \subseteq {p} /\ (p \in lone' => p \in lone /\ cmd'[p].at # "out")
  BY <1>1, LoneAfter DEF At
<1>5. CredentialsTypeOK'
  BY <1>1, <1>3, <1>4, CommandNumbers DEF CredentialsTypeOK
<1>6. p \in lone' => LoneInv(p)'
  BY <1>1, <1>3, <1>4 DEF LoneInv, At, Altering, Syncing
<1>7. Moved(p)
  BY <1>1, <1>3, <1>4, <1>5, <1>6 DEF Moved, Installing
<1>8. ASSUME ~lapse' PROVE WhereInv'
  BY <1>1, <1>3, <1>8, RecoverQuiet DEF RecoverStages, Altering, Syncing, Adopting
<1> QED
  BY <1>7, <1>8, StepKeeps

LEMMA EnableTrustStep ==
    ASSUME CredentialsIInv, NEW p \in Commands, EnableTrust(p)
    PROVE  CredentialsIInv'
<1> USE CommandFacts
<1>1. /\ live' = live /\ trust' \in BOOLEAN /\ envFile' = envFile /\ credFile' = credFile /\ made' = made
      /\ platformEnv' = platformEnv /\ secret' = secret /\ pending' = pending /\ api' = api
      /\ done' = done /\ inside' = inside /\ tmp' = tmp /\ runs' = runs /\ lapse' = lapse
      /\ cmd[p].at = "trust" /\ cmd[p].at \in RecoverStages /\ Ran(p)
  BY DEF EnableTrust, At, stores, RecoverStages, Altering
<1>2. /\ cmd' \in [Commands -> Command] /\ \A q \in Commands \ {p} : cmd'[q] = cmd[q]
      /\ cmd'[p].at = "alter" /\ cmd'[p].kind = cmd[p].kind /\ cmd'[p].cfg = cmd[p].cfg
      /\ cmd'[p].known = cmd[p].known /\ cmd'[p].pw = cmd[p].pw /\ cmd'[p].sure = cmd[p].sure
  BY GoFacts DEF EnableTrust, CommandStages, RecoverStages, Altering
<1>3. lone' \subseteq {p} /\ (p \in lone' => p \in lone)
  BY <1>1, LoneAfter DEF At
<1>4. CredentialsTypeOK'
  BY <1>1, <1>2, <1>3, CommandNumbers DEF CredentialsTypeOK
<1>5. StageInv(p)'
  BY <1>1, <1>2 DEF StageInv, Inside, RecoverStages, Persisting, Altering, Syncing, Installing
<1>6. p \in lone' => LoneInv(p)'
  BY <1>1, <1>2, <1>3 DEF LoneInv, At, Altering, Syncing
<1>7. Moved(p)
  BY <1>1, <1>2, <1>3, <1>4, <1>5, <1>6 DEF Moved, Installing
<1>8. ~lapse' => WhereInv'
  BY <1>1, <1>2, RecoverQuiet DEF RecoverStages, Altering, Syncing, Adopting
<1> QED
  BY <1>7, <1>8, StepKeeps

\* What recover sets is in .env, so that the place where the password is stays.
LEMMA AlterStep ==
    ASSUME CredentialsIInv, NEW p \in Commands, Alter(p)
    PROVE  CredentialsIInv'
<1> USE CommandFacts
<1>1. /\ trust' = trust /\ envFile' = envFile /\ credFile' = credFile /\ made' = made
      /\ platformEnv' = platformEnv /\ secret' = secret /\ pending' = pending /\ api' = api
      /\ done' = done /\ inside' = inside /\ tmp' = tmp /\ runs' = runs /\ lapse' = lapse
      /\ cmd[p].at = "alter" /\ cmd[p].at \in RecoverStages /\ Ran(p) /\ live' \in {live, tmp.alter}
  BY DEF Alter, At, stores, RecoverStages, Altering
<1>2. tmp.alter \in Pw \ {0} /\ live' \in Pw
  BY <1>1 DEF StageInv, Altering, CredentialsTypeOK
<1>3. /\ cmd' \in [Commands -> Command] /\ \A q \in Commands \ {p} : cmd'[q] = cmd[q]
      /\ cmd'[p].at = "untrust" /\ cmd'[p].kind = cmd[p].kind /\ cmd'[p].cfg = cmd[p].cfg
      /\ cmd'[p].known = cmd[p].known /\ cmd'[p].pw = cmd[p].pw /\ cmd'[p].sure = cmd[p].sure
  BY GoFacts DEF Alter, CommandStages, RecoverStages, Altering
<1>4. lone' \subseteq {p} /\ (p \in lone' => p \in lone)
  BY <1>1, LoneAfter DEF At
<1>5. CredentialsTypeOK'
  BY <1>1, <1>2, <1>3, <1>4, CommandNumbers DEF CredentialsTypeOK
<1>6. StageInv(p)'
  BY <1>1, <1>3 DEF StageInv, Inside, RecoverStages, Persisting, Altering, Syncing, Installing
<1>7. p \in lone' => LoneInv(p)'
  BY <1>1, <1>3, <1>4 DEF LoneInv, At, Altering, Syncing
<1>8. Moved(p)
  BY <1>1, <1>2, <1>3, <1>4, <1>5, <1>6, <1>7 DEF Moved, Installing
<1>9. ASSUME ~lapse' PROVE WhereInv'
  <2>1. ~lapse /\ WhereInv /\ tmp.alter = envFile /\ p \in lone
    BY <1>1, <1>9, RecoverStays DEF LoneInv, Altering
  <2>2. \A q \in Commands \ {p} : cmd'[q].kind # "recover" /\ cmd'[q].at = "out" /\ cmd[q].at = "out"
    BY <1>1, <1>3, <2>1, RecoverStays
  <2>3. live # 0 => live \in {envFile, pending.old, pending.new}
    BY <1>1, <2>1, <2>2 DEF WhereInv, Writing, Adopting
  <2>4. \A q \in Commands : cmd'[q].at \notin Syncing \cup Adopting \cup {"postgresql", "donePlatform"}
    BY <1>3, <2>2 DEF Syncing, Adopting
  <2>5. \A q \in Commands : cmd'[q].kind = "recover" => q \in lone'
    BY <1>1, <1>3, <2>1, <2>2 DEF Ran
  <2>6. ASSUME pending' = NoPending, "platform" \in done' PROVE platformEnv' = live'
    <3>1. live # 0 /\ platformEnv = live
      BY <1>1, <2>1, <2>6 DEF WhereInv
    <3>2. live = envFile
      BY <1>1, <2>3, <2>6, <3>1 DEF NoPending
    <3> QED
      BY <1>1, <2>1, <3>1, <3>2
  <2> QED
    BY <1>1, <2>1, <2>3, <2>4, <2>5, <2>6 DEF WhereInv, At
<1> QED
  BY <1>8, <1>9, StepKeeps

LEMMA RestoreTrustStep ==
    ASSUME CredentialsIInv, NEW p \in Commands, RestoreTrust(p)
    PROVE  CredentialsIInv'
<1> USE CommandFacts
<1>1. /\ live' = live /\ trust' \in BOOLEAN /\ envFile' = envFile /\ credFile' = credFile /\ made' = made
      /\ platformEnv' = platformEnv /\ secret' = secret /\ pending' = pending /\ api' = api
      /\ done' = done /\ tmp' = tmp /\ runs' = runs
      /\ cmd[p].at = "untrust" /\ cmd[p].at \in RecoverStages /\ Ran(p)
      /\ lapse' \in BOOLEAN /\ (~lapse' => ~lapse /\ ~trust')
  BY DEF RestoreTrust, At, stores, RecoverStages, Altering, Lapsed, CredentialsTypeOK
<1>2. inside # p /\ cmd[p].pw # 0
  BY <1>1 DEF StageInv, Inside, RecoverStages
<1>3. /\ cmd' \in [Commands -> Command] /\ \A q \in Commands \ {p} : cmd'[q] = cmd[q]
      /\ StageInv(p)'
      /\ inside' \in Commands \cup {"free"} /\ inside' = inside
      /\ \/ /\ cmd'[p].at = "patchEnv" /\ cmd'[p].pw = cmd[p].pw
            /\ (~trust' => cmd[p].pw = live) /\ (cmd'[p].sure => cmd[p].pw = live)
         \/ cmd'[p].at = "out" /\ cmd'[p].kind = "none"
  <2> DEFINE c == [cmd[p] EXCEPT !.at = "patchEnv", !.sure = ~trust']
  <2>1. CASE Fail(p)
    BY <1>2, <2>1, FailFacts DEF CredentialsTypeOK
  <2>2. CASE /\ trust' \/ live = cmd[p].pw
             /\ Become(p, c) /\ UNCHANGED inside
    <3>1. /\ c \in Command /\ c.at = "patchEnv" /\ c.kind = cmd[p].kind /\ c.cfg = cmd[p].cfg
          /\ c.known = cmd[p].known /\ c.pw = cmd[p].pw
      BY DEF Command, RecoverStages, Syncing
    <3>2. c.sure => cmd[p].pw = live
      <4>1. c.sure = ~trust'
        BY DEF Command
      <4> QED
        BY <2>2, <4>1, Zenon
    <3> HIDE DEF c
    <3>3. /\ cmd' \in [Commands -> Command] /\ cmd'[p] = c
          /\ \A q \in Commands \ {p} : cmd'[q] = cmd[q]
      BY <2>2, <3>1, BecomeFacts
    <3>4. StageInv(p)'
      BY <1>1, <1>2, <2>2, <3>1, <3>3 DEF StageInv, Inside, RecoverStages, Persisting, Altering, Syncing, Installing
    <3> QED
      BY <2>2, <3>1, <3>2, <3>3, <3>4 DEF CredentialsTypeOK
  <2> QED
    BY <2>1, <2>2 DEF RestoreTrust
<1>4. lone' \subseteq {p} /\ (p \in lone' => p \in lone /\ cmd'[p].at # "out")
  BY <1>1, LoneAfter DEF At
<1>5. CredentialsTypeOK'
  BY <1>1, <1>3, <1>4, CommandNumbers DEF CredentialsTypeOK
<1>6. p \in lone' => LoneInv(p)'
  BY <1>1, <1>3, <1>4 DEF LoneInv, At, Altering, Syncing
<1>7. Moved(p)
  BY <1>1, <1>3, <1>4, <1>5, <1>6 DEF Moved, Installing
<1>8. ASSUME ~lapse' PROVE WhereInv'
  BY <1>1, <1>3, <1>8, RecoverQuiet DEF RecoverStages, Altering, Syncing, Adopting
<1> QED
  BY <1>7, <1>8, StepKeeps

LEMMA PatchEnvStep ==
    ASSUME CredentialsIInv, NEW p \in Commands, PatchEnv(p)
    PROVE  CredentialsIInv'
<1> USE CommandFacts
<1>1. /\ live' = live /\ trust' = trust /\ envFile' = envFile /\ credFile' = credFile /\ made' = made
      /\ secret' = secret /\ pending' = pending /\ api' = api
      /\ done' = done /\ inside' = inside /\ tmp' = tmp /\ runs' = runs /\ lapse' = lapse
      /\ cmd[p].at = "patchEnv" /\ cmd[p].at \in RecoverStages /\ Ran(p)
  BY DEF PatchEnv, At, RecoverStages, Syncing
<1>2. /\ cmd' \in [Commands -> Command] /\ \A q \in Commands \ {p} : cmd'[q] = cmd[q]
      /\ cmd'[p].at = "patchSecret" /\ cmd'[p].kind = cmd[p].kind /\ cmd'[p].cfg = cmd[p].cfg
      /\ cmd'[p].known = cmd[p].known /\ cmd'[p].pw = cmd[p].pw
      /\ \/ platformEnv' = cmd[p].pw /\ cmd'[p].sure = cmd[p].sure
         \/ platformEnv' = platformEnv /\ cmd'[p].sure = FALSE
  <2> DEFINE c == [cmd[p] EXCEPT !.at = "patchSecret", !.sure = FALSE]
  <2>1. CASE platformEnv' = Patched(cmd[p]) /\ GoTo(p, "patchSecret")
    BY <2>1, GoFacts DEF Patched, CommandStages, RecoverStages, Syncing
  <2>2. CASE Become(p, c) /\ UNCHANGED platformEnv
    <3>1. /\ c \in Command /\ c.at = "patchSecret" /\ c.kind = cmd[p].kind /\ c.cfg = cmd[p].cfg
          /\ c.known = cmd[p].known /\ c.pw = cmd[p].pw /\ c.sure = FALSE
      BY DEF Command, RecoverStages, Syncing
    <3> HIDE DEF c
    <3> QED
      BY <2>2, <3>1, BecomeFacts
  <2> QED
    BY <2>1, <2>2 DEF PatchEnv
<1>3. lone' \subseteq {p} /\ (p \in lone' => p \in lone)
  BY <1>1, LoneAfter DEF At
<1>4. CredentialsTypeOK'
  <2>1. platformEnv' \in Pw
    BY <1>2 DEF CredentialsTypeOK, Command
  <2> QED
    BY <1>1, <1>2, <1>3, <2>1, CommandNumbers DEF CredentialsTypeOK
<1>5. StageInv(p)'
  BY <1>1, <1>2 DEF StageInv, Inside, RecoverStages, Persisting, Altering, Syncing, Installing
<1>6. p \in lone' => LoneInv(p)'
  BY <1>1, <1>2, <1>3 DEF LoneInv, At, Altering, Syncing
<1>7. Moved(p)
  BY <1>1, <1>2, <1>3, <1>4, <1>5, <1>6 DEF Moved, Installing
<1>8. ASSUME ~lapse' PROVE WhereInv'
  <2>1. ~lapse /\ WhereInv /\ p \in lone
    BY <1>1, <1>8, RecoverStays
  <2>2. \A q \in Commands \ {p} : cmd'[q].kind # "recover" /\ cmd'[q].at = "out" /\ cmd[q].at = "out"
    BY <1>1, <1>2, <2>1, RecoverStays
  <2>3. live = cmd[p].pw
    BY <1>1, <2>1 DEF WhereInv, Syncing
  <2>4. live # 0 => live \in {envFile, pending.old, pending.new}
    BY <1>1, <2>1, <2>2 DEF WhereInv, Writing, Adopting
  <2>5. \A q \in Commands : cmd'[q].at \notin Adopting \cup {"postgresql", "donePlatform"}
    BY <1>2, <2>2 DEF Adopting
  <2>6. \A q \in Commands : cmd'[q].at \in Syncing => live' = cmd'[q].pw
    BY <1>1, <1>2, <2>2, <2>3 DEF Syncing
  <2>7. \A q \in Commands : cmd'[q].kind = "recover" => q \in lone'
    BY <1>1, <1>2, <2>1, <2>2 DEF Ran
  <2>8. pending' = NoPending /\ "platform" \in done' => platformEnv' = live'
    BY <1>1, <1>2, <2>1, <2>3 DEF WhereInv
  <2> QED
    BY <1>1, <2>4, <2>5, <2>6, <2>7, <2>8 DEF WhereInv, At
<1> QED
  BY <1>7, <1>8, StepKeeps

LEMMA PatchSecretStep ==
    ASSUME CredentialsIInv, NEW p \in Commands, PatchSecret(p)
    PROVE  CredentialsIInv'
<1> USE CommandFacts
<1>1. /\ live' = live /\ trust' = trust /\ envFile' = envFile /\ credFile' = credFile /\ made' = made
      /\ platformEnv' = platformEnv /\ pending' = pending /\ api' = api
      /\ done' = done /\ inside' = inside /\ tmp' = tmp /\ runs' = runs /\ lapse' = lapse
      /\ cmd[p].at = "patchSecret" /\ cmd[p].at \in RecoverStages /\ Ran(p)
  BY DEF PatchSecret, At, RecoverStages, Syncing
<1>2. /\ cmd' \in [Commands -> Command] /\ \A q \in Commands \ {p} : cmd'[q] = cmd[q]
      /\ cmd'[p].at = "clear" /\ cmd'[p].kind = cmd[p].kind /\ cmd'[p].cfg = cmd[p].cfg
      /\ cmd'[p].known = cmd[p].known /\ cmd'[p].pw = cmd[p].pw
      /\ \/ secret' = cmd[p].pw /\ cmd'[p].sure = cmd[p].sure
         \/ secret' = secret /\ cmd'[p].sure = FALSE
  <2> DEFINE c == [cmd[p] EXCEPT !.at = "clear", !.sure = FALSE]
  <2>1. CASE secret' = Patched(cmd[p]) /\ GoTo(p, "clear")
    BY <2>1, GoFacts DEF Patched, CommandStages, RecoverStages, Syncing
  <2>2. CASE Become(p, c) /\ UNCHANGED secret
    <3>1. /\ c \in Command /\ c.at = "clear" /\ c.kind = cmd[p].kind /\ c.cfg = cmd[p].cfg
          /\ c.known = cmd[p].known /\ c.pw = cmd[p].pw /\ c.sure = FALSE
      BY DEF Command, RecoverStages, Syncing
    <3> HIDE DEF c
    <3> QED
      BY <2>2, <3>1, BecomeFacts
  <2> QED
    BY <2>1, <2>2 DEF PatchSecret
<1>3. lone' \subseteq {p} /\ (p \in lone' => p \in lone)
  BY <1>1, LoneAfter DEF At
<1>4. CredentialsTypeOK'
  <2>1. secret' \in Pw
    BY <1>2 DEF CredentialsTypeOK, Command
  <2> QED
    BY <1>1, <1>2, <1>3, <2>1, CommandNumbers DEF CredentialsTypeOK
<1>5. StageInv(p)'
  BY <1>1, <1>2 DEF StageInv, Inside, RecoverStages, Persisting, Altering, Syncing, Installing
<1>6. p \in lone' => LoneInv(p)'
  BY <1>1, <1>2, <1>3 DEF LoneInv, At, Altering, Syncing
<1>7. Moved(p)
  BY <1>1, <1>2, <1>3, <1>4, <1>5, <1>6 DEF Moved, Installing
<1>8. ASSUME ~lapse' PROVE WhereInv'
  <2>1. ~lapse /\ WhereInv
    BY <1>1, <1>8
  <2>2. live = cmd[p].pw
    BY <1>1, <2>1 DEF WhereInv, Syncing
  <2> QED
    BY <1>1, <1>2, <2>1, <2>2, RecoverQuiet DEF RecoverStages, Syncing, Adopting
<1> QED
  BY <1>7, <1>8, StepKeeps

\* The pending secret goes once its password is elsewhere.
LEMMA ClearStep ==
    ASSUME CredentialsIInv, NEW p \in Commands, Clear(p)
    PROVE  CredentialsIInv'
<1> USE CommandFacts
<1>1. /\ live' = live /\ trust' = trust /\ envFile' = envFile /\ credFile' = credFile /\ made' = made
      /\ platformEnv' = platformEnv /\ secret' = secret /\ pending' = NoPending /\ api' = api
      /\ done' = done /\ inside' = inside /\ tmp' = tmp /\ runs' = runs
      /\ cmd[p].at = "clear" /\ cmd[p].at \in RecoverStages /\ Ran(p)
      /\ lapse' \in BOOLEAN /\ (~lapse' => ~lapse /\ cmd[p].sure)
  BY DEF Clear, At, RecoverStages, Syncing, Lapsed, CredentialsTypeOK
<1>2. /\ cmd' \in [Commands -> Command] /\ \A q \in Commands \ {p} : cmd'[q] = cmd[q]
      /\ cmd'[p].at = "restart" /\ cmd'[p].kind = cmd[p].kind /\ cmd'[p].cfg = cmd[p].cfg
      /\ cmd'[p].known = cmd[p].known /\ cmd'[p].pw = cmd[p].pw /\ cmd'[p].sure = cmd[p].sure
  BY GoFacts DEF Clear, CommandStages, RecoverStages, Syncing
<1>3. lone' \subseteq {p} /\ (p \in lone' => p \in lone)
  BY <1>1, LoneAfter DEF At
<1>4. CredentialsTypeOK'
  <2>1. pending' \in [old : Pw, new : Pw]
    BY <1>1, NumbersOfPw DEF NoPending
  <2> QED
    BY <1>1, <1>2, <1>3, <2>1, CommandNumbers DEF CredentialsTypeOK
<1>5. StageInv(p)'
  BY <1>1, <1>2 DEF StageInv, Inside, RecoverStages, Persisting, Altering, Syncing, Installing
<1>6. p \in lone' => LoneInv(p)'
  BY <1>1, <1>2, <1>3 DEF LoneInv, At, Altering, Syncing
<1>7. Moved(p)
  BY <1>1, <1>2, <1>3, <1>4, <1>5, <1>6 DEF Moved, Installing
<1>8. ASSUME ~lapse' PROVE WhereInv'
  <2>1. ~lapse /\ WhereInv /\ p \in lone /\ LoneInv(p) /\ cmd[p].sure
    BY <1>1, <1>8, RecoverStays
  <2>2. \A q \in Commands \ {p} : cmd'[q].kind # "recover" /\ cmd'[q].at = "out"
    BY <1>1, <1>2, <2>1, RecoverStays
  <2>3. live = cmd[p].pw /\ platformEnv = live
    BY <1>1, <2>1 DEF LoneInv, Syncing
  <2>4. cmd'[p].at \in Adopting /\ cmd'[p].sure
    BY <1>2, <2>1 DEF Adopting
  <2>5. \A q \in Commands : cmd'[q].at \notin {"postgresql", "donePlatform"}
    BY <1>2, <2>2
  <2>6. \A q \in Commands : cmd'[q].at \in Syncing => live' = cmd'[q].pw
    BY <1>1, <1>2, <2>2, <2>3 DEF Syncing
  <2>7. \A q \in Commands : cmd'[q].kind = "recover" => q \in lone'
    BY <1>1, <1>2, <2>1, <2>2 DEF Ran
  <2>8. \A q \in Commands : cmd'[q].at \in Adopting => cmd'[q].sure
    BY <2>2, <2>4 DEF Adopting
  <2> QED
    BY <1>1, <2>3, <2>4, <2>5, <2>6, <2>7, <2>8 DEF WhereInv, At
<1> QED
  BY <1>7, <1>8, StepKeeps

LEMMA RolloutRestartStep ==
    ASSUME CredentialsIInv, NEW p \in Commands, RolloutRestart(p)
    PROVE  CredentialsIInv'
<1> USE CommandFacts
<1>1. /\ live' = live /\ trust' = trust /\ envFile' = envFile /\ credFile' = credFile /\ made' = made
      /\ platformEnv' = platformEnv /\ secret' = secret /\ pending' = pending /\ api' \in {0, api}
      /\ done' = done /\ inside' = inside /\ tmp' = tmp /\ runs' = runs /\ lapse' = lapse
      /\ cmd[p].at = "restart" /\ cmd[p].at \in RecoverStages /\ Ran(p)
  BY DEF RolloutRestart, At, stores, RecoverStages, Syncing
<1>2. /\ cmd' \in [Commands -> Command] /\ \A q \in Commands \ {p} : cmd'[q] = cmd[q]
      /\ cmd'[p].at = "adoptFile" /\ cmd'[p].kind = cmd[p].kind /\ cmd'[p].cfg = cmd[p].cfg
      /\ cmd'[p].known = cmd[p].known /\ cmd'[p].pw = cmd[p].pw /\ cmd'[p].sure = cmd[p].sure
  BY GoFacts DEF RolloutRestart, CommandStages, RecoverStages, Syncing
<1>3. lone' \subseteq {p} /\ (p \in lone' => p \in lone)
  BY <1>1, LoneAfter DEF At
<1>4. CredentialsTypeOK'
  <2>1. api' \in Pw
    BY <1>1, NumbersOfPw DEF CredentialsTypeOK
  <2> QED
    BY <1>1, <1>2, <1>3, <2>1, CommandNumbers DEF CredentialsTypeOK
<1>5. StageInv(p)'
  BY <1>1, <1>2 DEF StageInv, Inside, RecoverStages, Persisting, Altering, Syncing, Installing
<1>6. p \in lone' => LoneInv(p)'
  BY <1>1, <1>2, <1>3 DEF LoneInv, At, Altering, Syncing
<1>7. Moved(p)
  BY <1>1, <1>2, <1>3, <1>4, <1>5, <1>6 DEF Moved, Installing
<1>8. ASSUME ~lapse' PROVE WhereInv'
  <2>1. ~lapse /\ WhereInv
    BY <1>1, <1>8
  <2>2. live = cmd[p].pw /\ cmd[p].sure
    BY <1>1, <2>1 DEF WhereInv, Syncing, Adopting
  <2> QED
    BY <1>1, <1>2, <2>1, <2>2, RecoverQuiet DEF RecoverStages, Syncing, Adopting
<1> QED
  BY <1>7, <1>8, StepKeeps

\* A password that is not written down again was in .env, or that is an accident.
LEMMA AdoptFailsStep ==
    ASSUME CredentialsIInv, NEW p \in Commands, AdoptFails(p)
    PROVE  CredentialsIInv'
<1> USE CommandFacts
<1> DEFINE c == [cmd[p] EXCEPT !.at = "recovered", !.sure = FALSE]
<1>1. /\ live' = live /\ trust' = trust /\ envFile' = envFile /\ credFile' = credFile /\ made' = made
      /\ platformEnv' = platformEnv /\ secret' = secret /\ pending' = pending /\ api' = api
      /\ done' = done /\ inside' = inside /\ tmp' = tmp /\ runs' = runs /\ lapse' \in BOOLEAN
      /\ cmd[p].at \in {"adoptFile", "adoptEnv"} /\ cmd[p].at \in RecoverStages /\ Ran(p) /\ Become(p, c)
  BY DEF AdoptFails, At, stores, RecoverStages, Syncing, Lapsed, CredentialsTypeOK
<1>2. /\ c \in Command /\ c.at = "recovered" /\ c.kind = cmd[p].kind /\ c.cfg = cmd[p].cfg
      /\ c.known = cmd[p].known /\ c.pw = cmd[p].pw /\ ~c.sure
  BY DEF Command, RecoverStages, Syncing
<1> HIDE DEF c
<1>3. /\ cmd' \in [Commands -> Command] /\ cmd'[p] = c
      /\ \A q \in Commands \ {p} : cmd'[q] = cmd[q]
  BY <1>1, <1>2, BecomeFacts
<1>4. lone' \subseteq {p} /\ (p \in lone' => p \in lone)
  BY <1>1, LoneAfter DEF At
<1>5. CredentialsTypeOK'
  BY <1>1, <1>3, <1>4, CommandNumbers DEF CredentialsTypeOK
<1>6. StageInv(p)'
  BY <1>1, <1>2, <1>3 DEF StageInv, Inside, RecoverStages, Persisting, Altering, Syncing, Installing
<1>7. p \in lone' => LoneInv(p)'
  BY <1>1, <1>2, <1>3, <1>4 DEF LoneInv, At, Altering, Syncing
<1>8. Moved(p)
  BY <1>1, <1>2, <1>3, <1>4, <1>5, <1>6, <1>7 DEF Moved, Installing
<1>9. ASSUME ~lapse' PROVE WhereInv'
  <2>1. ~lapse /\ envFile = cmd[p].pw /\ WhereInv
    BY <1>9 DEF AdoptFails, Lapsed
  <2>2. /\ p \in lone /\ \A q \in Commands \ {p} : cmd'[q].kind # "recover" /\ cmd'[q].at = "out"
    BY <1>1, <1>3, <2>1, RecoverStays
  <2>3. p \in lone' /\ cmd'[p].at = "recovered"
    BY <1>1, <1>2, <1>3, <2>2 DEF Ran
  <2>4. live = cmd[p].pw /\ cmd'[p].pw = live
    BY <1>1, <1>2, <1>3, <2>1 DEF WhereInv, Syncing
  <2>5. pending' = NoPending /\ "platform" \in done' => platformEnv' = live'
    BY <1>1, <2>1 DEF WhereInv
  <2>6. \A q \in Commands : cmd'[q].at \notin Adopting \cup {"postgresql", "donePlatform"}
    BY <2>2, <2>3 DEF Adopting
  <2>7. \A q \in Commands : cmd'[q].at \in Syncing => live' = cmd'[q].pw
    BY <1>1, <2>2, <2>4 DEF Syncing
  <2>8. \A q \in Commands : cmd'[q].kind = "recover" => q \in lone'
    BY <2>2, <2>3
  <2>9. live' = envFile'
    BY <1>1, <2>1, <2>4
  <2> QED
    BY <2>5, <2>6, <2>7, <2>8, <2>9 DEF WhereInv, At
<1> QED
  BY <1>8, <1>9, StepKeeps

-----------------------------------------------------------------------------
(* The end of a command, the API *)

LEMMA EndStep ==
    ASSUME CredentialsIInv, NEW p \in Commands, ~At(p, "out"), Fail(p), lone' \subseteq {},
           UNCHANGED <<live, trust, stores, api, tmp, made, runs>>, lapse' \in BOOLEAN,
           ~lapse' => ~lapse /\ cmd[p].at \notin {"write", "rewrite", "restart", "adoptFile", "adoptEnv"},
           done' = done \/ (done' = {} /\ cmd[p].at \in Inside)
    PROVE  CredentialsIInv'
<1> USE CommandFacts
<1>1. /\ live' = live /\ trust' = trust /\ envFile' = envFile /\ credFile' = credFile /\ made' = made
      /\ platformEnv' = platformEnv /\ secret' = secret /\ pending' = pending /\ api' = api
      /\ tmp' = tmp /\ runs' = runs /\ lone' = {} /\ done' \subseteq done
  BY DEF stores
<1>2. /\ cmd' \in [Commands -> Command] /\ \A q \in Commands \ {p} : cmd'[q] = cmd[q]
      /\ cmd'[p].at = "out" /\ cmd'[p].kind = "none" /\ StageInv(p)'
      /\ inside' \in Commands \cup {"free"} /\ (inside' = inside \/ (inside = p /\ inside' = "free"))
  BY FailFacts
<1>3. CredentialsTypeOK'
  BY <1>1, <1>2, CommandNumbers DEF CredentialsTypeOK
<1>4. done \subseteq done' \/ inside = p
  BY DEF StageInv
<1>5. Moved(p)
  BY <1>1, <1>2, <1>3, <1>4 DEF Moved, Installing
<1>6. ASSUME ~lapse' PROVE WhereInv'
  <2>1. ~lapse /\ ~Writing(p) /\ cmd[p].at \notin Adopting
    BY <1>6 DEF Writing, Adopting
  <2>2. \A q \in Commands \ {p} : cmd[q].kind # "recover" /\ cmd[q].at \notin RecoverStages
    BY <2>1, RecoverIsAlone
  <2> QED
    BY <1>1, <1>2, <2>1, <2>2, WhereQuiet DEF Syncing, Adopting
<1> QED
  BY <1>5, <1>6, StepKeeps

LEMMA ExitStep ==
    ASSUME CredentialsIInv, NEW p \in Commands, Exit(p)
    PROVE  CredentialsIInv'
<1>1. ~At(p, "out") /\ cmd[p].at \notin {"write", "rewrite", "restart", "adoptFile", "adoptEnv"}
  BY DEF Exit, At
<1>2. cmd'[p].at = "out"
  BY FailFacts DEF Exit
<1>3. lone' \subseteq {}
  BY <1>1, <1>2, LoneAfter DEF Exit
<1>4. lapse' = lapse /\ lapse \in BOOLEAN
  BY CommandFacts DEF Exit, CredentialsTypeOK
<1> QED
  BY <1>1, <1>3, <1>4, EndStep DEF Exit

LEMMA KillStep ==
    ASSUME CredentialsIInv, NEW p \in Commands, Kill(p)
    PROVE  CredentialsIInv'
<1>1. ~At(p, "out") /\ lone' = lone \ {p}
  BY DEF Kill
<1>2. lone' \subseteq {}
  BY <1>1 DEF CredentialsIInv, LoneInv, CredentialsTypeOK
<1>3. /\ lapse' \in BOOLEAN
      /\ ~lapse' => ~lapse /\ cmd[p].at \notin {"write", "rewrite", "restart", "adoptFile", "adoptEnv"}
  BY DEF Kill, Lapsed, CredentialsIInv, CredentialsTypeOK
<1>4. done' = done \/ (done' = {} /\ cmd[p].at \in Inside)
  BY DEF Kill, Inside
<1> QED
  BY <1>1, <1>2, <1>3, <1>4, EndStep DEF Kill

LEMMA StartApiStep ==
    ASSUME CredentialsIInv, StartApi
    PROVE  CredentialsIInv'
<1>1. /\ api' = live /\ live # 0
      /\ platformEnv' \in {platformEnv, live} /\ secret' \in {secret, live}
      /\ UNCHANGED <<live, trust, envFile, credFile, pending, done, inside, cmd, tmp, made, runs, lone, lapse>>
  BY DEF StartApi
<1>2. CredentialsTypeOK'
  BY <1>1 DEF CredentialsIInv, CredentialsTypeOK
<1>3. \A p \in Commands : StageInv(p)'
  BY <1>1 DEF CredentialsIInv, StageInv
<1>4. \A p \in lone' : LoneInv(p)'
  <2>1. ASSUME NEW p \in lone PROVE LoneInv(p)'
    <3>1. LoneInv(p)
      BY DEF CredentialsIInv
    <3> QED
      BY <1>1, <3>1 DEF LoneInv, At
  <2> QED
    BY <1>1, <2>1
<1>5. ~lapse' => WhereInv'
  <2>1. ASSUME ~lapse PROVE WhereInv'
    <3>1. WhereInv
      BY <2>1 DEF CredentialsIInv
    <3> QED
      BY <1>1, <3>1 DEF WhereInv, Writing, At
  <2> QED
    BY <1>1, <2>1
<1> QED
  BY <1>1, <1>2, <1>3, <1>4, <1>5 DEF CredentialsIInv

\* Wherever the rotation stops, the pending secret holds both passwords or nothing is behind.
LEMMA RotationStep ==
    ASSUME CredentialsIInv, NEW k \in 1 .. 6, Rotation(k)
    PROVE  CredentialsIInv'
<1> DEFINE new == made + 1
<1>1. /\ api \in Pw \ {0} /\ api = live /\ new \in Pw \ {0} /\ made' = new
  <2>1. made \in Pw /\ api \in Pw
    BY DEF CredentialsIInv, CredentialsTypeOK
  <2>2. made < MaxPasswords /\ api # 0 /\ api = live /\ made' = new
    BY DEF Rotation
  <2> QED
    BY <2>1, <2>2, NumbersOfPw
<1>2. /\ pending' = IF k >= 6 THEN NoPending ELSE [old |-> api, new |-> new]
      /\ live' = IF k >= 2 THEN new ELSE live
      /\ envFile' = IF k >= 3 THEN new ELSE envFile
      /\ credFile' = IF k >= 3 THEN new ELSE credFile
      /\ platformEnv' = IF k >= 4 THEN new ELSE platformEnv
      /\ secret' = IF k >= 5 THEN new ELSE secret
      /\ api' = 0 /\ lone' = {}
      /\ UNCHANGED <<trust, done, inside, cmd, tmp>>
  BY DEF Rotation
<1>3. runs' \in [commands : 0 .. MaxRuns, rotations : 0 .. MaxRotations] /\ lapse' \in BOOLEAN
  BY CredentialsAssumption DEF Rotation, CredentialsIInv, CredentialsTypeOK, Lapsed
<1>4. ~lapse' => ~lapse /\ \A p \in Commands : cmd[p].kind # "recover" \/ At(p, "out")
  BY DEF Rotation, Lapsed
<1> HIDE DEF new
<1>5. live' \in Pw \ {0}
  BY <1>1, <1>2
<1>6. CredentialsTypeOK'
  <2>1. /\ live' \in Pw /\ envFile' \in Pw /\ credFile' \in Pw /\ platformEnv' \in Pw /\ secret' \in Pw
    BY <1>1, <1>2, <1>5 DEF CredentialsIInv, CredentialsTypeOK
  <2>2. pending' \in [old : Pw, new : Pw] /\ api' \in Pw
    BY <1>1, <1>2, NumbersOfPw DEF NoPending
  <2> QED
    BY <1>1, <1>2, <1>3, <2>1, <2>2 DEF CredentialsIInv, CredentialsTypeOK
<1>7. \A p \in Commands : StageInv(p)'
  BY <1>2 DEF CredentialsIInv, StageInv
<1>8. ASSUME ~lapse' PROVE WhereInv'
  <2>1. ~lapse /\ WhereInv /\ \A p \in Commands : StageInv(p) /\ cmd[p] \in Command
    BY <1>4, <1>8 DEF CredentialsIInv
  <2>2. \A p \in Commands : cmd[p].kind # "recover"
    BY <1>4, <1>8, <2>1 DEF StageInv, At
  <2>3. \A p \in Commands : cmd[p].at \notin Syncing \cup Adopting
    BY <2>1, <2>2 DEF StageInv, Command, RecoverStages, Syncing, Adopting, Inside, Persisting, Altering
  <2>4. CASE k = 6
    <3>1. live' = envFile' /\ platformEnv' = live'
      BY <1>2, <2>4
    <3> QED
      BY <1>2, <1>5, <2>2, <2>3, <3>1 DEF WhereInv
  <2>5. CASE k < 6
    <3>1. pending' = [old |-> api, new |-> new]
      BY <1>2, <2>5
    <3>2. live' \in {pending'.old, pending'.new} /\ pending' # NoPending
      BY <1>1, <1>2, <3>1 DEF NoPending
    <3> QED
      BY <1>2, <1>5, <2>2, <2>3, <3>2 DEF WhereInv
  <2> QED
    BY <2>4, <2>5
<1> QED
  BY <1>2, <1>5, <1>6, <1>7, <1>8 DEF CredentialsIInv

-----------------------------------------------------------------------------
(* The invariant *)

LEMMA CredentialsInitInv ==
    ASSUME CredentialsInit
    PROVE  CredentialsIInv
<1>1. CredentialsTypeOK
  <2>1. /\ live = 0 /\ envFile = 0 /\ credFile = 0 /\ platformEnv = 0 /\ secret = 0 /\ api = 0 /\ made = 0
        /\ trust = FALSE /\ done = {} /\ inside = "free" /\ lone = {} /\ lapse = FALSE
    BY DEF CredentialsInit
  <2>2. pending \in [old : Pw, new : Pw] /\ tmp \in [alter : Pw, working : Pw]
    BY NumbersOfPw DEF CredentialsInit, NoPending
  <2>3. \A p \in Commands : cmd[p].cfg \in Pw /\ cmd[p].known \in Pw /\ cmd[p].pw \in Pw /\ cmd[p].tried \subseteq Pw
    BY NumbersOfPw DEF CredentialsInit, Idle
  <2>4. runs \in [commands : 0 .. MaxRuns, rotations : 0 .. MaxRotations]
    BY CredentialsAssumption DEF CredentialsInit
  <2> QED
    BY <2>1, <2>2, <2>3, <2>4, NumbersOfPw DEF CredentialsTypeOK
<1>2. cmd \in [Commands -> Command] /\ \A p \in Commands : cmd[p] = Idle
  BY IdleIsCommand DEF CredentialsInit
<1>3. \A p \in Commands : StageInv(p)
  BY <1>2, CredentialsAssumption DEF CredentialsInit, StageInv, Idle, Inside, RecoverStages, Persisting, Altering, Syncing, Installing
<1>4. WhereInv
  BY <1>2 DEF CredentialsInit, WhereInv, Idle, At, Syncing, Adopting
<1> QED
  BY <1>1, <1>2, <1>3, <1>4 DEF CredentialsInit, CredentialsIInv, Idle, Installing

LEMMA CredentialsStep ==
    ASSUME CredentialsIInv, CredentialsNext
    PROVE  CredentialsIInv'
<1>1. ASSUME NEW p \in Commands, RunProvision(p) \/ Recover(p) PROVE CredentialsIInv'
  BY <1>1, StartStep DEF RunProvision, Recover
<1>2. ASSUME NEW p \in Commands, Provisioning(p) PROVE CredentialsIInv'
  <2>1. CASE Lock(p) \/ InstallPostgreSQL(p) \/ InstallPlatform(p)
    BY <2>1, LockStep, InstallPostgreSQLStep, InstallPlatformStep
  <2>2. CASE GenerateSecrets(p) \/ Save(p) \/ Finish(p)
    BY <2>2, GenerateSecretsStep, TruncateEnvStep DEF Save, Finish
  <2>3. CASE SaveWrites(p) \/ FinishWrites(p)
    BY <2>3, WriteStep, OpenFailsStep DEF SaveWrites, FinishWrites
  <2>4. CASE MarkStep(p, "postgresql", "donePostgresql", "platform")
    BY <2>4, MarkStepStep
  <2>5. CASE MarkStep(p, "platform", "donePlatform", "finish")
    BY <2>5, MarkStepStep
  <2> QED
    BY <1>2, <2>1, <2>2, <2>3, <2>4, <2>5 DEF Provisioning
<1>3. ASSUME NEW p \in Commands, Recovering(p) PROVE CredentialsIInv'
  <2>1. cmd[p].pw \in Pw /\ tmp \in [alter : Pw, working : Pw]
    BY DEF CredentialsIInv, CredentialsTypeOK
  <2>2. CASE PersistFirst(p)
    <3>1. CASE PersistFile(p, "persistFile", "persistEnv", cmd[p].pw)
      BY <2>1, <3>1, PersistFileStep
    <3>2. CASE PersistEnv(p, "persistEnv", "try", cmd[p].pw, [alter |-> cmd[p].pw, working |-> 0])
      <4>1. [alter |-> cmd[p].pw, working |-> 0] \in [alter : Pw, working : Pw]
        BY <2>1, NumbersOfPw
      <4> QED
        BY <2>1, <3>2, <4>1, PersistEnvStep
    <3> QED
      BY <2>2, <3>1, <3>2 DEF PersistFirst
  <2>3. CASE Adopt(p)
    <3>1. CASE tmp.working # 0 /\ PersistFile(p, "adoptFile", "adoptEnv", tmp.working)
      BY <2>1, <3>1, PersistFileStep
    <3>2. CASE PersistEnv(p, "adoptEnv", "recovered", cmd[p].pw, tmp)
      BY <2>1, <3>2, PersistEnvStep
    <3> QED
      BY <2>3, <3>1, <3>2 DEF Adopt
  <2>4. CASE Gather(p) \/ Try(p) \/ EnableTrust(p) \/ Alter(p) \/ RestoreTrust(p)
    BY <2>4, GatherStep, TryStep, EnableTrustStep, AlterStep, RestoreTrustStep
  <2>5. CASE PatchEnv(p) \/ PatchSecret(p) \/ Clear(p) \/ RolloutRestart(p) \/ AdoptFails(p)
    BY <2>5, PatchEnvStep, PatchSecretStep, ClearStep, RolloutRestartStep, AdoptFailsStep
  <2> QED
    BY <1>3, <2>2, <2>3, <2>4, <2>5 DEF Recovering
<1>4. ASSUME NEW p \in Commands, Exit(p) \/ Kill(p) PROVE CredentialsIInv'
  BY <1>4, ExitStep, KillStep
<1> QED
  BY <1>1, <1>2, <1>3, <1>4, StartApiStep, RotationStep DEF CredentialsNext

LEMMA CredentialsStutter ==
    ASSUME CredentialsIInv, UNCHANGED credentialVars
    PROVE  CredentialsIInv'
<1>1. /\ live' = live /\ trust' = trust /\ envFile' = envFile /\ credFile' = credFile /\ made' = made
      /\ platformEnv' = platformEnv /\ secret' = secret /\ pending' = pending /\ api' = api
      /\ done' = done /\ inside' = inside /\ tmp' = tmp /\ runs' = runs /\ lone' = lone /\ lapse' = lapse
      /\ cmd' = cmd
  BY DEF credentialVars, stores
<1>2. CredentialsTypeOK'
  BY <1>1 DEF CredentialsIInv, CredentialsTypeOK
<1>3. \A p \in Commands : StageInv(p)'
  BY <1>1 DEF CredentialsIInv, StageInv
<1>4. \A p \in lone' : LoneInv(p)'
  BY <1>1 DEF CredentialsIInv, LoneInv, At
<1>5. ~lapse' => WhereInv'
  BY <1>1 DEF CredentialsIInv, WhereInv, Writing, At
<1> QED
  BY <1>1, <1>2, <1>3, <1>4, <1>5 DEF CredentialsIInv

\* The files, the cluster and the server keep one another's passwords, through every kill.
LEMMA CredentialsInvariant == CredentialsSpec => []CredentialsIInv
<1>1. CredentialsInit => CredentialsIInv
  BY CredentialsInitInv
<1>2. CredentialsIInv /\ [CredentialsNext]_credentialVars => CredentialsIInv'
  BY CredentialsStep, CredentialsStutter
<1> QED
  BY <1>1, <1>2, PTL DEF CredentialsSpec

\* What the invariant says of the places of the password.
LEMMA WhereKept ==
    ASSUME CredentialsIInv
    PROVE  CredentialsInv
<1>1. PasswordKept
  <2>1. ASSUME live # 0, ~lapse
        PROVE  live \in Kept \/ \E p \in Commands : cmd[p].cfg = live /\ (At(p, "write") \/ At(p, "rewrite"))
    <3>1. WhereInv
      BY <2>1 DEF CredentialsIInv
    <3>2. ASSUME NEW p \in Commands, cmd[p].at \in Adopting PROVE live \in Kept
      <4>1. p \in lone /\ LoneInv(p)
        BY <2>1, <3>2, RecoverStays DEF RecoverStages, Adopting, Syncing
      <4>2. cmd[p].sure
        BY <3>1, <3>2 DEF WhereInv
      <4> QED
        BY <3>2, <4>1, <4>2 DEF LoneInv, Adopting, Syncing, Kept
    <3> QED
      BY <2>1, <3>1, <3>2 DEF WhereInv, Kept, Writing, At
  <2> QED
    BY <2>1 DEF PasswordKept
<1>2. PlatformConnects
  <2>1. ASSUME NEW p \in lone, At(p, "provisioned"), ~lapse, pending = NoPending PROVE platformEnv = live
    BY <2>1 DEF CredentialsIInv, CredentialsTypeOK, WhereInv, At
  <2> QED
    BY <2>1 DEF PlatformConnects
<1>3. RecoverReconnects
  BY DEF CredentialsIInv, LoneInv, RecoverReconnects, At, Syncing
<1> QED
  BY <1>1, <1>2, <1>3 DEF CredentialsInv, CredentialsIInv

\* Through every interleaving and kill of provision, recover, the start of the API and its rotations,
\* for any number of commands: the password that opens the database stays where recover looks for
\* it, a provision that ends well leaves the API connected, and recover reconnects what came apart.
THEOREM PasswordStays == CredentialsSpec => []CredentialsInv
<1>1. CredentialsIInv => CredentialsInv
  BY WhereKept
<1> QED
  BY <1>1, CredentialsInvariant, PTL

\* RecoverAccess alters the role only to what it has written to both files before.
THEOREM DiskFirst == CredentialsSpec => SavedBeforeAlter
<1>1. ASSUME CredentialsIInv, [CredentialsNext]_credentialVars, NEW p \in lone, At(p, "alter"), cmd'[p].at = "untrust"
      PROVE  live' \in {live, credFile} /\ live' \in {live, envFile}
  <2>1. p \in Commands /\ LoneInv(p)
    BY <1>1 DEF CredentialsIInv, CredentialsTypeOK
  <2>2. CASE live' = live
    BY <2>2
  <2>3. CASE Alter(p)
    BY <1>1, <2>1, <2>3 DEF Alter, LoneInv, At, Altering
  <2>4. ASSUME NEW q \in Commands, Alter(q) \/ InstallPostgreSQL(q), q # p PROVE FALSE
    BY <2>1, <2>4 DEF LoneInv, At, Alter, InstallPostgreSQL
  <2>5. ~InstallPostgreSQL(p)
    BY <1>1 DEF At, InstallPostgreSQL
  <2>6. cmd' # cmd
    BY <1>1 DEF At
  <2>7. ASSUME NEW q \in Commands, CredentialsNext, live' # live, ~\E r \in Commands : Alter(r) \/ InstallPostgreSQL(r)
        PROVE  \E k \in 1 .. 6 : Rotation(k)
    <3>1. ASSUME NEW r \in Commands, RunProvision(r) \/ Recover(r) \/ Exit(r) \/ Kill(r) PROVE FALSE
      BY <2>7, <3>1 DEF RunProvision, Recover, Start, Exit, Kill
    <3>2. ASSUME NEW r \in Commands, Provisioning(r) PROVE FALSE
      BY <2>7, <3>2 DEF Provisioning, Lock, GenerateSecrets, Save, SaveWrites, TruncateEnv, WriteEnv, OpenFails,
                        SaveEnds, MarkStep, InstallPlatform, Finish, FinishWrites
    <3>3. ASSUME NEW r \in Commands, Recovering(r) PROVE FALSE
      BY <2>7, <3>3 DEF Recovering, Gather, PersistFirst, PersistFile, PersistEnv, Try, EnableTrust,
                        RestoreTrust, PatchEnv, PatchSecret, Clear, RolloutRestart, Adopt, AdoptFails
    <3>4. ~StartApi
      BY <2>7 DEF StartApi
    <3> QED
      BY <2>7, <3>1, <3>2, <3>3, <3>4 DEF CredentialsNext
  <2>8. ASSUME NEW k \in 1 .. 6, Rotation(k) PROVE FALSE
    BY <2>6, <2>8 DEF Rotation
  <2> QED
    BY <1>1, <2>1, <2>2, <2>3, <2>4, <2>5, <2>6, <2>7, <2>8 DEF credentialVars
<1>2. CredentialsIInv /\ [CredentialsNext]_credentialVars =>
        [\A p \in lone : At(p, "alter") /\ cmd'[p].at = "untrust" => live' \in {live, credFile} /\ live' \in {live, envFile}]_credentialVars
  BY <1>1
<1> QED
  BY <1>2, CredentialsInvariant, PTL DEF CredentialsSpec, SavedBeforeAlter
=============================================================================
