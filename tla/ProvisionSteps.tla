--------------------------- MODULE ProvisionSteps ---------------------------
(***************************************************************************)
(* platformctl provision, install and seed over the progress file          *)
(* /etc/platform/.bootstrap_state (platformctl/cmd/root.go,                *)
(* internal/state/state.go and the Install functions).  Provision and      *)
(* install run under the lock of ProvisionLock, here as the mutex it       *)
(* implements; seed takes no lock.  The file is read whole and written     *)
(* whole: os.WriteFile truncates it and then writes it.                    *)
(***************************************************************************)
EXTENDS Naturals, Sequences

CONSTANTS
    Cmds,      \* provision and install commands
    Seeds,     \* seed commands
    Plan,      \* the steps of a provision: the key runProvision marks in progress (mark), the
               \* key the Install function skips on and marks done (key), and whether that
               \* function marks its key in progress as well (marks)
    SeedKey,   \* the key SeedAdmin marks done
    None

ASSUME PlanAssumption ==
    /\ Cmds \cap Seeds = {} /\ None \notin Cmds \cup Seeds
    /\ Plan \in Seq([mark : STRING, key : STRING, marks : BOOLEAN]) /\ Plan # << >>
    /\ SeedKey \in STRING /\ \A i \in 1 .. Len(Plan) : Plan[i].key # SeedKey

VARIABLES
    file,      \* the progress file: each key's value, "absent" when it has no line
    installed, \* the keys whose Install function has ended without an error (monitoring, Infisical and
               \* the platform end so whatever helm does: see Installers)
    recorded,  \* history: the keys whose MarkDone returned
    lock,      \* the command inside the provision lock
    pc, at, last,
    map        \* the map a command is about to save

vars == <<file, installed, recorded, lock, pc, at, last, map>>

All == Cmds \cup Seeds
SeedStep == Len(Plan) + 1
Keys == {Plan[i].mark : i \in 1 .. Len(Plan)} \cup {Plan[i].key : i \in 1 .. Len(Plan)} \cup {SeedKey}
Empty == [k \in Keys |-> "absent"]
Files == [Keys -> {"absent", "in_progress", "done"}]
Ended == {"ok", "failed", "dead", "torn"}
Stages == {"out", "mark", "markTruncate", "markWrite", "check",
           "remark", "remarkTruncate", "remarkWrite", "install",
           "done", "doneTruncate", "doneWrite"} \cup Ended

TypeOK ==
    /\ file \in Files
    /\ installed \subseteq Keys
    /\ recorded \subseteq Keys
    /\ lock \in Cmds \cup {None}
    /\ pc \in [All -> Stages]
    /\ at \in [All -> 1 .. SeedStep]
    /\ last \in [All -> 1 .. SeedStep]
    /\ map \in [All -> Files]

Init ==
    /\ file = Empty
    /\ installed = {}
    /\ recorded = {}
    /\ lock = None
    /\ pc = [p \in All |-> "out"]
    /\ at = [p \in All |-> 1]
    /\ last = [p \in All |-> 1]
    /\ map = [p \in All |-> Empty]

Go(p, st) == pc' = [pc EXCEPT ![p] = st]
Key(p) == IF at[p] = SeedStep THEN SeedKey ELSE Plan[at[p]].key
Unlock(p) == lock' = IF lock = p THEN None ELSE lock

\* runProvision, runInstall(name) and the seed command, each with its first and last step.
Begin(p, first, to, st) ==
    /\ pc[p] = "out"
    /\ at' = [at EXCEPT ![p] = first]
    /\ last' = [last EXCEPT ![p] = to]
    /\ Go(p, st)
    /\ UNCHANGED <<file, installed, recorded, map>>
Provision(p) == lock = None /\ lock' = p /\ Begin(p, 1, SeedStep, "mark")
Install(p) ==
    /\ lock = None /\ lock' = p
    /\ \E i \in 1 .. Len(Plan) : Begin(p, i, i, "check")
Seed(p) == Begin(p, SeedStep, SeedStep, "install") /\ UNCHANGED lock

\* Mutant: a step is marked done when it starts.
InProgressAsDone == "done"
InProgress == "in_progress"

\* MarkInProgress loads the file; a step that is done is not downgraded.
MarkInProgress(p, key, from, save, next) ==
    /\ pc[p] = from
    /\ IF file[key] = "done"
       THEN Go(p, next) /\ UNCHANGED map
       ELSE /\ map' = [map EXCEPT ![p] = [file EXCEPT ![key] = InProgress]]
            /\ Go(p, save)
    /\ UNCHANGED <<file, installed, recorded, lock, at, last>>

Truncate(p, from, to) ==
    /\ pc[p] = from
    /\ file' = Empty
    /\ Go(p, to)
    /\ UNCHANGED <<installed, recorded, lock, at, last, map>>

MarkWrite(p, from, to) ==
    /\ pc[p] = from
    /\ file' = map[p]
    /\ Go(p, to)
    /\ UNCHANGED <<installed, recorded, lock, at, last, map>>

\* Mutant: a provision goes on after its last step.
AdvancePastEnd(p) ==
    /\ at' = [at EXCEPT ![p] = @ + 1]
    /\ Go(p, IF at[p] + 1 >= SeedStep THEN "install" ELSE "mark")
    /\ UNCHANGED lock

\* After a step: the next one, the seeding that ends a provision, or the end of the command.
Advance(p) ==
    \/ /\ at[p] = last[p] /\ Go(p, "ok") /\ Unlock(p) /\ UNCHANGED at
    \/ /\ at[p] < last[p]
       /\ at' = [at EXCEPT ![p] = @ + 1]
       /\ Go(p, IF at[p] + 1 = SeedStep THEN "install" ELSE "mark")
       /\ UNCHANGED lock

\* What follows a check that finds the step not done.
Enter(p) ==
    /\ Go(p, IF Plan[at[p]].marks THEN "remark" ELSE "install")
    /\ UNCHANGED <<lock, at>>

\* Mutant: provision skips the steps it has marked itself.
CheckAny(p) ==
    /\ pc[p] = "check"
    /\ IF file[Key(p)] # "absent" THEN Advance(p) ELSE Enter(p)
    /\ UNCHANGED <<file, installed, recorded, last, map>>

\* Mutant: the step looks up the key it is marked in progress under.
CheckMark(p) ==
    /\ pc[p] = "check"
    /\ IF file[Plan[at[p]].mark] = "done" THEN Advance(p) ELSE Enter(p)
    /\ UNCHANGED <<file, installed, recorded, last, map>>

\* doneOrSkip: a step that is done is skipped.
Check(p) ==
    /\ pc[p] = "check"
    /\ IF file[Key(p)] = "done" THEN Advance(p) ELSE Enter(p)
    /\ UNCHANGED <<file, installed, recorded, last, map>>

\* The installation itself, which may fail and ends the command then.  SeedAdmin's failure is
\* only a warning, and its script also succeeds when it could not log in.
RunStep(p) ==
    LET seeding == at[p] = SeedStep IN
    /\ pc[p] = "install"
    /\ \/ installed' = installed \cup {Key(p)} /\ Go(p, "done") /\ UNCHANGED lock
       \/ seeding /\ Go(p, "done") /\ UNCHANGED <<installed, lock>>
       \/ Go(p, IF seeding THEN "ok" ELSE "failed") /\ Unlock(p) /\ UNCHANGED installed
    /\ UNCHANGED <<file, recorded, at, last, map>>

MarkDone(p) ==
    /\ pc[p] = "done"
    /\ map' = [map EXCEPT ![p] = [file EXCEPT ![Key(p)] = "done"]]
    /\ Go(p, "doneTruncate")
    /\ UNCHANGED <<file, installed, recorded, lock, at, last>>

DoneWrite(p) ==
    /\ pc[p] = "doneWrite"
    /\ file' = map[p]
    /\ recorded' = recorded \cup {Key(p)}
    /\ Advance(p)
    /\ UNCHANGED <<installed, last, map>>

\* The command is killed, maybe inside a save; the kernel frees its lock.
Saving(p) == pc[p] \in {"markWrite", "remarkWrite", "doneWrite"}
Crash(p) ==
    /\ pc[p] \notin Ended \cup {"out"}
    /\ Go(p, IF Saving(p) THEN "torn" ELSE "dead")
    /\ Unlock(p)
    /\ UNCHANGED <<file, installed, recorded, at, last, map>>

Step(p) ==
    \/ MarkInProgress(p, Plan[at[p]].mark, "mark", "markTruncate", "check")
    \/ Truncate(p, "markTruncate", "markWrite") \/ MarkWrite(p, "markWrite", "check")
    \/ Check(p)
    \/ MarkInProgress(p, Plan[at[p]].key, "remark", "remarkTruncate", "install")
    \/ Truncate(p, "remarkTruncate", "remarkWrite") \/ MarkWrite(p, "remarkWrite", "install")
    \/ RunStep(p)
    \/ MarkDone(p) \/ Truncate(p, "doneTruncate", "doneWrite") \/ DoneWrite(p)

Next ==
    \/ \E p \in Cmds : Provision(p) \/ Install(p)
    \/ \E p \in Seeds : Seed(p)
    \/ \E p \in All : Step(p) \/ Crash(p)

Spec == Init /\ [][Next]_vars

-----------------------------------------------------------------------------
(* Properties *)

\* The progress file never claims a step whose Install function did not end well, whatever is killed
\* and whoever writes the file at the same time.  (The key "seed" is claimed also when the
\* seeding could not log in.)
DoneIsInstalled == \A k \in Keys \ {SeedKey} : file[k] = "done" => k \in installed

\* No save was torn by a kill, and no seed has written the file beside the lock.
Undisturbed == (\A p \in All : pc[p] # "torn") /\ \A p \in Seeds : pc[p] = "out"

\* "Progress saved - completed steps are skipped": a step whose completion was saved is not
\* installed again by a later provision or install, killed as they may be, as long as no save was
\* torn (the truncated file loses the whole progress) and every writer held the lock.
NotRepeated ==
    Undisturbed =>
        \A p \in Cmds : pc[p] = "install" /\ at[p] # SeedStep => Key(p) \notin recorded

\* A provision that ends without an error has installed every step, whichever earlier run
\* installed it.
EndsComplete ==
    \A p \in Cmds :
        pc[p] = "ok" /\ last[p] = SeedStep => \A i \in 1 .. Len(Plan) : Plan[i].key \in installed

-----------------------------------------------------------------------------
(* The inductive invariant behind DoneIsInstalled and EndsComplete *)

\* A command works on a step of the plan, or finishes with the seeding.
ControlInv(p) ==
    /\ pc[p] \in {"mark", "markTruncate", "markWrite", "check", "remark", "remarkTruncate",
                  "remarkWrite"} => at[p] # SeedStep
    /\ at[p] <= last[p]
    /\ pc[p] = "ok" /\ last[p] = SeedStep => at[p] = SeedStep

\* What a command will write claims no more than the file may; what it is about to claim and
\* the steps a provision has left behind are installed.
ClaimInv(p) ==
    /\ \A k \in Keys \ {SeedKey} : map[p][k] = "done" => k \in installed
    /\ pc[p] \in {"done", "doneTruncate", "doneWrite"} /\ at[p] # SeedStep =>
         Plan[at[p]].key \in installed
    /\ p \in Cmds /\ pc[p] # "out" /\ last[p] = SeedStep =>
         \A i \in 1 .. Len(Plan) : i < at[p] => Plan[i].key \in installed

StepsInv == DoneIsInstalled /\ \A p \in All : ControlInv(p) /\ ClaimInv(p)
=============================================================================
