------------------------------ MODULE Backups ------------------------------
(***************************************************************************)
(* Backups of one database and the storage providers they go to:           *)
(* routes/settings.ts with lib/database-service.ts and                     *)
(* lib/storage-service.ts.  A request answers 202 and leaves an async job  *)
(* behind; the row of the backup tells what became of it.  A database is   *)
(* the set of the writes it holds, or Missing while it is dropped; a dump  *)
(* is the set it was taken of.  No provider ever deletes a file.           *)
(***************************************************************************)
EXTENDS Naturals, FiniteSets

CONSTANTS
    NBackups,  \* bound: rows of db_backups
    Providers, \* rows of storage_providers that can come to be
    NRestores, \* bound: requests to restore
    PoolSize,  \* connections of adminPool
    MaxEvents, \* bound: changes of a provider (two at once are one), writes, ends of the process
    Missing    \* no provider, no file, no backup, no database

ASSUME BackupsAssumption ==
    /\ PoolSize \in Nat \ {0} /\ {NBackups, NRestores, MaxEvents} \subseteq Nat
    /\ IsFiniteSet(Providers) /\ Missing \notin Providers \cup Nat
    /\ \A set \in SUBSET (0 .. MaxEvents) : Missing # set

VARIABLES
    provider,  \* each provider's row: "absent", "spare" or "default"
    turning,   \* requests that have cleared the defaults: "insert" or "set" is still to come
    files,     \* the backups each provider has a file of
    backup,    \* status of each row
    job,       \* the job of each backup: where it is, and the provider its request found
    dump,      \* what each dump holds
    restore,   \* each restore: where it is, of what, whether it found a provider, its file
    content,   \* the database
    idle,      \* idle connections of adminPool
    events,    \* changes, writes and ends so far
    orphans,   \* history: backups whose job or restore the process took with it
    rivals,    \* history: whether two changes of the default ever overlapped
    fresh      \* history: the restore that ended alone and since when nothing touched the database

backupVars == <<provider, turning, files, backup, job, dump, restore, content, idle, events, orphans,
                rivals, fresh>>

Backups == 1 .. NBackups
Restores == 1 .. NRestores
Unset == Providers \cup {Missing}
Contents == SUBSET (0 .. MaxEvents)
Running == {"mark", "find", "connect", "drop", "create", "load", "killed", "finish", "fail"}

BackupsTypeOK ==
    /\ provider \in [Providers -> {"absent", "spare", "default"}]
    /\ turning \in [Providers -> {"no", "insert", "set"}]
    /\ files \in [Providers -> SUBSET Backups]
    /\ backup \in [Backups -> {"none", "in_progress", "completed", "failed", "restoring"}]
    /\ job \in [Backups -> [step : {"none", "dump", "upload", "update", "fail", "done"}, to : Unset]]
    /\ dump \in [Backups -> Contents \cup {Missing}]
    /\ restore \in [Restores -> [step : Running \cup {"none", "done"}, of : Backups \cup {Missing},
                                 asked : BOOLEAN, file : Contents \cup {Missing}, alone : BOOLEAN]]
    /\ content \in Contents \cup {Missing}
    /\ idle \in 0 .. PoolSize
    /\ events \in 0 .. MaxEvents
    /\ orphans \subseteq Backups /\ rivals \in BOOLEAN
    /\ fresh \in Restores \cup {Missing}

NoRestore == [step |-> "none", of |-> Missing, asked |-> FALSE, file |-> Missing, alone |-> TRUE]

BackupsInit ==
    /\ \E p \in Unset : provider = [q \in Providers |-> IF q = p THEN "default" ELSE "absent"]
    /\ turning = [p \in Providers |-> "no"]
    /\ files = [p \in Providers |-> {}]
    /\ backup = [b \in Backups |-> "none"]
    /\ job = [b \in Backups |-> [step |-> "none", to |-> Missing]]
    /\ dump = [b \in Backups |-> Missing]
    /\ restore = [r \in Restores |-> NoRestore]
    /\ content = {0}
    /\ idle = PoolSize
    /\ events = 0
    /\ orphans = {} /\ rivals = FALSE /\ fresh = Missing

----------------------------------------------------------------------------
\* Storage providers: POST, set-default and DELETE of /settings/storage.

providerVars == <<provider, turning, rivals>>
databaseVars == <<content, fresh>>
jobVars == <<files, backup, job, dump, restore, idle, orphans, databaseVars>>

Event == events < MaxEvents /\ events' = events + 1

Cleared == [p \in Providers |-> IF provider[p] = "default" THEN "spare" ELSE provider[p]]

AddSpare(p) ==
    /\ provider[p] = "absent" /\ turning[p] = "no" /\ Event
    /\ provider' = [provider EXCEPT ![p] = "spare"]
    /\ UNCHANGED <<turning, rivals, jobVars>>

\* The first of the two statements of a POST with isDefault (insert) or of set-default (set).  As
\* package.json leaves the version of TypeORM open, set-default may also be refused: no change.
ClearDefaults(p, how) ==
    /\ turning[p] = "no"
    /\ IF \E q \in Providers : turning[q] # "no" THEN events' = events ELSE Event
    /\ how = IF provider[p] = "absent" THEN "insert" ELSE "set"
    /\ provider' = Cleared
    /\ rivals' = (rivals \/ \E q \in Providers : turning[q] # "no")
    /\ turning' = [turning EXCEPT ![p] = how]
    /\ UNCHANGED jobVars

\* The second.  The update of a row that has been deleted changes nothing.
MakeDefault(p) ==
    /\ turning[p] # "no"
    /\ provider' = IF turning[p] = "insert" \/ provider[p] # "absent"
                   THEN [provider EXCEPT ![p] = "default"] ELSE provider
    /\ turning' = [turning EXCEPT ![p] = "no"]
    /\ UNCHANGED <<events, rivals, jobVars>>

DeleteProvider(p) ==
    /\ provider[p] # "absent" /\ Event
    /\ provider' = [provider EXCEPT ![p] = "absent"]
    /\ UNCHANGED <<turning, rivals, jobVars>>

\* findOne of a default provider: any of them, Missing if there is none.
Found(p) == IF p = Missing THEN \A q \in Providers : provider[q] # "default"
            ELSE provider[p] = "default"

----------------------------------------------------------------------------
\* POST databases/backup and its job.

Step(b, step) == job' = [job EXCEPT ![b].step = step]

TakeBackup(b) ==
    /\ backup[b] = "none" /\ \A a \in 1 .. b - 1 : backup[a] # "none"
    /\ backup' = [backup EXCEPT ![b] = "in_progress"]
    /\ \E p \in Unset : Found(p) /\ job' = [job EXCEPT ![b] = [step |-> "dump", to |-> p]]
    /\ UNCHANGED <<files, dump, restore, idle, events, orphans, databaseVars, providerVars>>

Dump(b) ==
    /\ job[b].step = "dump"
    /\ \/ content # Missing /\ dump' = [dump EXCEPT ![b] = content] /\ Step(b, "upload")
       \/ dump' = dump /\ Step(b, "fail") \* pg_dump failed
    /\ UNCHANGED <<files, backup, restore, idle, events, orphans, databaseVars, providerVars>>

\* Without a provider the file stays where it is, to be unlinked after the update.
Upload(b) ==
    /\ job[b].step = "upload"
    /\ \/ job[b].to = Missing /\ files' = files /\ Step(b, "update")
       \/ job[b].to # Missing /\ files' = [files EXCEPT ![job[b].to] = @ \cup {b}] /\ Step(b, "update")
       \/ job[b].to # Missing /\ files' = files /\ Step(b, "fail")
    /\ UNCHANGED <<backup, dump, restore, idle, events, orphans, databaseVars, providerVars>>

UpdateBackup(b) ==
    /\ \/ job[b].step = "update" /\ backup' = [backup EXCEPT ![b] = "completed"]
       \/ job[b].step = "fail" /\ backup' = [backup EXCEPT ![b] = "failed"]
    /\ Step(b, "done")
    /\ UNCHANGED <<files, dump, restore, idle, events, orphans, databaseVars, providerVars>>

----------------------------------------------------------------------------
\* POST backups/:backupId/restore and its job.

At(r, step) == restore[r].step = step
MoveTo(r, step) == restore' = [restore EXCEPT ![r].step = step]

\* The row is read, and marked in a second statement: the restores at work are no longer alone.
CheckRestore(r, b) ==
    /\ At(r, "none") /\ \A q \in 1 .. r - 1 : ~At(q, "none")
    /\ backup[b] = "completed"
    /\ LET others == {q \in Restores : restore[q].step \in Running} IN
       restore' = [q \in Restores |->
           IF q = r THEN [NoRestore EXCEPT !.step = "mark", !.of = b, !.alone = (others = {})]
           ELSE [restore[q] EXCEPT !.alone = @ /\ q \notin others]]
    /\ fresh' = Missing
    /\ UNCHANGED <<files, backup, job, dump, content, idle, events, orphans, providerVars>>

MarkRestoring(r) ==
    /\ At(r, "mark") /\ MoveTo(r, "find")
    /\ backup' = [backup EXCEPT ![restore[r].of] = "restoring"]
    /\ UNCHANGED <<files, job, dump, idle, events, orphans, databaseVars, providerVars>>

\* Mutant: a download that fails is not noticed.
FetchOrNot(r) ==
    /\ At(r, "find")
    /\ \E p \in Unset :
        /\ Found(p)
        /\ restore' = [restore EXCEPT ![r] =
              [@ EXCEPT !.step = "connect", !.asked = (p # Missing),
                        !.file = IF p # Missing /\ @ \in files[p] THEN dump[restore[r].of] ELSE Missing]]
    /\ UNCHANGED <<files, backup, job, dump, idle, events, orphans, databaseVars, providerVars>>

\* The provider that is the default now, whichever the backup went to.
Fetch(r) ==
    /\ At(r, "find")
    /\ \E p \in Unset :
        /\ Found(p)
        /\ \/ p = Missing /\ MoveTo(r, "connect")
           \/ /\ p # Missing /\ restore[r].of \in files[p]
              /\ restore' = [restore EXCEPT ![r] =
                    [@ EXCEPT !.step = "connect", !.asked = TRUE, !.file = dump[restore[r].of]]]
           \/ p # Missing /\ MoveTo(r, "fail") \* no such file, or the download fails
    /\ UNCHANGED <<files, backup, job, dump, idle, events, orphans, databaseVars, providerVars>>

\* adminPool.connect waits for a connection as long as it takes.
Connect(r) ==
    /\ At(r, "connect") /\ idle > 0
    /\ idle' = idle - 1 /\ MoveTo(r, "drop")
    /\ UNCHANGED <<files, backup, job, dump, events, orphans, databaseVars, providerVars>>

\* Mutant: the dump is loaded into the database as it is.
DropNothing(r) ==
    /\ At(r, "drop") /\ MoveTo(r, "load") /\ idle' = idle + 1
    /\ fresh' = Missing
    /\ UNCHANGED <<files, backup, job, dump, content, events, orphans, providerVars>>

\* The connections to the database are terminated, those of a pg_restore at work included, and the
\* database is dropped, unless someone has connected again.  An error keeps the connection for good.
Drop(r) ==
    /\ At(r, "drop")
    /\ \/ /\ content' = Missing
          /\ restore' = [q \in Restores |->
                IF q = r THEN [restore[q] EXCEPT !.step = "create"]
                ELSE IF At(q, "load") THEN [restore[q] EXCEPT !.step = "killed"] ELSE restore[q]]
       \/ content # Missing /\ content' = content /\ MoveTo(r, "fail")
    /\ fresh' = Missing
    /\ UNCHANGED <<files, backup, job, dump, idle, events, orphans, providerVars>>

Recreate(r) ==
    /\ At(r, "create")
    /\ \/ content = Missing /\ content' = {} /\ idle' = idle + 1 /\ MoveTo(r, "load")
       \/ content # Missing /\ content' = content /\ idle' = idle /\ MoveTo(r, "fail") \* it exists again
    /\ UNCHANGED <<files, backup, job, dump, events, orphans, fresh, providerVars>>

\* pg_restore.  That something already exists counts as a success, whatever was loaded.
Load(r) ==
    /\ At(r, "load")
    /\ LET file == restore[r].file IN
       \/ file # Missing /\ content = {} /\ content' = file /\ MoveTo(r, "finish")
       \/ file # Missing /\ content # {} /\ content' \in {content, content \cup file} /\ MoveTo(r, "finish")
       \/ file # Missing /\ content' \in {content, content \cup file} /\ MoveTo(r, "fail")
       \/ file = Missing /\ content' = content /\ MoveTo(r, "fail")
    /\ fresh' = Missing
    /\ UNCHANGED <<files, backup, job, dump, idle, events, orphans, providerVars>>

Killed(r) ==
    /\ At(r, "killed") /\ MoveTo(r, "fail")
    /\ UNCHANGED <<files, backup, job, dump, idle, events, orphans, databaseVars, providerVars>>

UpdateRestored(r) ==
    /\ \/ At(r, "finish") /\ backup' = [backup EXCEPT ![restore[r].of] = "completed"]
       \/ At(r, "fail") /\ backup' = [backup EXCEPT ![restore[r].of] = "failed"]
    /\ MoveTo(r, "done")
    /\ fresh' = IF At(r, "finish") /\ restore[r].alone THEN r ELSE fresh
    /\ UNCHANGED <<files, job, dump, content, idle, events, orphans, providerVars>>

----------------------------------------------------------------------------
\* The application writes to its database while there is one.
AppWrites ==
    /\ content # Missing /\ Event
    /\ content' = content \cup {events + 1}
    /\ fresh' = Missing
    /\ restore' = [r \in Restores |-> [restore[r] EXCEPT !.alone = @ /\ restore[r].step \notin Running]]
    /\ UNCHANGED <<files, backup, job, dump, idle, orphans, providerVars>>

\* The process ends and is started again: rows and files stay, jobs and connections do not.
ProcessEnds ==
    /\ Event
    /\ orphans' = orphans \cup {b \in Backups : job[b].step \notin {"none", "done"}}
                          \cup {restore[r].of : r \in {q \in Restores : restore[q].step \in Running}}
    /\ job' = [b \in Backups |-> IF job[b].step = "none" THEN job[b] ELSE [job[b] EXCEPT !.step = "done"]]
    /\ restore' = [r \in Restores |-> IF At(r, "none") THEN restore[r] ELSE [restore[r] EXCEPT !.step = "done"]]
    /\ turning' = [p \in Providers |-> "no"]
    /\ idle' = PoolSize
    /\ UNCHANGED <<provider, files, backup, dump, rivals, databaseVars>>

BackupJob(b) == Dump(b) \/ Upload(b) \/ UpdateBackup(b)
RestoreJob(r) ==
    \/ MarkRestoring(r) \/ Fetch(r) \/ Connect(r) \/ Drop(r) \/ Recreate(r)
    \/ Load(r) \/ Killed(r) \/ UpdateRestored(r)

BackupsNext ==
    \/ \E p \in Providers :
        \/ AddSpare(p) \/ MakeDefault(p) \/ DeleteProvider(p)
        \/ \E how \in {"insert", "set"} : ClearDefaults(p, how)
    \/ \E b \in Backups : TakeBackup(b) \/ BackupJob(b)
    \/ \E r \in Restores : RestoreJob(r) \/ \E b \in Backups : CheckRestore(r, b)
    \/ AppWrites \/ ProcessEnds

BackupsSpec == BackupsInit /\ [][BackupsNext]_backupVars

----------------------------------------------------------------------------
\* A backup whose request found a provider is not offered for a restore before the provider has it.
CompletedIsStored ==
    \A b \in Backups : backup[b] \in {"completed", "restoring"} /\ job[b].to # Missing =>
        b \in files[job[b].to]

\* A restore drops the database only with the dump in hand, unless it found no provider to ask.
DroppedWithDump ==
    [][content # Missing /\ content' = Missing =>
        \E r \in Restores : /\ At(r, "drop") /\ restore'[r].step = "create"
                            /\ restore[r].asked => restore[r].file = dump[restore[r].of]]_backupVars

\* After a restore that was told to have succeeded, and while it ran and since then nobody wrote and
\* nobody else restored, the database is what was backed up.
LoneRestoreRestores ==
    fresh # Missing => content = dump[restore[fresh].of]

\* Two defaults take two changes of the default at the same time.
OneDefault ==
    rivals \/ Cardinality({p \in Providers : provider[p] = "default"}) <= 1

\* A row that says in progress or restoring has a job at work on it, unless the process ended
\* under that job: nobody waits for an answer that nobody will write.
SomeoneSettles ==
    \A b \in Backups \ orphans :
        /\ backup[b] = "in_progress" => job[b].step \notin {"none", "done"}
        /\ backup[b] = "restoring" => \E r \in Restores : restore[r].of = b /\ restore[r].step \in Running

\* A backup called completed can be restored from its provider, a lone restore restores it, there is
\* one default provider unless two changes raced, and no row waits for a job that has gone by itself.
BackupsInv ==
    BackupsTypeOK /\ CompletedIsStored /\ LoneRestoreRestores /\ OneDefault /\ SomeoneSettles
=============================================================================
