----------------------------- MODULE FileStore -----------------------------
(***************************************************************************)
(* One registered file (routes/storage.ts): its row, and the file of that  *)
(* name in the uploads directory.  An upload, a confirmation and a         *)
(* deletion each read the row, and save what they read later.              *)
(***************************************************************************)
EXTENDS Naturals, EntitySave

CONSTANTS
    Uploads,   \* slots for PUT upload-raw
    Confirms,  \* slots for POST confirm
    Deletes,   \* slots for POST delete
    MaxCalls   \* bound: requests

ASSUME FileAssumption ==
    /\ Uploads \cap Confirms = {} /\ Uploads \cap Deletes = {} /\ Confirms \cap Deletes = {}
    /\ MaxCalls \in Nat

VARIABLES
    fileRow,   \* the row of the table files
    disk,      \* the file: "none", "part" or "whole" of an upload, or "mixed"
    stream,    \* the write stream of each upload; "late": of an upload that has broken off
    call,      \* each request
    calls,     \* requests so far
    single,    \* history: requests that had the file to themselves so far
    outcome    \* history: what the last request, if it was single, was answered

fileVars == <<fileRow, disk, stream, call, calls, single, outcome>>

Callers == Uploads \cup Confirms \cup Deletes
Sizes == {"none", "part", "whole", "mixed"}
FileRows == [isDeleted : BOOLEAN, size : Sizes, cdnUrl : BOOLEAN]
Registered == [isDeleted |-> FALSE, size |-> "none", cdnUrl |-> FALSE]
Resting == [step |-> "idle", entity |-> Registered, selected |-> Registered]

FileTypeOK ==
    /\ fileRow \in FileRows /\ disk \in Sizes
    /\ stream \in [Uploads -> {"none", "opening", "open", "late"}]
    /\ call \in [Callers -> [step : {"idle", "body", "reselect", "writeback", "unlink"},
                             entity : FileRows, selected : FileRows]]
    /\ calls \in 0 .. MaxCalls
    /\ single \subseteq Callers
    /\ outcome \in {"none", "uploaded", "confirmed", "deleted"}

\* upload-url has registered the file.
FileInit ==
    /\ fileRow = Registered /\ disk = "none"
    /\ stream = [u \in Uploads |-> "none"]
    /\ call = [c \in Callers |-> Resting]
    /\ calls = 0
    /\ single = {} /\ outcome = "none"

----------------------------------------------------------------------------
Put(c, new) == call' = [call EXCEPT ![c] = new]

Quiet == (\A c \in Callers : call[c].step = "idle") /\ (\A u \in Uploads : stream[u] = "none")

\* The findOne every request begins with; what it changes in the entity before its save.
Begin(c, step, entity) ==
    /\ call[c].step = "idle" /\ calls < MaxCalls /\ calls' = calls + 1
    /\ Put(c, [Resting EXCEPT !.step = step, !.entity = entity])
    /\ single' = IF Quiet THEN {c} ELSE {}
    /\ outcome' = "none"
    /\ UNCHANGED <<fileRow, disk>>

StartUpload(u) ==
    /\ stream[u] = "none" /\ stream' = [stream EXCEPT ![u] = "opening"]
    /\ Begin(u, "body", fileRow)
StartConfirm(c) == Begin(c, "reselect", [fileRow EXCEPT !.size = "whole", !.cdnUrl = TRUE]) /\ UNCHANGED stream
StartDelete(d) == Begin(d, "reselect", [fileRow EXCEPT !.isDeleted = TRUE]) /\ UNCHANGED stream

\* createWriteStream truncates the file when it opens it, which it does in its own time.
OpenFile(u) ==
    /\ stream[u] \in {"opening", "late"}
    /\ stream' = [stream EXCEPT ![u] = IF @ = "late" THEN "none" ELSE "open"]
    /\ disk' = "part"
    /\ UNCHANGED <<fileRow, call, calls, single, outcome>>

\* The body is on disk: whole, unless another stream has written the file as well.  Once unlinked,
\* the file is not there again.
Flush(u) ==
    /\ stream[u] = "open" /\ stream' = [stream EXCEPT ![u] = "none"]
    /\ disk' = IF disk = "none" THEN "none" ELSE IF disk = "part" /\ u \in single THEN "whole" ELSE "mixed"
    /\ UNCHANGED <<fileRow, call, calls, single, outcome>>

\* The process ends and is started again.
ServiceEnds ==
    /\ call' = [c \in Callers |-> Resting]
    /\ stream' = [u \in Uploads |-> "none"]
    /\ single' = {}

\* The request's end event, which does not wait for the stream: the size is that of the file by then.
\* The stat of a file that is not there throws out of the event handler, which ends the process.
EndOfBody(u) ==
    /\ call[u].step = "body"
    /\ IF disk = "none" THEN ServiceEnds
       ELSE /\ Put(u, [call[u] EXCEPT !.step = "reselect", !.entity.size = disk])
            /\ UNCHANGED <<stream, single>>
    /\ UNCHANGED <<fileRow, disk, calls, outcome>>

\* A client that goes away: no end event, no answer, what was written stays.
BreakOff(u) ==
    /\ call[u].step = "body" /\ Put(u, Resting)
    /\ stream' = [stream EXCEPT ![u] = IF @ = "opening" THEN "late" ELSE "none"]
    /\ UNCHANGED <<fileRow, disk, calls, single, outcome>>

\* save: the row is selected again, then the columns in which the entity differs are written.
ReselectFile(c) ==
    /\ call[c].step = "reselect"
    /\ Put(c, [call[c] EXCEPT !.step = "writeback", !.selected = fileRow])
    /\ UNCHANGED <<fileRow, disk, stream, calls, single, outcome>>

Answers(c, what) == outcome' = IF c \in single THEN what ELSE outcome

WriteBackFile(c) ==
    /\ call[c].step = "writeback"
    /\ fileRow' = Saved(fileRow, call[c].selected, call[c].entity)
    /\ \/ c \in Uploads /\ Put(c, Resting) /\ Answers(c, "uploaded")
       \/ c \in Confirms /\ Put(c, Resting) /\ Answers(c, "confirmed")
       \/ c \in Deletes /\ Put(c, [call[c] EXCEPT !.step = "unlink"]) /\ outcome' = outcome
    /\ UNCHANGED <<disk, stream, calls, single>>

\* Mutant: only the row is deleted.
UnlinkNever(d) ==
    /\ call[d].step = "unlink" /\ Put(d, Resting)
    /\ Answers(d, "deleted")
    /\ UNCHANGED <<fileRow, disk, stream, calls, single>>

UnlinkFile(d) ==
    /\ call[d].step = "unlink" /\ Put(d, Resting)
    /\ disk' = "none"
    /\ Answers(d, "deleted")
    /\ UNCHANGED <<fileRow, stream, calls, single>>

\* The statement fails: an error is answered, but an upload's save has no handler, which ends the process.
SaveFails(c) ==
    /\ call[c].step \in {"reselect", "writeback"}
    /\ IF c \in Uploads THEN ServiceEnds ELSE Put(c, Resting) /\ UNCHANGED <<stream, single>>
    /\ UNCHANGED <<fileRow, disk, calls, outcome>>

FileNext ==
    \/ \E u \in Uploads : StartUpload(u) \/ OpenFile(u) \/ Flush(u) \/ EndOfBody(u) \/ BreakOff(u)
    \/ \E c \in Confirms : StartConfirm(c)
    \/ \E d \in Deletes : StartDelete(d) \/ UnlinkFile(d)
    \/ \E c \in Callers : ReselectFile(c) \/ WriteBackFile(c) \/ SaveFails(c)

FileSpec == FileInit /\ [][FileNext]_fileVars

----------------------------------------------------------------------------
\* A deletion that was answered, and that no other request or stream ran beside, has hidden the file
\* and removed it from the disk, until the next request.
LoneDeleteSticks == outcome = "deleted" => fileRow.isDeleted /\ disk = "none"

\* An upload that was answered, and that no other request or stream ran beside, is on the disk as soon
\* as its stream is done, whatever was there before, until the next request.
LoneUploadArrives == outcome = "uploaded" /\ Quiet => disk = "whole"

\* Requests on a file that met no other have done to the row and to the disk what they answered.
FileInv == FileTypeOK /\ LoneDeleteSticks /\ LoneUploadArrives
=============================================================================
