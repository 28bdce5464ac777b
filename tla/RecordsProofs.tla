--------------------------- MODULE RecordsProofs ---------------------------
(***************************************************************************)
(* Proofs about records that a route reads, changes and writes back        *)
(* (FileStore, Integrations, Backups), and about project secrets, the      *)
(* password of the Postgres role being one (ProjectSecrets,                *)
(* ProjectDatabase).                                                       *)
(***************************************************************************)
EXTENDS FileStore, Integrations, Backups, ProjectDatabase, FiniteSetTheorems, TLAPS

-----------------------------------------------------------------------------
(* The file of FileStore *)

\* A request that has had the file to itself still has it: nobody else is at work on it.
Undisturbed(c) ==
    /\ \A x \in Callers \ {c} : call[x].step = "idle"
    /\ \A u \in Uploads \ {c} : stream[u] = "none"

\* What such a request knows of the row at each of its steps.
SingleRow(c) ==
    /\ call[c].step = "writeback" => call[c].selected = fileRow
    /\ c \in Deletes /\ call[c].step \in {"reselect", "writeback"} => call[c].entity.isDeleted
    /\ call[c].step = "unlink" => c \in Deletes /\ fileRow.isDeleted

\* What it knows of the disk, until its stream is done.
SingleDisk(u) ==
    u \in Uploads /\ (call[u].step # "idle" \/ outcome = "uploaded") =>
        /\ stream[u] # "late"
        /\ stream[u] = "open" => disk = "part"
        /\ stream[u] = "none" => disk = "whole"

\* An answer stands until the next request begins.
Answered ==
    /\ outcome # "none" => \A c \in Callers : call[c].step = "idle"
    /\ outcome = "uploaded" => single \cap Uploads # {}
    /\ outcome = "deleted" => Quiet /\ fileRow.isDeleted /\ disk = "none"

FileIInv ==
    /\ FileTypeOK
    /\ \A c \in single : Undisturbed(c) /\ SingleRow(c) /\ SingleDisk(c)
    /\ Answered

\* The invariant says what the run checks.
LEMMA FileIInvImplies == FileIInv => FileInv
<1> SUFFICES ASSUME FileIInv PROVE FileInv
  OBVIOUS
<1>1. LoneDeleteSticks
  BY DEF FileIInv, Answered, LoneDeleteSticks
<1>2. LoneUploadArrives
  <2> SUFFICES ASSUME outcome = "uploaded", Quiet PROVE disk = "whole"
    BY DEF LoneUploadArrives
  <2>1. PICK u \in single \cap Uploads : TRUE
    BY DEF FileIInv, Answered
  <2> QED
    BY <2>1 DEF FileIInv, SingleDisk, Quiet
<1> QED
  BY <1>1, <1>2 DEF FileInv, FileIInv

LEMMA FileInitIInv == FileInit => FileIInv
BY FileAssumption
DEF FileInit, FileIInv, FileTypeOK, FileRows, Registered, Resting, Sizes, Callers, Answered

\* A save writes a row of the table, and what the entity changed.
LEMMA SavedFile ==
    ASSUME NEW r \in FileRows, NEW sel \in FileRows, NEW e \in FileRows
    PROVE  /\ Saved(r, sel, e) \in FileRows
           /\ r = sel => Saved(r, sel, e) = e
<1>1. DOMAIN r = {"isDeleted", "size", "cdnUrl"}
  BY DEF FileRows
<1>2. Saved(r, sel, e) = [k \in {"isDeleted", "size", "cdnUrl"} |-> IF e[k] # sel[k] THEN e[k] ELSE r[k]]
  BY <1>1 DEF Saved
<1>3. Saved(r, sel, e) \in FileRows
  BY <1>2 DEF FileRows
<1>4. r = sel => \A k \in {"isDeleted", "size", "cdnUrl"} : Saved(r, sel, e)[k] = e[k]
  BY <1>2
<1>5. r = sel => Saved(r, sel, e) = e
  BY <1>2, <1>3, <1>4 DEF FileRows
<1> QED
  BY <1>3, <1>5

\* The request that begins has the file to itself if nothing was at work on it.
LEMMA BeginKeeps ==
    ASSUME FileIInv, NEW c \in Callers, NEW st \in {"body", "reselect"}, NEW e \in FileRows,
           Begin(c, st, e),
           c \in Uploads => st = "body" /\ stream[c] = "none" /\ stream' = [stream EXCEPT ![c] = "opening"],
           c \notin Uploads => st = "reselect" /\ UNCHANGED stream,
           c \in Deletes => e.isDeleted
    PROVE  FileIInv'
<1> USE FileAssumption DEF FileIInv
<1> DEFINE new == [Resting EXCEPT !.step = st, !.entity = e]
<1>0. /\ call' = [call EXCEPT ![c] = new]
      /\ new \in [step : {"idle", "body", "reselect", "writeback", "unlink"}, entity : FileRows, selected : FileRows]
  <2>1. Registered \in FileRows
    BY DEF Registered, FileRows, Sizes
  <2> QED
    BY <2>1 DEF Begin, Put, Resting
<1>1. FileTypeOK'
  <2>1. /\ call' \in [Callers -> [step : {"idle", "body", "reselect", "writeback", "unlink"},
                                 entity : FileRows, selected : FileRows]]
        /\ stream' \in [Uploads -> {"none", "opening", "open", "late"}]
    BY <1>0 DEF FileTypeOK
  <2>2. calls' \in 0 .. MaxCalls
    BY DEF Begin, FileTypeOK
  <2> QED
    BY <2>1, <2>2 DEF Begin, FileTypeOK
<1>2. ASSUME NEW x \in single' PROVE Undisturbed(x)' /\ SingleRow(x)' /\ SingleDisk(x)'
  <2>1. Quiet /\ x = c
    BY <1>2 DEF Begin
  <2>2. new.step = st /\ new.entity = e
    BY DEF Resting
  <2>3. call'[c].step = st /\ call'[c].entity = e
    BY <1>0, <2>2 DEF FileTypeOK
  <2>4. Undisturbed(c)'
    BY <2>1, <1>0 DEF Quiet, Undisturbed, FileTypeOK, Callers
  <2>5. SingleRow(c)'
    BY <2>3 DEF SingleRow
  <2>6. SingleDisk(c)'
    BY DEF SingleDisk, FileTypeOK
  <2> QED
    BY <2>1, <2>4, <2>5, <2>6
<1>3. Answered'
  BY DEF Begin, Answered
<1> QED
  BY <1>1, <1>2, <1>3

\* A process that ends leaves nothing at work.
LEMMA ServiceEndsKeeps ==
    ASSUME FileIInv, ServiceEnds, UNCHANGED <<fileRow, disk, calls, outcome>>, outcome = "none"
    PROVE  FileIInv'
BY DEF FileIInv, FileTypeOK, ServiceEnds, Resting, Registered, FileRows, Sizes, Answered, Callers

\* Every step keeps the invariant.
LEMMA FileStep == FileIInv /\ [FileNext]_fileVars => FileIInv'
<1> USE FileAssumption
<1> SUFFICES ASSUME FileIInv, [FileNext]_fileVars PROVE FileIInv'
  OBVIOUS
<1>1. CASE UNCHANGED fileVars
  BY <1>1 DEF fileVars, FileIInv, FileTypeOK, Undisturbed, SingleRow, SingleDisk, Answered, Quiet
<1>2. ASSUME NEW u \in Uploads, StartUpload(u) PROVE FileIInv'
  BY <1>2, BeginKeeps DEF StartUpload, Callers, FileIInv, FileTypeOK
<1>3. ASSUME NEW u \in Uploads, OpenFile(u) PROVE FileIInv'
  BY <1>3 DEF OpenFile, FileIInv, FileTypeOK, Undisturbed, SingleRow, SingleDisk, Answered, Quiet, Sizes, Callers
<1>4. ASSUME NEW u \in Uploads, Flush(u) PROVE FileIInv'
  BY <1>4 DEF Flush, FileIInv, FileTypeOK, Undisturbed, SingleRow, SingleDisk, Answered, Quiet, Sizes, Callers
<1>5. ASSUME NEW u \in Uploads, EndOfBody(u) PROVE FileIInv'
  <2>1. outcome = "none"
    BY <1>5 DEF EndOfBody, FileIInv, Answered, Callers
  <2>2. CASE disk = "none"
    BY <1>5, <2>1, <2>2, ServiceEndsKeeps DEF EndOfBody
  <2>3. CASE disk # "none"
    <3>1. /\ call' = [call EXCEPT ![u] = [call[u] EXCEPT !.step = "reselect", !.entity.size = disk]]
          /\ UNCHANGED <<fileRow, disk, stream, calls, single, outcome>>
      BY <1>5, <2>3 DEF EndOfBody, Put
    <3>2. FileTypeOK'
      <4>1. [call[u] EXCEPT !.step = "reselect", !.entity.size = disk]
               \in [step : {"idle", "body", "reselect", "writeback", "unlink"}, entity : FileRows, selected : FileRows]
        <5>1. call[u] \in [step : {"idle", "body", "reselect", "writeback", "unlink"},
                           entity : FileRows, selected : FileRows]
          BY DEF FileIInv, FileTypeOK, Callers
        <5>2. [call[u].entity EXCEPT !.size = disk] \in FileRows
          BY <5>1 DEF FileIInv, FileTypeOK, FileRows
        <5> QED
          BY <5>1, <5>2
      <4> QED
        BY <3>1, <4>1 DEF FileIInv, FileTypeOK
    <3>3. /\ call'[u].step = "reselect" /\ call[u].step = "body" /\ u \notin Deletes
          /\ \A x \in Callers \ {u} : call'[x] = call[x]
      BY <1>5, <3>1 DEF EndOfBody, FileIInv, FileTypeOK, Callers
    <3> QED
      BY <2>1, <3>1, <3>2, <3>3 DEF FileIInv, Undisturbed, SingleRow, SingleDisk, Answered, Callers, FileTypeOK
  <2> QED
    BY <2>2, <2>3
<1>6. ASSUME NEW u \in Uploads, BreakOff(u) PROVE FileIInv'
  <2>1. outcome = "none"
    BY <1>6 DEF BreakOff, FileIInv, Answered, Callers
  <2> QED
    BY <1>6, <2>1
    DEF BreakOff, Put, Resting, Registered, FileIInv, FileTypeOK, FileRows, Sizes, Undisturbed, SingleRow, SingleDisk, Answered, Callers
<1>7. ASSUME NEW c \in Confirms, StartConfirm(c) PROVE FileIInv'
  <2>1. [fileRow EXCEPT !.size = "whole", !.cdnUrl = TRUE] \in FileRows
    BY DEF FileIInv, FileTypeOK, FileRows, Sizes
  <2> QED
    BY <1>7, <2>1, BeginKeeps DEF StartConfirm, Callers
<1>8. ASSUME NEW d \in Deletes, StartDelete(d) PROVE FileIInv'
  <2>1. [fileRow EXCEPT !.isDeleted = TRUE] \in FileRows /\ [fileRow EXCEPT !.isDeleted = TRUE].isDeleted
    BY DEF FileIInv, FileTypeOK, FileRows
  <2> QED
    BY <1>8, <2>1, BeginKeeps DEF StartDelete, Callers
<1>9. ASSUME NEW d \in Deletes, UnlinkFile(d) PROVE FileIInv'
  <2>1. outcome = "none"
    BY <1>9 DEF UnlinkFile, FileIInv, Answered, Callers
  <2>2. FileTypeOK'
    BY <1>9 DEF UnlinkFile, Put, Answers, Resting, Registered, FileIInv, FileTypeOK, FileRows, Sizes, Callers
  <2>3. ASSUME NEW c \in single' PROVE Undisturbed(c)' /\ SingleRow(c)' /\ SingleDisk(c)'
    BY <1>9, <2>1, <2>3
    DEF UnlinkFile, Put, Answers, Resting, FileIInv, FileTypeOK, Undisturbed, SingleRow, SingleDisk, Callers
  <2>4. Answered'
    BY <1>9, <2>1
    DEF UnlinkFile, Put, Answers, Resting, FileIInv, FileTypeOK, Undisturbed, SingleRow, Answered, Quiet, Callers
  <2> QED
    BY <2>2, <2>3, <2>4 DEF FileIInv
<1>10. ASSUME NEW c \in Callers, ReselectFile(c) PROVE FileIInv'
  <2>1. outcome = "none"
    BY <1>10 DEF ReselectFile, FileIInv, Answered
  <2> QED
    <3>1. /\ call' = [call EXCEPT ![c] = [call[c] EXCEPT !.step = "writeback", !.selected = fileRow]]
          /\ call[c].step = "reselect" /\ UNCHANGED <<fileRow, disk, stream, calls, single, outcome>>
      BY <1>10 DEF ReselectFile, Put
    <3>2. FileTypeOK'
      BY <3>1 DEF FileIInv, FileTypeOK
    <3>3. /\ call'[c].step = "writeback" /\ call'[c].selected = fileRow /\ call'[c].entity = call[c].entity
          /\ \A x \in Callers \ {c} : call'[x] = call[x]
      BY <3>1 DEF FileIInv, FileTypeOK
    <3> QED
      BY <2>1, <3>1, <3>2, <3>3 DEF FileIInv, Undisturbed, SingleRow, SingleDisk, Answered, Callers, FileTypeOK
<1>11. ASSUME NEW c \in Callers, WriteBackFile(c) PROVE FileIInv'
  <2>1. outcome = "none"
    BY <1>11 DEF WriteBackFile, FileIInv, Answered
  <2>2. /\ fileRow' \in FileRows
        /\ c \in single => fileRow' = call[c].entity
    BY <1>11, SavedFile DEF WriteBackFile, FileIInv, FileTypeOK, SingleRow
  <2>3. FileTypeOK'
    <3>1. /\ call' = [call EXCEPT ![c] = Resting] \/ call' = [call EXCEPT ![c] = [call[c] EXCEPT !.step = "unlink"]]
          /\ outcome' \in {outcome, "uploaded", "confirmed", "deleted"}
          /\ UNCHANGED <<disk, stream, calls, single>>
      BY <1>11 DEF WriteBackFile, Put, Answers
    <3>2. Resting \in [step : {"idle", "body", "reselect", "writeback", "unlink"}, entity : FileRows, selected : FileRows]
      BY DEF Resting, Registered, FileRows, Sizes
    <3>3. call' \in [Callers -> [step : {"idle", "body", "reselect", "writeback", "unlink"},
                                 entity : FileRows, selected : FileRows]]
      BY <3>1, <3>2 DEF FileIInv, FileTypeOK
    <3> QED
      BY <2>2, <3>1, <3>3 DEF FileIInv, FileTypeOK
  <2>4. ASSUME NEW x \in single' PROVE Undisturbed(x)' /\ SingleRow(x)' /\ SingleDisk(x)'
    BY <1>11, <2>1, <2>2, <2>4
    DEF WriteBackFile, Put, Answers, Resting, FileIInv, FileTypeOK, Undisturbed, SingleRow, SingleDisk, Callers
  <2>5. Answered'
    BY <1>11, <2>1
    DEF WriteBackFile, Put, Answers, Resting, FileIInv, FileTypeOK, Undisturbed, Answered, Callers
  <2> QED
    BY <2>3, <2>4, <2>5 DEF FileIInv
<1>12. ASSUME NEW c \in Callers, SaveFails(c) PROVE FileIInv'
  <2>1. outcome = "none"
    BY <1>12 DEF SaveFails, FileIInv, Answered
  <2>2. CASE c \in Uploads
    BY <1>12, <2>1, <2>2, ServiceEndsKeeps DEF SaveFails
  <2>3. CASE c \notin Uploads
    <3>1. /\ call' = [call EXCEPT ![c] = Resting]
          /\ UNCHANGED <<fileRow, disk, stream, calls, single, outcome>>
      BY <1>12, <2>3 DEF SaveFails, Put
    <3>2. FileTypeOK'
      BY <3>1 DEF Resting, Registered, FileIInv, FileTypeOK, FileRows, Sizes
    <3>3. call'[c].step = "idle" /\ \A x \in Callers \ {c} : call'[x] = call[x]
      BY <3>1 DEF FileIInv, FileTypeOK, Resting
    <3> QED
      BY <2>1, <2>3, <3>1, <3>2, <3>3
      DEF FileIInv, Undisturbed, SingleRow, SingleDisk, Answered, Callers, FileTypeOK
  <2> QED
    BY <2>2, <2>3
<1> QED
  BY <1>1, <1>2, <1>3, <1>4, <1>5, <1>6, <1>7, <1>8, <1>9, <1>10, <1>11, <1>12 DEF FileNext

\* Whatever uploads, confirmations and deletions overlapped before, a deletion or an upload that met no
\* other request has done to the row and to the disk what it answered.
THEOREM FilesAsAnswered == FileSpec => []FileInv
<1>1. FileSpec => []FileIInv
  BY FileInitIInv, FileStep, PTL DEF FileSpec
<1> QED
  BY <1>1, FileIInvImplies, PTL

-----------------------------------------------------------------------------
(* The settings of Integrations *)

Keys == {"token", "org"}
EditorSteps == {"idle", "get", "create", "compare", "update", "resolve", "apply"}
EditorStates == [step : EditorSteps, body : Bodies, at : 0 .. Cardinality(Editors),
                 entity : Columns, read : Columns]
Makers == {e \in Editors : put[e].step \in {"get", "create"}}

\* The row that is read first holds what a request asked for.
InRow(body) ==
    /\ settings # <<>>
    /\ \A k \in Keys : body[k] # "keep" => settings[1][k] = (IF body[k] = "clear" THEN Blank ELSE body[k])

\* A request works on a row there is, and whoever still makes one has room for it.
RowsThere ==
    /\ \A e \in Editors : put[e].step \in {"compare", "update"} => put[e].at \in 1 .. Len(settings)
    /\ \A e \in Editors : put[e].step \in {"resolve", "apply"} => settings # <<>>
    /\ Len(settings) + Cardinality(Makers) <= Cardinality(Editors)

\* A request that runs alone works on the first row, which nobody changes under it.
RunsAlone(e) ==
    /\ \A d \in Editors \ {e} : put[d].step = "idle"
    /\ put[e].step \in {"get", "create"} => settings = <<>>
    /\ put[e].step \in {"compare", "update"} => put[e].at = 1 /\ put[e].entity = Changed(settings[1], put[e].body)
    /\ put[e].step = "update" => put[e].read = settings[1]
    /\ put[e].step \in {"resolve", "apply"} => InRow(put[e].body)
    /\ put[e].step = "apply" => put[e].read = settings[1]

\* What a request was told stands until the next one begins.
Stands ==
    standing = NoChange \/
        /\ \A e \in Editors : put[e].step = "idle"
        /\ InRow(standing)
        /\ \A k \in Keys : standing[k] \notin {"keep", "clear"} => env[k] = standing[k]

SettingsIInv ==
    /\ IntegrationsTypeOK
    /\ RowsThere
    /\ \A e \in clean : RunsAlone(e)
    /\ Stands

LEMMA SettingsIInvImplies == SettingsIInv => SettingsInv
<1> SUFFICES ASSUME SettingsIInv PROVE SettingsInv
  OBVIOUS
<1>1. DOMAIN standing = Keys
  BY DEF SettingsIInv, IntegrationsTypeOK, Bodies, Keys
<1>2. LonePutInEffect
  BY <1>1 DEF SettingsIInv, Stands, InRow, NoChange, LonePutInEffect, Keys
<1> QED
  BY <1>2 DEF SettingsInv, SettingsIInv

LEMMA EmptyRow == Empty \in Columns /\ NoChange \in Bodies
BY DEF Empty, Columns, NoChange, Bodies

LEMMA SettingsInitIInv == IntegrationsInit => SettingsIInv
<1> SUFFICES ASSUME IntegrationsInit PROVE SettingsIInv
  OBVIOUS
<1>1. Cardinality(Editors) \in Nat /\ 0 < Cardinality(Editors)
  BY IntegrationsAssumption, FS_CardinalityType, FS_EmptySet
<1>2. Makers = {} /\ Cardinality(Makers) = 0
  BY FS_EmptySet DEF IntegrationsInit, Makers, Idle
<1>3. settings \in Seq(Columns) /\ Len(settings) \in Nat /\ Len(settings) <= 1
  <2>1. <<Empty>> \in Seq(Columns) /\ Len(<<Empty>>) = 1
    BY EmptyRow
  <2>2. CASE settings = <<>>
    BY <2>2
  <2>3. CASE settings = <<Empty>>
    BY <2>1, <2>3
  <2> QED
    BY <2>2, <2>3 DEF IntegrationsInit
<1>4. IntegrationsTypeOK
  <2>1. Idle \in EditorStates
    <3>1. 0 \in 0 .. Cardinality(Editors) /\ "idle" \in EditorSteps
      BY <1>1 DEF EditorSteps
    <3> QED
      BY <3>1, EmptyRow DEF Idle, EditorStates
  <2>2. put \in [Editors -> EditorStates]
    BY <2>1 DEF IntegrationsInit
  <2>3. Len(settings) <= Cardinality(Editors)
    BY <1>1, <1>3
  <2> QED
    <3>1. env \in Columns /\ puts \in 0 .. MaxPuts /\ troubles \in 0 .. MaxTroubles
      BY EmptyRow, IntegrationsAssumption DEF IntegrationsInit
    <3> QED
      BY <1>3, <2>2, <2>3, <3>1, EmptyRow DEF IntegrationsInit, IntegrationsTypeOK, EditorStates, EditorSteps
<1>5. RowsThere
  <2>1. \A e \in Editors : put[e].step = "idle"
    BY DEF IntegrationsInit, Idle
  <2> QED
    BY <1>1, <1>2, <1>3, <2>1 DEF RowsThere
<1> QED
  BY <1>4, <1>5 DEF SettingsIInv, IntegrationsInit, Stands

\* A body changes the columns it names, and a save of an entity that was compared with its row writes it.
LEMMA ChangedColumns ==
    ASSUME NEW row \in Columns, NEW body \in Bodies
    PROVE  /\ Changed(row, body) \in Columns
           /\ \A k \in Keys : body[k] # "keep" => Changed(row, body)[k] = (IF body[k] = "clear" THEN Blank ELSE body[k])
<1>1. DOMAIN row = Keys
  BY DEF Columns, Keys
<1>2. Changed(row, body) = [k \in Keys |-> IF body[k] = "keep" THEN row[k]
                                           ELSE IF body[k] = "clear" THEN Blank ELSE body[k]]
  BY <1>1 DEF Changed
<1>3. Changed(row, body) \in Columns
  BY <1>2, IntegrationsAssumption DEF Columns, Bodies, Keys
<1> QED
  BY <1>2, <1>3 DEF Keys

LEMMA SavedSettings ==
    ASSUME NEW r \in Columns, NEW sel \in Columns, NEW e \in Columns
    PROVE  /\ Saved(r, sel, e) \in Columns
           /\ r = sel => Saved(r, sel, e) = e
<1>1. DOMAIN r = Keys
  BY DEF Columns, Keys
<1>2. Saved(r, sel, e) = [k \in Keys |-> IF e[k] # sel[k] THEN e[k] ELSE r[k]]
  BY <1>1 DEF Saved
<1>3. Saved(r, sel, e) \in Columns
  BY <1>2 DEF Columns, Keys
<1>4. r = sel => \A k \in Keys : Saved(r, sel, e)[k] = e[k]
  BY <1>2
<1>5. r = sel => Saved(r, sel, e) = e
  BY <1>2, <1>3, <1>4 DEF Columns, Keys
<1> QED
  BY <1>3, <1>5

LEMMA PickedColumns ==
    ASSUME NEW row \in Columns, env \in Columns
    PROVE  /\ Pick(row) \in Columns
           /\ \A k \in Keys : row[k] # Blank => Pick(row)[k] = row[k]
<1>1. DOMAIN row = Keys
  BY DEF Columns, Keys
<1>2. Pick(row) = [k \in Keys |-> IF row[k] # Blank THEN row[k] ELSE env[k]]
  BY <1>1 DEF Pick
<1>3. Pick(row) \in Columns
  BY <1>2 DEF Columns, Keys
<1> QED
  BY <1>2, <1>3

\* While a request is at work, none else ran alone, and nothing stands.
LEMMA AtWork ==
    ASSUME SettingsIInv, NEW e \in Editors, put[e].step # "idle"
    PROVE  standing = NoChange /\ \A d \in clean : d = e
BY DEF SettingsIInv, Stands, RunsAlone, IntegrationsTypeOK

\* Requests that make no row take no room.
LEMMA RoomKept ==
    ASSUME SettingsIInv, Makers' \subseteq Makers, Len(settings') = Len(settings)
    PROVE  Len(settings') + Cardinality(Makers') <= Cardinality(Editors)
<1>1. IsFiniteSet(Makers) /\ Cardinality(Makers) \in Nat
  BY IntegrationsAssumption, FS_Subset, FS_CardinalityType DEF Makers
<1>2. Cardinality(Makers') \in Nat /\ Cardinality(Makers') <= Cardinality(Makers)
  BY <1>1, FS_Subset, FS_CardinalityType
<1>3. Len(settings) \in Nat /\ Cardinality(Editors) \in Nat
  BY IntegrationsAssumption, FS_CardinalityType DEF SettingsIInv, IntegrationsTypeOK
<1> QED
  BY <1>1, <1>2, <1>3 DEF SettingsIInv, RowsThere

\* The types of a step of one request.
LEMMA EditorTypes ==
    ASSUME SettingsIInv, NEW e \in Editors, NEW new \in EditorStates, Becomes(e, new)
    PROVE  /\ put' \in [Editors -> EditorStates]
           /\ put'[e] = new /\ \A d \in Editors \ {e} : put'[d] = put[d]
BY DEF SettingsIInv, IntegrationsTypeOK, EditorStates, EditorSteps, Becomes

LEMMA AskKeeps ==
    ASSUME SettingsIInv, NEW e \in Editors, NEW kind \in {"get", "create"}, NEW body \in Bodies,
           AskSettings(e, kind, body)
    PROVE  SettingsIInv'
<1> DEFINE new == IF settings = <<>> THEN [Idle EXCEPT !.step = kind, !.body = body]
                  ELSE [Idle EXCEPT !.step = "compare", !.body = body, !.at = 1,
                                    !.entity = Changed(settings[1], body)]
<1>1. Cardinality(Editors) \in Nat /\ Len(settings) \in Nat /\ Len(settings) <= Cardinality(Editors)
  BY IntegrationsAssumption, FS_CardinalityType DEF SettingsIInv, IntegrationsTypeOK
<1>2. settings # <<>> => /\ settings[1] \in Columns /\ 1 \in 1 .. Len(settings)
                         /\ Changed(settings[1], body) \in Columns
  BY <1>1, ChangedColumns DEF SettingsIInv, IntegrationsTypeOK
<1>3. new \in EditorStates
  <2>1. 0 \in 0 .. Cardinality(Editors) /\ (settings # <<>> => 1 \in 0 .. Cardinality(Editors))
    BY <1>1, <1>2
  <2> QED
    BY <1>2, <2>1, EmptyRow DEF Idle, EditorStates, EditorSteps
<1>4. Becomes(e, new) /\ UNCHANGED <<settings, env, troubles>> /\ standing' = NoChange
  BY DEF AskSettings
<1>5. /\ put' \in [Editors -> EditorStates]
      /\ put'[e] = new /\ \A d \in Editors \ {e} : put'[d] = put[d]
  BY <1>3, <1>4, EditorTypes
<1>6. /\ new.step = IF settings = <<>> THEN kind ELSE "compare"
      /\ new.body = body
      /\ settings # <<>> => new.at = 1 /\ new.entity = Changed(settings[1], body)
  BY DEF Idle
<1> HIDE DEF new
<1>7. IntegrationsTypeOK'
  <2>1. puts' \in 0 .. MaxPuts /\ clean' \subseteq Editors
    BY IntegrationsAssumption DEF AskSettings, SettingsIInv, IntegrationsTypeOK
  <2> QED
    BY <1>4, <1>5, <2>1, EmptyRow DEF SettingsIInv, IntegrationsTypeOK, EditorStates, EditorSteps
<1>8. RowsThere'
  <2>1. Len(settings') + Cardinality(Makers') <= Cardinality(Editors)
    <3>1. CASE settings = <<>>
      <4>1. Makers' \subseteq Editors
        BY DEF Makers
      <4>2. Cardinality(Makers') \in Nat /\ Cardinality(Makers') <= Cardinality(Editors)
        BY <4>1, IntegrationsAssumption, FS_Subset, FS_CardinalityType
      <4>3. Len(settings') = 0
        BY <1>4, <3>1
      <4> QED
        BY <1>1, <4>2, <4>3
    <3>2. CASE settings # <<>>
      <4>1. Makers' \subseteq Makers
        BY <1>5, <1>6, <3>2 DEF Makers
      <4> QED
        BY <1>4, <4>1, RoomKept
    <3> QED
      BY <3>1, <3>2
  <2>2. \A d \in Editors : put'[d].step \in {"compare", "update"} => put'[d].at \in 1 .. Len(settings')
    BY <1>2, <1>4, <1>5, <1>6 DEF SettingsIInv, RowsThere
  <2>3. \A d \in Editors : put'[d].step \in {"resolve", "apply"} => settings' # <<>>
    BY <1>4, <1>5, <1>6 DEF SettingsIInv, RowsThere
  <2> QED
    BY <2>1, <2>2, <2>3 DEF RowsThere
<1>9. ASSUME NEW d \in clean' PROVE RunsAlone(d)'
  <2>1. d = e /\ \A x \in Editors : put[x].step = "idle"
    BY <1>9 DEF AskSettings
  <2> QED
    BY <1>4, <1>5, <1>6, <2>1 DEF RunsAlone, Changed
<1>10. Stands'
  BY <1>4 DEF Stands
<1> QED
  BY <1>7, <1>8, <1>9, <1>10 DEF SettingsIInv

LEMMA MakeRowKeeps ==
    ASSUME SettingsIInv, NEW e \in Editors, MakeRow(e)
    PROVE  SettingsIInv'
<1> DEFINE new == IF put[e].step = "get" THEN Idle
                  ELSE [put[e] EXCEPT !.step = "compare", !.at = Len(settings) + 1,
                                      !.entity = Changed(Empty, put[e].body)]
<1>1. /\ put[e] \in EditorStates /\ put[e].step \in {"get", "create"} /\ e \in Makers
      /\ settings' = Append(settings, Empty) /\ Becomes(e, new)
      /\ UNCHANGED <<env, puts, troubles, clean, standing>>
  BY DEF MakeRow, SettingsIInv, IntegrationsTypeOK, EditorStates, EditorSteps, Makers
<1>2. standing = NoChange /\ \A d \in clean : d = e
  BY <1>1, AtWork
<1>3. /\ IsFiniteSet(Makers) /\ Cardinality(Makers) \in Nat
      /\ Cardinality(Makers \ {e}) = Cardinality(Makers) - 1
  BY <1>1, IntegrationsAssumption, FS_Subset, FS_CardinalityType, FS_RemoveElement DEF Makers
<1>4. /\ settings \in Seq(Columns) /\ Len(settings) \in Nat /\ Cardinality(Editors) \in Nat
      /\ Len(settings) + Cardinality(Makers) <= Cardinality(Editors)
  BY IntegrationsAssumption, FS_CardinalityType DEF SettingsIInv, IntegrationsTypeOK, RowsThere
<1>5. Cardinality(Makers \ {e}) \in Nat
  BY <1>3, FS_RemoveElement, FS_CardinalityType
<1>6. /\ settings' \in Seq(Columns) /\ Len(settings') = Len(settings) + 1
      /\ settings' # <<>> /\ settings'[Len(settings) + 1] = Empty
      /\ Len(settings') <= Cardinality(Editors)
  BY <1>1, <1>3, <1>4, <1>5, EmptyRow
<1>7. Changed(Empty, put[e].body) \in Columns
  BY <1>1, EmptyRow, ChangedColumns DEF EditorStates
<1>8. new \in EditorStates
  <2>1. 0 \in 0 .. Cardinality(Editors) /\ Len(settings) + 1 \in 0 .. Cardinality(Editors)
    BY <1>4, <1>6
  <2> QED
    BY <1>1, <1>7, <2>1, EmptyRow DEF Idle, EditorStates, EditorSteps
<1>9. /\ put' \in [Editors -> EditorStates]
      /\ put'[e] = new /\ \A d \in Editors \ {e} : put'[d] = put[d]
  BY <1>1, <1>8, EditorTypes
<1>10. /\ new.step = IF put[e].step = "get" THEN "idle" ELSE "compare"
       /\ put[e].step = "create" => /\ new.at = Len(settings) + 1 /\ new.body = put[e].body
                                    /\ new.entity = Changed(Empty, put[e].body)
  BY <1>1 DEF Idle, EditorStates
<1> HIDE DEF new
<1>11. IntegrationsTypeOK'
  BY <1>1, <1>6, <1>9 DEF SettingsIInv, IntegrationsTypeOK, EditorStates, EditorSteps
<1>12. RowsThere'
  <2>1. Makers' = Makers \ {e}
    BY <1>9, <1>10 DEF Makers
  <2>2. Len(settings') + Cardinality(Makers') <= Cardinality(Editors)
    BY <1>3, <1>4, <1>5, <1>6, <2>1
  <2>3. \A d \in Editors : put'[d].step \in {"compare", "update"} => put'[d].at \in 1 .. Len(settings')
    BY <1>1, <1>4, <1>6, <1>9, <1>10 DEF SettingsIInv, RowsThere
  <2> QED
    BY <1>6, <2>2, <2>3 DEF RowsThere
<1>13. ASSUME NEW d \in clean' PROVE RunsAlone(d)'
  <2>1. d = e /\ settings = <<>> /\ \A x \in Editors \ {e} : put[x].step = "idle"
    BY <1>1, <1>2, <1>13 DEF SettingsIInv, RunsAlone
  <2>2. settings'[1] = Empty /\ Len(settings) = 0
    BY <1>6, <2>1
  <2> QED
    BY <1>9, <1>10, <1>1, <2>1, <2>2 DEF RunsAlone, Changed
<1>14. Stands'
  BY <1>1, <1>2 DEF Stands
<1> QED
  BY <1>11, <1>12, <1>13, <1>14 DEF SettingsIInv

LEMMA ReselectKeeps ==
    ASSUME SettingsIInv, NEW e \in Editors, Reselect(e)
    PROVE  SettingsIInv'
<1> DEFINE new == [put[e] EXCEPT !.step = "update", !.read = settings[put[e].at]]
<1>1. /\ put[e] \in EditorStates /\ put[e].step = "compare" /\ Becomes(e, new)
      /\ put[e].at \in 1 .. Len(settings) /\ settings[put[e].at] \in Columns
      /\ UNCHANGED <<settings, env, puts, troubles, clean, standing>>
  BY DEF Reselect, SettingsIInv, IntegrationsTypeOK, EditorStates, EditorSteps, RowsThere
<1>2. standing = NoChange /\ \A d \in clean : d = e
  BY <1>1, AtWork
<1>3. /\ new \in EditorStates /\ new.step = "update" /\ new.read = settings[put[e].at]
      /\ new.at = put[e].at /\ new.entity = put[e].entity /\ new.body = put[e].body
  BY <1>1 DEF EditorStates, EditorSteps
<1>4. /\ put' \in [Editors -> EditorStates]
      /\ put'[e] = new /\ \A d \in Editors \ {e} : put'[d] = put[d]
  BY <1>1, <1>3, EditorTypes
<1> HIDE DEF new
<1>5. IntegrationsTypeOK'
  BY <1>1, <1>4 DEF SettingsIInv, IntegrationsTypeOK, EditorStates, EditorSteps
<1>6. RowsThere'
  <2>1. Makers' \subseteq Makers
    BY <1>3, <1>4 DEF Makers
  <2> QED
    BY <1>1, <1>3, <1>4, <2>1, RoomKept DEF SettingsIInv, RowsThere
<1>7. ASSUME NEW d \in clean' PROVE RunsAlone(d)'
  BY <1>1, <1>2, <1>3, <1>4, <1>7 DEF SettingsIInv, RunsAlone, Changed
<1>8. Stands'
  BY <1>1, <1>2 DEF Stands
<1> QED
  BY <1>5, <1>6, <1>7, <1>8 DEF SettingsIInv

LEMMA WriteBackKeeps ==
    ASSUME SettingsIInv, NEW e \in Editors, WriteBack(e)
    PROVE  SettingsIInv'
<1> DEFINE new == [put[e] EXCEPT !.step = "resolve"]
           at == put[e].at
<1>1. /\ put[e] \in EditorStates /\ put[e].step = "update" /\ Becomes(e, new)
      /\ at \in 1 .. Len(settings) /\ settings[at] \in Columns
      /\ settings' = [settings EXCEPT ![at] = Saved(@, put[e].read, put[e].entity)]
      /\ UNCHANGED <<env, puts, troubles, clean, standing>>
  BY DEF WriteBack, SettingsIInv, IntegrationsTypeOK, EditorStates, EditorSteps, RowsThere
<1>2. standing = NoChange /\ \A d \in clean : d = e
  BY <1>1, AtWork
<1>3. /\ new \in EditorStates /\ new.step = "resolve" /\ new.body = put[e].body
  BY <1>1 DEF EditorStates, EditorSteps
<1>4. /\ put' \in [Editors -> EditorStates]
      /\ put'[e] = new /\ \A d \in Editors \ {e} : put'[d] = put[d]
  BY <1>1, <1>3, EditorTypes
<1>5. /\ Saved(settings[at], put[e].read, put[e].entity) \in Columns
      /\ settings[at] = put[e].read => Saved(settings[at], put[e].read, put[e].entity) = put[e].entity
  BY <1>1, SavedSettings DEF EditorStates
<1>6. /\ settings' \in Seq(Columns) /\ Len(settings') = Len(settings) /\ settings' # <<>>
      /\ settings'[at] = Saved(settings[at], put[e].read, put[e].entity)
  BY <1>1, <1>5 DEF SettingsIInv, IntegrationsTypeOK
<1> HIDE DEF new, at
<1>7. IntegrationsTypeOK'
  BY <1>1, <1>4, <1>6 DEF SettingsIInv, IntegrationsTypeOK, EditorStates, EditorSteps
<1>8. RowsThere'
  <2>1. Makers' \subseteq Makers
    BY <1>3, <1>4 DEF Makers
  <2> QED
    BY <1>1, <1>3, <1>4, <1>6, <2>1, RoomKept DEF SettingsIInv, RowsThere
<1>9. ASSUME NEW d \in clean' PROVE RunsAlone(d)'
  <2>1. /\ d = e /\ at = 1 /\ put[e].entity = Changed(settings[1], put[e].body) /\ put[e].read = settings[1]
        /\ \A x \in Editors \ {e} : put[x].step = "idle"
    BY <1>1, <1>2, <1>9 DEF SettingsIInv, RunsAlone, at
  <2>2. settings'[1] = Changed(settings[1], put[e].body)
    BY <1>5, <1>6, <2>1
  <2>3. InRow(put[e].body)'
    BY <1>1, <1>4, <1>3, <1>6, <2>1, <2>2, ChangedColumns DEF InRow, EditorStates
  <2> QED
    BY <1>3, <1>4, <2>1, <2>3 DEF RunsAlone
<1>10. Stands'
  BY <1>1, <1>2 DEF Stands
<1> QED
  BY <1>7, <1>8, <1>9, <1>10 DEF SettingsIInv

LEMMA ReadBackKeeps ==
    ASSUME SettingsIInv, NEW e \in Editors, ReadBack(e)
    PROVE  SettingsIInv'
<1>1. PICK row \in Columns :
        /\ Becomes(e, [put[e] EXCEPT !.step = "apply", !.read = row])
        /\ \/ row = settings[1] /\ UNCHANGED <<troubles, clean>>
           \/ troubles < MaxTroubles /\ troubles' = troubles + 1 /\ clean' = clean \ {e}
  <2>1. settings[1] \in Columns
    BY DEF ReadBack, SettingsIInv, IntegrationsTypeOK, RowsThere
  <2> QED
    BY <2>1, EmptyRow DEF ReadBack
<1> DEFINE new == [put[e] EXCEPT !.step = "apply", !.read = row]
<1>2. /\ put[e] \in EditorStates /\ put[e].step = "resolve" /\ Becomes(e, new) /\ settings # <<>>
      /\ UNCHANGED <<settings, env, puts, standing>>
  BY <1>1 DEF ReadBack, SettingsIInv, IntegrationsTypeOK, EditorStates, EditorSteps, RowsThere
<1>3. standing = NoChange /\ \A d \in clean : d = e
  BY <1>2, AtWork
<1>4. /\ new \in EditorStates /\ new.step = "apply" /\ new.read = row /\ new.body = put[e].body
  BY <1>2 DEF EditorStates, EditorSteps
<1>5. /\ put' \in [Editors -> EditorStates]
      /\ put'[e] = new /\ \A d \in Editors \ {e} : put'[d] = put[d]
  BY <1>2, <1>4, EditorTypes
<1> HIDE DEF new
<1>6. IntegrationsTypeOK'
  <2>1. troubles' \in 0 .. MaxTroubles /\ clean' \subseteq Editors
    BY <1>1, IntegrationsAssumption DEF SettingsIInv, IntegrationsTypeOK
  <2> QED
    BY <1>2, <1>5, <2>1 DEF SettingsIInv, IntegrationsTypeOK, EditorStates, EditorSteps
<1>7. RowsThere'
  <2>1. Makers' \subseteq Makers
    BY <1>4, <1>5 DEF Makers
  <2> QED
    BY <1>2, <1>4, <1>5, <2>1, RoomKept DEF SettingsIInv, RowsThere
<1>8. ASSUME NEW d \in clean' PROVE RunsAlone(d)'
  <2>1. d = e /\ d \in clean /\ row = settings[1]
    BY <1>1, <1>3, <1>8
  <2>2. InRow(put[e].body)'
    BY <1>2, <1>4, <1>5, <2>1 DEF SettingsIInv, RunsAlone, InRow
  <2> QED
    BY <1>2, <1>4, <1>5, <2>1, <2>2 DEF SettingsIInv, RunsAlone
<1>9. Stands'
  BY <1>2, <1>3 DEF Stands
<1> QED
  BY <1>6, <1>7, <1>8, <1>9 DEF SettingsIInv

LEMMA ApplyToEnvKeeps ==
    ASSUME SettingsIInv, NEW e \in Editors, ApplyToEnv(e)
    PROVE  SettingsIInv'
<1>1. /\ put[e] \in EditorStates /\ put[e].step = "apply" /\ Becomes(e, Idle) /\ settings # <<>>
      /\ env' = Pick(put[e].read) /\ env \in Columns
      /\ standing' = IF e \in clean THEN put[e].body ELSE standing
      /\ UNCHANGED <<settings, puts, troubles, clean>>
  BY DEF ApplyToEnv, SettingsIInv, IntegrationsTypeOK, EditorStates, EditorSteps, RowsThere
<1>2. standing = NoChange /\ \A d \in clean : d = e
  BY <1>1, AtWork
<1>3. Idle \in EditorStates /\ Idle.step = "idle"
  <2>1. 0 \in 0 .. Cardinality(Editors) /\ "idle" \in EditorSteps
    BY IntegrationsAssumption, FS_CardinalityType DEF EditorSteps
  <2> QED
    BY <2>1, EmptyRow DEF Idle, EditorStates
<1>4. /\ put' \in [Editors -> EditorStates]
      /\ put'[e] = Idle /\ \A d \in Editors \ {e} : put'[d] = put[d]
  BY <1>1, <1>3, EditorTypes
<1>5. /\ env' \in Columns
      /\ \A k \in Keys : put[e].read[k] # Blank => env'[k] = put[e].read[k]
  BY <1>1, PickedColumns DEF EditorStates
<1>6. IntegrationsTypeOK'
  BY <1>1, <1>4, <1>5, EmptyRow DEF SettingsIInv, IntegrationsTypeOK, EditorStates, EditorSteps
<1>7. RowsThere'
  <2>1. Makers' \subseteq Makers
    BY <1>3, <1>4 DEF Makers
  <2> QED
    BY <1>1, <1>3, <1>4, <2>1, RoomKept DEF SettingsIInv, RowsThere
<1>8. ASSUME NEW d \in clean' PROVE RunsAlone(d)'
  BY <1>1, <1>2, <1>3, <1>4, <1>8 DEF SettingsIInv, RunsAlone
<1>9. Stands'
  <2>1. CASE e \notin clean
    BY <1>1, <1>2, <2>1 DEF Stands
  <2>2. CASE e \in clean
    <3>1. /\ \A d \in Editors : put'[d].step = "idle"
          /\ InRow(put[e].body) /\ put[e].read = settings[1]
      BY <1>1, <1>3, <1>4, <2>2 DEF SettingsIInv, RunsAlone
    <3>2. ASSUME NEW k \in Keys, put[e].body[k] \notin {"keep", "clear"} PROVE env'[k] = put[e].body[k]
      <4>1. put[e].read[k] = put[e].body[k]
        BY <3>1, <3>2 DEF InRow
      <4>2. put[e].body[k] # Blank
        BY <1>1, <3>2, IntegrationsAssumption DEF EditorStates, Bodies, Keys
      <4> QED
        BY <1>5, <4>1, <4>2
    <3>3. standing' = put[e].body
      BY <1>1, <2>2
    <3>4. InRow(standing)'
      BY <1>1, <3>1, <3>3 DEF InRow
    <3> QED
      BY <3>1, <3>2, <3>3, <3>4 DEF Stands
  <2> QED
    BY <2>1, <2>2
<1> QED
  BY <1>6, <1>7, <1>8, <1>9 DEF SettingsIInv

LEMMA RestartKeeps == SettingsIInv /\ Restart => SettingsIInv'
<1> SUFFICES ASSUME SettingsIInv, Restart PROVE SettingsIInv'
  OBVIOUS
<1>1. Cardinality(Editors) \in Nat /\ 0 < Cardinality(Editors)
  BY IntegrationsAssumption, FS_CardinalityType, FS_EmptySet
<1>2. /\ put' \in [Editors -> EditorStates]
      /\ \A d \in Editors : put'[d].step = "idle"
  <2>1. Idle \in EditorStates /\ Idle.step = "idle"
    <3>1. 0 \in 0 .. Cardinality(Editors) /\ "idle" \in EditorSteps
      BY <1>1 DEF EditorSteps
    <3> QED
      BY <3>1, EmptyRow DEF Idle, EditorStates
  <2> QED
    BY <2>1 DEF Restart
<1>3. /\ settings' = settings \/ (settings = <<>> /\ settings' = <<Empty>>)
      /\ \/ standing' = NoChange /\ env' = Empty
         \/ standing' = standing /\ env' = settings'[1] /\ settings' # <<>>
  BY DEF Restart
<1>4. /\ settings' \in Seq(Columns) /\ Len(settings') \in Nat /\ Len(settings') <= Cardinality(Editors)
  <2>1. <<Empty>> \in Seq(Columns) /\ Len(<<Empty>>) = 1
    BY EmptyRow
  <2>2. CASE settings' = settings
    BY <2>2 DEF SettingsIInv, IntegrationsTypeOK
  <2>3. CASE settings' = <<Empty>>
    BY <1>1, <2>1, <2>3
  <2> QED
    BY <1>3, <2>2, <2>3
<1>5. IntegrationsTypeOK'
  <2>1. env' \in Columns
    <3>1. settings' # <<>> => settings'[1] \in Columns
      BY <1>4
    <3> QED
      BY <1>3, <3>1, EmptyRow
  <2>2. standing' \in Bodies
    BY <1>3, EmptyRow DEF SettingsIInv, IntegrationsTypeOK
  <2>3. puts' \in 0 .. MaxPuts /\ troubles' \in 0 .. MaxTroubles /\ clean' \subseteq Editors
    BY IntegrationsAssumption DEF Restart, SettingsIInv, IntegrationsTypeOK
  <2> QED
    BY <1>2, <1>4, <2>1, <2>2, <2>3 DEF IntegrationsTypeOK, EditorStates, EditorSteps
<1>6. RowsThere'
  <2>1. Makers' = {} /\ Cardinality(Makers') = 0
    BY <1>2, FS_EmptySet DEF Makers
  <2> QED
    BY <1>1, <1>2, <1>4, <2>1 DEF RowsThere
<1>7. ASSUME NEW d \in clean' PROVE RunsAlone(d)'
  <2>1. d \in Editors
    BY <1>5, <1>7 DEF IntegrationsTypeOK
  <2> QED
    BY <1>2, <2>1 DEF RunsAlone
<1>8. Stands'
  <2>1. CASE standing' = NoChange
    BY <2>1 DEF Stands
  <2>2. CASE standing' # NoChange
    <3>1. settings' = settings /\ standing' = standing /\ env' = settings[1] /\ InRow(standing)
      BY <1>3, <2>2 DEF SettingsIInv, Stands, InRow
    <3>2. InRow(standing)'
      BY <3>1 DEF InRow
    <3>3. \A k \in Keys : standing'[k] \notin {"keep", "clear"} => env'[k] = standing'[k]
      BY <3>1 DEF InRow
    <3> QED
      BY <1>2, <3>2, <3>3 DEF Stands
  <2> QED
    BY <2>1, <2>2
<1> QED
  BY <1>5, <1>6, <1>7, <1>8 DEF SettingsIInv

\* Every step keeps the invariant.
LEMMA SettingsStep == SettingsIInv /\ [IntegrationsNext]_integrationVars => SettingsIInv'
<1> SUFFICES ASSUME SettingsIInv, [IntegrationsNext]_integrationVars PROVE SettingsIInv'
  OBVIOUS
<1>1. CASE UNCHANGED integrationVars
  <2>1. Makers' = Makers
    BY <1>1 DEF integrationVars, Makers
  <2> QED
    BY <1>1, <2>1 DEF integrationVars, SettingsIInv, IntegrationsTypeOK, RowsThere, RunsAlone, Stands, InRow
<1>2. CASE IntegrationsNext
  BY <1>2, EmptyRow, AskKeeps, MakeRowKeeps, ReselectKeeps, WriteBackKeeps, ReadBackKeeps, ApplyToEnvKeeps,
     RestartKeeps DEF IntegrationsNext
<1> QED
  BY <1>1, <1>2

\* What a request that ran alone was told to have changed stays in effect until the next request, however
\* many rows, failed reads and restarts there are.
THEOREM LonePutsStand == IntegrationsSpec => []SettingsInv
<1>1. IntegrationsSpec => []SettingsIInv
  BY SettingsInitIInv, SettingsStep, PTL DEF IntegrationsSpec
<1> QED
  BY <1>1, SettingsIInvImplies, PTL
-----------------------------------------------------------------------------
(* Backups and restores *)

JobSteps == {"none", "dump", "upload", "update", "fail", "done"}
JobStates == [step : JobSteps, to : Unset]
RestoreSteps == Running \cup {"none", "done"}
RestoreStates == [step : RestoreSteps, of : Backups \cup {Missing},
                  asked : BOOLEAN, file : Contents \cup {Missing}, alone : BOOLEAN]
Holders == {r \in Restores : restore[r].step \in {"drop", "create"}}

\* The provider that a backup's request found has its file.
FileThere(b) == job[b].to # Missing => b \in files[job[b].to]

\* What the row of a backup and its job know of each other, of the dump and of the file.
JobKnows(b) ==
    /\ backup[b] = "none" <=> job[b].step = "none"
    /\ job[b].step \in {"dump", "upload", "update", "fail"} => backup[b] = "in_progress"
    /\ job[b].step \in {"upload", "update"} => dump[b] # Missing
    /\ job[b].step = "update" => FileThere(b)
    /\ backup[b] \in {"completed", "restoring"} => FileThere(b) /\ dump[b] # Missing

\* A restore that was begun is of a backup that was completed, and has its dump if it asked for it.
RestoreKnows(r) ==
    restore[r].step # "none" =>
        /\ restore[r].of \in Backups
        /\ backup[restore[r].of] \notin {"none", "in_progress"}
        /\ FileThere(restore[r].of) /\ dump[restore[r].of] # Missing
        /\ restore[r].file = IF restore[r].asked THEN dump[restore[r].of] ELSE Missing

\* A restore that is alone has the database to itself.
AloneKnows(r) ==
    restore[r].alone /\ restore[r].step \in Running =>
        /\ \A q \in Restores \ {r} : restore[q].step \notin Running
        /\ restore[r].step = "create" => content = Missing
        /\ restore[r].step = "load" => content = {}
        /\ restore[r].step = "finish" => content = dump[restore[r].of]

\* A dump is loaded into a database there is, and a lone restore's database is as it left it.
DatabaseThere ==
    /\ \A r \in Restores : restore[r].step = "load" => content # Missing
    /\ fresh # Missing =>
          /\ fresh \in Restores /\ restore[fresh].step = "done"
          /\ content = dump[restore[fresh].of]

\* Until two changes of the default overlap, the one that has cleared it finds none to replace.
OneTurning ==
    rivals \/
        /\ \A p, q \in Providers : turning[p] # "no" /\ turning[q] # "no" => p = q
        /\ \A p, q \in Providers : turning[p] # "no" => provider[q] # "default"
        /\ \A p, q \in Providers : provider[p] = "default" /\ provider[q] = "default" => p = q

\* A restore that holds a connection has taken it from the pool.
PoolKept == idle + Cardinality(Holders) <= PoolSize

BackupsIInv ==
    /\ BackupsTypeOK
    /\ \A b \in Backups : JobKnows(b)
    /\ \A r \in Restores : RestoreKnows(r) /\ AloneKnows(r)
    /\ DatabaseThere /\ OneTurning /\ PoolKept /\ SomeoneSettles

LEMMA BackupsIInvImplies == BackupsIInv => BackupsInv
<1> SUFFICES ASSUME BackupsIInv PROVE BackupsInv
  OBVIOUS
<1>1. CompletedIsStored
  BY DEF BackupsIInv, JobKnows, FileThere, CompletedIsStored
<1>2. LoneRestoreRestores
  BY DEF BackupsIInv, DatabaseThere, LoneRestoreRestores
<1>3. OneDefault
  <2> DEFINE D == {p \in Providers : provider[p] = "default"}
  <2> SUFFICES ASSUME ~rivals PROVE Cardinality(D) <= 1
    BY DEF OneDefault
  <2>1. CASE D = {}
    BY <2>1, FS_EmptySet
  <2>2. CASE D # {}
    <3>1. PICK p \in D : D = {p}
      BY <2>2 DEF BackupsIInv, OneTurning
    <3>2. Cardinality({p}) = 1
      BY FS_Singleton
    <3> HIDE DEF D
    <3> QED
      BY <3>1, <3>2
  <2> QED
    BY <2>1, <2>2
<1> QED
  BY <1>1, <1>2, <1>3 DEF BackupsInv, BackupsIInv

LEMMA BackupsInitIInv == BackupsInit => BackupsIInv
<1> SUFFICES ASSUME BackupsInit PROVE BackupsIInv
  OBVIOUS
<1>1. BackupsTypeOK
  <2>1. /\ provider \in [Providers -> {"absent", "spare", "default"}]
        /\ turning \in [Providers -> {"no", "insert", "set"}]
        /\ files \in [Providers -> SUBSET Backups]
    BY DEF BackupsInit
  <2>2. job \in [Backups -> JobStates]
    BY DEF BackupsInit, JobStates, JobSteps, Unset
  <2>3. NoRestore \in RestoreStates
    BY DEF NoRestore, RestoreStates, RestoreSteps
  <2>4. restore \in [Restores -> RestoreStates]
    BY <2>3 DEF BackupsInit
  <2>5. /\ backup \in [Backups -> {"none", "in_progress", "completed", "failed", "restoring"}]
        /\ dump \in [Backups -> Contents \cup {Missing}]
    BY DEF BackupsInit
  <2>6. /\ content \in Contents \cup {Missing} /\ idle \in 0 .. PoolSize /\ events \in 0 .. MaxEvents
        /\ orphans \subseteq Backups /\ rivals \in BOOLEAN /\ fresh \in Restores \cup {Missing}
    <3>1. PoolSize \in Nat /\ MaxEvents \in Nat
      BY BackupsAssumption
    <3>2. {0} \in Contents
      BY <3>1 DEF Contents
    <3>3. /\ content = {0} /\ idle = PoolSize /\ events = 0 /\ orphans = {}
          /\ rivals = FALSE /\ fresh = Missing
      BY DEF BackupsInit
    <3>4. idle \in 0 .. PoolSize /\ events \in 0 .. MaxEvents
      BY <3>1, <3>3
    <3>5. rivals \in BOOLEAN
      BY <3>3, Zenon
    <3> QED
      BY <3>2, <3>3, <3>4, <3>5
  <2> QED
    BY <2>1, <2>2, <2>4, <2>5, <2>6 DEF BackupsTypeOK, JobStates, JobSteps, RestoreStates, RestoreSteps
<1>2. \A r \in Restores : restore[r].step = "none"
  BY DEF BackupsInit, NoRestore
<1>3. PoolKept
  <2>1. Holders = {}
    BY <1>2 DEF Holders
  <2> QED
    BY <2>1, FS_EmptySet, BackupsAssumption DEF BackupsInit, PoolKept
<1> QED
  BY <1>1, <1>2, <1>3
  DEF BackupsInit, BackupsIInv, JobKnows, RestoreKnows, AloneKnows, DatabaseThere, OneTurning, SomeoneSettles, Running

\* A step of one restore changes nothing else of it, and nothing of the others; the same of a backup's job.
LEMMA RestoreMoved ==
    ASSUME BackupsTypeOK, NEW r \in Restores, NEW st \in RestoreSteps, MoveTo(r, st)
    PROVE  /\ restore' \in [Restores -> RestoreStates]
           /\ restore'[r].step = st
           /\ restore'[r].of = restore[r].of /\ restore'[r].asked = restore[r].asked
           /\ restore'[r].file = restore[r].file /\ restore'[r].alone = restore[r].alone
           /\ \A q \in Restores \ {r} : restore'[q] = restore[q]
<1>1. restore \in [Restores -> RestoreStates]
  BY DEF BackupsTypeOK, RestoreStates, RestoreSteps
<1> DEFINE new == [restore[r] EXCEPT !.step = st]
<1>2. restore[r] \in RestoreStates /\ restore' = [restore EXCEPT ![r] = new]
  BY <1>1 DEF MoveTo
<1>3. new \in RestoreStates
  BY <1>2 DEF RestoreStates
<1>4. /\ new.step = st /\ new.of = restore[r].of /\ new.asked = restore[r].asked
      /\ new.file = restore[r].file /\ new.alone = restore[r].alone
  BY <1>2 DEF RestoreStates
<1> HIDE DEF new
<1> QED
  BY <1>1, <1>2, <1>3, <1>4

LEMMA JobStepped ==
    ASSUME BackupsTypeOK, NEW b \in Backups, NEW st \in JobSteps, Step(b, st)
    PROVE  /\ job' \in [Backups -> JobStates]
           /\ job'[b].step = st /\ job'[b].to = job[b].to
           /\ \A a \in Backups \ {b} : job'[a] = job[a]
<1>1. job \in [Backups -> JobStates]
  BY DEF BackupsTypeOK, JobStates, JobSteps
<1> DEFINE new == [job[b] EXCEPT !.step = st]
<1>2. job[b] \in JobStates /\ job' = [job EXCEPT ![b] = new]
  BY <1>1 DEF Step
<1>3. new \in JobStates /\ new.step = st /\ new.to = job[b].to
  BY <1>2 DEF JobStates
<1> HIDE DEF new
<1> QED
  BY <1>1, <1>2, <1>3

\* Holders are counted.
LEMMA HoldersFinite ==
    /\ IsFiniteSet(Holders) /\ Cardinality(Holders) \in Nat
    /\ IsFiniteSet(Holders') /\ Cardinality(Holders') \in Nat
<1>1. IsFiniteSet(Restores)
  BY BackupsAssumption, FS_Interval DEF Restores
<1>2. Holders \subseteq Restores /\ Holders' \subseteq Restores
  BY DEF Holders
<1> QED
  BY <1>1, <1>2, FS_Subset, FS_CardinalityType

\* The pool is kept by what gives no connection to a restore.
LEMMA PoolStays ==
    ASSUME PoolKept, Holders' \subseteq Holders, idle' = idle, idle \in Nat
    PROVE  PoolKept'
<1>1. Cardinality(Holders') <= Cardinality(Holders)
  BY HoldersFinite, FS_Subset
<1> QED
  BY <1>1, HoldersFinite, BackupsAssumption DEF PoolKept

\* Changes of providers touch nothing else.
LEMMA ProviderKeeps ==
    ASSUME BackupsIInv, UNCHANGED jobVars,
           provider' \in [Providers -> {"absent", "spare", "default"}],
           turning' \in [Providers -> {"no", "insert", "set"}],
           rivals' \in BOOLEAN, events' \in 0 .. MaxEvents, OneTurning'
    PROVE  BackupsIInv'
<1>1. BackupsTypeOK'
  BY DEF jobVars, databaseVars, BackupsIInv, BackupsTypeOK
<1>2. Holders' = Holders
  BY DEF jobVars, Holders
<1>3. PoolKept'
  BY <1>2 DEF jobVars, BackupsIInv, PoolKept
<1> QED
  BY <1>1, <1>3
  DEF jobVars, databaseVars, BackupsIInv, JobKnows, RestoreKnows, AloneKnows, FileThere, DatabaseThere, SomeoneSettles

LEMMA EventCounted == BackupsTypeOK /\ Event => events' \in 0 .. MaxEvents
BY BackupsAssumption DEF BackupsTypeOK, Event

LEMMA ProviderSteps ==
    ASSUME BackupsIInv, NEW p \in Providers, NEW how \in {"insert", "set"},
           AddSpare(p) \/ MakeDefault(p) \/ DeleteProvider(p) \/ ClearDefaults(p, how)
    PROVE  BackupsIInv'
<1>1. BackupsTypeOK /\ OneTurning
  BY DEF BackupsIInv
<1>2. CASE AddSpare(p)
  BY <1>1, <1>2, ProviderKeeps, EventCounted DEF AddSpare, BackupsTypeOK, OneTurning
<1>3. CASE DeleteProvider(p)
  BY <1>1, <1>3, ProviderKeeps, EventCounted DEF DeleteProvider, BackupsTypeOK, OneTurning
<1>4. CASE MakeDefault(p)
  BY <1>1, <1>4, ProviderKeeps DEF MakeDefault, BackupsTypeOK, OneTurning
<1>5. CASE ClearDefaults(p, how)
  <2>1. events' \in 0 .. MaxEvents
    BY <1>1, <1>5, EventCounted DEF ClearDefaults, BackupsTypeOK
  <2>2. OneTurning'
    BY <1>1, <1>5 DEF ClearDefaults, Cleared, BackupsTypeOK, OneTurning
  <2>3. /\ provider' \in [Providers -> {"absent", "spare", "default"}]
        /\ turning' \in [Providers -> {"no", "insert", "set"}] /\ rivals' \in BOOLEAN
    BY <1>1, <1>5 DEF ClearDefaults, Cleared, BackupsTypeOK
  <2> QED
    BY <1>5, <2>1, <2>2, <2>3, ProviderKeeps DEF ClearDefaults
<1> QED
  BY <1>2, <1>3, <1>4, <1>5

\* A step of a backup's job leaves the restores and the database alone.
LEMMA BackupKeeps ==
    ASSUME BackupsIInv, UNCHANGED <<restore, idle, events, orphans, databaseVars, providerVars>>,
           NEW b \in Backups,
           files' \in [Providers -> SUBSET Backups], job' \in [Backups -> JobStates],
           backup' \in [Backups -> {"none", "in_progress", "completed", "failed", "restoring"}],
           dump' \in [Backups -> Contents \cup {Missing}],
           \A p \in Providers : files[p] \subseteq files'[p],
           \A a \in Backups \ {b} : job'[a] = job[a] /\ backup'[a] = backup[a] /\ dump'[a] = dump[a],
           backup[b] \in {"none", "in_progress"}, backup'[b] # "restoring",
           backup'[b] = "in_progress" => job'[b].step \notin {"none", "done"},
           JobKnows(b)'
    PROVE  BackupsIInv'
<1>1. BackupsTypeOK'
  BY DEF databaseVars, providerVars, BackupsIInv, BackupsTypeOK, JobStates, JobSteps
<1>2. \A a \in Backups \ {b} : FileThere(a) => FileThere(a)'
  BY DEF FileThere, BackupsIInv, BackupsTypeOK, Unset
<1>3. \A a \in Backups : JobKnows(a)'
  BY <1>2 DEF BackupsIInv, JobKnows
<1>4. ASSUME NEW r \in Restores PROVE RestoreKnows(r)' /\ AloneKnows(r)'
  <2>1. restore[r].step # "none" => restore[r].of \in Backups \ {b}
    BY DEF BackupsIInv, RestoreKnows
  <2>2. RestoreKnows(r)'
    BY <1>2, <2>1 DEF BackupsIInv, RestoreKnows
  <2>3. AloneKnows(r)'
    BY <2>1 DEF BackupsIInv, AloneKnows, databaseVars, Running
  <2> QED
    BY <2>2, <2>3
<1>5. DatabaseThere'
  <2>1. fresh # Missing => restore[fresh].of \in Backups \ {b}
    BY DEF BackupsIInv, RestoreKnows, DatabaseThere
  <2> QED
    BY <2>1 DEF BackupsIInv, DatabaseThere, databaseVars
<1>6. OneTurning'
  BY DEF BackupsIInv, OneTurning, providerVars
<1>7. PoolKept'
  <2>1. Holders' = Holders
    BY DEF Holders
  <2> QED
    BY <2>1 DEF BackupsIInv, PoolKept
<1>8. SomeoneSettles'
  BY DEF BackupsIInv, SomeoneSettles
<1> QED
  BY <1>1, <1>3, <1>4, <1>5, <1>6, <1>7, <1>8 DEF BackupsIInv

LEMMA BackupSteps ==
    ASSUME BackupsIInv, NEW b \in Backups, TakeBackup(b) \/ BackupJob(b)
    PROVE  BackupsIInv'
<1>1. BackupsTypeOK /\ JobKnows(b) /\ Missing \notin Contents
  BY BackupsAssumption DEF BackupsIInv, Contents
<1>2. job \in [Backups -> JobStates]
  BY <1>1 DEF BackupsTypeOK, JobStates, JobSteps
<1>3. CASE TakeBackup(b)
  <2>1. PICK p \in Unset : job' = [job EXCEPT ![b] = [step |-> "dump", to |-> p]]
    BY <1>3 DEF TakeBackup
  <2>2. /\ job' \in [Backups -> JobStates] /\ job'[b].step = "dump"
        /\ \A a \in Backups \ {b} : job'[a] = job[a]
    BY <1>2, <2>1 DEF JobStates, JobSteps
  <2>3. JobKnows(b)'
    BY <1>1, <1>3, <2>2 DEF TakeBackup, JobKnows, BackupsTypeOK
  <2> QED
    BY <1>1, <1>3, <2>2, <2>3, BackupKeeps DEF TakeBackup, BackupsTypeOK
<1>4. CASE Dump(b)
  <2>1. PICK st \in {"upload", "fail"} :
          /\ Step(b, st)
          /\ \/ st = "upload" /\ content # Missing /\ dump' = [dump EXCEPT ![b] = content]
             \/ st = "fail" /\ dump' = dump
    BY <1>4 DEF Dump
  <2>2. /\ job' \in [Backups -> JobStates]
        /\ job'[b].step = st /\ job'[b].to = job[b].to
        /\ \A a \in Backups \ {b} : job'[a] = job[a]
    BY <1>1, <2>1, JobStepped DEF JobSteps
  <2>3. dump' \in [Backups -> Contents \cup {Missing}] /\ \A a \in Backups \ {b} : dump'[a] = dump[a]
    BY <1>1, <2>1 DEF BackupsTypeOK
  <2>4. JobKnows(b)'
    BY <1>1, <1>4, <2>1, <2>2 DEF Dump, JobKnows, FileThere, BackupsTypeOK
  <2> QED
    BY <1>1, <1>4, <2>2, <2>3, <2>4, BackupKeeps DEF Dump, BackupsTypeOK, JobKnows
<1>5. CASE Upload(b)
  <2>1. PICK st \in {"update", "fail"} :
          /\ Step(b, st)
          /\ \/ st = "update" /\ job[b].to = Missing /\ files' = files
             \/ st = "update" /\ job[b].to # Missing /\ files' = [files EXCEPT ![job[b].to] = @ \cup {b}]
             \/ st = "fail" /\ files' = files
    BY <1>5 DEF Upload
  <2>2. /\ job' \in [Backups -> JobStates]
        /\ job'[b].step = st /\ job'[b].to = job[b].to
        /\ \A a \in Backups \ {b} : job'[a] = job[a]
    BY <1>1, <2>1, JobStepped DEF JobSteps
  <2>4. job[b].to \in Unset
    BY <1>2 DEF JobStates
  <2>3. files' \in [Providers -> SUBSET Backups] /\ \A p \in Providers : files[p] \subseteq files'[p]
    <3>1. CASE files' = files
      BY <1>1, <3>1 DEF BackupsTypeOK
    <3>2. CASE files' # files
      <4>1. /\ job[b].to \in Providers
            /\ files' = [files EXCEPT ![job[b].to] = files[job[b].to] \cup {b}]
        BY <2>1, <2>4, <3>2 DEF Unset
      <4> QED
        BY <1>1, <4>1 DEF BackupsTypeOK
    <3> QED
      BY <3>1, <3>2
  <2>5. JobKnows(b)'
    BY <1>1, <1>5, <2>1, <2>2, <2>4 DEF Upload, JobKnows, FileThere, BackupsTypeOK, Unset
  <2> QED
    BY <1>1, <1>5, <2>2, <2>3, <2>5, BackupKeeps DEF Upload, BackupsTypeOK, JobKnows
<1>6. CASE UpdateBackup(b)
  <2>1. /\ job' \in [Backups -> JobStates]
        /\ job'[b].step = "done" /\ job'[b].to = job[b].to
        /\ \A a \in Backups \ {b} : job'[a] = job[a]
    BY <1>1, <1>6, JobStepped DEF UpdateBackup, JobSteps
  <2>2. /\ backup' \in [Backups -> {"none", "in_progress", "completed", "failed", "restoring"}]
        /\ \A a \in Backups \ {b} : backup'[a] = backup[a]
        /\ \/ job[b].step = "update" /\ backup'[b] = "completed"
           \/ job[b].step = "fail" /\ backup'[b] = "failed"
    BY <1>1, <1>6 DEF UpdateBackup, BackupsTypeOK
  <2>3. JobKnows(b)'
    BY <1>1, <1>6, <2>1, <2>2 DEF UpdateBackup, JobKnows, FileThere
  <2> QED
    BY <1>1, <1>6, <2>1, <2>2, <2>3, BackupKeeps DEF UpdateBackup, BackupsTypeOK, JobKnows
<1> QED
  BY <1>3, <1>4, <1>5, <1>6 DEF BackupJob

\* A step of a restore that runs: what is left to show of it.
LEMMA RestoreKeeps ==
    ASSUME BackupsIInv, NEW r \in Restores, restore[r].step \in Running,
           UNCHANGED <<files, job, dump, events, orphans, providerVars>>,
           restore' \in [Restores -> RestoreStates],
           restore'[r].step \in Running \cup {"done"},
           restore'[r].of = restore[r].of, restore'[r].alone = restore[r].alone,
           restore'[r].file = IF restore'[r].asked THEN dump[restore[r].of] ELSE Missing,
           \A q \in Restores \ {r} :
               /\ restore'[q].of = restore[q].of /\ restore'[q].alone = restore[q].alone
               /\ restore'[q].file = restore[q].file /\ restore'[q].asked = restore[q].asked
               /\ \/ restore'[q].step = restore[q].step
                  \/ restore[q].step \in Running /\ restore'[q].step \in Running,
           backup' \in [Backups -> {"none", "in_progress", "completed", "failed", "restoring"}],
           \A b \in Backups : \/ backup'[b] = backup[b]
                              \/ b = restore[r].of /\ backup'[b] \in {"completed", "failed", "restoring"},
           backup'[restore[r].of] = "restoring" => restore'[r].step \in Running,
           content' \in Contents \cup {Missing}, fresh' \in Restores \cup {Missing}, idle' \in 0 .. PoolSize,
           restore[r].alone =>
               /\ restore'[r].step = "create" => content' = Missing
               /\ restore'[r].step = "load" => content' = {}
               /\ restore'[r].step = "finish" => content' = dump[restore[r].of],
           DatabaseThere', PoolKept'
    PROVE  BackupsIInv'
<1>1. BackupsTypeOK'
  BY DEF providerVars, BackupsIInv, BackupsTypeOK, RestoreStates, RestoreSteps
<1>2. /\ restore[r].step # "none" /\ RestoreKnows(r) /\ restore[r].of \in Backups
      /\ backup[restore[r].of] \notin {"none", "in_progress"}
      /\ FileThere(restore[r].of) /\ dump[restore[r].of] # Missing
  BY DEF BackupsIInv, RestoreKnows, Running
<1>3. \A b \in Backups : JobKnows(b)'
  <2> SUFFICES ASSUME NEW b \in Backups PROVE JobKnows(b)'
    OBVIOUS
  <2>1. JobKnows(b) /\ (FileThere(b)' <=> FileThere(b))
    BY DEF BackupsIInv, FileThere
  <2>2. CASE backup'[b] = backup[b]
    BY <2>1, <2>2 DEF JobKnows
  <2>3. CASE b = restore[r].of /\ backup'[b] \in {"completed", "failed", "restoring"}
    BY <1>2, <2>1, <2>3 DEF JobKnows
  <2> QED
    BY <2>2, <2>3
<1>4. ASSUME NEW q \in Restores PROVE RestoreKnows(q)' /\ AloneKnows(q)'
  <2>1. RestoreKnows(q) /\ AloneKnows(q) /\ AloneKnows(r)
    BY DEF BackupsIInv
  <2>2. \A b \in Backups : FileThere(b)' <=> FileThere(b)
    BY DEF FileThere
  <2>3. CASE q = r
    <3>1. RestoreKnows(r)'
      BY <1>2, <2>2 DEF RestoreKnows
    <3>2. AloneKnows(r)'
      BY <2>1 DEF AloneKnows
    <3> QED
      BY <2>3, <3>1, <3>2
  <2>4. CASE q # r
    <3>1. RestoreKnows(q)'
      BY <1>2, <2>1, <2>2, <2>4 DEF RestoreKnows, Running
    <3>2. AloneKnows(q)'
      BY <2>1, <2>4 DEF AloneKnows
    <3> QED
      BY <3>1, <3>2
  <2> QED
    BY <2>3, <2>4
<1>5. OneTurning'
  BY DEF BackupsIInv, OneTurning, providerVars
<1>6. SomeoneSettles'
  <2> SUFFICES ASSUME NEW b \in Backups \ orphans
               PROVE  /\ backup'[b] = "in_progress" => job[b].step \notin {"none", "done"}
                      /\ backup'[b] = "restoring" =>
                            \E q \in Restores : restore'[q].of = b /\ restore'[q].step \in Running
    BY DEF SomeoneSettles
  <2>1. /\ backup[b] = "in_progress" => job[b].step \notin {"none", "done"}
        /\ backup[b] = "restoring" => \E q \in Restores : restore[q].of = b /\ restore[q].step \in Running
    BY DEF BackupsIInv, SomeoneSettles
  <2>2. CASE b = restore[r].of
    BY <1>2, <2>1, <2>2
  <2>3. CASE b # restore[r].of
    BY <2>1, <2>3
  <2> QED
    BY <2>2, <2>3
<1> QED
  BY <1>1, <1>3, <1>4, <1>5, <1>6 DEF BackupsIInv

\* A restore that is done had a dump.
LEMMA RestoreDumped ==
    ASSUME BackupsIInv, NEW r \in Restores, restore[r].step = "done"
    PROVE  dump[restore[r].of] # Missing
BY DEF BackupsIInv, RestoreKnows

\* The restores of which a step is taken are at work.
LEMMA RestoreKnown ==
    ASSUME BackupsIInv, NEW r \in Restores, restore[r].step \in Running
    PROVE  /\ BackupsTypeOK /\ restore \in [Restores -> RestoreStates] /\ restore[r] \in RestoreStates
           /\ restore[r].of \in Backups /\ dump[restore[r].of] \in Contents
           /\ restore[r].file = IF restore[r].asked THEN dump[restore[r].of] ELSE Missing
           /\ restore[r].step # "done" /\ AloneKnows(r)
<1>1. restore \in [Restores -> RestoreStates]
  BY DEF BackupsIInv, BackupsTypeOK, RestoreStates, RestoreSteps
<1> QED
  BY <1>1 DEF BackupsIInv, BackupsTypeOK, RestoreKnows, AloneKnows, Running

LEMMA MarkFetchConnect ==
    ASSUME BackupsIInv, NEW r \in Restores, MarkRestoring(r) \/ Fetch(r) \/ Connect(r) \/ Killed(r)
    PROVE  BackupsIInv'
<1>1. restore[r].step \in {"mark", "find", "connect", "killed"}
  BY DEF MarkRestoring, Fetch, Connect, Killed, At
<1>2. restore[r].step \in Running
  BY <1>1 DEF Running
<1>3. /\ BackupsTypeOK /\ restore \in [Restores -> RestoreStates] /\ restore[r] \in RestoreStates
      /\ restore[r].of \in Backups /\ dump[restore[r].of] \in Contents
      /\ restore[r].file = IF restore[r].asked THEN dump[restore[r].of] ELSE Missing
  BY <1>2, RestoreKnown
<1>4. DatabaseThere /\ PoolKept
  BY DEF BackupsIInv
\* What the four have in common: only this restore moves, and it is not about to load.
<1>5. ASSUME restore' \in [Restores -> RestoreStates],
             restore'[r].step \in {"find", "connect", "drop", "fail"},
             restore'[r].of = restore[r].of, restore'[r].alone = restore[r].alone,
             restore'[r].file = IF restore'[r].asked THEN dump[restore[r].of] ELSE Missing,
             \A q \in Restores \ {r} : restore'[q] = restore[q],
             UNCHANGED <<files, job, dump, events, orphans, providerVars, databaseVars>>,
             backup' = backup \/ backup' = [backup EXCEPT ![restore[r].of] = "restoring"],
             idle' \in 0 .. PoolSize, PoolKept'
      PROVE  BackupsIInv'
  <2>1. restore'[r].step \in Running
    BY <1>5 DEF Running
  <2>2. /\ backup' \in [Backups -> {"none", "in_progress", "completed", "failed", "restoring"}]
        /\ \A b \in Backups : \/ backup'[b] = backup[b]
                              \/ b = restore[r].of /\ backup'[b] \in {"completed", "failed", "restoring"}
    BY <1>3, <1>5 DEF BackupsTypeOK
  <2>3. DatabaseThere'
    <3>1. content' = content /\ fresh' = fresh
      BY <1>5 DEF databaseVars
    <3>2. fresh # Missing => fresh # r
      BY <1>1, <1>4 DEF DatabaseThere
    <3> QED
      BY <1>4, <1>5, <3>1, <3>2 DEF DatabaseThere
  <2>4. content' \in Contents \cup {Missing} /\ fresh' \in Restores \cup {Missing}
    BY <1>3, <1>5 DEF BackupsTypeOK, databaseVars
  <2> QED
    BY <1>2, <1>5, <2>1, <2>2, <2>3, <2>4, RestoreKeeps
<1>6. ASSUME idle' = idle, restore'[r].step \notin {"drop", "create"}, \A q \in Restores \ {r} : restore'[q] = restore[q]
      PROVE  PoolKept' /\ idle' \in 0 .. PoolSize
  <2>1. Holders' \subseteq Holders
    BY <1>6 DEF Holders
  <2>2. idle \in 0 .. PoolSize
    BY <1>3 DEF BackupsTypeOK
  <2>3. idle \in Nat
    BY <2>2, BackupsAssumption
  <2> QED
    BY <1>4, <1>6, <2>1, <2>2, <2>3, PoolStays
<1>7. CASE MarkRestoring(r)
  BY <1>3, <1>5, <1>6, <1>7, RestoreMoved DEF MarkRestoring, RestoreSteps, Running
<1>8. CASE Killed(r)
  BY <1>3, <1>5, <1>6, <1>8, RestoreMoved DEF Killed, RestoreSteps, Running
<1>9. CASE Connect(r)
  <2>1. /\ restore' \in [Restores -> RestoreStates] /\ restore'[r].step = "drop"
        /\ restore'[r].of = restore[r].of /\ restore'[r].asked = restore[r].asked
        /\ restore'[r].file = restore[r].file /\ restore'[r].alone = restore[r].alone
        /\ \A q \in Restores \ {r} : restore'[q] = restore[q]
    BY <1>3, <1>9, RestoreMoved DEF Connect, RestoreSteps, Running
  <2>2. idle \in 0 .. PoolSize /\ idle > 0 /\ idle' = idle - 1 /\ PoolSize \in Nat
    BY <1>3, <1>9, BackupsAssumption DEF Connect, BackupsTypeOK
  <2>3. PoolKept'
    <3>1. Holders' = Holders \cup {r}
      BY <2>1 DEF Holders
    <3>2. Cardinality(Holders') <= Cardinality(Holders) + 1
      BY <3>1, HoldersFinite, FS_AddElement
    <3> QED
      BY <1>4, <2>2, <3>2, HoldersFinite DEF PoolKept
  <2> QED
    BY <1>3, <1>5, <1>9, <2>1, <2>2, <2>3 DEF Connect
<1>10. CASE Fetch(r)
  <2>1. /\ At(r, "find") /\ idle' = idle
        /\ UNCHANGED <<files, backup, job, dump, events, orphans, providerVars, databaseVars>>
    BY <1>10 DEF Fetch
  <2>2. CASE MoveTo(r, "connect") \/ MoveTo(r, "fail")
    BY <1>3, <1>5, <1>6, <2>1, <2>2, RestoreMoved DEF RestoreSteps, Running
  <2>3. CASE restore' = [restore EXCEPT ![r] =
                  [restore[r] EXCEPT !.step = "connect", !.asked = TRUE, !.file = dump[restore[r].of]]]
    <3> DEFINE new == [restore[r] EXCEPT !.step = "connect", !.asked = TRUE, !.file = dump[restore[r].of]]
    <3>1. new \in RestoreStates
      BY <1>3 DEF RestoreStates, RestoreSteps, Running
    <3>2. /\ new.step = "connect" /\ new.of = restore[r].of /\ new.alone = restore[r].alone
          /\ new.asked = TRUE /\ new.file = dump[restore[r].of]
      BY <1>3 DEF RestoreStates
    <3>3. restore' = [restore EXCEPT ![r] = new]
      BY <2>3
    <3> HIDE DEF new
    <3>4. restore' \in [Restores -> RestoreStates] /\ restore'[r] = new
          /\ \A q \in Restores \ {r} : restore'[q] = restore[q]
      BY <1>3, <3>1, <3>3
    <3> QED
      BY <1>5, <1>6, <2>1, <3>2, <3>4
  <2> QED
    BY <1>10, <2>2, <2>3 DEF Fetch
<1> QED
  BY <1>7, <1>8, <1>9, <1>10

LEMMA DropRecreate ==
    ASSUME BackupsIInv, NEW r \in Restores, Drop(r) \/ Recreate(r)
    PROVE  BackupsIInv'
<1>1. restore[r].step \in {"drop", "create"}
  BY DEF Drop, Recreate, At
<1>2. restore[r].step \in Running
  BY <1>1 DEF Running
<1>3. /\ BackupsTypeOK /\ restore \in [Restores -> RestoreStates] /\ restore[r] \in RestoreStates
      /\ restore[r].of \in Backups /\ dump[restore[r].of] \in Contents
      /\ restore[r].file = IF restore[r].asked THEN dump[restore[r].of] ELSE Missing
      /\ AloneKnows(r)
  BY <1>2, RestoreKnown
<1>4. DatabaseThere /\ PoolKept /\ idle \in 0 .. PoolSize /\ PoolSize \in Nat /\ {} \in Contents
  BY <1>3, BackupsAssumption DEF BackupsIInv, BackupsTypeOK, Contents
<1>5. /\ backup' = backup /\ UNCHANGED <<files, job, dump, events, orphans, providerVars>>
      /\ fresh' \in {fresh, Missing} /\ fresh' \in Restores \cup {Missing}
      /\ backup' \in [Backups -> {"none", "in_progress", "completed", "failed", "restoring"}]
  BY <1>3 DEF Drop, Recreate, BackupsTypeOK
<1>6. ASSUME NEW st \in {"fail", "load"}, MoveTo(r, st)
      PROVE  /\ restore' \in [Restores -> RestoreStates]
             /\ restore'[r].step = st /\ st \in Running
             /\ restore'[r].of = restore[r].of /\ restore'[r].asked = restore[r].asked
             /\ restore'[r].file = restore[r].file /\ restore'[r].alone = restore[r].alone
             /\ \A q \in Restores \ {r} : restore'[q] = restore[q]
  BY <1>3, <1>6, RestoreMoved DEF RestoreSteps, Running
\* Refused: nothing but the restore changes.
<1>7. CASE MoveTo(r, "fail") /\ content' = content /\ idle' = idle
  <2>1. /\ restore' \in [Restores -> RestoreStates]
        /\ restore'[r].step = "fail" /\ "fail" \in Running
        /\ restore'[r].of = restore[r].of /\ restore'[r].asked = restore[r].asked
        /\ restore'[r].file = restore[r].file /\ restore'[r].alone = restore[r].alone
        /\ \A q \in Restores \ {r} : restore'[q] = restore[q]
    BY <1>6, <1>7
  <2>2. DatabaseThere'
    <3>1. fresh # Missing => fresh # r
      BY <1>1, <1>4 DEF DatabaseThere
    <3> QED
      BY <1>4, <1>5, <1>7, <2>1, <3>1 DEF DatabaseThere
  <2>3. PoolKept'
    <3>1. Holders' \subseteq Holders
      BY <2>1 DEF Holders
    <3> QED
      BY <1>4, <1>7, <3>1, PoolStays
  <2>4. content' \in Contents \cup {Missing} /\ idle' \in 0 .. PoolSize
    BY <1>3, <1>7 DEF BackupsTypeOK
  <2> QED
    BY <1>2, <1>3, <1>5, <2>1, <2>2, <2>3, <2>4, RestoreKeeps
<1>8. CASE Drop(r) /\ ~(MoveTo(r, "fail") /\ content' = content)
  <2> DEFINE new(q) == IF q = r THEN [restore[q] EXCEPT !.step = "create"]
                       ELSE IF At(q, "load") THEN [restore[q] EXCEPT !.step = "killed"] ELSE restore[q]
  <2>1. content' = Missing /\ fresh' = Missing /\ idle' = idle /\ restore' = [q \in Restores |-> new(q)]
    BY <1>8 DEF Drop
  <2>2. \A q \in Restores :
          /\ new(q) \in RestoreStates
          /\ new(q).of = restore[q].of /\ new(q).alone = restore[q].alone
          /\ new(q).file = restore[q].file /\ new(q).asked = restore[q].asked
          /\ new(q).step = IF q = r THEN "create" ELSE IF At(q, "load") THEN "killed" ELSE restore[q].step
    BY <1>3 DEF RestoreStates, RestoreSteps, Running
  <2> HIDE DEF new
  <2>3. restore' \in [Restores -> RestoreStates] /\ \A q \in Restores : restore'[q] = new(q)
    BY <2>1, <2>2
  <2>4. restore'[r].step = "create" /\ "create" \in Running /\ "load" \in Running /\ "killed" \in Running
    BY <2>2, <2>3 DEF Running
  <2>5. DatabaseThere'
    BY <2>1, <2>2, <2>3 DEF DatabaseThere, At
  <2>6. PoolKept'
    <3>1. Holders' \subseteq Holders
      BY <1>1, <2>2, <2>3 DEF Holders, At
    <3> QED
      BY <1>4, <2>1, <3>1, PoolStays
  <2>7. \A q \in Restores \ {r} :
          /\ restore'[q].of = restore[q].of /\ restore'[q].alone = restore[q].alone
          /\ restore'[q].file = restore[q].file /\ restore'[q].asked = restore[q].asked
          /\ \/ restore'[q].step = restore[q].step
             \/ restore[q].step \in Running /\ restore'[q].step \in Running
    BY <2>2, <2>3, <2>4 DEF At
  <2>8. /\ restore'[r].of = restore[r].of /\ restore'[r].alone = restore[r].alone
        /\ restore'[r].file = IF restore'[r].asked THEN dump[restore[r].of] ELSE Missing
    BY <1>3, <2>2, <2>3
  <2> QED
    BY <1>2, <1>3, <1>4, <1>5, <2>1, <2>3, <2>4, <2>5, <2>6, <2>7, <2>8, RestoreKeeps
<1>9. CASE Recreate(r) /\ ~(MoveTo(r, "fail") /\ content' = content /\ idle' = idle)
  <2>1. /\ At(r, "create") /\ content = Missing /\ content' = {} /\ idle' = idle + 1 /\ MoveTo(r, "load")
        /\ fresh' = fresh
    BY <1>9 DEF Recreate
  <2>2. /\ restore' \in [Restores -> RestoreStates]
        /\ restore'[r].step = "load" /\ "load" \in Running
        /\ restore'[r].of = restore[r].of /\ restore'[r].asked = restore[r].asked
        /\ restore'[r].file = restore[r].file /\ restore'[r].alone = restore[r].alone
        /\ \A q \in Restores \ {r} : restore'[q] = restore[q]
    BY <1>6, <2>1
  <2>3. {} # Missing /\ Missing \notin Contents
    BY <1>4, BackupsAssumption DEF Contents
  <2>4. fresh = Missing
    BY <1>4, <2>1, <2>3, RestoreDumped DEF DatabaseThere, BackupsIInv
  <2>5. DatabaseThere'
    BY <2>1, <2>3, <2>4 DEF DatabaseThere
  <2>6. PoolKept' /\ idle' \in 0 .. PoolSize
    <3>1. Holders' = Holders \ {r} /\ r \in Holders
      BY <2>1, <2>2 DEF Holders, At
    <3>2. Cardinality(Holders') = Cardinality(Holders) - 1
      BY <3>1, HoldersFinite, FS_RemoveElement
    <3> QED
      BY <1>4, <2>1, <3>2, HoldersFinite DEF PoolKept
  <2> QED
    BY <1>2, <1>3, <1>4, <1>5, <2>1, <2>2, <2>5, <2>6, RestoreKeeps
<1> QED
  BY <1>7, <1>8, <1>9 DEF Drop, Recreate

LEMMA LoadUpdate ==
    ASSUME BackupsIInv, NEW r \in Restores, Load(r) \/ UpdateRestored(r)
    PROVE  BackupsIInv'
<1>1. restore[r].step \in {"load", "finish", "fail"}
  BY DEF Load, UpdateRestored, At
<1>2. restore[r].step \in Running /\ "finish" \in Running /\ "fail" \in Running
  BY <1>1 DEF Running
<1>3. /\ BackupsTypeOK /\ restore \in [Restores -> RestoreStates] /\ restore[r] \in RestoreStates
      /\ restore[r].of \in Backups /\ dump[restore[r].of] \in Contents
      /\ restore[r].file = IF restore[r].asked THEN dump[restore[r].of] ELSE Missing
      /\ AloneKnows(r)
  BY <1>2, RestoreKnown
<1>4. DatabaseThere /\ PoolKept /\ idle \in 0 .. PoolSize /\ idle \in Nat /\ Missing \notin Contents
  BY <1>3, BackupsAssumption DEF BackupsIInv, BackupsTypeOK, Contents
<1>5. UNCHANGED <<files, job, dump, events, orphans, providerVars>> /\ idle' = idle
  BY DEF Load, UpdateRestored
<1>6. ASSUME NEW st \in {"finish", "fail", "done"}, MoveTo(r, st)
      PROVE  /\ restore' \in [Restores -> RestoreStates] /\ restore'[r].step = st
             /\ restore'[r].of = restore[r].of /\ restore'[r].asked = restore[r].asked
             /\ restore'[r].file = restore[r].file /\ restore'[r].alone = restore[r].alone
             /\ \A q \in Restores \ {r} : restore'[q] = restore[q]
             /\ PoolKept'
  <2>1. /\ restore' \in [Restores -> RestoreStates] /\ restore'[r].step = st
        /\ restore'[r].of = restore[r].of /\ restore'[r].asked = restore[r].asked
        /\ restore'[r].file = restore[r].file /\ restore'[r].alone = restore[r].alone
        /\ \A q \in Restores \ {r} : restore'[q] = restore[q]
    BY <1>3, <1>6, RestoreMoved DEF RestoreSteps, Running
  <2>2. Holders' \subseteq Holders
    BY <2>1 DEF Holders
  <2> QED
    BY <1>4, <1>5, <2>1, <2>2, PoolStays
<1>7. CASE Load(r)
  <2>1. /\ restore[r].step = "load" /\ content # Missing /\ content \in Contents
        /\ fresh' = Missing /\ backup' = backup
    BY <1>3, <1>4, <1>7 DEF Load, At, DatabaseThere, BackupsTypeOK
  <2>2. PICK st \in {"finish", "fail"} :
          /\ MoveTo(r, st)
          /\ \/ content' = content
             \/ restore[r].file # Missing /\ content' \in {content \cup restore[r].file, restore[r].file}
          /\ st = "finish" /\ content = {} => restore[r].file # Missing /\ content' = restore[r].file
    BY <1>7 DEF Load
  <2>3. content' \in Contents
    BY <1>3, <2>1, <2>2 DEF Contents
  <2>4. DatabaseThere'
    BY <1>4, <1>6, <2>1, <2>3 DEF DatabaseThere
  <2>5. restore[r].alone /\ st = "finish" => content' = dump[restore[r].of]
    BY <1>2, <1>3, <2>1, <2>2 DEF AloneKnows
  <2>6. backup' \in [Backups -> {"none", "in_progress", "completed", "failed", "restoring"}]
    BY <1>3, <2>1 DEF BackupsTypeOK
  <2>7. /\ restore' \in [Restores -> RestoreStates] /\ restore'[r].step = st
        /\ restore'[r].of = restore[r].of /\ restore'[r].asked = restore[r].asked
        /\ restore'[r].file = restore[r].file /\ restore'[r].alone = restore[r].alone
        /\ \A q \in Restores \ {r} : restore'[q] = restore[q]
        /\ PoolKept'
    BY <1>6, <2>2
  <2> QED
    BY <1>2, <1>3, <1>4, <1>5, <2>1, <2>2, <2>3, <2>4, <2>5, <2>6, <2>7, RestoreKeeps
<1>8. CASE UpdateRestored(r)
  <2>1. /\ content' = content /\ MoveTo(r, "done") /\ restore[r].step \in {"finish", "fail"}
        /\ fresh' = IF restore[r].step = "finish" /\ restore[r].alone THEN r ELSE fresh
        /\ \/ backup' = [backup EXCEPT ![restore[r].of] = "completed"]
           \/ backup' = [backup EXCEPT ![restore[r].of] = "failed"]
    BY <1>8 DEF UpdateRestored, At
  <2>2. /\ restore' \in [Restores -> RestoreStates] /\ restore'[r].step = "done"
        /\ restore'[r].of = restore[r].of /\ restore'[r].asked = restore[r].asked
        /\ restore'[r].file = restore[r].file /\ restore'[r].alone = restore[r].alone
        /\ \A q \in Restores \ {r} : restore'[q] = restore[q]
        /\ PoolKept'
    BY <1>6, <2>1
  <2>3. /\ backup' \in [Backups -> {"none", "in_progress", "completed", "failed", "restoring"}]
        /\ backup'[restore[r].of] # "restoring"
        /\ \A b \in Backups : \/ backup'[b] = backup[b]
                              \/ b = restore[r].of /\ backup'[b] \in {"completed", "failed", "restoring"}
    BY <1>3, <2>1 DEF BackupsTypeOK
  <2>4. DatabaseThere'
    <3>1. CASE fresh' = r
      <4>1. CASE restore[r].step = "finish" /\ restore[r].alone
        BY <1>2, <1>3, <1>4, <1>5, <2>1, <2>2, <3>1, <4>1 DEF DatabaseThere, AloneKnows
      <4>2. CASE ~(restore[r].step = "finish" /\ restore[r].alone)
        <5>1. fresh = r /\ r # Missing
          BY <2>1, <3>1, <4>2, BackupsAssumption DEF Restores
        <5> QED
          BY <1>4, <2>1, <5>1 DEF DatabaseThere
      <4> QED
        BY <4>1, <4>2
    <3>2. CASE fresh' # r
      BY <1>4, <1>5, <2>1, <2>2, <3>2 DEF DatabaseThere
    <3> QED
      BY <3>1, <3>2
  <2>5. content' \in Contents \cup {Missing} /\ fresh' \in Restores \cup {Missing}
    BY <1>3, <2>1 DEF BackupsTypeOK
  <2> QED
    BY <1>2, <1>3, <1>4, <1>5, <2>2, <2>3, <2>4, <2>5, RestoreKeeps
<1> QED
  BY <1>7, <1>8

\* A new restore: those at work, and it if there are any, are no longer alone.
LEMMA CheckRestoreStep ==
    ASSUME BackupsIInv, NEW r \in Restores, NEW b \in Backups, CheckRestore(r, b)
    PROVE  BackupsIInv'
<1> DEFINE others == {q \in Restores : restore[q].step \in Running}
           new(q) == IF q = r THEN [NoRestore EXCEPT !.step = "mark", !.of = b, !.alone = (others = {})]
                     ELSE [restore[q] EXCEPT !.alone = restore[q].alone /\ q \notin others]
<1>1. /\ BackupsTypeOK /\ restore \in [Restores -> RestoreStates]
      /\ JobKnows(b) /\ PoolKept /\ DatabaseThere /\ OneTurning /\ SomeoneSettles
  BY DEF BackupsIInv, BackupsTypeOK, RestoreStates, RestoreSteps
<1>2. /\ restore[r].step = "none" /\ backup[b] = "completed"
      /\ restore' = [q \in Restores |-> new(q)] /\ fresh' = Missing
      /\ UNCHANGED <<files, backup, job, dump, content, idle, events, orphans, providerVars>>
  BY DEF CheckRestore, At
<1>3. /\ new(r) \in RestoreStates /\ new(r).step = "mark" /\ new(r).of = b /\ new(r).asked = FALSE
      /\ new(r).file = Missing /\ (new(r).alone <=> others = {})
  <2> HIDE DEF others
  <2> QED
    BY DEF NoRestore, RestoreStates, RestoreSteps, Running
<1>4. ASSUME NEW q \in Restores \ {r}
      PROVE  /\ new(q) \in RestoreStates /\ new(q).step = restore[q].step /\ new(q).of = restore[q].of
             /\ new(q).asked = restore[q].asked /\ new(q).file = restore[q].file
             /\ (new(q).alone <=> restore[q].alone /\ q \notin others)
  <2>1. restore[q] \in RestoreStates
    BY <1>1
  <2> HIDE DEF others
  <2> QED
    BY <2>1, <1>4 DEF RestoreStates
<1> HIDE DEF new
<1>5. restore' \in [Restores -> RestoreStates] /\ \A q \in Restores : restore'[q] = new(q)
  BY <1>2, <1>3, <1>4
<1>6. BackupsTypeOK'
  BY <1>1, <1>2, <1>5 DEF BackupsTypeOK, RestoreStates, RestoreSteps, providerVars
<1>7. \A a \in Backups : JobKnows(a)' /\ (FileThere(a)' <=> FileThere(a))
  BY <1>2 DEF BackupsIInv, JobKnows, FileThere
<1>8. ASSUME NEW q \in Restores PROVE RestoreKnows(q)' /\ AloneKnows(q)'
  <2>1. CASE q = r
    <3>1. RestoreKnows(r)'
      BY <1>1, <1>2, <1>3, <1>5, <1>7 DEF RestoreKnows, JobKnows
    <3>2. AloneKnows(r)'
      BY <1>2, <1>3, <1>4, <1>5 DEF AloneKnows
    <3> QED
      BY <2>1, <3>1, <3>2
  <2>2. CASE q # r
    <3>1. RestoreKnows(q)'
      BY <1>2, <1>4, <1>5, <1>7, <2>2 DEF RestoreKnows, BackupsIInv
    <3>2. AloneKnows(q)'
      BY <1>2, <1>4, <1>5, <2>2 DEF AloneKnows
    <3> QED
      BY <3>1, <3>2
  <2> QED
    BY <2>1, <2>2
<1>9. DatabaseThere'
  BY <1>1, <1>2, <1>3, <1>4, <1>5 DEF DatabaseThere
<1>10. OneTurning'
  BY <1>1, <1>2 DEF OneTurning, providerVars
<1>11. PoolKept'
  <2>1. Holders' \subseteq Holders
    BY <1>3, <1>4, <1>5 DEF Holders
  <2> QED
    BY <1>1, <1>2, <2>1, PoolStays, BackupsAssumption DEF BackupsTypeOK
<1>12. SomeoneSettles'
  <2> SUFFICES ASSUME NEW a \in Backups \ orphans, backup[a] = "restoring"
               PROVE  \E q \in Restores : restore'[q].of = a /\ restore'[q].step \in Running
    BY <1>1, <1>2 DEF SomeoneSettles
  <2>1. PICK q \in Restores : restore[q].of = a /\ restore[q].step \in Running
    BY <1>1 DEF SomeoneSettles
  <2>2. q # r
    BY <1>2, <2>1 DEF Running
  <2> QED
    BY <1>4, <1>5, <2>1, <2>2
<1> QED
  BY <1>6, <1>7, <1>8, <1>9, <1>10, <1>11, <1>12 DEF BackupsIInv

\* The application's writes leave no restore at work alone.
LEMMA AppWritesStep ==
    ASSUME BackupsIInv, AppWrites
    PROVE  BackupsIInv'
<1> DEFINE new(q) == [restore[q] EXCEPT !.alone = restore[q].alone /\ restore[q].step \notin Running]
<1>1. /\ BackupsTypeOK /\ restore \in [Restores -> RestoreStates]
      /\ PoolKept /\ DatabaseThere /\ OneTurning /\ SomeoneSettles
  BY DEF BackupsIInv, BackupsTypeOK, RestoreStates, RestoreSteps
<1>2. /\ content # Missing /\ content' = content \cup {events + 1} /\ Event
      /\ restore' = [q \in Restores |-> new(q)] /\ fresh' = Missing
      /\ UNCHANGED <<files, backup, job, dump, idle, orphans, providerVars>>
  BY DEF AppWrites
<1>3. ASSUME NEW q \in Restores
      PROVE  /\ new(q) \in RestoreStates /\ new(q).step = restore[q].step /\ new(q).of = restore[q].of
             /\ new(q).asked = restore[q].asked /\ new(q).file = restore[q].file
             /\ (new(q).alone => restore[q].step \notin Running)
  <2>1. restore[q] \in RestoreStates
    BY <1>1
  <2> QED
    BY <2>1 DEF RestoreStates
<1> HIDE DEF new
<1>4. restore' \in [Restores -> RestoreStates] /\ \A q \in Restores : restore'[q] = new(q)
  BY <1>2, <1>3
<1>5. content' \in Contents /\ events' \in 0 .. MaxEvents
  <2>1. events < MaxEvents /\ MaxEvents \in Nat /\ events \in 0 .. MaxEvents /\ content \in Contents
    BY <1>1, <1>2, BackupsAssumption DEF BackupsTypeOK, Event
  <2>2. events + 1 \in 0 .. MaxEvents /\ events' = events + 1
    BY <1>2, <2>1 DEF Event
  <2> QED
    BY <1>2, <2>1, <2>2 DEF Contents
<1>6. BackupsTypeOK'
  BY <1>1, <1>2, <1>4, <1>5 DEF BackupsTypeOK, RestoreStates, RestoreSteps, providerVars
<1>7. \A a \in Backups : JobKnows(a)' /\ (FileThere(a)' <=> FileThere(a))
  BY <1>2 DEF BackupsIInv, JobKnows, FileThere
<1>8. ASSUME NEW q \in Restores PROVE RestoreKnows(q)' /\ AloneKnows(q)'
  <2>1. RestoreKnows(q)'
    BY <1>2, <1>3, <1>4, <1>7 DEF RestoreKnows, BackupsIInv
  <2>2. AloneKnows(q)'
    BY <1>3, <1>4 DEF AloneKnows
  <2> QED
    BY <2>1, <2>2
<1>9. DatabaseThere'
  BY <1>2, <1>5, BackupsAssumption DEF DatabaseThere, Contents
<1>10. OneTurning'
  BY <1>1, <1>2 DEF OneTurning, providerVars
<1>11. PoolKept'
  <2>1. Holders' \subseteq Holders
    BY <1>3, <1>4 DEF Holders
  <2> QED
    BY <1>1, <1>2, <2>1, PoolStays, BackupsAssumption DEF BackupsTypeOK
<1>12. SomeoneSettles'
  BY <1>1, <1>2, <1>3, <1>4 DEF SomeoneSettles
<1> QED
  BY <1>6, <1>7, <1>8, <1>9, <1>10, <1>11, <1>12 DEF BackupsIInv

\* The process takes its jobs with it, and remembers of which backups.
LEMMA ProcessEndsStep ==
    ASSUME BackupsIInv, ProcessEnds
    PROVE  BackupsIInv'
<1> DEFINE ended(b) == IF job[b].step = "none" THEN job[b] ELSE [job[b] EXCEPT !.step = "done"]
           left(q) == IF At(q, "none") THEN restore[q] ELSE [restore[q] EXCEPT !.step = "done"]
<1>1. /\ BackupsTypeOK /\ restore \in [Restores -> RestoreStates] /\ job \in [Backups -> JobStates]
      /\ PoolKept /\ DatabaseThere /\ OneTurning /\ SomeoneSettles
  BY DEF BackupsIInv, BackupsTypeOK, RestoreStates, RestoreSteps, JobStates, JobSteps
<1>2. /\ Event /\ idle' = PoolSize /\ turning' = [p \in Providers |-> "no"]
      /\ job' = [b \in Backups |-> ended(b)] /\ restore' = [q \in Restores |-> left(q)]
      /\ orphans' = orphans \cup {b \in Backups : job[b].step \notin {"none", "done"}}
                            \cup {restore[r].of : r \in {q \in Restores : restore[q].step \in Running}}
      /\ UNCHANGED <<provider, files, backup, dump, rivals, databaseVars>>
  BY DEF ProcessEnds
<1>3. ASSUME NEW b \in Backups
      PROVE  /\ ended(b) \in JobStates /\ ended(b).to = job[b].to
             /\ ended(b).step = IF job[b].step = "none" THEN "none" ELSE "done"
  <2>1. job[b] \in JobStates
    BY <1>1
  <2> QED
    BY <2>1 DEF JobStates, JobSteps
<1>4. ASSUME NEW q \in Restores
      PROVE  /\ left(q) \in RestoreStates /\ left(q).of = restore[q].of
             /\ left(q).asked = restore[q].asked /\ left(q).file = restore[q].file
             /\ left(q).step = IF restore[q].step = "none" THEN "none" ELSE "done"
  <2>1. restore[q] \in RestoreStates
    BY <1>1
  <2> QED
    BY <2>1 DEF RestoreStates, RestoreSteps, At
<1> HIDE DEF ended, left
<1>5. /\ restore' \in [Restores -> RestoreStates] /\ \A q \in Restores : restore'[q] = left(q)
      /\ job' \in [Backups -> JobStates] /\ \A b \in Backups : job'[b] = ended(b)
  BY <1>2, <1>3, <1>4
<1>6. BackupsTypeOK'
  <2>1. orphans' \subseteq Backups
    BY <1>1, <1>2 DEF BackupsIInv, BackupsTypeOK, RestoreKnows, Running
  <2>2. events' \in 0 .. MaxEvents /\ idle' \in 0 .. PoolSize
    BY <1>1, <1>2, EventCounted, BackupsAssumption
  <2>3. turning' \in [Providers -> {"no", "insert", "set"}]
    BY <1>2
  <2> QED
    BY <1>1, <1>2, <1>5, <2>1, <2>2, <2>3
    DEF BackupsTypeOK, RestoreStates, RestoreSteps, JobStates, JobSteps, databaseVars
<1>7. \A a \in Backups : JobKnows(a)' /\ (FileThere(a)' <=> FileThere(a))
  BY <1>2, <1>3, <1>5 DEF BackupsIInv, JobKnows, FileThere
<1>8. ASSUME NEW q \in Restores PROVE RestoreKnows(q)' /\ AloneKnows(q)'
  <2>1. RestoreKnows(q)'
    BY <1>2, <1>4, <1>5, <1>7 DEF RestoreKnows, BackupsIInv
  <2>2. AloneKnows(q)'
    BY <1>4, <1>5 DEF AloneKnows, Running
  <2> QED
    BY <2>1, <2>2
<1>9. DatabaseThere'
  BY <1>1, <1>2, <1>4, <1>5 DEF DatabaseThere, databaseVars
<1>10. OneTurning'
  BY <1>1, <1>2 DEF OneTurning
<1>11. PoolKept'
  <2>1. Holders' = {}
    BY <1>4, <1>5 DEF Holders
  <2> QED
    BY <1>2, <2>1, FS_EmptySet, BackupsAssumption DEF PoolKept
<1>12. SomeoneSettles'
  BY <1>1, <1>2 DEF SomeoneSettles
<1> QED
  BY <1>6, <1>7, <1>8, <1>9, <1>10, <1>11, <1>12 DEF BackupsIInv

LEMMA BackupsNextIInv == BackupsIInv /\ [BackupsNext]_backupVars => BackupsIInv'
<1> SUFFICES ASSUME BackupsIInv, [BackupsNext]_backupVars PROVE BackupsIInv'
  OBVIOUS
<1>1. CASE \E p \in Providers :
             \/ AddSpare(p) \/ MakeDefault(p) \/ DeleteProvider(p)
             \/ \E how \in {"insert", "set"} : ClearDefaults(p, how)
  BY <1>1, ProviderSteps
<1>2. CASE \E b \in Backups : TakeBackup(b) \/ BackupJob(b)
  BY <1>2, BackupSteps
<1>3. CASE \E r \in Restores : RestoreJob(r)
  BY <1>3, MarkFetchConnect, DropRecreate, LoadUpdate DEF RestoreJob
<1>4. CASE \E r \in Restores, b \in Backups : CheckRestore(r, b)
  BY <1>4, CheckRestoreStep
<1>5. CASE AppWrites
  BY <1>5, AppWritesStep
<1>6. CASE ProcessEnds
  BY <1>6, ProcessEndsStep
<1>7. CASE UNCHANGED backupVars
  <2>1. UNCHANGED <<events, jobVars, providerVars>>
    BY <1>7 DEF backupVars, jobVars, databaseVars, providerVars
  <2> QED
    BY <2>1, ProviderKeeps DEF BackupsIInv, BackupsTypeOK, OneTurning, providerVars
<1> QED
  BY <1>1, <1>2, <1>3, <1>4, <1>5, <1>6, <1>7 DEF BackupsNext

\* A backup that is offered for a restore has its file where its request found a provider, a restore
\* that nothing disturbed restores it, one provider is the default unless two changes raced, and
\* every row in progress has a job at work or lost it to an end of the process: for any number of
\* providers, backups, restores and connections.
THEOREM BackupsHold == BackupsSpec => []BackupsInv
<1>1. BackupsInit => BackupsIInv
  BY BackupsInitIInv
<1>2. BackupsIInv /\ [BackupsNext]_backupVars => BackupsIInv'
  BY BackupsNextIInv
<1>3. BackupsIInv => BackupsInv
  BY BackupsIInvImplies
<1> QED
  BY <1>1, <1>2, <1>3, PTL DEF BackupsSpec

\* Neither the application nor a restore that loads makes the database disappear.
LEMMA DatabaseStays ==
    ASSUME BackupsIInv, content # Missing,
           AppWrites \/ \E r \in Restores : Recreate(r) \/ Load(r)
    PROVE  content' # Missing
<1>1. Missing \notin Contents /\ {} \in Contents /\ content \in Contents
  BY BackupsAssumption DEF Contents, BackupsIInv, BackupsTypeOK
<1>2. CASE AppWrites
  <2>1. events < MaxEvents /\ MaxEvents \in Nat /\ events \in 0 .. MaxEvents
    BY <1>2, BackupsAssumption DEF BackupsIInv, BackupsTypeOK, AppWrites, Event
  <2>2. events + 1 \in 0 .. MaxEvents
    BY <2>1
  <2>3. content \cup {events + 1} \in Contents
    BY <1>1, <2>2 DEF Contents
  <2> QED
    BY <1>1, <1>2, <2>3 DEF AppWrites
<1>3. ASSUME NEW r \in Restores, Recreate(r) PROVE content' # Missing
  BY <1>1, <1>3 DEF Recreate
<1>4. ASSUME NEW r \in Restores, Load(r) PROVE content' # Missing
  <2>1. restore[r].file # Missing => restore[r].file \in Contents
    BY DEF BackupsIInv, BackupsTypeOK
  <2>2. restore[r].file # Missing => content \cup restore[r].file \in Contents
    BY <1>1, <2>1 DEF Contents
  <2> QED
    BY <1>1, <1>4, <2>1, <2>2 DEF Load
<1> QED
  BY <1>2, <1>3, <1>4

\* No restore drops the database before it has the dump it asked a provider for.
THEOREM DumpBeforeDrop == BackupsSpec => DroppedWithDump
<1> DEFINE WithDump == content # Missing /\ content' = Missing =>
              \E r \in Restores : /\ At(r, "drop") /\ restore'[r].step = "create"
                                  /\ restore[r].asked => restore[r].file = dump[restore[r].of]
<1>1. BackupsIInv /\ [BackupsNext]_backupVars => [WithDump]_backupVars
  <2> SUFFICES ASSUME BackupsIInv, [BackupsNext]_backupVars, content # Missing, content' = Missing
               PROVE  \E r \in Restores : /\ At(r, "drop") /\ restore'[r].step = "create"
                                          /\ restore[r].asked => restore[r].file = dump[restore[r].of]
    OBVIOUS
  <2>1. ~(content' = content)
    OBVIOUS
  <2>2. PICK r \in Restores : Drop(r)
    BY <2>1, DatabaseStays
    DEF BackupsNext, backupVars, AddSpare, MakeDefault, DeleteProvider, ClearDefaults, TakeBackup, BackupJob,
        Dump, Upload, UpdateBackup, RestoreJob, MarkRestoring, Fetch, Connect, Killed, UpdateRestored,
        CheckRestore, ProcessEnds, jobVars, databaseVars
  <2>3. restore[r].step = "drop" /\ restore[r] \in RestoreStates
    BY <2>2 DEF Drop, At, BackupsIInv, BackupsTypeOK, RestoreStates, RestoreSteps
  <2>4. restore[r].asked => restore[r].file = dump[restore[r].of]
    BY <2>3 DEF BackupsIInv, RestoreKnows
  <2>5. restore' = [q \in Restores |->
                IF q = r THEN [restore[q] EXCEPT !.step = "create"]
                ELSE IF At(q, "load") THEN [restore[q] EXCEPT !.step = "killed"] ELSE restore[q]]
    BY <2>1, <2>2 DEF Drop
  <2>6. restore'[r].step = "create"
    BY <2>3, <2>5 DEF RestoreStates
  <2> QED
    BY <2>3, <2>4, <2>6 DEF At
<1>2. BackupsInit => BackupsIInv
  BY BackupsInitIInv
<1>3. BackupsIInv /\ [BackupsNext]_backupVars => BackupsIInv'
  BY BackupsNextIInv
<1> QED
  BY <1>1, <1>2, <1>3, PTL DEF BackupsSpec, DroppedWithDump

-----------------------------------------------------------------------------
(* The history of a secret *)

Row0(w) == secret[about[w]]

\* What a writer's copy owes to the row it has found, while nobody else writes the key.
Knows(w) ==
    /\ stage[w] \in {"archive", "lookup"} => entity[w] = Row0(w) /\ Row0(w).active
    /\ stage[w] = "create" => Active = {}
    /\ stage[w] \in {"save", "update"} =>
        /\ Row0(w).active
        /\ \/ entity[w] = [Row0(w) EXCEPT !.active = FALSE]
           \/ /\ entity[w].active /\ entity[w].version = Row0(w).version + 1
              /\ \/ upserted
                 \/ [secret |-> about[w], value |-> Row0(w).value, version |-> Row0(w).version]
                        \in versions
    /\ stage[w] = "update" => selected[w] = Row0(w)

\* The history of a row ends with the row: nothing in it is newer, and a row that was never made
\* has none.
Ordered ==
    /\ \A i \in Ids : secret[i].active => secret[i].version > 0
    /\ \A h \in versions : LET r == secret[h.secret] IN
        /\ r.version > 0 /\ h.version <= r.version
        /\ h.version = r.version => h.value = r.value
        /\ \A k \in versions : k.secret = h.secret /\ k.version = h.version => k.value = h.value

Kept ==
    \A p \in held :
        /\ secret[p[1]].version > 0
        /\ \/ upserted \/ secret[p[1]].value = p[2]
           \/ \E h \in versions : h.secret = p[1] /\ h.value = p[2]

HistoryInv ==
    ~overlapped =>
        /\ \A w, u \in Writers : stage[w] # "idle" /\ stage[u] # "idle" => w = u
        /\ \A i, j \in Active : i = j
        /\ Ordered /\ Kept
        /\ \A w \in Writers : Knows(w)

\* What is typed only where the writer is.
Placed ==
    \A w \in Writers :
        /\ stage[w] \notin {"idle", "create"} => about[w] \in Ids
        /\ stage[w] \in {"archive", "create"} => wanted[w] \in 0 .. MaxValues

SecretsIInv == SecretsTypeOK /\ Placed /\ HistoryInv

LEMMA SecretsIInvImplies == SecretsIInv => SecretsInv
BY DEF SecretsIInv, HistoryInv, Ordered, Kept, SecretsInv, OneActive, VersionNamesOneValue,
       NothingLost

LEMMA SecretsInitIInv == SecretsInit => SecretsIInv
<1> SUFFICES ASSUME SecretsInit PROVE SecretsIInv
  OBVIOUS
<1>1. NoRow \in Row
  BY SecretsAssumption DEF NoRow, Row, None
<1>2. SecretsTypeOK
  <2>1. None \in 0 .. MaxValues + MaxVersion /\ 0 \in 0 .. MaxValues
    BY SecretsAssumption DEF None
  <2> QED
    BY <1>1, <2>1 DEF SecretsInit, SecretsTypeOK, Stages
<1>3. Active = {}
  BY DEF SecretsInit, Active, NoRow
<1>4. Placed /\ \A w \in Writers : Knows(w)
  BY DEF SecretsInit, Placed, Knows
<1>5. HistoryInv
  BY <1>3, <1>4 DEF SecretsInit, HistoryInv, Ordered, Kept, NoRow
<1> QED
  BY <1>2, <1>4, <1>5 DEF SecretsIInv

\* What save writes is a row again; when nobody wrote since its selection it is the copy.
LEMMA SavedRow ==
    ASSUME NEW r \in Row, NEW sel \in Row, NEW e \in Row
    PROVE  Saved(r, sel, e) \in Row /\ (sel = r => Saved(r, sel, e) = e)
<1>1. DOMAIN r = {"active", "value", "version"}
  BY DEF Row
<1>2. Saved(r, sel, e) = [column \in {"active", "value", "version"} |->
                            IF e[column] # sel[column] THEN e[column] ELSE r[column]]
  BY <1>1 DEF Saved
<1>3. Saved(r, sel, e) \in Row
  BY <1>2 DEF Row
<1>4. ASSUME sel = r PROVE Saved(r, sel, e) = e
  BY <1>2, <1>4 DEF Row
<1> QED
  BY <1>3, <1>4

\* Requests that end, or change nothing of the secret, keep the invariant.
LEMMA EndKeeps ==
    ASSUME SecretsIInv, SecretsTypeOK', UNCHANGED <<secret, versions, overlapped, upserted, held>>,
           \A w \in Writers :
              \/ stage'[w] = "idle"
              \/ /\ stage'[w] = stage[w] /\ about'[w] = about[w] /\ wanted'[w] = wanted[w]
                 /\ entity'[w] = entity[w] /\ selected'[w] = selected[w]
    PROVE  SecretsIInv'
<1>1. Placed'
  BY DEF SecretsIInv, Placed
<1>2. HistoryInv'
  <2> SUFFICES ASSUME ~overlapped PROVE HistoryInv'
    BY DEF HistoryInv
  <2>1. \A w, u \in Writers : stage'[w] # "idle" /\ stage'[u] # "idle" => w = u
    BY DEF SecretsIInv, HistoryInv
  <2>2. Active' = Active
    BY DEF Active
  <2>3. Ordered' /\ Kept'
    BY DEF SecretsIInv, HistoryInv, Ordered, Kept
  <2>4. ASSUME NEW w \in Writers PROVE Knows(w)'
    <3>1. CASE stage'[w] = "idle"
      BY <3>1 DEF Knows
    <3>2. CASE stage'[w] # "idle"
      <4>1. Knows(w)
        BY DEF SecretsIInv, HistoryInv
      <4> QED
        BY <3>2, <4>1, <2>2 DEF Knows, Row0
    <3> QED
      BY <3>1, <3>2
  <2>5. \A i, j \in Active : i = j
    BY DEF SecretsIInv, HistoryInv
  <2> QED
    BY <2>1, <2>2, <2>3, <2>4, <2>5 DEF HistoryInv
<1> QED
  BY <1>1, <1>2 DEF SecretsIInv

\* A request that begins by finding its row, when it knows what it found.
LEMMA FindKeeps ==
    ASSUME SecretsIInv, SecretsTypeOK', NEW w \in Writers, NEW st \in Stages,
           stage[w] = "idle", Go(w, st),
           \A u \in Writers \ {w} :
              /\ about'[u] = about[u] /\ wanted'[u] = wanted[u]
              /\ entity'[u] = entity[u] /\ selected'[u] = selected[u],
           overlapped' = (overlapped \/ \E u \in Writers \ {w} : stage[u] # "idle"),
           upserted => upserted', UNCHANGED <<secret, versions, held>>,
           st \notin {"idle", "create"} => about'[w] \in Ids,
           st \in {"archive", "create"} => wanted'[w] \in 0 .. MaxValues,
           ~overlapped => Knows(w)'
    PROVE  SecretsIInv'
<1>1. stage'[w] = st /\ \A u \in Writers \ {w} : stage'[u] = stage[u]
  BY DEF SecretsIInv, SecretsTypeOK, Go
<1>2. Placed'
  BY <1>1 DEF SecretsIInv, Placed
<1>3. HistoryInv'
  <2> SUFFICES ASSUME ~overlapped' PROVE HistoryInv'
    BY DEF HistoryInv
  <2>1. ~overlapped /\ \A u \in Writers \ {w} : stage'[u] = "idle"
    BY <1>1 DEF SecretsIInv, SecretsTypeOK
  <2>2. \A x, u \in Writers : stage'[x] # "idle" /\ stage'[u] # "idle" => x = u
    BY <2>1
  <2>3. (\A i, j \in Active : i = j)' /\ Ordered' /\ Kept'
    BY <2>1 DEF SecretsIInv, HistoryInv, Active, Ordered, Kept
  <2>4. \A u \in Writers : Knows(u)'
    BY <2>1 DEF Knows
  <2> QED
    BY <2>2, <2>3, <2>4 DEF HistoryInv
<1> QED
  BY <1>2, <1>3 DEF SecretsIInv

\* A request at work goes on, and writes the history at most.
LEMMA WorkKeeps ==
    ASSUME SecretsIInv, SecretsTypeOK', NEW w \in Writers, NEW st \in Stages,
           stage[w] # "idle", Go(w, st),
           \A u \in Writers \ {w} :
              /\ about'[u] = about[u] /\ wanted'[u] = wanted[u]
              /\ entity'[u] = entity[u] /\ selected'[u] = selected[u],
           UNCHANGED <<secret, overlapped, upserted, held>>, versions \subseteq versions',
           st \notin {"idle", "create"} => about'[w] \in Ids,
           st \in {"archive", "create"} => wanted'[w] \in 0 .. MaxValues,
           ~overlapped => Ordered' /\ Knows(w)'
    PROVE  SecretsIInv'
<1>1. stage'[w] = st /\ \A u \in Writers \ {w} : stage'[u] = stage[u]
  BY DEF SecretsIInv, SecretsTypeOK, Go
<1>2. Placed'
  BY <1>1 DEF SecretsIInv, Placed
<1>3. HistoryInv'
  <2> SUFFICES ASSUME ~overlapped PROVE HistoryInv'
    BY DEF HistoryInv
  <2>1. \A u \in Writers \ {w} : stage'[u] = "idle"
    BY <1>1 DEF SecretsIInv, HistoryInv
  <2>2. \A x, u \in Writers : stage'[x] # "idle" /\ stage'[u] # "idle" => x = u
    BY <2>1
  <2>3. (\A i, j \in Active : i = j)' /\ Kept'
    BY DEF SecretsIInv, HistoryInv, Active, Kept
  <2>4. \A u \in Writers : Knows(u)'
    BY <2>1 DEF Knows
  <2> QED
    BY <2>2, <2>3, <2>4 DEF HistoryInv
<1> QED
  BY <1>2, <1>3 DEF SecretsIInv

LEMMA NoRowIsRow == NoRow \in Row /\ None \in 0 .. MaxValues /\ None \in 0 .. MaxValues + MaxVersion
BY SecretsAssumption DEF NoRow, Row, None

\* A request that finds a row, or none.
LEMMA FoundKeeps ==
    ASSUME SecretsIInv, NEW w \in Writers, NEW i \in Ids \cup {Nowhere},
           NEW st \in Stages, NEW copy \in Row, NEW v \in 0 .. MaxValues + MaxVersion,
           Find(w, i, st, copy, v), values' \in 0 .. MaxValues,
           st \notin {"idle", "create"} => i \in Ids,
           st \in {"archive", "create"} => v \in 0 .. MaxValues,
           ~overlapped => Knows(w)'
    PROVE  SecretsIInv'
<1>1. SecretsTypeOK'
  BY DEF SecretsIInv, SecretsTypeOK, Find, Go
<1>2. about'[w] = i /\ wanted'[w] = v
  BY DEF SecretsIInv, SecretsTypeOK, Find
<1>3. \A u \in Writers \ {w} :
        /\ about'[u] = about[u] /\ wanted'[u] = wanted[u]
        /\ entity'[u] = entity[u] /\ selected'[u] = selected[u]
  BY DEF SecretsIInv, SecretsTypeOK, Find
<1>4. stage[w] = "idle" /\ Go(w, st) /\ UNCHANGED <<secret, versions, held>> /\ upserted' = upserted
  BY DEF Find
<1>5. overlapped' = (overlapped \/ \E u \in Writers \ {w} : stage[u] # "idle")
  BY DEF Find
<1> QED
  BY <1>1, <1>2, <1>3, <1>4, <1>5, FindKeeps

LEMMA SetKeeps ==
    ASSUME SecretsIInv, NEW w \in Writers, NEW v \in 1 .. MaxValues, Set(w, v)
    PROVE  SecretsIInv'
<1>1. values' \in 0 .. MaxValues /\ v \in 0 .. MaxValues /\ v \in 0 .. MaxValues + MaxVersion
  BY SecretsAssumption DEF Set, NewValue
<1>2. ASSUME NEW i \in Active, Find(w, i, "archive", secret[i], v)
      PROVE  SecretsIInv'
  <2>1. i \in Ids /\ secret[i].active /\ secret[i] \in Row
    BY DEF Active, SecretsIInv, SecretsTypeOK
  <2>2. Knows(w)'
    BY <1>2, <2>1 DEF Find, Go, Knows, Row0, SecretsIInv, SecretsTypeOK
  <2> QED
    BY <1>1, <1>2, <2>1, <2>2, FoundKeeps DEF Stages
<1>3. CASE Active = {} /\ Find(w, Nowhere, "create", NoRow, v)
  <2>1. Knows(w)'
    BY <1>3 DEF Find, Go, Knows, Active, SecretsIInv, SecretsTypeOK
  <2> QED
    BY <1>1, <1>3, <2>1, NoRowIsRow, FoundKeeps DEF Stages
<1> QED
  BY <1>2, <1>3 DEF Set

LEMMA DeleteKeeps ==
    ASSUME SecretsIInv, NEW w \in Writers, NEW i \in Ids, Delete(w, i)
    PROVE  SecretsIInv'
<1> DEFINE copy == [secret[i] EXCEPT !.active = FALSE]
<1>1. secret[i] \in Row /\ copy \in Row /\ secret[i].active
  BY DEF SecretsIInv, SecretsTypeOK, Row, Delete
<1>2. Find(w, i, "save", copy, None) /\ values' \in 0 .. MaxValues
  BY DEF Delete, SecretsIInv, SecretsTypeOK
<1>3. Knows(w)'
  <2>1. stage'[w] = "save" /\ about'[w] = i /\ entity'[w] = copy /\ secret' = secret
    BY <1>2 DEF Find, Go, SecretsIInv, SecretsTypeOK
  <2>2. Row0(w)' = secret[i]
    BY <2>1 DEF Row0
  <2>3. entity'[w] = [Row0(w)' EXCEPT !.active = FALSE]
    BY <2>1, <2>2
  <2> QED
    BY <1>1, <2>1, <2>2, <2>3 DEF Knows
<1> HIDE DEF copy
<1> QED
  BY <1>1, <1>2, <1>3, NoRowIsRow, FoundKeeps DEF Stages

LEMMA RollbackKeeps ==
    ASSUME SecretsIInv, NEW w \in Writers, NEW i \in Ids, NEW n \in 1 .. MaxVersion,
           Rollback(w, i, n)
    PROVE  SecretsIInv'
<1>1. secret[i] \in Row /\ secret[i].active /\ n \in 0 .. MaxValues + MaxVersion
  BY SecretsAssumption DEF SecretsIInv, SecretsTypeOK, Rollback
<1>2. Find(w, i, "lookup", secret[i], n) /\ values' \in 0 .. MaxValues
  BY DEF Rollback, SecretsIInv, SecretsTypeOK
<1>3. Knows(w)'
  BY <1>1, <1>2 DEF Find, Go, Knows, Row0, SecretsIInv, SecretsTypeOK
<1> QED
  BY <1>1, <1>2, <1>3, FoundKeeps DEF Stages

\* upsertSecret finds a row, and will save it without a history.
LEMMA UpsertKeeps ==
    ASSUME SecretsIInv, NEW w \in Writers, NEW v \in 0 .. MaxValues, Upsert(w, v),
           values' \in 0 .. MaxValues
    PROVE  SecretsIInv'
<1>1. v \in 0 .. MaxValues + MaxVersion
  BY SecretsAssumption
<1>2. ASSUME NEW i \in Active, stage[w] = "idle", secret[i].version < MaxVersion, Go(w, "save"),
             about' = [about EXCEPT ![w] = i],
             entity' = [entity EXCEPT ![w] =
                   [secret[i] EXCEPT !.value = v, !.version = secret[i].version + 1]],
             wanted' = [wanted EXCEPT ![w] = v],
             overlapped' = (overlapped \/ \E u \in Writers \ {w} : stage[u] # "idle"),
             upserted' = TRUE, UNCHANGED <<secret, versions, selected, held>>
      PROVE  SecretsIInv'
  <2> DEFINE copy == [secret[i] EXCEPT !.value = v, !.version = secret[i].version + 1]
  <2>1. i \in Ids /\ secret[i].active /\ secret[i] \in Row
    BY DEF Active, SecretsIInv, SecretsTypeOK
  <2>2. secret[i].version + 1 \in 0 .. MaxVersion
    BY <1>2, <2>1, SecretsAssumption DEF Row
  <2>3. copy \in Row /\ copy.active /\ copy.version = secret[i].version + 1
    BY <2>1, <2>2 DEF Row
  <2>4. entity' = [entity EXCEPT ![w] = copy]
    BY <1>2
  <2> HIDE DEF copy
  <2>5. SecretsTypeOK'
    BY <1>1, <1>2, <2>1, <2>3, <2>4 DEF SecretsIInv, SecretsTypeOK, Go, Stages
  <2>6. stage'[w] = "save" /\ about'[w] = i /\ entity'[w] = copy /\ Row0(w)' = secret[i]
    BY <1>2, <2>1, <2>4 DEF Go, Row0, SecretsIInv, SecretsTypeOK
  <2>7. Knows(w)'
    BY <1>2, <2>1, <2>3, <2>6 DEF Knows
  <2>8. \A u \in Writers \ {w} :
          /\ about'[u] = about[u] /\ wanted'[u] = wanted[u]
          /\ entity'[u] = entity[u] /\ selected'[u] = selected[u]
    BY <1>2, <2>4 DEF SecretsIInv, SecretsTypeOK
  <2> QED
    BY <1>2, <2>1, <2>5, <2>6, <2>7, <2>8, FindKeeps DEF Stages
<1>3. CASE Active = {} /\ Find(w, Nowhere, "create", NoRow, v)
  <2>1. Knows(w)'
    BY <1>3 DEF Find, Go, Knows, Active, SecretsIInv, SecretsTypeOK
  <2> QED
    BY <1>1, <1>3, <2>1, NoRowIsRow, FoundKeeps DEF Stages
<1> QED
  BY <1>2, <1>3 DEF Upsert

\* What Forget does to the writers.
LEMMA Forgotten ==
    ASSUME SecretsIInv, NEW w \in Writers, Forget(w)
    PROVE  /\ stage' \in [Writers -> Stages] /\ about' \in [Writers -> Ids \cup {Nowhere}]
           /\ entity' \in [Writers -> Row] /\ selected' \in [Writers -> Row]
           /\ wanted' \in [Writers -> 0 .. MaxValues + MaxVersion]
           /\ stage'[w] = "idle"
           /\ \A u \in Writers \ {w} :
                /\ stage'[u] = stage[u] /\ about'[u] = about[u] /\ wanted'[u] = wanted[u]
                /\ entity'[u] = entity[u] /\ selected'[u] = selected[u]
BY NoRowIsRow DEF SecretsIInv, SecretsTypeOK, Forget, Go, Stages

LEMMA ForgetKeeps ==
    ASSUME SecretsIInv, NEW w \in Writers, Forget(w), values' \in 0 .. MaxValues,
           UNCHANGED <<secret, versions, overlapped, upserted, held>>
    PROVE  SecretsIInv'
<1>1. SecretsTypeOK'
  BY Forgotten DEF SecretsIInv, SecretsTypeOK
<1> QED
  BY <1>1, Forgotten, EndKeeps

LEMMA LookupKeeps ==
    ASSUME SecretsIInv, NEW w \in Writers, Lookup(w)
    PROVE  SecretsIInv'
<1> DEFINE matches == {h \in versions : h.secret = about[w] /\ h.version = wanted[w]}
<1>1. ASSUME NEW h \in matches, wanted' = [wanted EXCEPT ![w] = h.value], Go(w, "archive"),
             UNCHANGED <<about, entity, selected>>
      PROVE  SecretsIInv'
  <2>1. h.value \in 0 .. MaxValues /\ h.value \in 0 .. MaxValues + MaxVersion
    BY SecretsAssumption DEF SecretsIInv, SecretsTypeOK, Version
  <2>2. UNCHANGED <<secret, versions, values, overlapped, upserted, held>> /\ stage[w] = "lookup"
    BY DEF Lookup
  <2>3. SecretsTypeOK'
    BY <1>1, <2>1, <2>2 DEF SecretsIInv, SecretsTypeOK, Go, Stages
  <2>4. about'[w] \in Ids /\ wanted'[w] = h.value /\ stage'[w] = "archive"
    BY <1>1, <2>2 DEF SecretsIInv, SecretsTypeOK, Placed, Go
  <2>5. ~overlapped => Ordered' /\ Knows(w)'
    BY <1>1, <2>2, <2>4 DEF SecretsIInv, HistoryInv, Ordered, Knows, Row0
  <2>6. \A u \in Writers \ {w} :
          /\ about'[u] = about[u] /\ wanted'[u] = wanted[u]
          /\ entity'[u] = entity[u] /\ selected'[u] = selected[u]
    BY <1>1 DEF SecretsIInv, SecretsTypeOK
  <2> QED
    BY <1>1, <2>1, <2>2, <2>3, <2>4, <2>5, <2>6, WorkKeeps DEF Stages
<1>2. CASE matches = {} /\ Forget(w)
  BY <1>2, ForgetKeeps DEF Lookup, SecretsIInv, SecretsTypeOK
<1> QED
  BY <1>1, <1>2 DEF Lookup

LEMMA SelectKeeps ==
    ASSUME SecretsIInv, NEW w \in Writers, Select(w)
    PROVE  SecretsIInv'
<1>1. /\ UNCHANGED <<secret, versions, values, about, entity, wanted, overlapped, upserted, held>>
      /\ stage[w] = "save" /\ Go(w, "update")
      /\ selected' = [selected EXCEPT ![w] = secret[about[w]]]
  BY DEF Select
<1>2. about[w] \in Ids /\ secret[about[w]] \in Row
  BY <1>1 DEF SecretsIInv, SecretsTypeOK, Placed
<1>3. SecretsTypeOK'
  BY <1>1, <1>2 DEF SecretsIInv, SecretsTypeOK, Go, Stages
<1>4. ~overlapped => Ordered'
  BY <1>1 DEF SecretsIInv, HistoryInv, Ordered
<1>5. ~overlapped => Knows(w)'
  <2>1. Row0(w)' = Row0(w) /\ selected'[w] = Row0(w) /\ entity'[w] = entity[w] /\ stage'[w] = "update"
    BY <1>1 DEF Row0, SecretsIInv, SecretsTypeOK, Go
  <2> QED
    BY <1>1, <2>1 DEF SecretsIInv, HistoryInv, Knows
<1>6. \A u \in Writers \ {w} :
        /\ about'[u] = about[u] /\ wanted'[u] = wanted[u]
        /\ entity'[u] = entity[u] /\ selected'[u] = selected[u]
  BY <1>1 DEF SecretsIInv, SecretsTypeOK
<1> QED
  BY <1>1, <1>2, <1>3, <1>4, <1>5, <1>6, WorkKeeps DEF Stages

\* The value found goes into the history, where it is the newest.
LEMMA ArchiveKeeps ==
    ASSUME SecretsIInv, NEW w \in Writers, Archive(w)
    PROVE  SecretsIInv'
<1> DEFINE old == entity[w]
           new == [old EXCEPT !.value = wanted[w], !.version = old.version + 1]
           past == [secret |-> about[w], value |-> old.value, version |-> old.version]
<1>1. /\ UNCHANGED <<secret, values, about, selected, wanted, overlapped, upserted, held>>
      /\ stage[w] = "archive" /\ Go(w, "save") /\ old.version < MaxVersion
      /\ versions' = versions \cup {past} /\ entity' = [entity EXCEPT ![w] = new]
  BY DEF Archive
<1>2. about[w] \in Ids /\ old \in Row /\ wanted[w] \in 0 .. MaxValues
  BY <1>1 DEF SecretsIInv, SecretsTypeOK, Placed
<1>3. old.version + 1 \in 0 .. MaxVersion
  BY <1>1, <1>2, SecretsAssumption DEF Row
<1>4. new \in Row /\ new.active = old.active /\ new.version = old.version + 1
  BY <1>2, <1>3 DEF Row
<1>5. past \in Version /\ past.secret = about[w] /\ past.value = old.value
      /\ past.version = old.version
  BY <1>2 DEF Row, Version
<1> HIDE DEF new, past
<1>6. SecretsTypeOK'
  BY <1>1, <1>4, <1>5 DEF SecretsIInv, SecretsTypeOK, Go, Stages
<1>7. ASSUME ~overlapped PROVE Ordered' /\ Knows(w)'
  <2>1. old = Row0(w) /\ Row0(w).active /\ Ordered
    BY <1>1, <1>7 DEF SecretsIInv, HistoryInv, Knows
  <2>2. Row0(w).version > 0 /\ Row0(w).version \in Nat
    BY <1>2, <2>1, SecretsAssumption DEF Ordered, Row0, Row
  <2>3. Ordered'
    <3>1. \A i \in Ids : secret'[i].active => secret'[i].version > 0
      BY <1>1, <2>1 DEF Ordered
    <3>2. ASSUME NEW h \in versions'
          PROVE  LET r == secret'[h.secret] IN
                    /\ r.version > 0 /\ h.version <= r.version
                    /\ h.version = r.version => h.value = r.value
      BY <1>1, <1>5, <2>1, <2>2 DEF Ordered, Row0
    <3>3. ASSUME NEW h \in versions', NEW k \in versions',
                 k.secret = h.secret, k.version = h.version
          PROVE  k.value = h.value
      BY <1>1, <1>5, <2>1, <3>3 DEF Ordered, Row0
    <3> QED
      BY <3>1, <3>2, <3>3 DEF Ordered
  <2>4. /\ Row0(w)' = Row0(w) /\ entity'[w] = new /\ stage'[w] = "save"
        /\ about'[w] = about[w]
    BY <1>1 DEF Row0, SecretsIInv, SecretsTypeOK, Go
  <2>5. past = [secret |-> about'[w], value |-> Row0(w)'.value, version |-> Row0(w)'.version]
    BY <2>1, <2>4 DEF past
  <2> QED
    BY <1>1, <1>4, <2>1, <2>3, <2>4, <2>5 DEF Knows
<1>8. \A u \in Writers \ {w} :
        /\ about'[u] = about[u] /\ wanted'[u] = wanted[u]
        /\ entity'[u] = entity[u] /\ selected'[u] = selected[u]
  BY <1>1 DEF SecretsIInv, SecretsTypeOK
<1> QED
  BY <1>1, <1>2, <1>6, <1>7, <1>8, WorkKeeps DEF Stages

\* A writer that is alone ends by writing one row: what the rest of the invariant asks of it.
LEMMA RowKeeps ==
    ASSUME SecretsIInv, NEW w \in Writers, stage[w] # "idle", Forget(w),
           NEW i \in Ids, NEW r \in Row, secret' = [secret EXCEPT ![i] = r],
           held' = held \cup {<<i, r.value>>},
           UNCHANGED <<versions, values, overlapped, upserted>>,
           ~overlapped =>
              /\ (\A x, y \in Active : x = y)'
              /\ r.version > 0 /\ secret[i].version <= r.version
              /\ secret[i].version = r.version => secret[i].value = r.value
              /\ \/ upserted \/ secret[i].value = r.value \/ secret[i].version = 0
                 \/ \E h \in versions : h.secret = i /\ h.value = secret[i].value
    PROVE  SecretsIInv'
<1>1. r.value \in 0 .. MaxValues
  BY DEF Row
<1>2. SecretsTypeOK'
  BY <1>1, Forgotten DEF SecretsIInv, SecretsTypeOK
<1>3. Placed'
  BY Forgotten DEF SecretsIInv, Placed
<1>4. ASSUME ~overlapped PROVE HistoryInv'
  <2>1. \A u \in Writers : stage'[u] = "idle"
    BY <1>4, Forgotten DEF SecretsIInv, HistoryInv
  <2>2. \A u \in Writers : Knows(u)'
    BY <2>1 DEF Knows
  <2>3. /\ \A j \in Ids \ {i} : secret'[j] = secret[j]
        /\ secret'[i] = r
    BY DEF SecretsIInv, SecretsTypeOK
  <2>4. /\ r.version \in Nat /\ secret[i].version \in Nat
        /\ \A h \in versions : h.version \in Nat /\ h.secret \in Ids
    BY SecretsAssumption DEF SecretsIInv, SecretsTypeOK, Row, Version
  <2>5. Ordered
    BY <1>4 DEF SecretsIInv, HistoryInv
  <2>6. Ordered'
    <3>1. \A j \in Ids : secret'[j].active => secret'[j].version > 0
      BY <1>4, <2>3, <2>5 DEF Ordered
    <3>2. ASSUME NEW h \in versions
          PROVE  /\ secret'[h.secret].version > 0 /\ h.version <= secret'[h.secret].version
                 /\ h.version = secret'[h.secret].version => h.value = secret'[h.secret].value
      <4>1. CASE h.secret # i
        BY <2>3, <2>4, <2>5, <4>1 DEF Ordered
      <4>2. CASE h.secret = i
        <5>1. h.version <= secret[i].version
              /\ (h.version = secret[i].version => h.value = secret[i].value)
          BY <2>5, <4>2 DEF Ordered
        <5>2. /\ r.version > 0 /\ secret[i].version <= r.version
              /\ secret[i].version = r.version => secret[i].value = r.value
          BY <1>4
        <5> QED
          BY <2>3, <2>4, <4>2, <5>1, <5>2
      <4> QED
        BY <4>1, <4>2
    <3> QED
      BY <2>5, <3>1, <3>2 DEF Ordered
  <2>7. Kept'
    <3> SUFFICES ASSUME NEW p \in held'
                 PROVE  /\ secret'[p[1]].version > 0
                        /\ \/ upserted \/ secret'[p[1]].value = p[2]
                           \/ \E h \in versions : h.secret = p[1] /\ h.value = p[2]
      BY DEF Kept
    <3>1. CASE p = <<i, r.value>>
      BY <1>4, <2>3, <3>1
    <3>2. CASE p \in held
      <4>1. /\ secret[p[1]].version > 0 /\ p[1] \in Ids
            /\ \/ upserted \/ secret[p[1]].value = p[2]
               \/ \E h \in versions : h.secret = p[1] /\ h.value = p[2]
        BY <1>4, <3>2 DEF SecretsIInv, SecretsTypeOK, HistoryInv, Kept
      <4>2. CASE p[1] # i
        BY <2>3, <4>1, <4>2
      <4>3. CASE p[1] = i
        BY <1>4, <2>3, <2>4, <4>1, <4>3
      <4> QED
        BY <4>2, <4>3
    <3> QED
      BY <3>1, <3>2
  <2> QED
    BY <1>4, <2>1, <2>2, <2>6, <2>7 DEF HistoryInv
<1>5. HistoryInv'
  BY <1>4 DEF HistoryInv
<1> QED
  BY <1>2, <1>3, <1>5 DEF SecretsIInv

LEMMA UpdateKeeps ==
    ASSUME SecretsIInv, NEW w \in Writers, Update(w)
    PROVE  SecretsIInv'
<1> DEFINE i == about[w]
           r == Saved(secret[i], selected[w], entity[w])
<1>1. /\ stage[w] = "update" /\ Forget(w) /\ secret' = [secret EXCEPT ![i] = r]
      /\ held' = held \cup {<<i, secret'[i].value>>}
      /\ UNCHANGED <<versions, values, overlapped, upserted>>
  BY DEF Update
<1>2. i \in Ids
  BY <1>1 DEF SecretsIInv, Placed
<1>3. secret[i] \in Row /\ selected[w] \in Row /\ entity[w] \in Row
  BY <1>2 DEF SecretsIInv, SecretsTypeOK
<1>4. r \in Row /\ (selected[w] = secret[i] => r = entity[w])
  BY <1>3, SavedRow
<1>5. secret'[i] = r
  BY <1>1, <1>2 DEF SecretsIInv, SecretsTypeOK
<1>6. ASSUME ~overlapped
      PROVE  /\ (\A x, y \in Active : x = y)'
             /\ r.version > 0 /\ secret[i].version <= r.version
             /\ secret[i].version = r.version => secret[i].value = r.value
             /\ \/ upserted \/ secret[i].value = r.value
                \/ \E h \in versions : h.secret = i /\ h.value = secret[i].value
  <2>1. Knows(w) /\ Ordered /\ \A x, y \in Active : x = y
    BY <1>6 DEF SecretsIInv, HistoryInv
  <2>2. secret[i].active /\ r = entity[w]
    BY <1>1, <1>4, <2>1 DEF Knows, Row0
  <2>3. Active' \subseteq Active
    BY <1>1, <1>2, <2>2 DEF Active, SecretsIInv, SecretsTypeOK
  <2>4. secret[i].version \in Nat /\ secret[i].version > 0
    BY <1>2, <1>3, <2>1, <2>2, SecretsAssumption DEF Ordered, Row
  <2>5. CASE r = [secret[i] EXCEPT !.active = FALSE]
    <3>1. r.version = secret[i].version /\ r.value = secret[i].value
      BY <1>3, <2>5 DEF Row
    <3> QED
      BY <2>1, <2>3, <2>4, <3>1
  <2>6. CASE /\ r.version = secret[i].version + 1
             /\ \/ upserted
                \/ [secret |-> i, value |-> secret[i].value, version |-> secret[i].version]
                        \in versions
    BY <2>1, <2>3, <2>4, <2>6
  <2> QED
    BY <1>1, <2>1, <2>2, <2>5, <2>6 DEF Knows, Row0
<1> HIDE DEF r
<1> QED
  BY <1>1, <1>2, <1>4, <1>5, <1>6, RowKeeps

LEMMA CreateKeeps ==
    ASSUME SecretsIInv, NEW w \in Writers, NEW i \in Ids, Create(w, i)
    PROVE  SecretsIInv'
<1> DEFINE r == [active |-> TRUE, value |-> wanted[w], version |-> 1]
<1>1. /\ stage[w] = "create" /\ Forget(w) /\ secret[i] = NoRow
      /\ secret' = [secret EXCEPT ![i] = r] /\ held' = held \cup {<<i, wanted[w]>>}
      /\ UNCHANGED <<versions, values, overlapped, upserted>>
  BY DEF Create
<1>2. wanted[w] \in 0 .. MaxValues
  BY <1>1 DEF SecretsIInv, Placed
<1>3. 1 \in 0 .. MaxVersion
  BY SecretsAssumption
<1>4. r \in Row /\ r.value = wanted[w] /\ r.version = 1
  BY <1>2, <1>3 DEF Row
<1>5. ASSUME ~overlapped PROVE (\A x, y \in Active : x = y)'
  <2>1. Active = {}
    BY <1>1, <1>5 DEF SecretsIInv, HistoryInv, Knows
  <2>2. Active' \subseteq {i}
    BY <1>1, <2>1 DEF Active, SecretsIInv, SecretsTypeOK
  <2> QED
    BY <2>2
<1>6. secret[i].version = 0
  BY <1>1 DEF NoRow, None
<1> HIDE DEF r
<1>7. r.version > 0 /\ secret[i].version <= r.version /\ secret[i].version # r.version
  BY <1>4, <1>6
<1>8. secret' = [secret EXCEPT ![i] = r] /\ held' = held \cup {<<i, r.value>>}
  BY <1>1, <1>4
<1> QED
  BY <1>1, <1>4, <1>5, <1>6, <1>7, <1>8, RowKeeps

\* The statements of a request after it has found its row.
LEMMA SaveKeeps ==
    ASSUME SecretsIInv, NEW w \in Writers, Save(w)
    PROVE  SecretsIInv'
BY ArchiveKeeps, SelectKeeps, UpdateKeeps, CreateKeeps DEF Save

LEMMA RouteKeeps ==
    ASSUME SecretsIInv, NEW w \in Writers, Route(w)
    PROVE  SecretsIInv'
BY SetKeeps, DeleteKeeps, RollbackKeeps, LookupKeeps DEF Route

LEMMA AbandonKeeps ==
    ASSUME SecretsIInv, NEW w \in Writers, Abandon(w)
    PROVE  SecretsIInv'
BY ForgetKeeps DEF Abandon, SecretsIInv, SecretsTypeOK

\* Nothing but the number of values changes.
LEMMA ValuesKeep ==
    ASSUME SecretsIInv, values' \in 0 .. MaxValues,
           UNCHANGED <<secret, versions, stage, about, entity, selected, wanted, overlapped,
                       upserted, held>>
    PROVE  SecretsIInv'
<1>1. SecretsTypeOK'
  BY DEF SecretsIInv, SecretsTypeOK
<1> QED
  BY <1>1, EndKeeps

\* The actions of ProjectDatabase, by what they do to the secret.
LEMMA SecretsStep == SecretsIInv /\ TypeOK /\ [Next]_vars => SecretsIInv'
<1> SUFFICES ASSUME SecretsIInv, TypeOK, [Next]_vars PROVE SecretsIInv'
  OBVIOUS
<1>1. ASSUME NEW w \in Writers \ Provisioners, Write(w) PROVE SecretsIInv'
  BY <1>1, RouteKeeps, SaveKeeps, AbandonKeeps DEF Write
<1>2. CASE UNCHANGED secrets
  BY <1>2, ValuesKeep DEF secrets, TypeOK, SecretsTypeOK
<1>3. ASSUME NEW p \in Provisioners PROVE p \in Writers /\ pw[p] \in 0 .. MaxValues
  BY DatabaseAssumption DEF TypeOK, Passwords
<1>4. ASSUME NEW v \in 1 .. MaxValues, NewValue(v) PROVE values' \in 0 .. MaxValues
  BY <1>4 DEF NewValue
<1>5. ASSUME NEW p \in Provisioners, NEW v \in 1 .. MaxValues,
             EnsureFresh(p, v) \/ Provision(p, v)
      PROVE  SecretsIInv'
  BY <1>4, <1>5, ValuesKeep DEF EnsureFresh, Provision
<1>6. ASSUME NEW p \in Provisioners, NEW v \in 1 .. MaxValues, FallBack(p, v)
      PROVE  SecretsIInv'
  BY <1>3, <1>4, <1>6, ForgetKeeps DEF FallBack, Forget, Go
<1>7. ASSUME NEW p \in Provisioners, Store(p) PROVE SecretsIInv'
  BY <1>3, <1>7, UpsertKeeps DEF Store, TypeOK, SecretsTypeOK
<1>8. ASSUME NEW p \in Provisioners, Stored(p) PROVE SecretsIInv'
  BY <1>3, <1>8, SaveKeeps DEF Stored
<1>9. ASSUME NEW p \in Provisioners, GiveUp(p) \/ Unstored(p) PROVE SecretsIInv'
  BY <1>3, <1>9, ForgetKeeps DEF GiveUp, Unstored, TypeOK, SecretsTypeOK
<1>10. CASE Crash
  <2>1. SecretsTypeOK'
    BY <1>10, NoRowIsRow DEF Crash, TypeOK, SecretsTypeOK, Stages
  <2> QED
    BY <1>10, <2>1, EndKeeps DEF Crash
<1>11. ASSUME NEW p \in Provisioners,
              \/ \E i \in Ids : EnsureStored(p, i)
              \/ Bind(p) \/ MakeRole(p) \/ CheckDb(p) \/ MakeDb(p) \/ Grant(p) \/ Name(p)
              \/ (\E v \in Passwords : Answer(p, v)) \/ AnswerUnread(p)
       PROVE  SecretsIInv'
  BY <1>2, <1>11 DEF EnsureStored, Bind, MakeRole, CheckDb, MakeDb, Grant, Name, Answer, AnswerUnread, AnsweredWith
<1> QED
  BY <1>1, <1>2, <1>5, <1>6, <1>7, <1>8, <1>9, <1>10, <1>11 DEF Next, vars

-----------------------------------------------------------------------------
(* The password *)

\* The columns of ProjectDatabase are typed.
DatabaseTypeOK ==
    /\ role \in Passwords /\ db \in BOOLEAN /\ named \in BOOLEAN
    /\ step \in [Provisioners -> Steps] /\ mode \in [Provisioners -> Modes]
    /\ pw \in [Provisioners -> Passwords]
    /\ faults \in 0 .. MaxFaults
    /\ lone \subseteq Provisioners
    /\ ready \in [mode : Modes \cup {"nothing", "platform"}, pw : Passwords]

LEMMA Typed == TypeOK <=> SecretsTypeOK /\ DatabaseTypeOK
BY DEF TypeOK, DatabaseTypeOK

LEMMA Quitting ==
    ASSUME NEW p \in Provisioners, DatabaseTypeOK, Quit(p)
    PROVE  /\ step' \in [Provisioners -> Steps] /\ mode' \in [Provisioners -> Modes]
           /\ pw' \in [Provisioners -> Passwords]
BY NoRowIsRow DEF DatabaseTypeOK, Quit, To, Steps, Modes, Passwords

LEMMA Starting ==
    ASSUME NEW p \in Provisioners, NEW m \in Modes, NEW st \in Steps, NEW v \in Passwords,
           DatabaseTypeOK, Start(p, m, st, v), UNCHANGED database, faults' \in 0 .. MaxFaults
    PROVE  DatabaseTypeOK'
<1>1. Nothing \in [mode : Modes \cup {"nothing", "platform"}, pw : Passwords]
  BY NoRowIsRow DEF Nothing, Passwords
<1> QED
  BY <1>1 DEF DatabaseTypeOK, Start, To, database

LEMMA DatabaseTypes ==
    ASSUME TypeOK, [Next]_vars
    PROVE  DatabaseTypeOK'
<1> USE Typed
<1>1. ASSUME NEW w \in Writers \ Provisioners, Write(w) PROVE DatabaseTypeOK'
  BY <1>1, NoRowIsRow DEF Write, DatabaseTypeOK, database, work, Nothing, Passwords
<1>2. ASSUME NEW p \in Provisioners, NEW i \in Ids, EnsureStored(p, i) PROVE DatabaseTypeOK'
  BY <1>2, Starting DEF EnsureStored, SecretsTypeOK, DatabaseTypeOK, Row, Passwords, Modes, Steps
<1>3. ASSUME NEW p \in Provisioners, NEW v \in 1 .. MaxValues,
             EnsureFresh(p, v) \/ Provision(p, v)
      PROVE  DatabaseTypeOK'
  <2>1. v \in Passwords
    BY DEF Passwords
  <2>2. faults' \in 0 .. MaxFaults
    BY <1>3, DatabaseAssumption DEF EnsureFresh, Provision, Fault, DatabaseTypeOK
  <2> QED
    BY <1>3, <2>1, <2>2, Starting DEF EnsureFresh, Provision, Modes, Steps
<1>4. ASSUME Fault PROVE faults' \in 0 .. MaxFaults
  BY <1>4, DatabaseAssumption DEF Fault, DatabaseTypeOK
<1>5. ASSUME NEW p \in Provisioners, Fails(p) PROVE faults' \in 0 .. MaxFaults
  BY <1>4, <1>5 DEF Fails, DatabaseTypeOK
<1>6. ASSUME NEW p \in Provisioners, NEW v \in 1 .. MaxValues, FallBack(p, v)
      PROVE  DatabaseTypeOK'
  <2>1. v \in Passwords
    BY DEF Passwords
  <2> QED
    BY <1>5, <1>6, <2>1 DEF FallBack, DatabaseTypeOK, To, database, Steps, Modes
<1>7. ASSUME NEW p \in Provisioners,
             \/ Bind(p) \/ MakeRole(p) \/ CheckDb(p) \/ MakeDb(p) \/ Grant(p) \/ Name(p)
             \/ Store(p) \/ Stored(p)
      PROVE  DatabaseTypeOK'
  <2>1. ASSUME NEW st \in Steps, To(p, st) PROVE step' \in [Provisioners -> Steps]
    BY <2>1 DEF To, DatabaseTypeOK
  <2>2. pw[p] \in Passwords
    BY DEF DatabaseTypeOK
  <2>3. CASE Bind(p)
    BY <2>1, <2>2, <2>3 DEF Bind, DatabaseTypeOK, Steps
  <2>4. CASE MakeRole(p)
    BY <2>1, <2>2, <2>4 DEF MakeRole, DatabaseTypeOK, Steps
  <2>5. CASE CheckDb(p) \/ Grant(p) \/ Store(p)
    BY <2>1, <2>5 DEF CheckDb, Grant, Store, DatabaseTypeOK, database, Steps
  <2>6. CASE MakeDb(p) \/ Name(p)
    BY <2>1, <2>6 DEF MakeDb, Name, DatabaseTypeOK, Steps
  <2>7. CASE Stored(p)
    BY <2>1, <2>7 DEF Stored, DatabaseTypeOK, database, Steps
  <2> QED
    BY <1>7, <2>3, <2>4, <2>5, <2>6, <2>7
<1>8. ASSUME NEW p \in Provisioners, (\E v \in Passwords : Answer(p, v)) \/ AnswerUnread(p) PROVE DatabaseTypeOK'
  <2>1. PICK m \in Modes \cup {"platform"}, v \in Passwords : AnsweredWith(p, m, v)
    BY <1>8, NoRowIsRow DEF Answer, AnswerUnread, DatabaseTypeOK, Passwords
  <2>2. faults' \in 0 .. MaxFaults
    BY <1>4, <1>8 DEF Answer, AnswerUnread, DatabaseTypeOK
  <2>3. [mode |-> m, pw |-> v] \in [mode : Modes \cup {"nothing", "platform"}, pw : Passwords]
    BY DEF DatabaseTypeOK
  <2> QED
    BY <2>1, <2>2, <2>3, Quitting DEF AnsweredWith, DatabaseTypeOK, database
<1>9. ASSUME NEW p \in Provisioners, GiveUp(p) PROVE DatabaseTypeOK'
  BY <1>5, <1>9, Quitting DEF GiveUp, DatabaseTypeOK, database
<1>10. ASSUME NEW p \in Provisioners, Unstored(p) PROVE DatabaseTypeOK'
  BY <1>5, <1>10 DEF Unstored, DatabaseTypeOK, database, To, Steps
<1>11. CASE Crash
  BY <1>4, <1>11, NoRowIsRow DEF Crash, DatabaseTypeOK, database, Steps, Modes, Passwords
<1>12. CASE UNCHANGED vars
  BY <1>12 DEF vars, database, work, DatabaseTypeOK
<1> QED
  BY <1>1, <1>2, <1>3, <1>6, <1>7, <1>8, <1>9, <1>10, <1>11, <1>12 DEF Next

LEMMA DatabaseInit == Init => SecretsIInv /\ TypeOK
<1> SUFFICES ASSUME Init PROVE SecretsIInv /\ TypeOK
  OBVIOUS
<1>1. SecretsIInv
  BY SecretsInitIInv DEF Init
<1>2. 0 \in 0 .. MaxFaults
  BY DatabaseAssumption
<1>3. DatabaseTypeOK
  BY <1>2, NoRowIsRow DEF Init, DatabaseTypeOK, Passwords, Steps, Modes, Nothing
<1> QED
  BY <1>1, <1>3, Typed DEF SecretsIInv

\* "Rollback restores the encrypted value from a previous version": however many requests and
\* provisioners come one after the other, whatever fails between two of their statements, the key has
\* one active row, a version number one value, and no value is lost.
THEOREM HistoryIsWhole == Spec => []SecretsInv
<1>1. Init => SecretsIInv /\ TypeOK
  BY DatabaseInit
<1>2. SecretsIInv /\ TypeOK /\ [Next]_vars => SecretsIInv' /\ TypeOK'
  <2>1. SecretsIInv /\ TypeOK /\ [Next]_vars => SecretsIInv'
    BY SecretsStep
  <2>2. SecretsIInv /\ TypeOK /\ [Next]_vars => DatabaseTypeOK'
    BY DatabaseTypes
  <2> QED
    BY <2>1, <2>2, Typed DEF SecretsIInv, TypeOK, DatabaseTypeOK
<1>3. SecretsIInv /\ TypeOK => SecretsInv
  BY SecretsIInvImplies
<1> QED
  BY <1>1, <1>2, <1>3, PTL DEF Spec

\* A provisioner writes the secret in one of its steps only, and from the grant on there is a database.
StepOK(p) ==
    /\ step[p] = "storing" <=> stage[p] # "idle"
    /\ stage[p] \in {"idle", "create", "save", "update"}
    /\ step[p] \in {"grant", "store", "storing", "name"} => db

Alone(p) ==
    /\ \A w \in Writers \ {p} : stage[w] = "idle"
    /\ \A q \in Provisioners \ {p} : step[q] = "idle"
    /\ step[p] # "idle"

StoredAs(v) == \E i \in Active : secret[i].value = v

\* What an ensure that is alone knows: when its password is the role's, and when the stored one.
EnsureKnows(p) ==
    /\ step[p] = "bind" => named /\ StoredAs(pw[p])
    /\ step[p] \notin {"bind", "role"} => role = pw[p]
    /\ stage[p] = "create" => wanted[p] = pw[p]
    /\ stage[p] \in {"save", "update"} =>
        Row0(p).active /\ entity[p].active /\ entity[p].value = pw[p]
    /\ stage[p] = "update" => selected[p] = Row0(p)
    /\ step[p] \in {"name", "read"} => StoredAs(pw[p])

LoneKnows(p) == Alone(p) /\ (mode[p] = "ensure" => EnsureKnows(p))

AtRest ==
    /\ \A w \in Writers : stage[w] = "idle"
    /\ \A p \in Provisioners : step[p] = "idle"

PasswordIInv ==
    /\ TypeOK
    /\ \A p \in Provisioners : StepOK(p)
    /\ named => db
    /\ \A p \in lone : LoneKnows(p)
    /\ ready # Nothing => AtRest
    /\ EnsuredPasswordWorks

LEMMA PasswordInit == Init => PasswordIInv
<1> SUFFICES ASSUME Init PROVE PasswordIInv
  OBVIOUS
<1>1. TypeOK
  BY DatabaseInit
<1>2. \A p \in Provisioners : StepOK(p)
  BY DatabaseAssumption DEF Init, SecretsInit, StepOK
<1>3. EnsuredPasswordWorks
  BY DEF Init, EnsuredPasswordWorks, Nothing
<1> QED
  BY <1>1, <1>2, <1>3 DEF Init, PasswordIInv

\* While a provisioner is at work no other is alone, and no answer stands.
LEMMA NoneAnswered ==
    ASSUME PasswordIInv, NEW p \in Provisioners, step[p] # "idle"
    PROVE  lone \subseteq {p} /\ ready = Nothing
BY DEF PasswordIInv, TypeOK, LoneKnows, Alone, AtRest

\* A step of a provisioner at work, when what it knows stays true of itself.
LEMMA MoveKeeps ==
    ASSUME PasswordIInv, TypeOK', NEW p \in Provisioners, step[p] # "idle",
           lone' \subseteq lone, ready' = ready,
           \A q \in Provisioners \ {p} : step'[q] = step[q],
           \A u \in Writers \ {p} : stage'[u] = stage[u],
           StepOK(p)', db => db', named' => db',
           p \in lone' => step'[p] # "idle",
           p \in lone' /\ mode'[p] = "ensure" => EnsureKnows(p)'
    PROVE  PasswordIInv'
<1>1. lone' \subseteq {p} /\ ready' = Nothing
  BY NoneAnswered
<1>2. \A q \in Provisioners : StepOK(q)'
  BY DatabaseAssumption DEF PasswordIInv, StepOK
<1>3. ASSUME NEW q \in lone' PROVE LoneKnows(q)'
  <2>1. q = p /\ Alone(p)
    BY <1>1, <1>3 DEF PasswordIInv, LoneKnows
  <2>2. Alone(p)'
    BY <1>3, <2>1 DEF Alone
  <2> QED
    BY <1>3, <2>1, <2>2 DEF LoneKnows
<1>4. EnsuredPasswordWorks'
  BY <1>1 DEF EnsuredPasswordWorks, Nothing
<1> QED
  BY <1>1, <1>2, <1>3, <1>4 DEF PasswordIInv

\* A request of the routes writes the secret: nobody is alone then, and no answer stands.
LEMMA WriteKeeps ==
    ASSUME PasswordIInv, TypeOK', NEW w \in Writers \ Provisioners, Write(w)
    PROVE  PasswordIInv'
<1>1. lone' = {}
  <2>1. CASE stage[w] = "idle"
    BY <2>1 DEF Write
  <2>2. CASE stage[w] # "idle"
    BY <2>2 DEF Write, PasswordIInv, LoneKnows, Alone, TypeOK
  <2> QED
    BY <2>1, <2>2
<1>2. \A u \in Writers \ {w} : stage'[u] = stage[u]
  BY DEF Write, Route, Save, Abandon, Set, Delete, Rollback, Lookup, Archive, Select, Update,
         Create, Find, Forget, Go, PasswordIInv, TypeOK, SecretsTypeOK
<1>3. UNCHANGED <<database, step>> /\ ready' = Nothing
  BY DEF Write, work
<1>4. \A p \in Provisioners : StepOK(p)'
  BY <1>2, <1>3, DatabaseAssumption DEF PasswordIInv, StepOK, database
<1>5. EnsuredPasswordWorks'
  BY <1>3 DEF EnsuredPasswordWorks, Nothing
<1> QED
  BY <1>1, <1>3, <1>4, <1>5 DEF PasswordIInv, database

\* A provisioner starts: it is alone when nobody was busy.
LEMMA StartKeeps ==
    ASSUME PasswordIInv, TypeOK', NEW p \in Provisioners, NEW m, NEW st, NEW v,
           Start(p, m, st, v), st \in {"bind", "role"}, UNCHANGED <<database, stage, secret>>,
           st = "bind" => m = "ensure" /\ named /\ StoredAs(v)
    PROVE  PasswordIInv'
<1>1. /\ step'[p] = st /\ mode'[p] = m /\ pw'[p] = v
      /\ \A q \in Provisioners \ {p} : step'[q] = step[q]
  BY DEF Start, To, PasswordIInv, TypeOK
<1>2. stage[p] = "idle"
  BY DEF Start, PasswordIInv, StepOK
<1>3. \A q \in Provisioners : StepOK(q)'
  BY <1>1, <1>2, DatabaseAssumption DEF PasswordIInv, StepOK, database
<1>4. ASSUME NEW q \in lone' PROVE LoneKnows(q)'
  <2>1. q = p /\ ~\E w \in Writers : Busy(w)
    BY <1>4 DEF Start
  <2>2. Alone(p)'
    BY <1>1, <2>1, DatabaseAssumption DEF Alone, Busy
  <2>3. EnsureKnows(p)'
    BY <1>1, <1>2 DEF EnsureKnows, StoredAs, Active, database
  <2> QED
    BY <2>1, <2>2, <2>3 DEF LoneKnows
<1>5. ready' = Nothing
  BY DEF Start
<1>6. EnsuredPasswordWorks'
  BY <1>5 DEF EnsuredPasswordWorks, Nothing
<1> QED
  BY <1>3, <1>4, <1>5, <1>6 DEF PasswordIInv, database

\* What is true of a provisioner at work, to start a proof about its next step from.
LEMMA Knowing ==
    ASSUME PasswordIInv, NEW p \in Provisioners
    PROVE  /\ p \in Writers /\ StepOK(p) /\ (named => db) /\ DatabaseTypeOK /\ SecretsTypeOK
           /\ p \in lone /\ mode[p] = "ensure" => Alone(p) /\ EnsureKnows(p)
BY DatabaseAssumption, Typed DEF PasswordIInv, LoneKnows

\* A step that leaves the secret alone.
LEMMA DatabaseMoveKeeps ==
    ASSUME PasswordIInv, TypeOK', NEW p \in Provisioners, step[p] # "idle",
           NEW st \in Steps \ {"idle", "storing"}, To(p, st), lone' = lone,
           UNCHANGED <<secrets, mode, pw, ready>>, step[p] # "storing",
           st \in {"grant", "store", "name"} => db', db => db', named' => db',
           mode[p] = "ensure" /\ p \in lone =>
              /\ st = "bind" => named' /\ StoredAs(pw[p])
              /\ st \notin {"bind", "role"} => role' = pw[p]
              /\ st \in {"name", "read"} => StoredAs(pw[p])
    PROVE  PasswordIInv'
<1> USE Knowing
<1>1. step'[p] = st /\ \A q \in Provisioners \ {p} : step'[q] = step[q]
  BY DEF To, DatabaseTypeOK
<1>2. stage' = stage /\ stage[p] = "idle" /\ secret' = secret
  BY DEF secrets, StepOK
<1>3. StepOK(p)'
  BY <1>1, <1>2 DEF StepOK
<1>4. ASSUME p \in lone', mode'[p] = "ensure" PROVE EnsureKnows(p)'
  BY <1>1, <1>2, <1>4 DEF EnsureKnows, StoredAs, Active
<1> QED
  BY <1>1, <1>2, <1>3, <1>4, MoveKeeps

LEMMA RoleKeeps ==
    ASSUME PasswordIInv, TypeOK', NEW p \in Provisioners,
           \/ Bind(p) \/ MakeRole(p) \/ CheckDb(p) \/ MakeDb(p) \/ Grant(p) \/ Name(p)
    PROVE  PasswordIInv'
<1> USE Knowing
<1>1. CASE Bind(p)
  BY <1>1, DatabaseMoveKeeps DEF Bind, StepOK, Steps, EnsureKnows
<1>2. CASE MakeRole(p)
  BY <1>2, DatabaseMoveKeeps DEF MakeRole, StepOK, Steps, EnsureKnows
<1>3. CASE CheckDb(p)
  BY <1>3, DatabaseMoveKeeps DEF CheckDb, StepOK, Steps, EnsureKnows, database
<1>4. CASE MakeDb(p)
  BY <1>4, DatabaseMoveKeeps DEF MakeDb, StepOK, Steps, EnsureKnows
<1>5. CASE Grant(p)
  BY <1>5, DatabaseMoveKeeps DEF Grant, StepOK, Steps, EnsureKnows, database
<1>6. CASE Name(p)
  BY <1>6, DatabaseMoveKeeps DEF Name, StepOK, Steps, EnsureKnows
<1> QED
  BY <1>1, <1>2, <1>3, <1>4, <1>5, <1>6

\* The upsert of a lone ensure holds the row it found, with the new password.
LEMMA StoreKeeps ==
    ASSUME PasswordIInv, TypeOK', NEW p \in Provisioners, Store(p)
    PROVE  PasswordIInv'
<1> USE Knowing
<1>1. /\ step[p] = "store" /\ Upsert(p, pw[p]) /\ To(p, "storing")
      /\ UNCHANGED <<database, mode, pw, lone, ready>>
  BY DEF Store
<1>2. step'[p] = "storing" /\ \A q \in Provisioners \ {p} : step'[q] = step[q]
  BY <1>1 DEF To, DatabaseTypeOK
<1>3. /\ stage'[p] \in {"create", "save"} /\ secret' = secret
      /\ \A u \in Writers \ {p} : stage'[u] = stage[u]
  BY <1>1 DEF Upsert, Find, Go, SecretsTypeOK
<1>4. stage'[p] = "create" => wanted'[p] = pw[p]
  BY <1>1 DEF Upsert, Find, Go, SecretsTypeOK
<1>5. ASSUME stage'[p] = "save"
      PROVE  Row0(p)'.active /\ entity'[p].active /\ entity'[p].value = pw[p]
  <2>1. PICK i \in Active :
          /\ about' = [about EXCEPT ![p] = i]
          /\ entity' = [entity EXCEPT ![p] =
                [secret[i] EXCEPT !.value = pw[p], !.version = secret[i].version + 1]]
    BY <1>1, <1>5 DEF Upsert, Find, Go, SecretsTypeOK
  <2>2. i \in Ids /\ secret[i] \in Row /\ secret[i].active
    BY DEF Active, SecretsTypeOK
  <2>3. about'[p] = i /\ entity'[p] = [secret[i] EXCEPT !.value = pw[p], !.version = secret[i].version + 1]
    BY <2>1, <2>2 DEF SecretsTypeOK
  <2> QED
    BY <1>3, <2>2, <2>3 DEF Row0, Row
<1>6. ASSUME p \in lone', mode'[p] = "ensure" PROVE EnsureKnows(p)'
  <2>1. role' = pw'[p]
    BY <1>1, <1>6 DEF EnsureKnows, database
  <2> QED
    BY <1>1, <1>2, <1>3, <1>4, <1>5, <2>1 DEF EnsureKnows
<1>7. StepOK(p)'
  BY <1>1, <1>2, <1>3 DEF StepOK, database
<1> QED
  BY <1>1, <1>2, <1>3, <1>6, <1>7, MoveKeeps DEF database

\* Its save writes that row, nobody having written since.
LEMMA StoredKeeps ==
    ASSUME PasswordIInv, SecretsIInv, TypeOK', NEW p \in Provisioners, Stored(p)
    PROVE  PasswordIInv'
<1> USE Knowing
<1> DEFINE st == IF stage'[p] = "idle" THEN "name" ELSE "storing"
<1>1. /\ step[p] = "storing" /\ Save(p) /\ To(p, st)
      /\ UNCHANGED <<database, mode, pw, faults, lone, ready>>
  BY DEF Stored
<1>2. step'[p] = st /\ \A q \in Provisioners \ {p} : step'[q] = step[q]
  BY <1>1 DEF To, DatabaseTypeOK
<1>3. CASE Select(p)
  <2>1. /\ stage[p] = "save" /\ stage'[p] = "update" /\ secret' = secret
        /\ \A u \in Writers \ {p} : stage'[u] = stage[u]
        /\ about' = about /\ entity' = entity /\ selected'[p] = Row0(p)
    BY <1>3 DEF Select, Go, SecretsTypeOK, Row0
  <2>2. StepOK(p)'
    BY <1>1, <1>2, <2>1 DEF StepOK, database
  <2>3. ASSUME p \in lone', mode'[p] = "ensure" PROVE EnsureKnows(p)'
    BY <1>1, <1>2, <2>1, <2>3 DEF EnsureKnows, database, Row0
  <2> QED
    BY <1>1, <1>2, <2>1, <2>2, <2>3, MoveKeeps DEF database
<1>4. CASE Update(p) \/ \E i \in Ids : Create(p, i)
  <2>1. /\ Forget(p) /\ stage'[p] = "idle"
        /\ \A u \in Writers \ {p} : stage'[u] = stage[u]
    BY <1>4, Forgotten DEF Update, Create
  <2>2. StepOK(p)'
    BY <1>1, <1>2, <2>1 DEF StepOK, database
  <2>3. ASSUME p \in lone, mode[p] = "ensure", Update(p) PROVE StoredAs(pw[p])'
    <3>1. stage[p] = "update" /\ about[p] \in Ids /\ selected[p] = secret[about[p]]
          /\ entity[p].active /\ entity[p].value = pw[p]
      BY <2>3 DEF Update, SecretsIInv, Placed, EnsureKnows, Row0
    <3>2. secret'[about[p]] = Saved(secret[about[p]], selected[p], entity[p])
      BY <2>3, <3>1 DEF Update, SecretsTypeOK
    <3>3. secret'[about[p]] = entity[p]
      BY <3>1, <3>2, SavedRow DEF SecretsTypeOK
    <3> QED
      BY <1>1, <3>1, <3>3 DEF StoredAs, Active
  <2>4. ASSUME p \in lone, mode[p] = "ensure", NEW i \in Ids, Create(p, i) PROVE StoredAs(pw[p])'
    <3>1. wanted[p] = pw[p] /\ secret'[i] = [active |-> TRUE, value |-> wanted[p], version |-> 1]
      BY <2>4 DEF Create, SecretsTypeOK, EnsureKnows
    <3> QED
      BY <1>1, <3>1 DEF StoredAs, Active
  <2>5. ASSUME p \in lone', mode'[p] = "ensure" PROVE EnsureKnows(p)'
    <3>1. role' = pw'[p]
      BY <1>1, <2>5 DEF EnsureKnows, database
    <3>2. StoredAs(pw[p])'
      BY <1>1, <1>4, <2>3, <2>4, <2>5
    <3> QED
      BY <1>1, <1>2, <2>1, <3>1, <3>2 DEF EnsureKnows
  <2> QED
    BY <1>1, <1>2, <2>1, <2>2, <2>5, MoveKeeps DEF database
<1>5. ~Archive(p)
  BY DEF Archive, StepOK
<1> QED
  BY <1>1, <1>3, <1>4, <1>5 DEF Save

LEMMA FailKeeps ==
    ASSUME PasswordIInv, TypeOK', NEW p \in Provisioners,
           GiveUp(p) \/ Unstored(p) \/ \E v \in 1 .. MaxValues : FallBack(p, v)
    PROVE  PasswordIInv'
<1> USE Knowing
<1>1. step[p] # "idle"
  BY DEF GiveUp, Unstored, FallBack, Fails
<1>2. /\ stage'[p] = "idle" /\ \A u \in Writers \ {p} : stage'[u] = stage[u]
      /\ UNCHANGED <<database, ready>>
  BY DEF GiveUp, Unstored, FallBack, Forget, Go, SecretsTypeOK
<1>3. \A q \in Provisioners \ {p} : step'[q] = step[q]
  BY DEF GiveUp, Unstored, FallBack, Quit, To, DatabaseTypeOK
<1>4. step'[p] \in {"idle", "role", "read"} /\ lone' \subseteq lone
  BY DEF GiveUp, Unstored, FallBack, Quit, To, DatabaseTypeOK
<1>5. p \in lone' => step'[p] # "idle" /\ mode'[p] # "ensure"
  BY DEF GiveUp, Unstored, FallBack, Quit, To, DatabaseTypeOK
<1>6. StepOK(p)'
  BY <1>2, <1>4 DEF StepOK
<1> QED
  BY <1>1, <1>2, <1>3, <1>4, <1>5, <1>6, MoveKeeps DEF database

\* The answer of a lone ensure: with one active row, the one it has stored or bound the role to.
LEMMA AnswerKeeps ==
    ASSUME PasswordIInv, TypeOK', NEW p \in Provisioners, NEW m \in Modes \cup {"platform"}, NEW v \in Passwords,
           \/ Answer(p, v) /\ m = mode[p]
           \/ AnswerUnread(p) /\ m = "platform" /\ v = None
    PROVE  PasswordIInv'
<1> USE Knowing
<1>1. /\ step[p] = "read" /\ Quit(p) /\ lone' = lone \ {p}
      /\ ready' = IF p \in lone THEN [mode |-> m, pw |-> v] ELSE ready
      /\ UNCHANGED <<secrets, database>>
  BY DEF Answer, AnswerUnread, AnsweredWith
<1>2. step'[p] = "idle" /\ \A q \in Provisioners \ {p} : step'[q] = step[q]
  BY <1>1 DEF Quit, To, DatabaseTypeOK
<1>3. stage' = stage /\ secret' = secret /\ stage[p] = "idle"
  BY <1>1 DEF secrets, StepOK
<1>4. StepOK(p)'
  BY <1>2, <1>3 DEF StepOK
<1>5. CASE p \notin lone
  BY <1>1, <1>2, <1>3, <1>4, <1>5, MoveKeeps DEF database
<1>6. CASE p \in lone
  <2>1. lone' = {} /\ Alone(p)
    BY <1>1, <1>6, NoneAnswered DEF PasswordIInv, LoneKnows
  <2>2. AtRest'
    BY <1>2, <1>3, <2>1 DEF AtRest, Alone
  <2>3. \A q \in Provisioners : StepOK(q)'
    BY <1>1, <1>2, <1>3, <1>4 DEF PasswordIInv, StepOK, database
  <2>4. EnsuredPasswordWorks'
    <3> SUFFICES ASSUME m = "ensure", \A i, j \in Active : i = j
                 PROVE  role = v /\ \E i \in Active : secret[i].value = v
      BY <1>1, <1>3, <1>6 DEF EnsuredPasswordWorks, Active, database
    <3>0. Answer(p, v) /\ mode[p] = "ensure"
      OBVIOUS
    <3>1. role = pw[p] /\ StoredAs(pw[p])
      BY <1>1, <1>6, <3>0 DEF EnsureKnows
    <3>2. PICK i \in Active : secret[i].value = pw[p]
      BY <3>1 DEF StoredAs
    <3>3. \E j \in Active : v = secret[j].value
      BY <3>0, <3>2 DEF Answer
    <3> QED
      BY <3>1, <3>2, <3>3
  <2> QED
    BY <1>1, <2>1, <2>2, <2>3, <2>4 DEF PasswordIInv, database
<1> QED
  BY <1>5, <1>6

LEMMA CrashKeeps ==
    ASSUME PasswordIInv, TypeOK', Crash
    PROVE  PasswordIInv'
<1>1. PICK p \in Provisioners : step[p] # "idle"
  BY DEF Crash
<1>2. ready' = Nothing /\ lone' = {} /\ UNCHANGED database
  BY <1>1, NoneAnswered DEF Crash
<1>3. \A q \in Provisioners : StepOK(q)'
  BY DatabaseAssumption DEF Crash, StepOK
<1>4. EnsuredPasswordWorks'
  BY <1>2 DEF EnsuredPasswordWorks, Nothing
<1> QED
  BY <1>2, <1>3, <1>4 DEF PasswordIInv, database

LEMMA PasswordStep == PasswordIInv /\ SecretsIInv /\ TypeOK' /\ [Next]_vars => PasswordIInv'
<1> SUFFICES ASSUME PasswordIInv, SecretsIInv, TypeOK', [Next]_vars PROVE PasswordIInv'
  OBVIOUS
<1> USE Knowing
<1>1. ASSUME NEW p \in Provisioners, NEW i \in Ids, EnsureStored(p, i) PROVE PasswordIInv'
  <2>1. Start(p, "ensure", "bind", secret[i].value) /\ named /\ StoredAs(secret[i].value)
        /\ UNCHANGED <<database, stage, secret>>
    BY <1>1 DEF EnsureStored, StoredAs, secrets
  <2> QED
    BY <2>1, StartKeeps
<1>2. ASSUME NEW p \in Provisioners, NEW v \in 1 .. MaxValues,
             EnsureFresh(p, v) \/ Provision(p, v)
      PROVE  PasswordIInv'
  <2>1. \E m : Start(p, m, "role", v) /\ UNCHANGED <<database, stage, secret>>
    BY <1>2 DEF EnsureFresh, Provision
  <2> QED
    BY <2>1, StartKeeps
<1>3. CASE UNCHANGED vars
  BY <1>3 DEF vars, secrets, database, work, PasswordIInv, StepOK, LoneKnows, Alone, EnsureKnows,
       StoredAs, Row0, AtRest, EnsuredPasswordWorks, Active
<1>4. ASSUME NEW p \in Provisioners, (\E v \in Passwords : Answer(p, v)) \/ AnswerUnread(p)
      PROVE  PasswordIInv'
  <2>1. CASE \E v \in Passwords : Answer(p, v)
    <3>1. PICK v \in Passwords : Answer(p, v)
      BY <2>1
    <3>2. PICK m \in Modes \cup {"platform"} : m = mode[p]
      BY DEF DatabaseTypeOK
    <3> QED
      BY <3>1, <3>2, AnswerKeeps
  <2>2. None \in Passwords
    BY NoRowIsRow DEF Passwords
  <2>3. CASE AnswerUnread(p)
    BY <2>2, <2>3, AnswerKeeps
  <2> QED
    BY <1>4, <2>1, <2>3
<1> QED
  BY <1>1, <1>2, <1>3, <1>4, WriteKeeps, RoleKeeps, StoreKeeps, StoredKeeps, FailKeeps,
     CrashKeeps DEF Next

\* "Keep password in sync so stored secret always works": the credentials of an ensure that had the
\* database to itself, and did not fall back, are the role's and the stored ones as long as no other
\* request begins, whatever failed, crashed or overlapped before, unless the key has two active rows.
THEOREM EnsuredPasswordOpens == Spec => []PasswordInv
<1>1. Init => SecretsIInv /\ PasswordIInv
  BY DatabaseInit, PasswordInit
<1>2. SecretsIInv /\ PasswordIInv /\ [Next]_vars => SecretsIInv' /\ PasswordIInv'
  <2>1. SecretsIInv /\ PasswordIInv /\ [Next]_vars => SecretsIInv'
    BY SecretsStep DEF PasswordIInv
  <2>2. SecretsIInv /\ PasswordIInv /\ [Next]_vars => DatabaseTypeOK'
    BY DatabaseTypes DEF PasswordIInv
  <2>3. SecretsIInv' /\ DatabaseTypeOK' => TypeOK'
    BY Typed DEF SecretsIInv, TypeOK, DatabaseTypeOK
  <2> QED
    BY <2>1, <2>2, <2>3, PasswordStep
<1>3. PasswordIInv => PasswordInv
  BY DEF PasswordIInv, PasswordInv
<1> QED
  BY <1>1, <1>2, <1>3, PTL DEF Spec

=============================================================================
