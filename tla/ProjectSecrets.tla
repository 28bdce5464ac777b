--------------------------- MODULE ProjectSecrets ---------------------------
(***************************************************************************)
(* One key of one environment in the tables secrets and secret_versions:   *)
(* set, bulk import, rollback and delete (platform/api/src/routes/         *)
(* secrets.ts), and upsertSecret of lib/project-db-ensure.ts, which keeps  *)
(* no history.  No constraint of the database keeps two active rows of the *)
(* key, or two history rows of one version, apart; every await ends an     *)
(* action.  A value stands for its encryption: both writers use the same   *)
(* master key, or the routes answer 500 before they read anything.         *)
(***************************************************************************)
EXTENDS Naturals, EntitySave

CONSTANTS
    Writers,    \* slots for requests that write the key
    Ids,        \* bound: rows of the key, deleted ones included
    Nowhere,    \* no row
    MaxValues,  \* bound: values ever given to the key
    MaxVersion  \* bound: versions of a row

ASSUME SecretsAssumption == Nowhere \notin Ids /\ MaxValues \in Nat /\ MaxVersion \in Nat \ {0}

VARIABLES
    secret,     \* the table secrets
    versions,   \* the table secret_versions
    values,     \* values given to the key so far
    stage,      \* where each writer is
    about,      \* the row it has found
    entity,     \* its copy of the row, changed by and by
    selected,   \* what save selected again before its UPDATE
    wanted,     \* the value, or for a rollback the version, that it is to save
    overlapped, \* history: two writers have been at work at a time
    upserted,   \* history: upsertSecret has replaced a value
    held        \* history: every value each row has had

secrets == <<secret, versions, values, stage, about, entity, selected, wanted,
             overlapped, upserted, held>>

None == 0
Row == [active : BOOLEAN, value : 0 .. MaxValues, version : 0 .. MaxVersion]
Version == [secret : Ids, value : 0 .. MaxValues, version : 0 .. MaxVersion]
NoRow == [active |-> FALSE, value |-> None, version |-> None]
Stages == {"idle", "archive", "lookup", "create", "save", "update"}

SecretsTypeOK ==
    /\ secret \in [Ids -> Row]
    /\ versions \subseteq Version
    /\ values \in 0 .. MaxValues
    /\ stage \in [Writers -> Stages]
    /\ about \in [Writers -> Ids \cup {Nowhere}]
    /\ entity \in [Writers -> Row] /\ selected \in [Writers -> Row]
    /\ wanted \in [Writers -> 0 .. MaxValues + MaxVersion]
    /\ overlapped \in BOOLEAN /\ upserted \in BOOLEAN
    /\ held \subseteq Ids \X (0 .. MaxValues)

SecretsInit ==
    /\ secret = [i \in Ids |-> NoRow] /\ versions = {} /\ values = 0
    /\ stage = [w \in Writers |-> "idle"] /\ about = [w \in Writers |-> Nowhere]
    /\ entity = [w \in Writers |-> NoRow] /\ selected = [w \in Writers |-> NoRow]
    /\ wanted = [w \in Writers |-> None]
    /\ overlapped = FALSE /\ upserted = FALSE /\ held = {}

\* The rows that findOne may return for the key.
Active == {i \in Ids : secret[i].active}

Go(w, st) == stage' = [stage EXCEPT ![w] = st]

Forget(w) ==
    /\ Go(w, "idle")
    /\ about' = [about EXCEPT ![w] = Nowhere] /\ wanted' = [wanted EXCEPT ![w] = None]
    /\ entity' = [entity EXCEPT ![w] = NoRow] /\ selected' = [selected EXCEPT ![w] = NoRow]

\* A request has found the row i, or none, and goes on at st with its copy.
Find(w, i, st, copy, v) ==
    /\ stage[w] = "idle"
    /\ Go(w, st)
    /\ about' = [about EXCEPT ![w] = i]
    /\ entity' = [entity EXCEPT ![w] = copy] /\ wanted' = [wanted EXCEPT ![w] = v]
    /\ overlapped' = (overlapped \/ \E u \in Writers \ {w} : stage[u] # "idle")
    /\ UNCHANGED <<secret, versions, selected, upserted, held>>

\* A value the key has not had yet.
NewValue(v) == v = values + 1 /\ v <= MaxValues /\ values' = v

-----------------------------------------------------------------------------
(* The routes *)

\* POST /secrets; an item of POST /secrets/bulk does the same, item by item.
Set(w, v) ==
    /\ NewValue(v)
    /\ \/ \E i \in Active : Find(w, i, "archive", secret[i], v)
       \/ Active = {} /\ Find(w, Nowhere, "create", NoRow, v)

\* DELETE /secrets/:id
Delete(w, i) ==
    /\ secret[i].active
    /\ Find(w, i, "save", [secret[i] EXCEPT !.active = FALSE], None)
    /\ UNCHANGED values

\* POST /secrets/:id/rollback/:version, to a version before the current one.
Rollback(w, i, n) ==
    /\ secret[i].active /\ n \in 1 .. secret[i].version - 1
    /\ Find(w, i, "lookup", secret[i], n)
    /\ UNCHANGED values

\* Any history row of that version will do; without one the request is answered 404.
Lookup(w) ==
    LET matches == {h \in versions : h.secret = about[w] /\ h.version = wanted[w]} IN
    /\ stage[w] = "lookup"
    /\ \/ \E h \in matches :
             /\ wanted' = [wanted EXCEPT ![w] = h.value]
             /\ Go(w, "archive")
             /\ UNCHANGED <<about, entity, selected>>
       \/ matches = {} /\ Forget(w)
    /\ UNCHANGED <<secret, versions, values, overlapped, upserted, held>>

\* Mutant: the previous value is not kept.
ArchiveNothing(w) ==
    /\ stage[w] = "archive" /\ entity[w].version < MaxVersion
    /\ entity' = [entity EXCEPT ![w].value = wanted[w], ![w].version = @ + 1]
    /\ Go(w, "save")
    /\ UNCHANGED <<secret, versions, values, about, selected, wanted, overlapped, upserted, held>>

\* The value the request found goes into the history, then its copy is changed.
Archive(w) ==
    LET old == entity[w] IN
    /\ stage[w] = "archive" /\ old.version < MaxVersion
    /\ versions' = versions \cup
          {[secret |-> about[w], value |-> old.value, version |-> old.version]}
    /\ entity' = [entity EXCEPT ![w] =
                     [old EXCEPT !.value = wanted[w], !.version = old.version + 1]]
    /\ Go(w, "save")
    /\ UNCHANGED <<secret, values, about, selected, wanted, overlapped, upserted, held>>

\* A new row of the key.
Create(w, i) ==
    /\ stage[w] = "create" /\ secret[i] = NoRow
    /\ secret' = [secret EXCEPT ![i] = [active |-> TRUE, value |-> wanted[w], version |-> 1]]
    /\ held' = held \cup {<<i, wanted[w]>>}
    /\ Forget(w)
    /\ UNCHANGED <<versions, values, overlapped, upserted>>

\* save: the selection, then the UPDATE.
Select(w) ==
    /\ stage[w] = "save"
    /\ selected' = [selected EXCEPT ![w] = secret[about[w]]]
    /\ Go(w, "update")
    /\ UNCHANGED <<secret, versions, values, about, entity, wanted, overlapped, upserted, held>>

Update(w) ==
    LET i == about[w] IN
    /\ stage[w] = "update"
    /\ secret' = [secret EXCEPT ![i] = Saved(@, selected[w], entity[w])]
    /\ held' = held \cup {<<i, secret'[i].value>>}
    /\ Forget(w)
    /\ UNCHANGED <<versions, values, overlapped, upserted>>

\* A statement fails, or the process is killed: what was saved before stays.
Abandon(w) ==
    /\ stage[w] # "idle"
    /\ Forget(w)
    /\ UNCHANGED <<secret, versions, values, overlapped, upserted, held>>

-----------------------------------------------------------------------------
(* upsertSecret *)

Upsert(w, v) ==
    /\ \/ \E i \in Active :
             /\ stage[w] = "idle" /\ secret[i].version < MaxVersion
             /\ Go(w, "save")
             /\ about' = [about EXCEPT ![w] = i]
             /\ entity' = [entity EXCEPT ![w] =
                   [secret[i] EXCEPT !.value = v, !.version = secret[i].version + 1]]
             /\ wanted' = [wanted EXCEPT ![w] = v]
             /\ overlapped' = (overlapped \/ \E u \in Writers \ {w} : stage[u] # "idle")
             /\ upserted' = TRUE
             /\ UNCHANGED <<secret, versions, selected, held>>
       \/ Active = {} /\ Find(w, Nowhere, "create", NoRow, v)

-----------------------------------------------------------------------------
Route(w) ==
    \/ \E v \in 1 .. MaxValues : Set(w, v)
    \/ \E i \in Ids : Delete(w, i) \/ \E n \in 1 .. MaxVersion : Rollback(w, i, n)
    \/ Lookup(w)

Save(w) == Archive(w) \/ Select(w) \/ Update(w) \/ \E i \in Ids : Create(w, i)

-----------------------------------------------------------------------------
(* Properties *)

\* "Rollback restores the encrypted value from a previous version" (guides/secrets-management.md): a
\* version number names one value, that of the history or that of the row, whatever requests fail
\* between the two saves - as long as no two requests write the key at a time.
VersionNamesOneValue ==
    ~overlapped => \A h \in versions :
        /\ \A k \in versions : k.secret = h.secret /\ k.version = h.version => k.value = h.value
        /\ secret[h.secret].version = h.version => secret[h.secret].value = h.value

\* "Every time a secret is updated, the previous version is archived": a value a row has had is its
\* value still or is found in its history, unless two writers overlapped or upsertSecret replaced it.
NothingLost ==
    ~overlapped /\ ~upserted => \A p \in held :
        \/ secret[p[1]].value = p[2]
        \/ \E h \in versions : h.secret = p[1] /\ h.value = p[2]

\* One active row of the key, hence one value for whoever reads it, while writers do not overlap.
OneActive == ~overlapped => \A i, j \in Active : i = j

\* The history of a key whose writers do not overlap is whole, whatever fails between two statements:
\* one active row, one value to a version number, and no value lost.
SecretsInv == OneActive /\ VersionNamesOneValue /\ NothingLost
=============================================================================
