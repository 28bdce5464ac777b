---------------------------- MODULE Integrations ----------------------------
(***************************************************************************)
(* The integration settings (lib/integrations.ts, GET and PUT              *)
(* /settings/integrations): a table that is meant to hold one row, made by *)
(* whoever asks first, and a copy of it in process.env, which the webhook  *)
(* and CI code reads.  A token can be replaced but not cleared, an org can *)
(* be both.                                                                *)
(***************************************************************************)
EXTENDS Naturals, Sequences, FiniteSets, EntitySave

CONSTANTS
    Editors, \* slots for requests
    Tokens,  \* values of a token
    Orgs,    \* values of an org
    Blank,   \* null in a column, undefined in process.env
    MaxPuts, \* bound: requests
    MaxTroubles \* bound: failed reads, restarts of the process

ASSUME IntegrationsAssumption ==
    /\ Editors # {} /\ IsFiniteSet(Editors)
    /\ Blank \notin Tokens \cup Orgs
    /\ \A word \in {"keep", "clear"} : word \notin Tokens \cup Orgs
    /\ MaxPuts \in Nat /\ MaxTroubles \in Nat

VARIABLES
    settings, \* the table integration_settings, oldest row first
    env,      \* process.env
    put,      \* each request
    puts,     \* requests so far
    troubles, \* failed reads and restarts so far
    clean,    \* history: requests that ran alone and read all they asked for
    standing  \* history: what the last request, if it was clean, was told to have changed

integrationVars == <<settings, env, put, puts, troubles, clean, standing>>

Columns == [token : Tokens \cup {Blank}, org : Orgs \cup {Blank}]
Empty == [token |-> Blank, org |-> Blank]
\* What a request asks for: an org may be cleared, with "clear"; "keep" leaves a column alone.
Bodies == [token : Tokens \cup {"keep"}, org : Orgs \cup {"keep", "clear"}]
NoChange == [token |-> "keep", org |-> "keep"]
Idle == [step |-> "idle", body |-> NoChange, at |-> 0, entity |-> Empty, read |-> Empty]

IntegrationsTypeOK ==
    /\ settings \in Seq(Columns) /\ Len(settings) <= Cardinality(Editors)
    /\ env \in Columns
    /\ put \in [Editors -> [step : {"idle", "get", "create", "compare", "update", "resolve", "apply"},
                            body : Bodies, at : 0 .. Cardinality(Editors), entity : Columns, read : Columns]]
    /\ puts \in 0 .. MaxPuts /\ troubles \in 0 .. MaxTroubles
    /\ clean \subseteq Editors
    /\ standing \in Bodies

IntegrationsInit ==
    /\ settings \in {<<>>, <<Empty>>}
    /\ env = Empty
    /\ put = [e \in Editors |-> Idle]
    /\ puts = 0 /\ troubles = 0
    /\ clean = {} /\ standing = NoChange

----------------------------------------------------------------------------
Changed(entity, body) ==
    [k \in DOMAIN entity |-> IF body[k] = "keep" THEN entity[k]
                             ELSE IF body[k] = "clear" THEN Blank ELSE body[k]]

\* pick: the column, or process.env where it is empty.
Pick(row) == [k \in DOMAIN row |-> IF row[k] # Blank THEN row[k] ELSE env[k]]

Becomes(e, new) == put' = [put EXCEPT ![e] = new]

\* getOrCreateIntegrationSettings, its find.  A GET matters only where it is going to make the row.
AskSettings(e, kind, body) ==
    /\ put[e].step = "idle" /\ puts < MaxPuts /\ puts' = puts + 1
    /\ \/ settings = <<>> /\ Becomes(e, [Idle EXCEPT !.step = kind, !.body = body])
       \/ /\ settings # <<>> /\ kind = "create"
          /\ Becomes(e, [Idle EXCEPT !.step = "compare", !.body = body, !.at = 1,
                                     !.entity = Changed(settings[1], body)])
    /\ clean' = IF \A d \in Editors : put[d].step = "idle" THEN {e} ELSE {}
    /\ standing' = NoChange
    /\ UNCHANGED <<settings, env, troubles>>

\* Its save: two that found no row make two.
MakeRow(e) ==
    /\ put[e].step \in {"get", "create"}
    /\ settings' = Append(settings, Empty)
    /\ Becomes(e, IF put[e].step = "get" THEN Idle
                  ELSE [put[e] EXCEPT !.step = "compare", !.at = Len(settings) + 1,
                                      !.entity = Changed(Empty, put[e].body)])
    /\ UNCHANGED <<env, puts, troubles, clean, standing>>

\* save selects the row again and then writes the columns in which the entity differs.
Reselect(e) ==
    /\ put[e].step = "compare"
    /\ Becomes(e, [put[e] EXCEPT !.step = "update", !.read = settings[put[e].at]])
    /\ UNCHANGED <<settings, env, puts, troubles, clean, standing>>

WriteBack(e) ==
    /\ put[e].step = "update"
    /\ settings' = [settings EXCEPT ![put[e].at] = Saved(@, put[e].read, put[e].entity)]
    /\ Becomes(e, [put[e] EXCEPT !.step = "resolve"])
    /\ UNCHANGED <<env, puts, troubles, clean, standing>>

\* Mutant: what was read before the save is put into process.env.
ReadBackBefore(e) ==
    /\ put[e].step = "resolve"
    /\ Becomes(e, [put[e] EXCEPT !.step = "apply"])
    /\ UNCHANGED <<settings, env, puts, troubles, clean, standing>>

\* resolveIntegrations reads the oldest row, and goes on without it when it cannot.
ReadBack(e) ==
    /\ put[e].step = "resolve"
    /\ \/ /\ Becomes(e, [put[e] EXCEPT !.step = "apply", !.read = settings[1]])
          /\ UNCHANGED <<troubles, clean>>
       \/ /\ troubles < MaxTroubles /\ troubles' = troubles + 1
          /\ Becomes(e, [put[e] EXCEPT !.step = "apply", !.read = Empty])
          /\ clean' = clean \ {e}
    /\ UNCHANGED <<settings, env, puts, standing>>

\* applyIntegrationsToEnv sets what is not empty; the request is told ok.
ApplyToEnv(e) ==
    /\ put[e].step = "apply"
    /\ env' = Pick(put[e].read)
    /\ standing' = IF e \in clean THEN put[e].body ELSE standing
    /\ Becomes(e, Idle)
    /\ UNCHANGED <<settings, puts, troubles, clean>>

\* The process starts again: process.env is the deployment's, and hydrateIntegrationsEnv adds the row
\* (made now if there is none), when it can read it.
Restart ==
    /\ troubles < MaxTroubles /\ troubles' = troubles + 1
    /\ put' = [e \in Editors |-> Idle]
    /\ \/ /\ settings' = IF settings = <<>> THEN <<Empty>> ELSE settings
          /\ env' = settings'[1]
          /\ standing' = standing
       \/ settings' = settings /\ env' = Empty /\ standing' = NoChange
    /\ UNCHANGED <<puts, clean>>

IntegrationsNext ==
    \/ \E e \in Editors :
        \/ AskSettings(e, "get", NoChange) \/ \E body \in Bodies : AskSettings(e, "create", body)
        \/ MakeRow(e) \/ Reselect(e) \/ WriteBack(e) \/ ReadBack(e) \/ ApplyToEnv(e)
    \/ Restart

IntegrationsSpec == IntegrationsInit /\ [][IntegrationsNext]_integrationVars

----------------------------------------------------------------------------
\* What a request that ran alone was told to have changed is what every later read of the settings
\* resolves to, restarts included, until the next request: a value is in the row that is read and in
\* process.env, and a cleared column is empty (process.env may keep the old value until a restart).
LonePutInEffect ==
    \A k \in DOMAIN standing : standing[k] # "keep" =>
        /\ settings[1][k] = (IF standing[k] = "clear" THEN Blank ELSE standing[k])
        /\ standing[k] # "clear" => env[k] = standing[k]

\* The settings table may get two rows, and still what a lone request was told is what counts.
SettingsInv == IntegrationsTypeOK /\ LonePutInEffect
=============================================================================
