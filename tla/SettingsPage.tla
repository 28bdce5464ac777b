---------------------------- MODULE SettingsPage ----------------------------
(***************************************************************************)
(* The settings page of the portal (pages/settings/settings.component.ts): *)
(* groups of fields of one row of integration settings, each with a button *)
(* of its own; the rotation of the secrets; and a list of SMTP or storage  *)
(* configurations.  A group has a plain field, which the page loads, and a *)
(* secret, which it only sends.  What a user types is a number, new with   *)
(* every edit; nobody empties a field by hand.                             *)
(***************************************************************************)
EXTENDS Naturals, FiniteSets

CONSTANTS
    Slots,     \* of requests of the page in flight, at least two
    FieldGroups,    \* forms that are saved oneByOne
    LoginGroup, \* the one whose button a save in flight disables
    MaxTyped,  \* bound: edits
    MaxActs    \* bound: requests but for reloads

ASSUME SettingsAssumption == (\E s, t \in Slots : s # t) /\ LoginGroup \in FieldGroups /\ {MaxTyped, MaxActs} \subseteq Nat

VARIABLES
    columns,      \* the row: a plain value and a secret for each group
    inputs,       \* what the page shows for them
    savingIntegrations,
    rotation, rotateValues, rotating, \* the last rotation, the one whose values are shown, the button's state
    configs, listShown, \* changes made to the list, and those in the list as shown
    slots,        \* the requests in flight
    typedInto, actsSoFar,  \* edits and requests so far
    fresh,        \* history: groups whose plain field was loaded or typed
    unseen,       \* history: groups saved before that
    dirty,        \* history: groups edited since the values shown were loaded
    overlapped,   \* history: the last rotation was asked for while one that was given up still ran
    oneByOne,     \* history: no two requests were in flight at a time, but for the first loads, and none failed
    discarded     \* history: secrets that were typed and discarded, and by the save of which group

settingsVars == <<columns, inputs, savingIntegrations, rotation, rotateValues, rotating, configs, listShown,
                  slots, typedInto, actsSoFar, fresh, unseen, dirty, overlapped, oneByOne, discarded>>
unlessForm == <<rotation, rotateValues, rotating, overlapped, configs, listShown>>
unlessRotation == <<columns, inputs, savingIntegrations, configs, listShown, fresh, unseen, dirty, discarded>>
unlessList == <<columns, inputs, savingIntegrations, rotation, rotateValues, rotating, overlapped, fresh, unseen, dirty, discarded>>

EmptyField == 0
StoredBefore == MaxTyped + 1  \* what a column holds when the page is opened
FieldValues == EmptyField .. StoredBefore
PageFields == [FieldGroups -> [plain : FieldValues, secret : FieldValues]]
FreeSlot == [kind |-> "free", group |-> LoginGroup, at |-> "none",
             body |-> [plain |-> EmptyField, secret |-> EmptyField],
         read |-> [g \in FieldGroups |-> EmptyField], seen |-> 0]

SettingsTypeOK ==
    /\ columns \in PageFields /\ inputs \in PageFields /\ {savingIntegrations, rotating, overlapped, oneByOne} \subseteq BOOLEAN
    /\ {rotation, rotateValues, configs, listShown, actsSoFar} \subseteq 0 .. MaxActs /\ typedInto \in 0 .. MaxTyped
    /\ slots \in [Slots -> [kind : {"free", "load", "reload", "save", "rotate", "change", "list"}, group : FieldGroups,
                             at : {"none", "sent", "left", "done"}, body : [plain : FieldValues, secret : FieldValues],
                             read : [FieldGroups -> FieldValues], seen : 0 .. MaxActs]]
    /\ {fresh, unseen, dirty} \subseteq SUBSET FieldGroups
    /\ discarded \subseteq [group : FieldGroups, by : FieldGroups, late : BOOLEAN]

\* ngOnInit asks for the settings and for the list at once.
SettingsInit ==
    /\ columns \in [FieldGroups -> {[plain |-> StoredBefore, secret |-> EmptyField]}]
    /\ inputs = [g \in FieldGroups |-> [plain |-> EmptyField, secret |-> EmptyField]]
    /\ savingIntegrations = FALSE /\ rotation = 0 /\ rotateValues = 0 /\ rotating = FALSE /\ overlapped = FALSE
    /\ configs = 0 /\ listShown = 0 /\ typedInto = 0 /\ actsSoFar = 0
    /\ LET first == CHOOSE u \in Slots : TRUE
           second == CHOOSE u \in Slots : u # first
       IN  slots = [[u \in Slots |-> FreeSlot] EXCEPT
                        ![first] = [@ EXCEPT !.kind = "load", !.at = "sent"],
                        ![second] = [@ EXCEPT !.kind = "list", !.at = "sent"]]
    /\ fresh = {} /\ unseen = {} /\ dirty = {} /\ oneByOne = TRUE /\ discarded = {}

SlotIs(s, kind, at) == slots[s].kind = kind /\ slots[s].at = at
AloneIn(s) == \A t \in Slots \ {s} : slots[t] = FreeSlot

-----------------------------------------------------------------------------
(* The user *)

TypeInto(g, field) ==
    /\ typedInto < MaxTyped /\ typedInto' = typedInto + 1
    /\ inputs' = [inputs EXCEPT ![g][field] = typedInto']
    /\ fresh' = (IF field = "plain" THEN fresh \cup {g} ELSE fresh) /\ dirty' = dirty \cup {g}
    /\ UNCHANGED <<columns, savingIntegrations, unlessForm, slots, actsSoFar, unseen, oneByOne, discarded>>

AskSlot(s, request) ==
    /\ slots[s] = FreeSlot /\ actsSoFar < MaxActs /\ actsSoFar' = actsSoFar + 1
    /\ slots' = [slots EXCEPT ![s] = [request EXCEPT !.at = "sent"]]
    /\ oneByOne' = (oneByOne /\ AloneIn(s)) /\ UNCHANGED typedInto

\* persistIntegrations: all the fields of the group are sent, as they are shown.
SaveGroup(s, g) ==
    /\ g = LoginGroup => ~savingIntegrations
    /\ AskSlot(s, [FreeSlot EXCEPT !.kind = "save", !.group = g, !.body = inputs[g]])
    /\ savingIntegrations' = TRUE
    /\ unseen' = (IF g \in fresh THEN unseen ELSE unseen \cup {g})
    /\ UNCHANGED <<columns, inputs, unlessForm, fresh, dirty, discarded>>

\* The values of the last rotation are taken away when the next one is asked for.
RotateSecrets(s) ==
    /\ ~rotating /\ rotating' = TRUE /\ rotateValues' = 0
    /\ AskSlot(s, [FreeSlot EXCEPT !.kind = "rotate", !.seen = actsSoFar + 1])
    /\ overlapped' = \E t \in Slots : SlotIs(t, "rotate", "left")
    /\ UNCHANGED <<unlessRotation, rotation>>

\* A configuration is made, removed or made the default.
ChangeConfigs(s) ==
    /\ AskSlot(s, [FreeSlot EXCEPT !.kind = "change"])
    /\ UNCHANGED <<unlessList, configs, listShown>>

-----------------------------------------------------------------------------
(* The API, see Integrations and SecretRotation *)

\* Nobody reads the answer to a request that was given up.
ServesSlot(s, request) ==
    slots' = [slots EXCEPT ![s] = IF slots[s].at = "left" THEN FreeSlot ELSE [request EXCEPT !.at = "done"]]
    /\ UNCHANGED <<inputs, savingIntegrations, rotateValues, rotating, overlapped, listShown, typedInto, actsSoFar, fresh,
                   unseen, dirty, oneByOne, discarded>>

Arrived(s, kind) == SlotIs(s, kind, "sent") \/ SlotIs(s, kind, "left")

\* A secret that is empty is left alone.
ServeSave(s) ==
    LET g == slots[s].group
        body == slots[s].body
    IN
    /\ Arrived(s, "save") /\ ServesSlot(s, slots[s])
    /\ columns' = [columns EXCEPT ![g].plain = body.plain,
                                  ![g].secret = IF body.secret = EmptyField THEN @ ELSE body.secret]
    /\ UNCHANGED <<rotation, configs>>
ServeRead(s) ==
    /\ \E kind \in {"load", "reload", "list"} : SlotIs(s, kind, "sent")
    /\ ServesSlot(s, [slots[s] EXCEPT !.read = [g \in FieldGroups |-> columns[g].plain], !.seen = configs])
    /\ UNCHANGED <<columns, rotation, configs>>
ServeRotation(s) ==
    /\ Arrived(s, "rotate") /\ rotation' = slots[s].seen
    /\ ServesSlot(s, slots[s])
    /\ UNCHANGED <<columns, configs>>
ServeChange(s) ==
    /\ Arrived(s, "change") /\ configs' = configs + 1
    /\ ServesSlot(s, slots[s])
    /\ UNCHANGED <<columns, rotation>>

\* The page is told that a request failed: a read shows nothing new.
GivenUp(s) ==
    /\ oneByOne' = FALSE
    /\ savingIntegrations' = (savingIntegrations /\ slots[s].kind \notin {"save", "reload"})
    /\ rotating' = (rotating /\ slots[s].kind # "rotate")
    /\ listShown' = IF slots[s].kind = "list" THEN 0 ELSE listShown
    /\ UNCHANGED <<columns, inputs, rotation, rotateValues, overlapped, configs, typedInto, actsSoFar, fresh, unseen,
                   dirty, discarded>>

\* The API was not reached or refused, or its answer was lost.
SlotFails(s) ==
    /\ slots[s].at \in {"sent", "done"} /\ GivenUp(s)
    /\ slots' = [slots EXCEPT ![s] = FreeSlot]

\* The connection breaks while the API is at work: the handler goes on.
SlotLeft(s) ==
    /\ slots[s].kind \in {"save", "rotate", "change"} /\ slots[s].at = "sent" /\ GivenUp(s)
    /\ slots' = [slots EXCEPT ![s].at = "left"]

-----------------------------------------------------------------------------
(* Answers *)

ThenAsk(s, kind) == slots' = [slots EXCEPT ![s] = [FreeSlot EXCEPT !.kind = kind, !.at = "sent"]]

\* Every secret that was typed is cleared, and the settings are loaded.
SaveAnswered(s) ==
    LET g == slots[s].group
        kept(h) == inputs[h].secret = EmptyField \/ (h = g /\ inputs[h].secret = slots[s].body.secret)
    IN
    /\ SlotIs(s, "save", "done") /\ ThenAsk(s, "reload")
    /\ inputs' = [h \in FieldGroups |-> [inputs[h] EXCEPT !.secret = EmptyField]]
    /\ discarded' = discarded \cup {[group |-> h, by |-> g, late |-> h = g] : h \in {k \in FieldGroups : ~kept(k)}}
    /\ UNCHANGED <<columns, savingIntegrations, unlessForm, typedInto, actsSoFar, fresh, unseen, dirty, oneByOne>>

LoadAnswered(s) ==
    /\ SlotIs(s, "load", "done") \/ SlotIs(s, "reload", "done")
    /\ slots' = [slots EXCEPT ![s] = FreeSlot]
    /\ inputs' = [g \in FieldGroups |-> [inputs[g] EXCEPT !.plain = slots[s].read[g]]]
    /\ savingIntegrations' = (savingIntegrations /\ slots[s].kind = "load")
    /\ fresh' = FieldGroups /\ dirty' = {}
    /\ UNCHANGED <<columns, unlessForm, typedInto, actsSoFar, unseen, oneByOne, discarded>>

RotationAnswered(s) ==
    /\ SlotIs(s, "rotate", "done")
    /\ slots' = [slots EXCEPT ![s] = FreeSlot] /\ rotateValues' = slots[s].seen /\ rotating' = FALSE
    /\ UNCHANGED <<unlessRotation, rotation, overlapped, typedInto, actsSoFar, oneByOne>>

ChangeAnswered(s) ==
    /\ SlotIs(s, "change", "done") /\ ThenAsk(s, "list")
    /\ UNCHANGED <<unlessList, configs, listShown, typedInto, actsSoFar, oneByOne>>
ListAnswered(s) ==
    /\ SlotIs(s, "list", "done")
    /\ slots' = [slots EXCEPT ![s] = FreeSlot] /\ listShown' = slots[s].seen
    /\ UNCHANGED <<unlessList, configs, typedInto, actsSoFar, oneByOne>>

SettingsNext ==
    \/ \E g \in FieldGroups, field \in {"plain", "secret"} : TypeInto(g, field)
    \/ \E s \in Slots :
          \/ \E g \in FieldGroups : SaveGroup(s, g)
          \/ RotateSecrets(s) \/ ChangeConfigs(s)
          \/ ServeSave(s) \/ ServeRead(s) \/ ServeRotation(s) \/ ServeChange(s)
          \/ SlotFails(s) \/ SlotLeft(s)
          \/ SaveAnswered(s) \/ LoadAnswered(s) \/ RotationAnswered(s) \/ ChangeAnswered(s) \/ ListAnswered(s)

-----------------------------------------------------------------------------
(* Properties *)

\* Saving a group does not empty a column that nobody emptied, unless it was saved before the page had
\* its values: a load that failed or is late leaves the fields empty, and they are sent as they are.
NothingEmptied == \A g \in FieldGroups : columns[g].plain = EmptyField => g \in unseen

\* When requests come one at a time and none fails, the page shows what is stored: the fields but for
\* what was typed since, and the list.
PageShowsStored ==
    oneByOne /\ (\A s \in Slots : slots[s] = FreeSlot) =>
        /\ \A g \in FieldGroups \ dirty : inputs[g].plain = columns[g].plain
        /\ listShown = configs

\* A secret that was typed is discarded only by the save of another group, or when it was typed while
\* a save of its own was on its way.
SecretsDiscarded == \A d \in discarded : d.by # d.group \/ d.late

\* The values that are shown after a rotation are the last ones that the API put in force, unless that rotation was
\* asked for while an earlier one, which the page had been told had failed, was still at work.
ShownValuesInForce == rotateValues \in {0, rotation} \/ overlapped

\* The page empties nothing, shows what is stored, and says which secrets are in force.
SettingsPageInv ==
    SettingsTypeOK /\ NothingEmptied /\ PageShowsStored /\ SecretsDiscarded /\ ShownValuesInForce
=============================================================================
