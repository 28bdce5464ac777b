---------------------------- MODULE AgentTokens -----------------------------
(***************************************************************************)
(* One agent token: its authentication (platform/api/src/middleware/       *)
(* auth.ts) and its administration (routes/agent-tokens.ts).  Every        *)
(* request, an authentication included, finds the row, changes its copy    *)
(* and saves it; every await ends an action.  Time passes nowhere but in   *)
(* the stamps of revocations: an expired token is answered 401 like a      *)
(* revoked one, and lastUsedAt, the name and the expiry are columns that   *)
(* nothing below reads.                                                    *)
(***************************************************************************)
EXTENDS Naturals, EntitySave

CONSTANTS
    Agents,         \* slots for requests that carry the token
    Admins,         \* slots for PATCH and DELETE requests on the token
    Scopes,         \* values the scopes of the token can take
    MaxRevocations  \* bound: revocations stamped in a behaviour

ASSUME TokensAssumption ==
    Agents \cap Admins = {} /\ Scopes # {} /\ MaxRevocations \in Nat

VARIABLES
    row,      \* the token in the table agent_tokens
    at,       \* where each request is
    copy,     \* the entity each request has loaded and changed
    again,    \* what save selected again before its UPDATE
    active,   \* what each request asks of isActive: "on", "off" or "keep"
    stamps,   \* revocations stamped so far
    alone,    \* history: whether each request has had the token to itself so far
    told      \* history: what the last administrator who asked for it was told of isActive

tokenVars == <<row, at, copy, again, active, stamps, alone, told>>

Holders == Agents \cup Admins
TokenStages == {"idle", "compare", "change", "update"}
Never == 0
TokenRow == [isActive : BOOLEAN, revokedAt : 0 .. MaxRevocations, scopes : Scopes]
NewRow == [isActive |-> TRUE, revokedAt |-> Never, scopes |-> CHOOSE s \in Scopes : TRUE]

TokensTypeOK ==
    /\ row \in TokenRow
    /\ at \in [Holders -> TokenStages]
    /\ copy \in [Holders -> TokenRow]
    /\ again \in [Holders -> TokenRow]
    /\ active \in [Holders -> {"on", "off", "keep"}]
    /\ stamps \in 0 .. MaxRevocations
    /\ alone \in [Holders -> BOOLEAN]
    /\ told \in {"nothing", "revoked", "revoked alone", "active"}

\* A token that POST /agent-tokens has created.
TokensInit ==
    /\ row = NewRow
    /\ at = [t \in Holders |-> "idle"]
    /\ copy = [t \in Holders |-> NewRow]
    /\ again = [t \in Holders |-> NewRow]
    /\ active = [t \in Holders |-> "keep"]
    /\ stamps = 0
    /\ alone = [t \in Holders |-> FALSE]
    /\ told = "nothing"

MoveOn(t, st) == at' = [at EXCEPT ![t] = st]

\* The request is answered; its variables are gone.
Forget(t) ==
    /\ MoveOn(t, "idle")
    /\ copy' = [copy EXCEPT ![t] = NewRow]
    /\ again' = [again EXCEPT ![t] = NewRow]
    /\ active' = [active EXCEPT ![t] = "keep"]
    /\ alone' = [alone EXCEPT ![t] = FALSE]

\* findOne: the request holds a copy of the row.
FindToken(t, st) ==
    /\ at[t] = "idle"
    /\ copy' = [copy EXCEPT ![t] = row]
    /\ MoveOn(t, st)
    /\ alone' = [u \in Holders |-> u = t /\ \A v \in Holders : at[v] = "idle"]
    /\ UNCHANGED <<row, again, active, stamps, told>>

\* save: the first selection, then the UPDATE.
SaveToken(t, changed) ==
    /\ copy' = [copy EXCEPT ![t] = changed]
    /\ again' = [again EXCEPT ![t] = row]
    /\ MoveOn(t, "update")
TokenUpdated(t) == row' = Saved(row, again[t], copy[t])

-----------------------------------------------------------------------------
(* authenticateAgentToken *)

Usable(r) == r.isActive /\ r.revokedAt = Never

\* The row is looked up; a token that cannot be used is answered 401 at once.
Lookup(t) == Usable(row) /\ FindToken(t, "compare")

\* bcrypt.compare has succeeded: lastUsedAt is saved with the row as it was looked up.
Compare(t) ==
    /\ at[t] = "compare"
    /\ SaveToken(t, copy[t])
    /\ UNCHANGED <<row, active, stamps, alone, told>>

\* Whether or not the save succeeded, the route runs next.
Authenticated(t) ==
    /\ at[t] = "update"
    /\ TokenUpdated(t) \/ UNCHANGED row
    /\ Forget(t)
    /\ UNCHANGED <<stamps, told>>

-----------------------------------------------------------------------------
(* PATCH and DELETE /agent-tokens/:id *)

Manage(h) == FindToken(h, "change")

\* DELETE stamps a revocation, also of a token that is revoked already.
Delete(h) ==
    /\ at[h] = "change"
    /\ stamps < MaxRevocations
    /\ stamps' = stamps + 1
    /\ active' = [active EXCEPT ![h] = "off"]
    /\ SaveToken(h, [isActive |-> FALSE, revokedAt |-> stamps', scopes |-> copy[h].scopes])
    /\ UNCHANGED <<row, alone, told>>

\* Mutant: isActive is true when the request does not name it.
RenameReactivates(h, s) ==
    /\ at[h] = "change"
    /\ SaveToken(h, [isActive |-> TRUE, revokedAt |-> Never, scopes |-> s])
    /\ UNCHANGED <<row, active, stamps, alone, told>>

\* PATCH without isActive.
Rename(h, s) ==
    /\ at[h] = "change"
    /\ SaveToken(h, [copy[h] EXCEPT !.scopes = s])
    /\ UNCHANGED <<row, active, stamps, alone, told>>

\* PATCH with isActive true clears the stamp.
Activate(h, s) ==
    /\ at[h] = "change"
    /\ active' = [active EXCEPT ![h] = "on"]
    /\ SaveToken(h, [isActive |-> TRUE, revokedAt |-> Never, scopes |-> s])
    /\ UNCHANGED <<row, stamps, alone, told>>

\* PATCH with isActive false stamps a token that has no stamp yet.
Deactivate(h, s) ==
    LET old == copy[h].revokedAt IN
    /\ at[h] = "change"
    /\ IF old = Never THEN stamps < MaxRevocations /\ stamps' = stamps + 1
                      ELSE UNCHANGED stamps
    /\ active' = [active EXCEPT ![h] = "off"]
    /\ SaveToken(h, [isActive |-> FALSE, scopes |-> s,
                revokedAt |-> IF old = Never THEN stamps' ELSE old])
    /\ UNCHANGED <<row, alone, told>>

\* The saved entity is answered.
Answered(h) ==
    /\ at[h] = "update"
    /\ TokenUpdated(h)
    /\ told' = CASE active[h] = "on" -> "active"
                 [] active[h] = "off" -> IF alone[h] THEN "revoked alone" ELSE "revoked"
                 [] OTHER -> told
    /\ Forget(h)
    /\ UNCHANGED stamps

-----------------------------------------------------------------------------
\* A request ends before it saves: a wrong secret, an error of the database, a killed process.
Abandoned(t) ==
    /\ at[t] # "idle"
    /\ Forget(t)
    /\ UNCHANGED <<row, stamps, told>>

TokensNext ==
    \/ \E t \in Agents : Lookup(t) \/ Compare(t) \/ Authenticated(t)
    \/ \E h \in Admins :
          \/ Manage(h) \/ Delete(h) \/ Answered(h)
          \/ \E s \in Scopes : Rename(h, s) \/ Activate(h, s) \/ Deactivate(h, s)
    \/ \E t \in Holders : Abandoned(t)

TokensSpec == TokensInit /\ [][TokensNext]_tokenVars

-----------------------------------------------------------------------------
(* Properties *)

\* What is left of "DELETE /api/agent-tokens/:id - revoke", since a save of a request that held the
\* token before undoes it: a revocation during which no other request held the token sticks.  A
\* save of any request that finds the token later, or found it revoked, does not undo it.
LoneRevocationSticks == told = "revoked alone" => ~row.isActive /\ row.revokedAt # Never

\* Why: while a request has the token to itself the row is the one it found, and after a lone
\* revocation every copy but those of activations is revoked.
Revoked(r) == ~r.isActive /\ r.revokedAt # Never
LoneInv ==
    /\ \A t \in Holders : alone[t] =>
         /\ \A u \in Holders : u # t => at[u] = "idle"
         /\ at[t] = "update" => again[t] = row
    /\ \A t \in Holders :
         /\ active[t] # "keep" => at[t] = "update"
         /\ active[t] = "off" => Revoked(copy[t])
         /\ t \in Agents => active[t] = "keep"
    /\ told = "revoked alone" =>
         /\ Revoked(row)
         /\ \A t \in Holders : at[t] # "idle" /\ active[t] # "on" => Revoked(copy[t])
         /\ \A t \in Agents : at[t] = "idle"
=============================================================================
