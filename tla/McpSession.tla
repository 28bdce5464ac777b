----------------------------- MODULE McpSession -----------------------------
(***************************************************************************)
(* The MCP server (platform/mcp-server/src): one PlatformClient, whose     *)
(* credentials are the agent token of its environment and the JWT of the   *)
(* last login, and the tools that an assistant calls, several at a time.   *)
(* A request takes its credentials when it is sent, so a login or a logout *)
(* that is answered between two requests of one call tells them apart.     *)
(***************************************************************************)
EXTENDS Naturals, FiniteSets

CONSTANTS
    Calls,      \* slots for tool calls in flight
    HasAgent,   \* whether PLATFORM_AGENT_TOKEN is set
    MaxLogins   \* bound: logins called

ASSUME McpAssumption == HasAgent \subseteq BOOLEAN /\ HasAgent # {} /\ MaxLogins \in Nat

VARIABLES
    envAgentToken, \* whether the environment has an agent token
    sessionJwt,    \* the login whose JWT the client holds, or None
    call,          \* the tool of each call, what it waits for, and its credentials
    logins,        \* logins called so far
    sent,          \* history: the last request the API has received, but for reads
    ended,         \* history: the logins that a logout put an end to
    settled        \* history: the calls during which no login or logout was answered

mcpVars == <<envAgentToken, sessionJwt, call, logins, sent, ended, settled>>

None == 0
Agent == MaxLogins + 1
Tokens == None .. Agent

\* Tools that read what anyone with credentials may read are one tool, and so are the public ones.
Tools == {"login", "logout", "whoami", "read", "public", "run", "runConfirmed", "decide", "deployConfirmed"}
Paths == {"login", "agent-tokens/me", "users/me", "read", "public", "validate", "execute", "decide", "deploy"}
Idle == [tool |-> "none", path |-> "none", login |-> None, first |-> None, token |-> None]

McpTypeOK ==
    /\ envAgentToken \in BOOLEAN /\ sessionJwt \in None .. MaxLogins /\ logins \in 0 .. MaxLogins
    /\ call \in [Calls -> [tool : Tools \cup {"none"}, path : Paths \cup {"none"}, login : None .. MaxLogins,
                           first : Tokens, token : Tokens]]
    /\ sent \in [path : Paths, token : Tokens, first : Tokens, alone : BOOLEAN]
    /\ ended \subseteq 1 .. MaxLogins /\ settled \subseteq Calls

McpInit ==
    /\ envAgentToken \in HasAgent /\ sessionJwt = None /\ logins = 0
    /\ call = [c \in Calls |-> Idle] /\ sent = [path |-> "read", token |-> None, first |-> None, alone |-> FALSE]
    /\ ended = {} /\ settled = {}

\* getAuthToken: the agent token takes precedence.
AuthToken == IF envAgentToken THEN Agent ELSE sessionJwt

-----------------------------------------------------------------------------
(* Requests *)

\* request: without credentials a request that needs them is not sent, and the tool answers an error.
Sends(c, next, token, auth) ==
    IF auth /\ token = None
    THEN call' = [call EXCEPT ![c] = Idle] /\ UNCHANGED sent
    ELSE /\ call' = [call EXCEPT ![c] = [next EXCEPT !.token = token]]
         /\ sent' = IF next.path \in {"validate", "execute", "decide", "deploy"}
                    THEN [path |-> next.path, token |-> token, first |-> next.first, alone |-> c \in settled]
                    ELSE sent

Asks(tool, path) == [Idle EXCEPT !.tool = tool, !.path = path]

Called(c, tool) == call[c] = Idle /\ settled' = settled \cup {c}

\* platform_list_pending_commands, platform_approve_command and platform_reject_command.
AskDecision(c) ==
    /\ Called(c, "decide")
    /\ Sends(c, Asks("decide", "decide"), sessionJwt, TRUE)
    /\ UNCHANGED <<envAgentToken, sessionJwt, logins, ended>>

\* The tools that read, and platform_deploy with confirm; without it nothing is sent.
Request(c, tool, path, auth) ==
    /\ Called(c, tool)
    /\ Sends(c, Asks(tool, path), AuthToken, auth)
    /\ UNCHANGED <<envAgentToken, sessionJwt, logins, ended>>

Whoami(c) == Request(c, "whoami", IF envAgentToken THEN "agent-tokens/me" ELSE "users/me", TRUE)

\* platform_run_command validates first, whether or not it is confirmed.
RunCommand(c, tool) ==
    /\ tool \in {"run", "runConfirmed"} /\ Called(c, tool)
    /\ Sends(c, [Asks(tool, "validate") EXCEPT !.first = AuthToken], AuthToken, TRUE)
    /\ UNCHANGED <<envAgentToken, sessionJwt, logins, ended>>

Login(c) ==
    /\ Called(c, "login") /\ logins < MaxLogins
    /\ logins' = logins + 1
    /\ Sends(c, [Asks("login", "login") EXCEPT !.login = logins'], None, FALSE)
    /\ UNCHANGED <<envAgentToken, sessionJwt, ended>>

-----------------------------------------------------------------------------
(* Answers *)

Over(c) == call' = [call EXCEPT ![c] = Idle]
\* The session is written: every call in flight goes on with other credentials.
Written(c) == settled' = {}

\* A login that is refused leaves the session before it.
LoginAnswered(c, ok) ==
    /\ call[c].path = "login"
    /\ IF ok THEN sessionJwt' = call[c].login /\ Written(c) ELSE UNCHANGED <<sessionJwt, settled>>
    /\ Over(c)
    /\ UNCHANGED <<envAgentToken, logins, sent, ended>>

\* A logout is answered without a request, and takes nothing from a login in flight.
Logout(c) ==
    /\ call[c] = Idle
    /\ sessionJwt' = None /\ Written(c)
    /\ ended' = (1 .. logins) \ {call[d].login : d \in Calls}
    /\ UNCHANGED <<envAgentToken, call, logins, sent>>

\* Only an agent token that the API does not know as one (404) is asked for its user.
WhoamiNotFound(c) ==
    /\ call[c].path = "agent-tokens/me"
    /\ Sends(c, [call[c] EXCEPT !.path = "users/me"], AuthToken, TRUE)
    /\ UNCHANGED <<envAgentToken, sessionJwt, logins, ended, settled>>

\* The command is executed once its validation is answered, with the credentials of this moment.
ExecuteValidated(c) ==
    /\ call[c].tool = "runConfirmed" /\ call[c].path = "validate"
    /\ Sends(c, [call[c] EXCEPT !.path = "execute"], AuthToken, TRUE)
    /\ UNCHANGED <<envAgentToken, sessionJwt, logins, ended, settled>>

\* Any other answer, a 401 among them, is the answer of the tool; the session stays.
ToolAnswered(c) ==
    /\ call[c].path \notin {"none", "login"}
    /\ Over(c)
    /\ UNCHANGED <<envAgentToken, sessionJwt, logins, sent, ended, settled>>

McpNext ==
    \E c \in Calls :
        \/ Request(c, "read", "read", TRUE) \/ Request(c, "public", "public", FALSE)
        \/ Request(c, "deployConfirmed", "deploy", TRUE)
        \/ Whoami(c) \/ AskDecision(c) \/ Login(c) \/ Logout(c)
        \/ \E tool \in {"run", "runConfirmed"} : RunCommand(c, tool)
        \/ \E ok \in BOOLEAN : LoginAnswered(c, ok)
        \/ WhoamiNotFound(c) \/ ExecuteValidated(c) \/ ToolAnswered(c)
-----------------------------------------------------------------------------
(* Properties *)

\* "Agent tokens cannot approve commands" (client.ts:255): approvals are listed and decided with the JWT
\* of a login, also where the agent token takes precedence in every other request.
HumanDecides == sent.path = "decide" => sent.token \in 1 .. MaxLogins

\* A logout ends the logins that were answered before it: no late answer brings one back.
LogoutEnds == sessionJwt \notin ended

\* A command is executed by whom it was validated for: always if the environment has an agent token,
\* and otherwise unless a login or a logout was answered between the two requests.
OneIdentity ==
    sent.path = "execute" =>
        sent.first # None /\ (sent.alone \/ envAgentToken => sent.token = sent.first)

\* The credentials of the MCP server are whose they should be.
McpInv == McpTypeOK /\ HumanDecides /\ LogoutEnds /\ OneIdentity
=============================================================================
