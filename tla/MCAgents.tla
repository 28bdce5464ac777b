------------------------------ MODULE MCAgents ------------------------------
(***************************************************************************)
(* Agents: their destructive commands, the token of one of them, one       *)
(* command of any risk, or the MCP server they call the platform through.  *)
(* The four share no state: a behaviour moves one of them.  The            *)
(* administrators of the token are interchangeable, and so are the calls   *)
(* of the MCP server's tools.                                              *)
(***************************************************************************)
EXTENDS AgentCommands, AgentTokens, CommandGuard, McpSession, TLC

VARIABLE part

allVars == <<vars, tokenVars, guardVars, mcpVars, part>>

MCSpelled ==
    [w \in Words |-> IF w = "a'b'" THEN "ab" ELSE IF w = "ps'x'" THEN "psx"
                     ELSE IF w = "delete'x'" THEN "deletex" ELSE IF w = "'c" THEN "c" ELSE w]
MCReads == {<<"kubectl", "get">>}
MCMutations == {<<"kubectl", "scale">>}
MCDestructive == {<<"kubectl", "delete">>, <<"kubectl", "delete'x'">>}
MCForbidden == {{"kubectl", "delete", "ab"}}

MCInit ==
    /\ Init /\ TokensInit /\ GuardInit /\ McpInit
    /\ part \in {"commands", "token", "guard", "mcp"}
    \* What stands still begins in one way.
    /\ part # "guard" => lines = <<>> /\ given = {} /\ approval = "none"
    /\ part # "mcp" => envAgentToken
MCNext ==
    /\ UNCHANGED part
    /\ \/ part = "commands" /\ Next /\ UNCHANGED <<tokenVars, guardVars, mcpVars>>
       \/ part = "token" /\ TokensNext /\ UNCHANGED <<vars, guardVars, mcpVars>>
       \/ part = "guard" /\ GuardNext /\ UNCHANGED <<vars, tokenVars, mcpVars>>
       \/ part = "mcp" /\ McpNext /\ UNCHANGED <<vars, tokenVars, guardVars>>
MCSpec == MCInit /\ [][MCNext]_allVars

Interchangeable == Permutations(Admins) \cup Permutations(Calls)

\* Every state is of its type, a command is judged as what it runs as, and the MCP server sends each
\* request with the credentials it should have.
AgentsInv == TypeOK /\ TokensTypeOK /\ GuardInv /\ McpInv
=============================================================================
