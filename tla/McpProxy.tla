------------------------------- MODULE McpProxy -------------------------------
(***************************************************************************)
(* The MCP proxy (pkg/proxy/mcp/proxy.go): Configure fixes its transport,  *)
(* and HandleRequest and Close go to the sessions of an http or sse        *)
(* upstream or to the process of a stdio one; the other part is at rest.   *)
(***************************************************************************)
EXTENDS McpSession, McpStdio

VARIABLE transport

mcpVars == <<transport, sessionVars, stdioVars>>

McpConfigure ==
    /\ transport \in {"http", "stdio"}
    /\ SessionInit
    /\ StdioInit

McpNext ==
    \/ transport = "http" /\ SessionNext /\ UNCHANGED <<transport, stdioVars>>
    \/ transport = "stdio" /\ StdioNext /\ UNCHANGED <<transport, sessionVars>>

McpSpec == McpConfigure /\ [][McpNext]_mcpVars

\* The type invariant of both parts.
McpTypeOK == transport \in {"http", "stdio"} /\ SessionTypeOK /\ StdioTypeOK
=============================================================================
