----------------------------- MODULE MCMcpManager -----------------------------
(***************************************************************************)
(* Instances of the MCP manager for TLC; Mcp.cfg gives the bounds.         *)
(***************************************************************************)
EXTENDS McpManagerProps
=============================================================================
