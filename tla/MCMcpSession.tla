---------------------------- MODULE MCMcpSession ----------------------------
(***************************************************************************)
(* The MCP session for TLC: the constants are given in the .cfg files.     *)
(***************************************************************************)
EXTENDS McpSessionProps
=============================================================================
