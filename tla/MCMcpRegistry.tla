---------------------------- MODULE MCMcpRegistry ----------------------------
(* The MCP servers in one run of the process, for TLC. *)
EXTENDS McpRegistry
=============================================================================
