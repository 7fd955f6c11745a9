---------------------------- MODULE MCMcpClient ----------------------------
(* Two chat completions that use the client of one MCP server.               *)
EXTENDS McpClient
=============================================================================
