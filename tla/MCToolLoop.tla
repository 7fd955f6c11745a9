----------------------------- MODULE MCToolLoop -----------------------------
(* Instances of ToolLoop for TLC. *)
EXTENDS ToolLoop

CONSTANTS query, tool, emit

OneTool == {tool}

Chat == [chunking |-> FALSE, client |-> FALSE, none |-> FALSE, server |-> TRUE,
         supports |-> TRUE, mcp |-> TRUE, allowed |-> {query, tool},
         format |-> FALSE]

\* A plain chat and what may differ in it: the policy, the format, tool_choice,
\* MCP; and chunking with and without tools of the client.
MCRequests ==
    {Chat,
     [Chat EXCEPT !.allowed = {tool}, !.format = TRUE],
     [Chat EXCEPT !.allowed = {query}],
     [Chat EXCEPT !.mcp = FALSE],
     [Chat EXCEPT !.none = TRUE],
     [Chat EXCEPT !.chunking = TRUE, !.format = TRUE],
     [Chat EXCEPT !.chunking = TRUE, !.client = TRUE, !.allowed = {query}]}
=============================================================================
