---------------------------- MODULE MCMcpServer ----------------------------
(* The MCP server with one approval request and one other server; a second *)
(* run or a backtest competes with the run it starts.                      *)
EXTENDS McpServer

CONSTANTS a1, s2

MCApprovals == {a1}

MCOtherServers == {s2}
=============================================================================
