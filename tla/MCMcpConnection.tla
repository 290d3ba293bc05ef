--------------------------- MODULE MCMcpConnection --------------------------
(* McpConnection on a small instance; the cfg gives the bounds.            *)
EXTENDS McpConnection
=============================================================================
