---------------------------- MODULE MCMcpManager ----------------------------
(* A model-checking instance of McpManager.                                   *)
EXTENDS McpManager

CONSTANTS d, p, g1, g2, s1, k1, k2
=============================================================================
