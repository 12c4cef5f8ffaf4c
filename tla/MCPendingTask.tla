---------------------------- MODULE MCPendingTask ----------------------------
(* Model-checking instances of PendingTask: up to three attempts of one task. *)
EXTENDS PendingTask

CONSTANTS a1, a2, a3
=============================================================================
