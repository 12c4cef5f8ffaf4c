--------------------------- MODULE MCPendingBroker ---------------------------
(* Model-checking instances of PendingBroker: c is a tool confirmation (Ask,  *)
(* no task), p the question of a pending task that a TUI asks again (Ask,     *)
(* ipc/pending.go), q an ask_user question of a chat (AskUser).  Two          *)
(* listeners overlap when two TUI connections share a window, or while a bot  *)
(* is reloaded.                                                               *)
EXTENDS PendingBroker

CONSTANTS c, p, q, l1, l2, t1, none

MCTaskOf == [r \in Requests |-> IF r = c THEN none ELSE t1]
MCPrefixed == [l \in Listeners |-> Requests]

(* l2 does not own the window of c. *)
MCAccepts == [l \in Listeners |-> IF l = l1 THEN Requests ELSE Requests \ {c}]
=============================================================================
