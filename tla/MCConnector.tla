----------------------------- MODULE MCConnector -----------------------------
(* Model-checking instances of Connector: c is a tool confirmation, a an      *)
(* ask_user with a choice and then a text question, b one with one choice;    *)
(* all belong to one chat.                                                    *)
EXTENDS Connector

CONSTANTS a, b, c, x, h1, h2

MCChatOf == [p \in Prompts |-> x]
MCNumQ == [p \in Prompts |-> IF p = a THEN 2 ELSE 1]
MCTyped == {<<a, 2>>} \cap (Prompts \X {2})
(* The session of b has lost its chat. *)
MCLookupFails == [p \in Prompts |-> {p = b}]
=============================================================================
