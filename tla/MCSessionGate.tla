---------------------------- MODULE MCSessionGate ----------------------------
(* A model-checking instance of SessionGate: two temp- sessions.               *)
EXTENDS SessionGate

CONSTANTS r1, r2, r3, r4, t1, t2

(* Everything that is not a leg is for t1. *)
MCTarget == [r \in Requests |-> t1]
=============================================================================
