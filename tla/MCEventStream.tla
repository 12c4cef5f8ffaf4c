---------------------------- MODULE MCEventStream ----------------------------
(* The instances of EventStream that TLC checks; channels hold one event, so  *)
(* that they fill up.                                                         *)
EXTENDS EventStream
=============================================================================
