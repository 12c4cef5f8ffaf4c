----------------------------- MODULE MCExecLoop -----------------------------
(* Three models at two providers and one more elsewhere.                      *)
EXTENDS ExecLoop

CONSTANTS a1, a2, b1, s1

MCModels == {a1, a2, b1}
MCProvider == [m \in MCModels |-> IF m \in {a1, a2} THEN "a" ELSE "b"]
MCNarrow == {a1, b1}
MCSteers == {s1}
=============================================================================
