----------------------------- MODULE MCToolBatch -----------------------------
(* One way to read the file, two edits, a command and a question.             *)
EXTENDS ToolBatch

MCCalls == [tool : {"read", "run", "ask"}, arg : {0}] \cup [tool : {"edit"}, arg : {1, 2}]
=============================================================================
