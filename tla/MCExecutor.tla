----------------------------- MODULE MCExecutor -----------------------------
(* Values for the constants of Executor that a cfg cannot write. *)
EXTENDS Executor

MCPromptLen == [r \in Requests |-> IF r = 1 THEN 4 ELSE 1]
=============================================================================
