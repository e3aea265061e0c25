--------------------------- MODULE MCEngineClient ---------------------------
(* Model-checking instances of EngineClient. *)
EXTENDS EngineClient

CONSTANTS r1, r2

TwoRequests == {r1, r2}

\* What the engine has for each request.
OneEach == [r \in TwoRequests |-> 1]
TwoAndOne == [r \in TwoRequests |-> IF r = r1 THEN 2 ELSE 1]
=============================================================================
