------------------------------ MODULE MCServer ------------------------------
EXTENDS Server

CONSTANTS r1, r2

TwoRequests == {r1, r2}

TwoEach == [r \in TwoRequests |-> 2]

Asks(kind, max_tokens) == [kind |-> kind, max_tokens |-> max_tokens]
Alone(b) == [r \in TwoRequests |-> IF r = r1 THEN b ELSE Asks("never", 1)]

\* A stream and an answer in one piece together, and each kind alone with an
\* output that is not its last.
Mixes ==
    {Alone(Asks(kind, 2)) : kind \in {"chat", "text", "json"}}
    \cup {[r \in TwoRequests |-> Asks(IF r = r1 THEN "chat" ELSE "json", 1)]}
=============================================================================
