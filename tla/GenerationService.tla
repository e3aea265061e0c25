------------------------- MODULE GenerationService -------------------------
(***************************************************************************)
(* What the engine promises for a request, whatever its scheduler does:    *)
(* the request's tokens only ever grow, by one sampled token at a time,    *)
(* and the request ends once: with "stop" at the end-of-sequence token,    *)
(* with "length" at a limit, or because it was aborted                     *)
(* (engine/protocol.h:62-76).                                              *)
(***************************************************************************)
EXTENDS Integers, Sequences

CONSTANTS MaxRequests, Tokens, Eos, MaxModelLen, Prompts, MaxOutputs, IgnoreEos

Requests == 1 .. MaxRequests

VARIABLES
    numAdded,    \* requests that have arrived
    known,       \* those the engine still serves
    tokens,      \* prompt and sampled tokens of each
    numPrompt,   \* length of its prompt
    params,      \* its limits
    outcome      \* how it ended

vars == <<numAdded, known, tokens, numPrompt, params, outcome>>

NoParams == [maxOutput |-> 0, ignoreEos |-> FALSE]

Init ==
    /\ numAdded = 0
    /\ known = {}
    /\ tokens = [r \in Requests |-> <<>>]
    /\ numPrompt = [r \in Requests |-> 0]
    /\ params = [r \in Requests |-> NoParams]
    /\ outcome = [r \in Requests |-> "none"]

Arrive(prompt, maxOutput, ignoreEos) ==
    LET r == numAdded + 1 IN
    /\ r \in Requests
    /\ numAdded' = r
    /\ known' = known \cup {r}
    /\ tokens' = [tokens EXCEPT ![r] = prompt]
    /\ numPrompt' = [numPrompt EXCEPT ![r] = Len(prompt)]
    /\ params' = [params EXCEPT ![r] =
                     [maxOutput |-> maxOutput, ignoreEos |-> ignoreEos]]
    /\ UNCHANGED outcome

Leave(r, why) ==
    /\ outcome[r] = "none"
    /\ known' = known \ {r}
    /\ tokens' = [tokens EXCEPT ![r] = <<>>]
    /\ numPrompt' = [numPrompt EXCEPT ![r] = 0]
    /\ params' = [params EXCEPT ![r] = NoParams]
    /\ outcome' = [outcome EXCEPT ![r] = why]
    /\ UNCHANGED numAdded

Abort(r) == r \in known /\ Leave(r, "aborted")

\* The limits in force once r has one more token.
AtEos(r, t) == t = Eos /\ ~params[r].ignoreEos
AtLimit(r) ==
    \/ Len(tokens[r]) + 1 - numPrompt[r] = params[r].maxOutput
    \/ Len(tokens[r]) + 1 = MaxModelLen

Sample(r, t) ==
    /\ r \in known
    /\ ~AtEos(r, t) /\ ~AtLimit(r)
    /\ tokens' = [tokens EXCEPT ![r] = Append(@, t)]
    /\ UNCHANGED <<numAdded, known, numPrompt, params, outcome>>

Stop(r, t) == r \in known /\ AtEos(r, t) /\ Leave(r, "stop")

ReachLength(r, t) ==
    r \in known /\ ~AtEos(r, t) /\ AtLimit(r) /\ Leave(r, "length")

Next ==
    \/ \E p \in Prompts, m \in MaxOutputs, e \in IgnoreEos : Arrive(p, m, e)
    \/ \E r \in Requests :
          \/ Abort(r)
          \/ \E t \in Tokens : Sample(r, t) \/ Stop(r, t) \/ ReachLength(r, t)

Spec == Init /\ [][Next]_vars
=============================================================================
