---------------------------- MODULE MCScheduler ----------------------------
(* Model-checking instances of Scheduler: the values a .cfg cannot write.   *)
EXTENDS Scheduler

\* Two prompts whose second blocks may hold the same tokens after different
\* first ones.
SharedPrompts == {<<1, 1, 1>>, <<2, 1, 1>>}

\* A prompt of one token, and two longer than a step's budget.
MixedPrompts == {<<1>>, <<1, 1, 1, 1>>, <<2, 1, 1>>}

OnePrompt == {<<1, 1, 1>>}
=============================================================================
