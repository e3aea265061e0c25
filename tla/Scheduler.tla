----------------------------- MODULE Scheduler -----------------------------
(***************************************************************************)
(* One step of the engine over the scheduler (scheduler/scheduler.cpp),    *)
(* the kv cache manager it drives and the forward pass it feeds:           *)
(*                                                                         *)
(*    inputs -> pass1 -> pass2 <-> admit -> forward -> update -> inputs    *)
(*                                                                         *)
(* The engine is one thread, so nothing interleaves inside a step; an      *)
(* action is one iteration of one of its loops.  What is nondeterministic  *)
(* is which requests arrive and are aborted between two steps, and the     *)
(* tokens the model samples.                                               *)
(*                                                                         *)
(* kv is a history variable: the token prefix each slot of the kv cache    *)
(* was last computed from.                                                 *)
(***************************************************************************)
EXTENDS KVCacheManager

CONSTANTS
    MaxNumSeqs,           \* Config::max_num_seqs
    MaxScheduledTokens,   \* Config::max_num_scheduled_tokens
    MaxModelLen,          \* ModelConfig::max_model_len
    Prompts,              \* the prompts a request may have
    MaxOutputs,           \* the values max_output_tokens may have
    IgnoreEos,            \* the values ignore_eos may have
    Eos                   \* the end-of-sequence token

\* The limits the engine accepts: the frontend turns away prompts of
\* max_model_len tokens and non-positive limits (protocol.h:36-38), and
\* initialize_kv_cache refuses to start without room for the longest request.
ASSUME SchedulerAssumption ==
    /\ MaxNumSeqs \in Nat \ {0}
    /\ MaxScheduledTokens \in Nat \ {0}
    /\ MaxModelLen \in Nat
    /\ MaxModelLen <= NumBlocks * BlockSize
    /\ Prompts \subseteq Seq(Tokens)
    /\ \A p \in Prompts : Len(p) \in 1 .. MaxModelLen - 1
    /\ MaxOutputs \subseteq Nat \ {0}
    /\ IgnoreEos \subseteq BOOLEAN
    /\ Eos \in Tokens

VARIABLES
    numAdded,      \* requests that have arrived so far
    live,          \* the keys of id_to_request_
    running,       \* running_
    preempted,     \* preempted_
    waiting,       \* waiting_
    status,        \* Request::status
    tokens,        \* Request::token_ids
    numPrompt,     \* Request::num_prompt_tokens
    numPrefill,    \* Request::num_prefill_tokens
    computed,      \* Request::num_computed_tokens
    params,        \* Request::max_output_tokens and ignore_eos
    outcome,       \* how the request left: the finish reason sent, or "aborted"
    pc,            \* where the engine's thread is
    idle,          \* process_inputs waits: no request, no message yet
    budget,        \* schedule()'s token_budget
    cursor,        \* schedule()'s cur_iter, as an index of running_
    preemptedBefore, \* schedule()'s num_preempted_before
    scheduled,     \* the batch: schedule()'s result
    sampled,       \* the requests whose sampled token update() has yet to add
    kv             \* history: the prefix each slot was computed from

reqVars == <<numAdded, live, status, tokens, numPrompt, numPrefill, computed,
             params, outcome>>
queueVars == <<running, preempted, waiting>>
passVars == <<budget, cursor, preemptedBefore, scheduled>>
vars == <<kvVars, reqVars, queueVars, passVars, pc, idle, sampled, kv>>

Slots == BlockIds \X (0 .. BlockSize - 1)

NoParams == [maxOutput |-> 0, ignoreEos |-> FALSE]

Init ==
    /\ KVInit
    /\ numAdded = 0
    /\ live = {}
    /\ running = <<>> /\ preempted = <<>> /\ waiting = <<>>
    /\ status = [r \in Requests |-> "waiting"]
    /\ tokens = [r \in Requests |-> <<>>]
    /\ numPrompt = [r \in Requests |-> 0]
    /\ numPrefill = [r \in Requests |-> 0]
    /\ computed = [r \in Requests |-> 0]
    /\ params = [r \in Requests |-> NoParams]
    /\ outcome = [r \in Requests |-> "none"]
    /\ pc = "inputs" /\ idle = TRUE
    /\ budget = 0 /\ cursor = 1 /\ preemptedBefore = 0
    /\ scheduled = <<>> /\ sampled = <<>>
    /\ kv = [s \in Slots |-> <<>>]

-----------------------------------------------------------------------------
(* Requests come and go between two engine steps. *)

AddRequest(prompt, maxOutput, ignoreEos) ==
    LET r == numAdded + 1 IN
    /\ pc = "inputs"
    /\ r \in Requests
    /\ numAdded' = r
    /\ live' = live \cup {r}
    /\ waiting' = Append(waiting, r)
    /\ status' = [status EXCEPT ![r] = "waiting"]
    /\ tokens' = [tokens EXCEPT ![r] = prompt]
    /\ numPrompt' = [numPrompt EXCEPT ![r] = Len(prompt)]
    /\ numPrefill' = [numPrefill EXCEPT ![r] = Len(prompt)]
    /\ computed' = [computed EXCEPT ![r] = 0]
    /\ params' = [params EXCEPT ![r] =
                     [maxOutput |-> maxOutput, ignoreEos |-> ignoreEos]]
    /\ idle' = FALSE
    /\ UNCHANGED <<kvVars, running, preempted, outcome, pc, passVars, sampled, kv>>

\* A queue without request r, which may stand anywhere in it.
Without(q, r) ==
    IF \E k \in DOMAIN q : q[k] = r
    THEN LET k == CHOOSE i \in DOMAIN q : q[i] = r
         IN  [i \in 1 .. Len(q) - 1 |-> IF i < k THEN q[i] ELSE q[i + 1]]
    ELSE q

\* remove_request erases the request from the queue its status names, and
\* gives its blocks back.  toks is its final token_ids.
RemoveRequest(r, toks) ==
    /\ ReleaseBlocks(r, toks, computed[r])
    /\ live' = live \ {r}
    /\ running' = IF status[r] = "running" THEN Without(running, r) ELSE running
    /\ preempted' = IF status[r] = "preempted" THEN Without(preempted, r) ELSE preempted
    /\ waiting' = IF status[r] = "waiting" THEN Without(waiting, r) ELSE waiting
    \* the Request object is gone; its fields read as those of none
    /\ status' = [status EXCEPT ![r] = "waiting"]
    /\ tokens' = [tokens EXCEPT ![r] = <<>>]
    /\ numPrompt' = [numPrompt EXCEPT ![r] = 0]
    /\ numPrefill' = [numPrefill EXCEPT ![r] = 0]
    /\ computed' = [computed EXCEPT ![r] = 0]
    /\ params' = [params EXCEPT ![r] = NoParams]

\* abort_requests, for one id of the message.  The request may be gone: it
\* finished while the message was on its way, and the id is skipped.
AbortRequest(r) ==
    /\ pc = "inputs"
    /\ r <= numAdded
    /\ IF r \in live
       THEN /\ RemoveRequest(r, tokens[r])
            /\ outcome' = [outcome EXCEPT ![r] = "aborted"]
       ELSE UNCHANGED <<kvVars, queueVars, reqVars>>
    /\ idle' = FALSE
    /\ UNCHANGED <<numAdded, pc, passVars, sampled, kv>>

\* process_inputs returns when no message is left, but with no request to run
\* it first waits for one; an abort may leave schedule() nothing to do.
BeginSchedule ==
    /\ pc = "inputs"
    /\ ~idle
    /\ pc' = "pass1"
    /\ budget' = MaxScheduledTokens
    /\ cursor' = 1
    /\ preemptedBefore' = Len(preempted)
    /\ scheduled' = <<>>
    /\ UNCHANGED <<kvVars, reqVars, queueVars, idle, sampled, kv>>

-----------------------------------------------------------------------------
(* schedule(), pass 1: the running requests, oldest first *)

\* What both loops ask for before another request joins the batch.
HasRoom == budget > 0 /\ Len(scheduled) < MaxNumSeqs

\* Mutant: the chunk ignores what is left of the budget.
ChunkLen_NoBudget(r) == Len(tokens[r]) - computed[r]

ChunkLen(r) == Least(Len(tokens[r]) - computed[r], budget)

\* Mutant: a request is sampled as soon as it computed its prompt, though a
\* preemption made it prefill its outputs again.
ReachesEnd_Prompt(r, after, prefill) == after >= numPrompt[r]

ReachesEnd(r, after, prefill) == after >= prefill

\* The ScheduledRequest of r for n tokens from position offset on, with the
\* table it has in the next state.  Its tokens_to_compute are the tokens at
\* these positions.
Entry(r, offset, n, prefill, isPrefill) ==
    [req |-> r, isPrefill |-> isPrefill,
     needsSampling |-> ReachesEnd(r, offset + n, prefill),
     offset |-> offset, len |-> n, blocks |-> table'[r]]

InPass1 == pc = "pass1" /\ cursor <= Len(running) /\ HasRoom

ScheduleRunning ==
    /\ InPass1
    /\ LET r == running[cursor]
           n == ChunkLen(r)
       IN  /\ CanAllocate(r, computed[r], n)
           /\ AllocateSlots(r, tokens[r], computed[r], n)
           /\ budget' = budget - n
           /\ scheduled' = Append(scheduled,
                  Entry(r, computed[r], n, numPrefill[r], computed[r] < numPrefill[r]))
           /\ computed' = [computed EXCEPT ![r] = @ + n]
    /\ cursor' = cursor + 1
    /\ UNCHANGED <<queueVars, numAdded, live, status, tokens, numPrompt,
                   numPrefill, params, outcome, pc, preemptedBefore, idle, sampled, kv>>

\* Mutant: the oldest running request is preempted instead of the newest.
Victim_Oldest == running[1]

\* The request that gives up its blocks: the newest running one.
Victim == running[Len(running)]

\* Without room for the current request, the newest running one, which may be
\* the current one itself, goes back to the front of the preempted queue; then
\* the current one tries again, unless it was the victim.
PreemptNewest ==
    /\ InPass1
    /\ LET r == running[cursor] IN ~CanAllocate(r, computed[r], ChunkLen(r))
    /\ LET v == Victim IN
       /\ ReleaseBlocks(v, tokens[v], computed[v])
       /\ computed' = [computed EXCEPT ![v] = 0]
       /\ status' = [status EXCEPT ![v] = "preempted"]
       /\ running' = Without(running, v)
       /\ preempted' = <<v>> \o preempted
    /\ UNCHANGED <<waiting, numAdded, live, tokens, numPrompt, numPrefill,
                   params, outcome, pc, passVars, idle, sampled, kv>>

\* Nobody is admitted in a step that preempted somebody.
EndPass1 ==
    /\ pc = "pass1"
    /\ ~InPass1
    /\ pc' = IF Len(preempted) = preemptedBefore THEN "pass2" ELSE "forward"
    /\ UNCHANGED <<kvVars, reqVars, queueVars, passVars, idle, sampled, kv>>

-----------------------------------------------------------------------------
(* schedule(), pass 2: the preempted requests, then the waiting ones *)

\* Mutant: new requests go before the preempted ones.
Candidate_WaitingFirst == IF waiting = <<>> THEN Head(preempted) ELSE Head(waiting)

Candidate == IF preempted = <<>> THEN Head(waiting) ELSE Head(preempted)

InPass2 ==
    /\ pc = "pass2"
    /\ preempted # <<>> \/ waiting # <<>>
    /\ HasRoom

LookupPrefix ==
    /\ InPass2
    /\ ReusePrefix(Candidate, tokens[Candidate])
    /\ computed' = [computed EXCEPT ![Candidate] = NumReused(tokens[Candidate])]
    /\ pc' = "admit"
    /\ UNCHANGED <<queueVars, numAdded, live, status, tokens, numPrompt,
                   numPrefill, params, outcome, passVars, idle, sampled, kv>>

\* The candidate joins the end of the running queue with its first chunk.
Admit ==
    /\ pc = "admit"
    /\ LET r == Candidate
           n == ChunkLen(r)
       IN  /\ CanAllocate(r, computed[r], n)
           /\ AllocateSlots(r, tokens[r], computed[r], n)
           /\ numPrefill' = [numPrefill EXCEPT ![r] = Len(tokens[r])]
           /\ budget' = budget - n
           /\ scheduled' = Append(scheduled,
                               Entry(r, computed[r], n, Len(tokens[r]), TRUE))
           /\ computed' = [computed EXCEPT ![r] = @ + n]
           /\ status' = [status EXCEPT ![r] = "running"]
           /\ running' = Append(running, r)
           /\ preempted' = Without(preempted, r)
           /\ waiting' = Without(waiting, r)
    /\ pc' = "pass2"
    /\ UNCHANGED <<numAdded, live, tokens, numPrompt, params, outcome, cursor,
                   preemptedBefore, idle, sampled, kv>>

\* The candidate keeps its place in its queue, and gives back the blocks the
\* lookup made it hold.
Refuse ==
    /\ pc = "admit"
    /\ LET r == Candidate IN
       /\ ~CanAllocate(r, computed[r], ChunkLen(r))
       /\ ReleaseBlocks(r, tokens[r], computed[r])
       /\ computed' = [computed EXCEPT ![r] = 0]
    /\ pc' = "forward"
    /\ UNCHANGED <<queueVars, numAdded, live, status, tokens, numPrompt,
                   numPrefill, params, outcome, passVars, idle, sampled, kv>>

EndPass2 ==
    /\ pc = "pass2"
    /\ ~InPass2
    /\ pc' = "forward"
    /\ UNCHANGED <<kvVars, reqVars, queueVars, passVars, idle, sampled, kv>>

-----------------------------------------------------------------------------
(* The forward pass and update() *)

\* The slot of position p under a block table.
SlotAt(blocks, p) == <<blocks[p \div BlockSize + 1], p % BlockSize>>

Positions(e) == e.offset .. e.offset + e.len - 1
WrittenSlots(e) == {SlotAt(e.blocks, p) : p \in Positions(e)}

\* run_model and finish: every scheduled token's key and value go to the slot
\* of its position, and the requests that reached their end are sampled, in
\* the order of the batch.
RunModel ==
    /\ pc = "forward"
    /\ kv' = [s \in Slots |->
                 IF \E i \in DOMAIN scheduled : s \in WrittenSlots(scheduled[i])
                 THEN LET e == scheduled[CHOOSE i \in DOMAIN scheduled :
                                            s \in WrittenSlots(scheduled[i])]
                          pos == CHOOSE p \in Positions(e) : SlotAt(e.blocks, p) = s
                      IN  SubSeq(tokens[e.req], 1, pos + 1)
                 ELSE kv[s]]
    /\ sampled' = Subsequence([i \in DOMAIN scheduled |-> scheduled[i].req],
                              {i \in DOMAIN scheduled : scheduled[i].needsSampling})
    /\ scheduled' = <<>>
    /\ budget' = 0 /\ cursor' = 1 /\ preemptedBefore' = 0
    /\ pc' = "update"
    /\ UNCHANGED <<kvVars, reqVars, queueVars, idle>>

\* Mutant: the model's limit is not looked at.
FinishReason_NoModelLimit(r, toks, token) ==
    IF ~params[r].ignoreEos /\ token = Eos THEN "stop"
    ELSE IF Len(toks) - numPrompt[r] >= params[r].maxOutput THEN "length"
    ELSE "running"

FinishReason(r, toks, token) ==
    IF ~params[r].ignoreEos /\ token = Eos THEN "stop"
    ELSE IF \/ Len(toks) - numPrompt[r] >= params[r].maxOutput
            \/ Len(toks) >= MaxModelLen
         THEN "length"
         ELSE "running"

\* update() adds the next sampled token to its request, and removes the
\* request if it is finished.
Update(token) ==
    /\ pc = "update"
    /\ sampled # <<>>
    /\ LET r == Head(sampled)
           toks == Append(tokens[r], token)
           reason == FinishReason(r, toks, token)
       IN  IF reason = "running"
           THEN /\ tokens' = [tokens EXCEPT ![r] = toks]
                /\ UNCHANGED <<kvVars, queueVars, live, status, numPrompt,
                               numPrefill, computed, params, outcome>>
           ELSE /\ RemoveRequest(r, toks)
                /\ outcome' = [outcome EXCEPT ![r] = reason]
    /\ sampled' = Tail(sampled)
    /\ UNCHANGED <<numAdded, pc, idle, passVars, kv>>

EndUpdate ==
    /\ pc = "update"
    /\ sampled = <<>>
    /\ pc' = "inputs"
    /\ idle' = (live = {})
    /\ UNCHANGED <<kvVars, reqVars, queueVars, passVars, sampled, kv>>

-----------------------------------------------------------------------------

Receive ==
    \/ \E p \in Prompts, m \in MaxOutputs, e \in IgnoreEos : AddRequest(p, m, e)
    \/ \E r \in Requests : AbortRequest(r)

EngineStep ==
    \/ BeginSchedule \/ ScheduleRunning \/ PreemptNewest \/ EndPass1
    \/ LookupPrefix \/ Admit \/ Refuse \/ EndPass2
    \/ RunModel \/ EndUpdate
    \/ \E t \in Tokens : Update(t)

Next == Receive \/ EngineStep

Spec == Init /\ [][Next]_vars

\* The engine's thread runs whenever there is work; nothing is assumed of the
\* frontend, which may stop sending or aborting at any time.
FairSpec == Spec /\ WF_vars(EngineStep)

-----------------------------------------------------------------------------
(* Properties *)

Statuses == {"waiting", "running", "preempted"}
Outcomes == {"none", "stop", "length", "aborted"}
PCs == {"inputs", "pass1", "pass2", "admit", "forward", "update"}

Entries ==
    [req : Requests, isPrefill : BOOLEAN, needsSampling : BOOLEAN,
     offset : Nat, len : Nat, blocks : Seq(BlockIds)]

\* The types of everything the engine keeps.
TypeOK ==
    /\ KVTypeOK
    /\ numAdded \in 0 .. MaxRequests
    /\ live \subseteq Requests
    /\ running \in Seq(Requests)
    /\ preempted \in Seq(Requests)
    /\ waiting \in Seq(Requests)
    /\ status \in [Requests -> Statuses]
    /\ tokens \in [Requests -> Seq(Tokens)]
    /\ numPrompt \in [Requests -> Nat]
    /\ numPrefill \in [Requests -> Nat]
    /\ computed \in [Requests -> Nat]
    /\ params \in [Requests -> [maxOutput : Nat, ignoreEos : BOOLEAN]]
    /\ outcome \in [Requests -> Outcomes]
    /\ pc \in PCs
    /\ idle \in BOOLEAN
    /\ budget \in 0 .. MaxScheduledTokens
    /\ cursor \in Nat \ {0}
    /\ preemptedBefore \in Nat
    /\ scheduled \in Seq(Entries)
    /\ sampled \in Seq(Requests)
    /\ kv \in [Slots -> Seq(Tokens)]

\* Everybody the engine serves, from the one served first to the one last.
Line == running \o preempted \o waiting

\* Nobody is ever overtaken: however often requests are preempted and
\* admitted again, the three queues, one after the other, list exactly the
\* live requests in order of arrival.
FirstComeFirstServed ==
    /\ \A i, j \in DOMAIN Line : i < j => Line[i] < Line[j]
    /\ Elements(Line) = live

\* The status by which remove_request finds the queue of a request is the
\* queue that holds it.
StatusNamesQueue ==
    /\ \A i \in DOMAIN running : status[running[i]] = "running"
    /\ \A i \in DOMAIN preempted : status[preempted[i]] = "preempted"
    /\ \A i \in DOMAIN waiting : status[waiting[i]] = "waiting"

\* The batch serves the head of the line: no request is computed in a step in
\* which an older one is not.  The candidate under admission is next in line.
BatchIsHeadOfLine ==
    /\ \A i \in DOMAIN scheduled :
          i <= Len(Line) /\ scheduled[i].req = Line[i]
    /\ pc = "admit" => Candidate = Line[Len(scheduled) + 1]

\* The tokens of the batch, each as its entry's index and its position.
BatchTokens == {s \in (DOMAIN scheduled) \X (0 .. MaxModelLen) :
                    s[2] \in Positions(scheduled[s[1]])}

\* The batch, and the requests that run, stay within the sizes the executor
\* allocated its buffers for.
WithinLimits ==
    /\ Cardinality(BatchTokens) <= MaxScheduledTokens
    /\ Len(scheduled) <= MaxNumSeqs
    /\ Len(running) <= MaxNumSeqs
    /\ \A r \in live : Len(tokens[r]) <= MaxModelLen

\* What the forward pass writes, it owns: each scheduled token has a slot of
\* its own in the request's current table, in a block nobody shares and that
\* is not published under a hash.
WritesArePrivate ==
    /\ \A i \in DOMAIN scheduled : scheduled[i].blocks = table[scheduled[i].req]
    /\ \A s, t \in BatchTokens :
          SlotAt(scheduled[s[1]].blocks, s[2]) = SlotAt(scheduled[t[1]].blocks, t[2])
             => s = t
    /\ \A s \in BatchTokens :
          LET b == SlotAt(scheduled[s[1]].blocks, s[2])[1]
          IN  refCount[b] = 1 /\ hash[b] = <<>>

InBatch(r) == \E i \in DOMAIN scheduled : scheduled[i].req = r

\* The positions of r whose keys and values are in the cache: those it counts
\* as computed, without the ones the pending batch is to compute.
NumWritten(r) ==
    IF InBatch(r)
    THEN scheduled[CHOOSE i \in DOMAIN scheduled : scheduled[i].req = r].offset
    ELSE computed[r]

\* Attention reads, at every position a request counts as computed, the keys
\* and values of the request's own tokens, whoever computed them, across
\* preemption, eviction and reuse of blocks.
ContextIsOwn ==
    \A r \in live : \A p \in 0 .. NumWritten(r) - 1 :
        /\ p \div BlockSize < Len(table[r])
        /\ kv[SlotAt(table[r], p)] = SubSeq(tokens[r], 1, p + 1)

\* A block whose hash is valid is full of the keys and values of exactly the
\* tokens behind that hash (kv_cache_manager.h:61).
HashTellsContent ==
    \A s \in Slots : hash[s[1]] # <<>> =>
        kv[s] = SubSeq(hash[s[1]], 1, Len(hash[s[1]]) - BlockSize + s[2] + 1)

\* A token is sampled exactly when the batch reaches the end of what the
\* request has, never for an inner chunk of a prefill, and every request it
\* is sampled for is still there to receive it.
SampledAtTheEnd ==
    /\ \A i \in DOMAIN scheduled :
          LET e == scheduled[i] IN
          /\ e.needsSampling <=> e.offset + e.len = Len(tokens[e.req])
          /\ e.len > 0
          /\ computed[e.req] = e.offset + e.len
    /\ Elements(sampled) \subseteq live
    /\ pc = "inputs" => \A r \in live : computed[r] < Len(tokens[r])

\* A step over any requests computes something: the kv cache that is large
\* enough for one request is large enough for the oldest.
StepComputes == pc = "forward" /\ live # {} => scheduled # <<>>

\* A lookup serves only tokens of the request's prompt from the cache, as the
\* reuse counters are said to count (kv_cache_manager.h:26, :39-40).
ReuseIsOfPrompt ==
    [][Admit => computed[Candidate] <= numPrompt[Candidate]]_vars

Service == INSTANCE GenerationService WITH known <- live

\* Scheduling, preemption and prefix caching are invisible: seen from outside
\* the engine only appends sampled tokens to requests and ends each once.
ImplementsService == Service!Spec

\* Every request the engine has taken leaves it, one way or another
\* (protocol.h:69-71), as long as the engine's thread runs.
EveryRequestLeaves ==
    \A r \in Requests : r \in live ~> r \notin live
=============================================================================
