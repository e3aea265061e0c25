---------------------------- MODULE EngineClient ----------------------------
(***************************************************************************)
(* cuinfer/engine.py: the client through which the server's tasks use an   *)
(* engine in another process, over one zmq pipe in each direction.         *)
(*                                                                         *)
(*    generate ->  sends -> input  -> engine                               *)
(*    generate <-  queue <- reader <- output <- engine                     *)
(*                                                                         *)
(* All of the client runs on one asyncio loop: an action is what a task    *)
(* does between two awaits.  A send that does not fit the pipe waits in    *)
(* sends, and only the task that started it can withdraw it.  The engine   *)
(* (engine_core.cpp; Scheduler.tla is its inside) is a process that may    *)
(* exit at any time, with what the pipes hold.                             *)
(***************************************************************************)
EXTENDS Integers, Sequences, FiniteSets

CONSTANTS
    Requests,     \* the request ids, one generate() each (the server's uuid4)
    MaxTokens,    \* bound: outputs the engine has for each request
    InputCap,     \* bound: messages the pipe to the engine holds
    OutputCap     \* bound: messages the pipe from the engine holds

ASSUME EngineClientAssumption ==
    /\ MaxTokens \in [Requests -> Nat \ {0}]
    /\ InputCap \in Nat \ {0}
    /\ OutputCap \in Nat \ {0}

VARIABLES
    call,        \* where generate() of each request is, or how it ended
    registered,  \* the keys of _requests
    queue,       \* the asyncio queue of each request
    delivered,   \* the outputs generate() has yielded
    ready,       \* the future _ready
    error,       \* error is set and _dead is done
    closing,     \* _closing
    closer,      \* where the task _close is
    exited,      \* _exited is done
    reader,      \* where the task _read_outputs is
    sends,       \* sends that have not fitted the pipe yet, oldest first
    input,       \* the pipe to the engine
    output,      \* the pipe from the engine, and the message it is blocked in sending
    engine,      \* what the engine process does
    serving,     \* the requests the engine has
    produced     \* history: how many outputs the engine made for each

callVars == <<call, queue, delivered>>
clientVars == <<registered, ready, error, closing, closer, exited, reader>>
engineVars == <<engine, serving, produced>>
vars == <<callVars, clientVars, sends, input, output, engineVars>>

Add(r) == [type |-> "ADD", req |-> r]
Abort(r) == [type |-> "ABORT", req |-> r]
Shutdown == [type |-> "SHUTDOWN"]

\* What a request's queue may hold: outputs, the error, and abort()'s None.
Out(n, last) == [type |-> "output", n |-> n, last |-> last]
Died == [type |-> "died"]
None == [type |-> "none"]

\* Engine messages: READY, one OUTPUTS entry for each request of a step, and
\* something else.
Ready == [type |-> "READY"]
Outputs(entries) == [type |-> "OUTPUTS", entries |-> entries]
Bad == [type |-> "BAD"]

Init ==
    /\ call = [r \in Requests |-> "new"]
    /\ registered = {}
    /\ queue = [r \in Requests |-> <<>>]
    /\ delivered = [r \in Requests |-> <<>>]
    /\ ready = "pending" /\ error = FALSE
    /\ closing = FALSE /\ closer = "none" /\ exited = FALSE
    /\ reader = "first"
    /\ sends = <<>> /\ input = <<>> /\ output = <<>>
    /\ engine = "loading" /\ serving = {}
    /\ produced = [r \in Requests |-> 0]

Elements(s) == {s[i] : i \in DOMAIN s}

\* The sends that wait once m is withdrawn, or s if m does not wait.
Remove(s, m) ==
    IF m \in Elements(s)
    THEN LET k == CHOOSE i \in DOMAIN s : s[i] = m
         IN  [i \in 1 .. Len(s) - 1 |-> IF i < k THEN s[i] ELSE s[i + 1]]
    ELSE s

SetCall(r, where) == call' = [call EXCEPT ![r] = where]

\* The property alive; is_alive() asks the operating system.
Alive == ~closing /\ ~error /\ ready # "pending" /\ engine # "dead"

\* Mutant: a send goes straight to the pipe, past the ones that wait.
SendAfter_Overtakes(pending, m) ==
    IF engine = "running" /\ Len(input) < InputCap
    THEN input' = Append(input, m) /\ sends' = pending
    ELSE input' = input /\ sends' = Append(pending, m)

\* send_multipart with pending the sends that wait: at once if nothing waits
\* and the pipe has room.
SendAfter(pending, m) ==
    IF pending = <<>> /\ engine = "running" /\ Len(input) < InputCap
    THEN input' = Append(input, m) /\ sends' = pending
    ELSE input' = input /\ sends' = Append(pending, m)

\* The pipe takes the oldest waiting send.
Transmit ==
    /\ sends # <<>>
    /\ engine = "running"
    /\ Len(input) < InputCap
    /\ input' = Append(input, Head(sends))
    /\ sends' = Tail(sends)
    /\ UNCHANGED <<callVars, clientVars, output, engineVars>>

\* Mutant: the requests are forgotten without a word.
FailRequests_Silent == registered' = {} /\ UNCHANGED queue

\* _fail_requests
FailRequests ==
    /\ queue' = [r \in Requests |->
                    IF r \in registered THEN Append(queue[r], Died) ELSE queue[r]]
    /\ registered' = {}

\* _mark_dead, which only the first error gets through
MarkDead ==
    IF error
    THEN UNCHANGED <<error, ready, queue, registered>>
    ELSE /\ error' = TRUE
         /\ ready' = IF ready = "pending" THEN "failed" ELSE ready
         /\ FailRequests

-----------------------------------------------------------------------------
(* generate(r) and abort(r) *)

Start(r) ==
    /\ call[r] = "new"
    /\ IF Alive
       THEN /\ registered' = registered \cup {r}
            /\ SendAfter(sends, Add(r))
            /\ SetCall(r, "sending")
       ELSE /\ SetCall(r, "refused")
            /\ UNCHANGED <<registered, sends, input>>
    /\ UNCHANGED <<queue, delivered, ready, error, closing, closer, exited,
                   reader, output, engineVars>>

\* Mutant: the wait for the pipe does not look at the engine's death.
FinishSend_OnlyPipe(r) ==
    /\ call[r] = "sending"
    /\ Add(r) \notin Elements(sends)
    /\ SetCall(r, "streaming")
    /\ UNCHANGED <<queue, delivered, clientVars, sends, input, output, engineVars>>

\* _send(ADD) ends: by the engine's death, which it looks at first and which
\* withdraws a send that still waits, or because the pipe took the message.
FinishSend(r) ==
    /\ call[r] = "sending"
    /\ IF error
       THEN SetCall(r, "died") /\ sends' = Remove(sends, Add(r))
       ELSE /\ Add(r) \notin Elements(sends)
            /\ SetCall(r, "streaming")
            /\ UNCHANGED sends
    /\ UNCHANGED <<queue, delivered, clientVars, input, output, engineVars>>

\* generate() takes the next item of its queue; the request is forgotten
\* before its last output is yielded.
Get(r) ==
    /\ call[r] = "streaming"
    /\ queue[r] # <<>>
    /\ LET item == Head(queue[r]) IN
       CASE item = Died -> /\ SetCall(r, "died")
                           /\ UNCHANGED <<registered, delivered>>
         [] item = None -> /\ SetCall(r, "aborted")
                           /\ UNCHANGED <<registered, delivered>>
         [] OTHER ->
              /\ delivered' = [delivered EXCEPT ![r] = Append(@, item)]
              /\ registered' = IF item.last THEN registered \ {r} ELSE registered
              /\ SetCall(r, IF item.last THEN "finished" ELSE "streaming")
    /\ queue' = [queue EXCEPT ![r] = Tail(@)]
    /\ UNCHANGED <<ready, error, closing, closer, exited, reader, sends, input,
                   output, engineVars>>

\* The consumer closes or cancels generate(), at an await or a yield.  An ADD
\* that waits is withdrawn; a request still registered is aborted, and
\* generate() ends when the ABORT is on its way.
Cancel(r) ==
    /\ call[r] \in {"sending", "streaming"}
    /\ LET pending == IF call[r] = "sending" THEN Remove(sends, Add(r)) ELSE sends IN
       IF r \in registered /\ Alive
       THEN SetCall(r, "aborting") /\ SendAfter(pending, Abort(r))
       ELSE SetCall(r, "cancelled") /\ sends' = pending /\ UNCHANGED input
    /\ queue' = IF r \in registered THEN [queue EXCEPT ![r] = <<None>>] ELSE queue
    /\ registered' = registered \ {r}
    /\ UNCHANGED <<delivered, ready, error, closing, closer, exited, reader,
                   output, engineVars>>

\* _send(ABORT) ends as _send(ADD) does; the engine's death takes the place
\* of the cancellation.
FinishAbort(r) ==
    /\ call[r] = "aborting"
    /\ IF error
       THEN SetCall(r, "died") /\ sends' = Remove(sends, Abort(r))
       ELSE /\ Abort(r) \notin Elements(sends)
            /\ SetCall(r, "cancelled")
            /\ UNCHANGED sends
    /\ UNCHANGED <<queue, delivered, clientVars, input, output, engineVars>>

\* Another task calls abort(r) on a request in flight.
AbortByOther(r) ==
    /\ r \in registered
    /\ registered' = registered \ {r}
    /\ queue' = [queue EXCEPT ![r] = <<None>>]
    /\ IF Alive THEN SendAfter(sends, Abort(r)) ELSE UNCHANGED <<sends, input>>
    /\ UNCHANGED <<call, delivered, ready, error, closing, closer, exited,
                   reader, output, engineVars>>

\* That task's ABORT still waits when the engine dies, and is withdrawn.
WithdrawAbort(r) ==
    /\ error
    /\ call[r] # "aborting"
    /\ Abort(r) \in Elements(sends)
    /\ sends' = Remove(sends, Abort(r))
    /\ UNCHANGED <<callVars, clientVars, input, output, engineVars>>

-----------------------------------------------------------------------------
(* _read_outputs and _on_exit *)

Reading == reader \in {"first", "reading"}

\* Mutant: one lock for both sockets, which a send that waits holds.
Arrived_OneLock == output # <<>> /\ sends = <<>>

\* recv_multipart has a message for the reader.
Arrived == output # <<>>

ReadReady ==
    /\ reader = "first"
    /\ Arrived /\ Head(output) = Ready
    /\ output' = Tail(output)
    /\ reader' = "reading"
    /\ ready' = IF ready = "pending" THEN "done" ELSE ready
    /\ UNCHANGED <<callVars, registered, error, closing, closer, exited, sends,
                   input, engineVars>>

\* Mutant: a request gets its queue only when its ADD is sent.
Receivers_Sent == {r \in registered : call[r] # "sending"}

\* Those whose outputs somebody waits for.
Receivers == registered

\* Every output goes to its request's queue, if the request is still known.
ReadOutputs ==
    /\ reader = "reading"
    /\ Arrived /\ Head(output).type = "OUTPUTS"
    /\ LET entries == Head(output).entries IN
       queue' = [r \in Requests |->
                    IF r \in DOMAIN entries \cap Receivers
                    THEN Append(queue[r], entries[r])
                    ELSE queue[r]]
    /\ output' = Tail(output)
    /\ UNCHANGED <<call, delivered, clientVars, sends, input, engineVars>>

\* Anything else ends the reader, and the client with it; the engine goes on.
ReaderFails ==
    /\ Reading
    /\ Arrived
    /\ Head(output).type # (IF reader = "first" THEN "READY" ELSE "OUTPUTS")
    /\ output' = Tail(output)
    /\ reader' = "failed"
    /\ MarkDead
    /\ UNCHANGED <<call, delivered, closing, closer, exited, sends, input, engineVars>>

\* The loop notices that the process exited.
OnExit ==
    /\ engine = "dead"
    /\ ~exited
    /\ exited' = TRUE
    /\ IF closing
       THEN UNCHANGED <<registered, queue, error, ready, reader>>
       ELSE MarkDead /\ reader' = IF Reading THEN "cancelled" ELSE reader
    /\ UNCHANGED <<call, delivered, closing, closer, sends, input, output, engineVars>>

-----------------------------------------------------------------------------
(* close(), whose task runs once *)

Close ==
    /\ ~closing
    /\ closing' = TRUE
    /\ FailRequests
    /\ IF engine # "dead"
       THEN closer' = "shutdown" /\ SendAfter(sends, Shutdown)
       ELSE closer' = "exiting" /\ UNCHANGED <<sends, input>>
    /\ UNCHANGED <<call, delivered, ready, error, exited, reader, output, engineVars>>

\* The engine's process is gone, and with it what it had not sent: some of
\* its last messages may still arrive.
EngineEnds ==
    /\ engine' = "dead"
    /\ serving' = {}
    /\ input' = <<>>
    /\ \E k \in 0 .. Len(output) :
          k <= OutputCap /\ output' = SubSeq(output, 1, k)
    /\ UNCHANGED produced

\* Mutant: the process is left alone when the time is over.
CloseTimeout_NoKill ==
    /\ closer = "shutdown"
    /\ closer' = "exiting"
    /\ sends' = Remove(sends, Shutdown)
    /\ UNCHANGED <<callVars, registered, ready, error, closing, exited, reader,
                   input, output, engineVars>>

\* The SHUTDOWN was not sent, or the engine did not exit, within 3 seconds.
CloseTimeout ==
    /\ closer = "shutdown"
    /\ closer' = "exiting"
    /\ EngineEnds
    /\ sends' = Remove(sends, Shutdown)
    /\ UNCHANGED <<callVars, registered, ready, error, closing, exited, reader>>

\* Mutant: the process is not waited for once the SHUTDOWN is sent.
MayTearDown_TooEarly ==
    \/ closer = "shutdown" /\ Shutdown \notin Elements(sends)
    \/ closer = "exiting" /\ exited

MayTearDown ==
    /\ exited
    /\ \/ closer = "shutdown" /\ Shutdown \notin Elements(sends)
       \/ closer = "exiting"

\* The reader and the sockets go; sends that wait are cancelled, and with
\* them the tasks that wait for them.
TearDown ==
    /\ MayTearDown
    /\ closer' = "closed"
    /\ reader' = IF Reading THEN "cancelled" ELSE reader
    /\ sends' = <<>>
    /\ call' = [r \in Requests |->
                   IF \/ call[r] = "sending" /\ Add(r) \in Elements(sends)
                      \/ call[r] = "aborting" /\ Abort(r) \in Elements(sends)
                   THEN "cancelled" ELSE call[r]]
    /\ UNCHANGED <<queue, delivered, registered, ready, error, closing, exited,
                   input, output, engineVars>>

-----------------------------------------------------------------------------
(* The engine process *)

\* The engine has one thread, and its send does not return before the pipe has
\* taken the message: while output is longer than the pipe, its last message is
\* the one in send, and the engine does nothing else.
Blocked == Len(output) > OutputCap

EngineSend(m) ==
    /\ ~Blocked
    /\ output' = Append(output, m)

EngineReady ==
    /\ engine = "loading"
    /\ engine' = "running"
    /\ EngineSend(Ready)
    /\ UNCHANGED <<callVars, clientVars, sends, input, serving, produced>>

\* process_inputs takes a message; an ABORT of an id it does not have is
\* nothing to it.
EngineReceive ==
    /\ engine = "running"
    /\ ~Blocked
    /\ input # <<>>
    /\ LET m == Head(input) IN
       /\ engine' = IF m = Shutdown THEN "stopping" ELSE engine
       /\ serving' = CASE m.type = "ADD" -> serving \cup {m.req}
                       [] m.type = "ABORT" -> serving \ {m.req}
                       [] OTHER -> serving
    /\ input' = Tail(input)
    /\ UNCHANGED <<callVars, clientVars, sends, output, produced>>

\* Mutant: a request stays with the engine after its last output.
Unfinished_Keeps(done) == serving

Unfinished(done) == serving \ done

\* process_inputs found no more to take (what is still on its way waits for the
\* next time), and a step samples a token for some of the requests, the last
\* one for those in done.
EngineStep(batch, done) ==
    /\ engine = "running"
    /\ batch # {} /\ batch \subseteq serving /\ done \subseteq batch
    /\ \A r \in batch : produced[r] < MaxTokens[r]
    /\ \A r \in batch : produced[r] + 1 = MaxTokens[r] => r \in done
    /\ EngineSend(Outputs([r \in batch |-> Out(produced[r] + 1, r \in done)]))
    /\ produced' = [r \in Requests |-> IF r \in batch THEN produced[r] + 1 ELSE produced[r]]
    /\ serving' = Unfinished(done)
    /\ UNCHANGED <<callVars, clientVars, sends, input, engine>>

\* The engine sends what the client does not understand (once: the client
\* reads no further).
EngineGarbles ==
    /\ engine \in {"loading", "running"}
    /\ Bad \notin Elements(output) /\ Reading
    /\ EngineSend(Bad)
    /\ UNCHANGED <<callVars, clientVars, sends, input, engineVars>>

\* The process exits after a SHUTDOWN, with all its output flushed.
EngineExits ==
    /\ engine = "stopping"
    /\ engine' = "dead"
    /\ serving' = {}
    /\ input' = <<>>
    /\ UNCHANGED <<callVars, clientVars, sends, output, produced>>

EngineCrashes ==
    /\ engine # "dead"
    /\ EngineEnds
    /\ UNCHANGED <<callVars, clientVars, sends>>

-----------------------------------------------------------------------------

\* What the client's tasks do once they can.
ClientStep ==
    \/ \E r \in Requests : FinishSend(r) \/ Get(r) \/ FinishAbort(r) \/ WithdrawAbort(r)
    \/ ReadReady \/ ReadOutputs \/ ReaderFails \/ OnExit \/ TearDown

\* What its users decide.
UserStep ==
    \/ \E r \in Requests : Start(r) \/ Cancel(r) \/ AbortByOther(r)
    \/ Close

EngineProgress ==
    \/ EngineReady \/ EngineReceive \/ EngineExits
    \/ \E batch \in SUBSET serving : \E done \in SUBSET batch : EngineStep(batch, done)

Next ==
    \/ ClientStep \/ UserStep \/ Transmit \/ CloseTimeout
    \/ EngineProgress \/ EngineGarbles \/ EngineCrashes

Spec == Init /\ [][Next]_vars

\* The loop runs every task that can run: each has its own place in it.
ClientFairness ==
    /\ \A r \in Requests :
          /\ WF_vars(FinishSend(r)) /\ WF_vars(Get(r))
          /\ WF_vars(FinishAbort(r)) /\ WF_vars(WithdrawAbort(r))
    /\ WF_vars(ReadReady) /\ WF_vars(ReadOutputs) /\ WF_vars(ReaderFails)
    /\ WF_vars(OnExit) /\ WF_vars(TearDown)

\* The engine may hang for ever; timers and the operating system do not.
HangingSpec == Spec /\ ClientFairness /\ WF_vars(CloseTimeout)

\* An engine that does not hang, and a library that moves its messages.
EngineFairness ==
    /\ WF_vars(Transmit)
    /\ WF_vars(EngineReady) /\ WF_vars(EngineReceive) /\ WF_vars(EngineExits)
    /\ WF_vars(\E batch \in SUBSET serving : \E done \in SUBSET batch :
                  EngineStep(batch, done))

RunningSpec == HangingSpec /\ EngineFairness

-----------------------------------------------------------------------------
(* Properties *)

Ended == {"finished", "died", "aborted", "cancelled", "refused"}

\* Where r's outputs are in the pipe, and their numbers.
InPipe(r) == {i \in DOMAIN output : output[i].type = "OUTPUTS" /\ r \in DOMAIN output[i].entries}
Number(r, i) == output[i].entries[r].n

\* generate() yields the engine's outputs in order, none lost, none twice;
\* while the client knows the request, all of them are delivered, queued or
\* on their way, unless the process took some with it or the reader stopped.
NothingLostOrRepeated ==
    \A r \in Requests :
        LET next == Len(delivered[r]) + Len(queue[r]) + 1 IN
        /\ \A k \in DOMAIN delivered[r] : delivered[r][k].n = k
        /\ \A k \in DOMAIN queue[r] :
              queue[r][k].type = "output" => queue[r][k].n = Len(delivered[r]) + k
        /\ r \in registered /\ engine # "dead" =>
              /\ \A i, j \in InPipe(r) : i < j => Number(r, i) < Number(r, j)
              /\ {Number(r, i) : i \in InPipe(r)} = next .. produced[r]

\* generate() returns normally only with a last output, and then the engine
\* is through with the request as well.
FinishedForGood ==
    \A r \in Requests :
        /\ call[r] = "finished" <=>
              delivered[r] # <<>> /\ delivered[r][Len(delivered[r])].last
        /\ call[r] = "finished" =>
              /\ r \notin serving
              /\ Add(r) \notin Elements(sends \o input)

\* The messages on their way to the engine, the next to arrive first.
Outbound == input \o sends

\* The engine never works for nobody: a request it has, or will have, that the
\* client no longer knows is followed by its ABORT, unless the client is on
\* its way to stopping the engine.
NoOrphans ==
    \A r \in Requests \ registered :
        \/ error \/ closing \/ engine = "dead"
        \/ /\ r \in serving => Abort(r) \in Elements(Outbound)
           /\ \A i \in DOMAIN Outbound : Outbound[i] = Add(r) =>
                 \E j \in i + 1 .. Len(Outbound) : Outbound[j] = Abort(r)

\* A task that waits for an item has somebody who will put one: it is known
\* to the client, or its end is in its queue.
NobodyForgotten ==
    \A r \in Requests :
        call[r] \in {"sending", "streaming"} /\ r \notin registered =>
            queue[r] # <<>> /\ queue[r][Len(queue[r])] \in {Died, None}

\* The sockets go last: what close() leaves behind is a dead process, and
\* nobody who waits to send to it.
ClosedMeansStopped ==
    closer = "closed" =>
        /\ engine = "dead" /\ exited
        /\ registered = {} /\ sends = <<>>

\* Every generate() ends while the engine runs, dies or is shut down, if the
\* engine does not hang.  An engine blocked in send takes no input, so the sends
\* behind a full input may wait for it while it waits for the client to read:
\* the reader, which waits for no send, is what opens the circle.
EveryCallEnds == \A r \in Requests : call[r] = "sending" ~> call[r] \in Ended

\* Even when the engine hangs: close() ends, and after it, or after the
\* client's death, no task still waits for the engine.
CloseEnds == closing ~> closer = "closed"
DeathEndsEveryCall ==
    \A r \in Requests :
        (error \/ closing) /\ call[r] # "new" ~> call[r] \in Ended
=============================================================================
