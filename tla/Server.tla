------------------------------- MODULE Server -------------------------------
(***************************************************************************)
(* cuinfer/server.py and __main__.py over the engine client: the HTTP      *)
(* handlers, what each of them writes to its client, and the life of the   *)
(* process from EngineClient.start() to its exit code.                     *)
(*                                                                         *)
(* The handlers run on the client's asyncio loop, so their steps are those *)
(* of EngineClient.tla with what complete() and stream() do before they    *)
(* await again.  Texts, parameters and the validation that answers 400     *)
(* before the engine is asked are left out: a chunk is its kind.  uvicorn, *)
(* Starlette and anyio are modelled by how the code uses them: a client    *)
(* may vanish or stop reading at any time, a shutdown waits for handlers   *)
(* and then cancels them, and cleanup() is shielded from cancellation.     *)
(***************************************************************************)
EXTENDS EngineClient

CONSTANT
    Bodies      \* bound: what the clients may ask, a body for each request

Body == [kind : {"chat", "text", "json", "never"}, max_tokens : Nat \ {0}]
ASSUME ServerAssumption == Bodies \subseteq [Requests -> Body]

VARIABLES
    body,       \* each request: a stream that begins with a role chunk ("chat")
                \* or not ("text"), an answer in one piece, or never sent
    http,       \* where the handler of each request is
    pending,    \* the chunks it has to write before it awaits the engine again
    written,    \* the chunks its client has been sent
    counted,    \* completion_tokens
    broken,     \* requests whose client vanished, or whose handler was cancelled or failed
    cancelled,  \* requests whose handler the shutdown has cancelled
    server,     \* where serve() is
    code        \* the exit code of the process

serverVars == <<body, http, pending, written, counted, broken, cancelled, server, code>>
all == <<vars, serverVars>>

ServerInit ==
    /\ Init
    /\ body \in Bodies
    /\ http = [r \in Requests |-> "none"]
    /\ pending = [r \in Requests |-> <<>>]
    /\ written = [r \in Requests |-> <<>>]
    /\ counted = [r \in Requests |-> 0]
    /\ broken = {} /\ cancelled = {}
    /\ server = "starting" /\ code = "none"

Streamed(r) == body[r].kind \in {"chat", "text"}
Live == {"opening", "writing", "waiting"}
SetHttp(r, where) == http' = [http EXCEPT ![r] = where]

\* The handler goes on to write these chunks.
WriteNext(r, chunks) ==
    /\ SetHttp(r, "writing")
    /\ pending' = [pending EXCEPT ![r] = chunks]

-----------------------------------------------------------------------------
(* complete() and stream() *)

\* A request arrives: require_engine(), then a stream is opened, while an
\* answer in one piece asks the engine at once.
Accept(r) ==
    /\ server = "serving" /\ http[r] = "none" /\ body[r].kind # "never"
    /\ CASE ~Alive ->
              WriteNext(r, <<"503">>) /\ UNCHANGED vars
         [] Alive /\ Streamed(r) ->
              SetHttp(r, "opening") /\ UNCHANGED <<vars, pending>>
         [] Alive /\ ~Streamed(r) ->
              Start(r) /\ SetHttp(r, "waiting") /\ UNCHANGED pending
    /\ UNCHANGED <<written, counted, broken, cancelled, server,
                   code, body>>

\* What a stream does about the engine's death, and an answer in one piece.
Failure(r) == IF Streamed(r) THEN <<"error", "done">> ELSE <<"503">>

\* stream() awaits its first output, before which the engine may have died.
BeginStream(r) ==
    /\ Start(r)
    /\ IF call'[r] = "refused"
       THEN WriteNext(r, Failure(r))
       ELSE SetHttp(r, "waiting") /\ UNCHANGED pending

\* The response has begun; a chat writes its role before it asks the engine.
Open(r) ==
    /\ http[r] = "opening"
    /\ IF body[r].kind = "chat" THEN WriteNext(r, <<"role">>) /\ UNCHANGED vars
                      ELSE BeginStream(r)
    /\ UNCHANGED <<written, counted, broken, cancelled, server,
                   code, body>>

\* The engine has the request, or died before it could take it.
RequestSent(r) ==
    /\ http[r] = "waiting"
    /\ FinishSend(r)
    /\ IF call'[r] = "died"
       THEN WriteNext(r, Failure(r))
       ELSE UNCHANGED <<http, pending>>
    /\ UNCHANGED <<written, counted, broken, cancelled, server,
                   code, body>>

\* Mutant: the usage chunk ends the stream.
Ending_NoDone(r) == IF Streamed(r) THEN <<"final", "usage">> ELSE <<"200">>

\* What follows a last output.
Ending(r) == IF Streamed(r) THEN <<"final", "usage", "done">> ELSE <<"200">>

\* An output arrives, or the engine's death in its place.  A stream writes
\* each output, an answer in one piece waits for the next.
TakeOutput(r) ==
    /\ http[r] = "waiting"
    /\ Get(r)
    /\ CASE call'[r] = "died" -> WriteNext(r, Failure(r))
         [] call'[r] = "finished" -> WriteNext(r, Ending(r))
         [] call'[r] = "streaming" ->
              IF Streamed(r) THEN WriteNext(r, <<"text">>)
                               ELSE UNCHANGED <<http, pending>>
    /\ counted' = [counted EXCEPT ![r] =
                      IF call'[r] = "died" THEN @ ELSE @ + 1]
    /\ UNCHANGED <<written, broken, cancelled, server,
                   code, body>>

\* The client is sent a chunk; after the last one the handler awaits the
\* engine or is done.
Write(r) ==
    /\ http[r] = "writing"
    /\ written' = [written EXCEPT ![r] = Append(@, Head(pending[r]))]
    /\ CASE Len(pending[r]) > 1 ->
              WriteNext(r, Tail(pending[r])) /\ UNCHANGED vars
         [] pending[r] = <<"role">> ->
              /\ BeginStream(r)
              /\ call'[r] # "refused" => pending' = pending
         [] pending[r] = <<"text">> ->
              SetHttp(r, "waiting") /\ UNCHANGED <<vars, pending>>
         [] OTHER ->
              SetHttp(r, "cleanup") /\ UNCHANGED <<vars, pending>>
    /\ UNCHANGED <<counted, broken, cancelled, server,
                   code, body>>

-----------------------------------------------------------------------------
(* cleanup() *)

\* Mutant: the generator ends without a word to the engine.
CloseOutputs_Silent(r) ==
    /\ call' = IF call[r] \in {"sending", "streaming"}
               THEN [call EXCEPT ![r] = "cancelled"] ELSE call
    /\ registered' = registered \ {r}
    /\ UNCHANGED <<queue, delivered, ready, error, closing, closer, exited, reader,
                   sends, input, output, engineVars>>

\* outputs.aclose(): ends a generator that has begun and not ended.
CloseOutputs(r) ==
    IF call[r] \in {"sending", "streaming"} THEN Cancel(r) ELSE UNCHANGED vars

\* The handler is torn off where it waits or writes, and goes to cleanup().
Interrupt(r) ==
    /\ http[r] \in Live
    /\ CloseOutputs(r)
    /\ SetHttp(r, "cleanup")
    /\ broken' = broken \cup {r}
    /\ UNCHANGED <<body, pending, written, counted, cancelled, server, code>>

\* A stream's client vanishes (an answer in one piece does not notice), or
\* the decoder fails on an output.
Disconnect(r) ==
    /\ Streamed(r) \/ delivered[r] # <<>>
    /\ Interrupt(r)

\* The shutdown's cancellation arrives.
CancelHandler(r) ==
    /\ r \in cancelled
    /\ Interrupt(r)

\* The zmq socket was closed under the handler's send.
SendCancelled(r) ==
    /\ http[r] = "waiting" /\ call[r] = "cancelled"
    /\ Interrupt(r)

\* cleanup() is over when the generator is closed; abort() finds nothing left.
EndHandler(r) ==
    /\ http[r] = "cleanup"
    /\ call[r] \in Ended \cup {"new"}
    /\ IF r \in registered THEN AbortByOther(r) ELSE UNCHANGED vars
    /\ SetHttp(r, "ended")
    /\ UNCHANGED <<pending, written, counted, broken, cancelled, server,
                   code, body>>

-----------------------------------------------------------------------------
(* serve() *)

SetServer(where) ==
    /\ server' = where
    /\ UNCHANGED <<body, http, pending, written, counted, broken>>

Serve ==
    /\ server = "starting" /\ ready = "done"
    /\ SetServer("serving") /\ UNCHANGED <<vars, cancelled, code>>

StartFails ==
    /\ server = "starting" /\ ready = "failed"
    /\ SetServer("lifespan") /\ UNCHANGED <<vars, cancelled, code>>

\* SIGINT or SIGTERM.
Signal ==
    /\ server = "serving"
    /\ SetServer("draining") /\ UNCHANGED <<vars, cancelled, code>>

\* watch_engine
Watchdog ==
    /\ server = "serving" /\ error
    /\ SetServer("draining") /\ UNCHANGED <<vars, cancelled, code>>

Busy == {r \in Requests : http[r] \in Live \cup {"cleanup"}}

Drained ==
    /\ server = "draining" /\ Busy = {}
    /\ SetServer("lifespan") /\ UNCHANGED <<vars, cancelled, code>>

\* Mutant: the shutdown waits for the handlers however long they take.
DrainTimeout_Never ==
    /\ server = "draining" /\ Busy = {}
    /\ cancelled' = Busy
    /\ SetServer("lifespan") /\ UNCHANGED <<vars, code>>

\* timeout_graceful_shutdown: the handlers are cancelled, not waited for.
DrainTimeout ==
    /\ server = "draining" /\ Busy # {}
    /\ cancelled' = Busy
    /\ SetServer("lifespan") /\ UNCHANGED <<vars, code>>

\* The lifespan's, or start()'s, engine.close().
CloseEngine ==
    /\ server = "lifespan"
    /\ Close
    /\ UNCHANGED serverVars

Exit ==
    /\ server = "lifespan" /\ closer = "closed"
    /\ code' = IF error THEN "1" ELSE "0"
    /\ SetServer("stopped") /\ UNCHANGED <<vars, cancelled>>

-----------------------------------------------------------------------------

\* The client's own tasks and its timer.
Background ==
    /\ \/ \E r \in Requests : FinishAbort(r) \/ WithdrawAbort(r)
       \/ ReadReady \/ ReadOutputs \/ ReaderFails \/ OnExit \/ TearDown
       \/ CloseTimeout
    /\ UNCHANGED serverVars

\* The pipe and the engine, which nothing here hurries; a request ends at its
\* max_tokens, if not before.
Elsewhere ==
    /\ Transmit \/ EngineProgress \/ EngineGarbles \/ EngineCrashes
    /\ \A r \in serving' : produced'[r] < body[r].max_tokens
    /\ UNCHANGED serverVars

Handler(r) ==
    \/ Accept(r) \/ Open(r) \/ RequestSent(r) \/ TakeOutput(r) \/ Write(r)
    \/ Disconnect(r) \/ CancelHandler(r) \/ SendCancelled(r) \/ EndHandler(r)

ServerNext ==
    \/ \E r \in Requests : Handler(r)
    \/ Serve \/ StartFails \/ Signal \/ Watchdog \/ Drained \/ DrainTimeout
    \/ CloseEngine \/ Exit
    \/ Background \/ Elsewhere

\* The loop runs what can run and timers fire; the engine may hang, and a
\* client may never read what Write sends it.
ServerSpec ==
    /\ ServerInit /\ [][ServerNext]_all
    /\ \A r \in Requests :
          WF_all(RequestSent(r) \/ TakeOutput(r) \/ CancelHandler(r)
                 \/ SendCancelled(r) \/ EndHandler(r))
    /\ WF_all(Serve \/ StartFails \/ Watchdog \/ Drained \/ DrainTimeout
              \/ CloseEngine \/ Exit)
    /\ WF_all(Background)

-----------------------------------------------------------------------------
(* Properties *)

Count(chunk, chunks) == Cardinality({i \in DOMAIN chunks : chunks[i] = chunk})

\* A client that stays gets a whole answer: one response, or a stream that
\* ends with its only [DONE] after either its only finish reason or its only
\* error; the finish reason comes when and only when the engine's last output
\* did, after a chunk for each output before it, and the usage counts all of
\* them.
AnswersAreWhole ==
    \A r \in Requests :
        http[r] = "ended" /\ r \notin broken =>
            LET w == written[r] IN
            /\ w # <<>>
            /\ (w[1] = "503" \/ ~Streamed(r)) =>
                  w = IF call[r] = "finished" THEN <<"200">> ELSE <<"503">>
            /\ (w[1] # "503" /\ Streamed(r)) =>
                  /\ w[Len(w)] = "done" /\ Count("done", w) = 1
                  /\ Count("final", w) + Count("error", w) = 1
                  /\ Count("final", w) = 1 <=> call[r] = "finished"
                  /\ Count("text", w) + Count("final", w) = Len(delivered[r])
                  /\ Count("role", w) = 1 <=> body[r].kind = "chat"
            /\ counted[r] = Len(delivered[r])

\* However a handler ends, the client no longer knows its request, nobody
\* still sends it, and the engine has been told if it needs to be: no request
\* runs on for a client that is gone.
HandlersLeaveNothing ==
    \A r \in Requests :
        http[r] = "ended" =>
            /\ r \notin registered
            /\ Add(r) \notin Elements(sends)
            /\ r \in serving /\ ~error /\ ~closing => Abort(r) \in Elements(Outbound)

\* A dead engine or a signal ends the process, with every handler, whether or
\* not the engine still moves and whether or not clients still read.
ShutdownCompletes ==
    error \/ server = "draining" ~>
        /\ server = "stopped"
        /\ \A r \in Requests : http[r] \in {"none", "ended"}
=============================================================================
