------------------------- MODULE EventPipeProcessor -------------------------
(***************************************************************************)
(* DiagnosticsEventPipeProcessor, the run of every EventSourcePipeline,    *)
(* with the EventPipeStreamProvider it owns, the EventPipeSession of the   *)
(* provider and the task of the subclass that handles the events.          *)
(*                                                                         *)
(* Process starts a session in the runtime, reads its stream and takes     *)
(* everything down.  Four other parties work on it meanwhile: the          *)
(* provider's stop task, the handler's task, OnStop (StopProcessing) and   *)
(* OnCleanup (DisposeAsync); and the token of the run may be cancelled.    *)
(* Cancel sets the token's flag first and calls what is registered later,  *)
(* so the two are different steps.  What the runtime does is external.     *)
(***************************************************************************)
VARIABLES
    token,          \* the run's token: "live" or "cancelled"
    registration,   \* of TryCancelCompletionSources: "none", "active", "over"
    process,        \* where Process is
    result,         \* how its body ends: "none", "ok", "canceled", "failed"
    initialized,    \* _initialized, a completion source
    sessionStarted, \* _sessionStarted, a completion source
    eventSource,    \* _eventSource: "null", "set", "taken" (null once more)
    source,         \* the object: "none", "open", "stopping", "disposed"
    handler,        \* the task of _onEventSourceAvailable
    stopSource,     \* _stopProcessingSource is completed
    stopTask,       \* _currentTask of the provider
    onStop,         \* where the pipeline's OnStop is
    onCleanup,      \* where the pipeline's OnCleanup is
    runtime,        \* "alive" or "exited"
    session,        \* in the runtime: "none", "running", "ended"
    stream          \* our end of its connection: "none", "open", "closed"

signal == <<token, registration>>
completions == <<initialized, sessionStarted>>
body == <<process, result, completions>>
input == <<eventSource, source, stream, handler>>
stopping == <<stopSource, stopTask>>
callers == <<onStop, onCleanup>>
target == <<runtime, session>>
vars == <<signal, body, input, stopping, callers, target>>

Init ==
    /\ token = "live"
    /\ registration = "none"
    /\ process = "idle"
    /\ result = "none"
    /\ initialized = "pending"
    /\ sessionStarted = "pending"
    /\ eventSource = "null"
    /\ source = "none"
    /\ handler = "none"
    /\ stopSource = FALSE
    /\ stopTask = "none"
    /\ onStop = "idle"
    /\ onCleanup = "idle"
    /\ runtime = "alive"
    /\ session = "none"
    /\ stream = "none"

-----------------------------------------------------------------------------
(* Helpers *)

\* TrySetResult, TrySetCanceled, TrySetException: the first one wins.
TrySet(completion, value) == IF completion = "pending" THEN value ELSE completion

CompleteBoth(value) ==
    /\ initialized' = TrySet(initialized, value)
    /\ sessionStarted' = TrySet(sessionStarted, value)

\* The session's stream has no more to give.
StreamEnded == runtime = "exited" \/ session = "ended"

\* A mutant of DisposeSource: Completed is not raised.
DisposeSourceQuietly ==
    /\ source' = "disposed"
    /\ stream' = "closed"
    /\ UNCHANGED handler

\* EventPipeEventSource.Dispose closes the stream and raises Completed, which
\* ends a handler that has subscribed to it.
DisposeSource ==
    /\ source' = "disposed"
    /\ stream' = "closed"
    /\ handler' = IF handler = "subscribed" THEN "done" ELSE handler

\* An exception leaves the try block: the catch blocks fail or cancel the two
\* completion sources, then comes the finally block.
Throw(outcome) ==
    /\ process' = "finally"
    /\ result' = outcome
    /\ CompleteBoth(outcome)

-----------------------------------------------------------------------------
(* Process, up to the start of the session (ProcessEvents) *)

\* Process registers with the token and queues its body.
Process ==
    /\ process = "idle"
    /\ process' = "queued"
    /\ registration' = IF token = "live" THEN "active" ELSE "over"
    /\ IF token = "live" THEN UNCHANGED completions ELSE CompleteBoth("canceled")
    /\ UNCHANGED <<token, result, input, stopping, callers, target>>

\* StartNew does not run a body whose token is cancelled: then nothing of it
\* is executed, the finally block neither.
BodyStarts ==
    /\ process = "queued"
    /\ IF token = "live"
       THEN process' = "request" /\ UNCHANGED result
       ELSE process' = "ended" /\ result' = "canceled"
    /\ UNCHANGED <<signal, completions, input, stopping, callers, target>>

\* The runtime gets the command and starts the session.
RuntimeStartsSession ==
    /\ process \in {"request", "retry"}
    /\ runtime = "alive"
    /\ session' = "running"
    /\ process' = "response"
    /\ UNCHANGED <<signal, result, completions, input, stopping, callers, runtime>>

\* The runtime does not know the command, or refuses it.  The first is repeated
\* once with another rundown keyword if the configuration says so.
CommandUnsupported ==
    /\ process \in {"request", "retry"}
    /\ runtime = "alive"
    /\ \/ /\ process = "request"
          /\ process' = "retry"
          /\ UNCHANGED <<result, completions>>
       \/ Throw("failed")
    /\ UNCHANGED <<signal, input, stopping, callers, target>>

\* The request fails, or the token cancels it.  A connection that is being
\* waited on is closed, whether or not the runtime has started the session.
StartFails ==
    /\ process \in {"request", "retry", "response"}
    /\ \/ token = "cancelled" /\ Throw("canceled")
       \/ runtime = "exited" /\ Throw("failed")
    /\ stream' = IF process = "response" THEN "closed" ELSE stream
    /\ UNCHANGED <<signal, eventSource, source, handler, stopping, callers, target>>

\* The response arrives: the session is in a local variable of ProcessEvents.
SessionStarts ==
    /\ process = "response"
    /\ runtime = "alive"
    /\ stream' = "open"
    /\ process' \in {"resume", "spawn"}
    /\ UNCHANGED <<signal, result, completions, eventSource, source,
                   handler, stopping, callers, target>>

\* ResumeRuntimeAsync succeeds, or the runtime does not know the command.
Resumed ==
    /\ process = "resume"
    /\ runtime = "alive"
    /\ process' = "spawn"
    /\ UNCHANGED <<signal, result, completions, input, stopping, callers, target>>

\* It fails: the session is neither stopped nor disposed.
ResumeFails ==
    /\ process = "resume"
    /\ \/ token = "cancelled" /\ Throw("canceled")
       \/ Throw("failed")
    /\ UNCHANGED <<signal, input, stopping, callers, target>>

\* A mutant of SpawnStopTask: nothing waits for the stop source.
SpawnNothing ==
    /\ process = "spawn"
    /\ process' = "started"
    /\ UNCHANGED <<signal, result, completions, input, stopping, callers, target>>

\* Task.Run queues the stop task and ProcessEvents returns the stream.
SpawnStopTask ==
    /\ process = "spawn"
    /\ stopTask' = "queued"
    /\ process' = "started"
    /\ UNCHANGED <<signal, result, completions, input, stopSource, callers, target>>

-----------------------------------------------------------------------------
(* Process, from the start of the session *)

\* _sessionStarted: who finds it completed checks the token.
AnnounceStart ==
    /\ process = "started"
    /\ IF sessionStarted # "pending" /\ token = "cancelled"
       THEN Throw("canceled")
       ELSE /\ process' = "source"
            /\ sessionStarted' = TrySet(sessionStarted, "result")
            /\ UNCHANGED <<result, initialized>>
    /\ UNCHANGED <<signal, input, stopping, callers, target>>

\* The source is created and the handler is called up to its first await: it
\* has completed; it is to await a logger before it subscribes to Completed
\* ("starting"); it has subscribed; or it waits for an event and the token
\* only, as EventProcessInfoPipeline does ("waiting").
CreateSource ==
    /\ process = "source"
    /\ source' = "open"
    /\ handler' \in {"done", "starting", "subscribed", "waiting"}
    /\ process' = "publish"
    /\ UNCHANGED <<signal, result, completions, eventSource, stream,
                   stopping, callers, target>>

\* The stream ends before its header.
CreateSourceFails ==
    /\ process = "source"
    /\ StreamEnded
    /\ Throw("failed")
    /\ UNCHANGED <<signal, input, stopping, callers, target>>

\* _eventSource and _stopFunc are set.
Publish ==
    /\ process = "publish"
    /\ eventSource' = "set"
    /\ process' = "unregister"
    /\ UNCHANGED <<signal, result, completions, source, stream,
                   handler, stopping, callers, target>>

\* A callback that has not begun will not be called any more.
Unregister ==
    /\ process = "unregister"
    /\ registration' = "over"
    /\ process' = "initialize"
    /\ UNCHANGED <<token, result, completions, input, stopping, callers, target>>

\* _initialized, as in AnnounceStart.
Initialize ==
    /\ process = "initialize"
    /\ IF initialized # "pending" /\ token = "cancelled"
       THEN Throw("canceled")
       ELSE /\ process' = "processing"
            /\ initialized' = TrySet(initialized, "result")
            /\ UNCHANGED <<result, sessionStarted>>
    /\ UNCHANGED <<signal, input, stopping, callers, target>>

\* source.Process returns at the end of the stream, when the source is disposed
\* under it, or with the next event after StopProcessing; then the token is
\* checked.
ProcessReturns ==
    /\ process = "processing"
    /\ StreamEnded \/ source \in {"disposed", "stopping"}
    /\ IF token = "cancelled"
       THEN Throw("canceled")
       ELSE process' = "finally" /\ result' = "ok" /\ UNCHANGED completions
    /\ UNCHANGED <<signal, input, stopping, callers, target>>

\* It throws: a callback of the handler did, or the stream was disposed.
ProcessThrows ==
    /\ process = "processing"
    /\ Throw("failed")
    /\ UNCHANGED <<signal, input, stopping, callers, target>>

\* A mutant of Finally: the source is left to the caller.
FinallyKeepsSource ==
    /\ process = "finally"
    /\ registration' = "over"
    /\ stopSource' = TRUE
    /\ process' = "awaitStop"
    /\ UNCHANGED <<token, result, completions, input, stopTask, callers, target>>

\* The finally block takes the published source and disposes it; the provider's
\* DisposeAsync completes the stop source.
Finally ==
    /\ process = "finally"
    /\ registration' = "over"
    /\ IF eventSource = "set"
       THEN eventSource' = "taken" /\ DisposeSource
       ELSE UNCHANGED input
    /\ stopSource' = TRUE
    /\ process' = "awaitStop"
    /\ UNCHANGED <<token, result, completions, stopTask, callers, target>>

\* The provider's DisposeAsync awaits the stop task; its failure is thrown and
\* its cancellation swallowed.  The handler is awaited only after success.
AwaitStopTask ==
    /\ process = "awaitStop"
    /\ stopTask \in {"none", "done", "canceled", "failed"}
    /\ result' = IF stopTask = "failed" THEN "failed" ELSE result
    /\ process' = IF result' = "ok" THEN "awaitHandler" ELSE "ended"
    /\ UNCHANGED <<signal, completions, input, stopping, callers, target>>

AwaitHandler ==
    /\ process = "awaitHandler"
    /\ handler = "done"
    /\ process' = "ended"
    /\ UNCHANGED <<signal, result, completions, input, stopping, callers, target>>

-----------------------------------------------------------------------------
(* The token *)

CancelToken ==
    /\ token = "live"
    /\ token' = "cancelled"
    /\ UNCHANGED <<registration, body, input, stopping, callers, target>>

\* Cancel calls TryCancelCompletionSources.
CancelCallback ==
    /\ token = "cancelled"
    /\ registration = "active"
    /\ registration' = "over"
    /\ CompleteBoth("canceled")
    /\ UNCHANGED <<token, process, result, input, stopping, callers, target>>

-----------------------------------------------------------------------------
(* The provider's stop task and the session's StopAsync *)

\* Task.Run cancels a task whose token is cancelled before it starts.
StopTaskStarts ==
    /\ stopTask = "queued"
    /\ stopTask' = IF token = "cancelled" THEN "canceled" ELSE "waiting"
    /\ UNCHANGED <<signal, body, input, stopSource, callers, target>>

\* A mutant of LinkedTokenFires: the run's token is not linked.
DurationElapses ==
    /\ stopTask = "waiting" /\ token = "live" /\ ~stopSource
    /\ stopSource' = TRUE
    /\ UNCHANGED <<signal, body, input, stopTask, callers, target>>

\* The duration elapses, at any time, or the token was cancelled.
LinkedTokenFires ==
    /\ stopTask = "waiting"
    /\ ~stopSource
    /\ stopSource' = TRUE
    /\ UNCHANGED <<signal, body, input, stopTask, callers, target>>

\* StopSessionAsync: _stopped is set and StopTracing is about to be sent.
StopTaskSends ==
    /\ stopTask = "waiting"
    /\ stopSource
    /\ stopTask' = "sending"
    /\ UNCHANGED <<signal, body, input, stopSource, callers, target>>

\* The runtime ends the session and answers; or there is no answer, because the
\* runtime has exited or 30 s have passed (the command may have got there),
\* which is swallowed; or the answer is an error, which is not.
StopTaskEnds ==
    /\ stopTask = "sending"
    /\ \/ stopTask' = "done" /\ runtime = "alive" /\ session' = "ended"
       \/ stopTask' = "done" /\ UNCHANGED session
       \/ stopTask' = "failed" /\ runtime = "alive" /\ UNCHANGED session
    /\ UNCHANGED <<signal, body, input, stopSource, callers, runtime>>

-----------------------------------------------------------------------------
(* The handler's task *)

\* The logger's PipelineStarted returns and the handler subscribes to Completed
\* and to the token: too late, if Completed was raised meanwhile.
HandlerSubscribes ==
    /\ handler = "starting"
    /\ handler' = IF source = "disposed" THEN "late" ELSE "subscribed"
    /\ UNCHANGED <<signal, body, eventSource, source, stream,
                   stopping, callers, target>>

\* The handler has seen enough events and calls stopFunc.
HandlerStops ==
    /\ process = "processing"
    /\ handler \in {"subscribed", "waiting"}
    /\ ~stopSource
    /\ stopSource' = TRUE
    /\ UNCHANGED <<signal, body, input, stopTask, callers, target>>

\* An event it waits for arrives.
HandlerGetsEvent ==
    /\ process = "processing"
    /\ handler = "waiting"
    /\ handler' = "done"
    /\ UNCHANGED <<signal, body, eventSource, source, stream,
                   stopping, callers, target>>

\* EventTaskSource: the token cancels what the handler waits for.
HandlerCancelled ==
    /\ token = "cancelled"
    /\ handler \in {"subscribed", "late", "waiting"}
    /\ handler' = "done"
    /\ UNCHANGED <<signal, body, eventSource, source, stream,
                   stopping, callers, target>>

-----------------------------------------------------------------------------
(* OnStop and OnCleanup of the pipeline *)

\* OnStop calls StopProcessing once the run has created the processor.
OnStopStarts ==
    /\ onStop = "idle"
    /\ process # "idle"
    /\ onStop' = "await"
    /\ UNCHANGED <<signal, body, input, stopping, onCleanup, target>>

\* _initialized is complete.  StopProcessing passes its cancellation or failure
\* on; else the source is told to stop and the provider, by stopFunc, as well.
StopProcessing ==
    /\ onStop = "await"
    /\ initialized # "pending"
    /\ IF initialized = "result"
       THEN /\ onStop' = "done"
            /\ source' = IF eventSource = "set" /\ source = "open"
                         THEN "stopping" ELSE source
            /\ stopSource' = (eventSource # "null" \/ stopSource)
       ELSE onStop' = initialized /\ UNCHANGED <<source, stopSource>>
    /\ UNCHANGED <<signal, body, eventSource, stream, handler,
                   stopTask, onCleanup, target>>

\* The token of StopAsync is cancelled while it waits.
OnStopCancelled ==
    /\ onStop = "await"
    /\ onStop' = "canceled"
    /\ UNCHANGED <<signal, body, input, stopping, onCleanup, target>>

\* The pipeline cleans up when the run has ended or its OnStop was cancelled.
\* The await that follows does not wait: _initialized is complete.
DisposeAsync ==
    /\ onCleanup = "idle"
    /\ process = "ended" \/ onStop = "canceled"
    /\ onCleanup' = "dispose"
    /\ initialized' = TrySet(initialized, "canceled")
    /\ UNCHANGED <<signal, process, result, sessionStarted, input,
                   stopping, onStop, target>>

\* _eventSource is read without the lock.
DisposeEnds ==
    /\ onCleanup = "dispose"
    /\ onCleanup' = "done"
    /\ sessionStarted' = TrySet(sessionStarted, "canceled")
    /\ IF eventSource = "set"
       THEN DisposeSource
       ELSE UNCHANGED <<source, stream, handler>>
    /\ UNCHANGED <<signal, process, result, initialized, eventSource,
                   stopping, onStop, target>>

RuntimeExits ==
    /\ runtime = "alive"
    /\ runtime' = "exited"
    /\ UNCHANGED <<signal, body, input, stopping, callers, session>>

-----------------------------------------------------------------------------

\* Steps of Process that wait for nobody outside.
ProcessStep ==
    \/ BodyStarts \/ SpawnStopTask \/ AnnounceStart
    \/ CreateSource \/ CreateSourceFails \/ Publish \/ Unregister \/ Initialize
    \/ Finally \/ AwaitStopTask \/ AwaitHandler

\* Requests of the runtime.
RequestStep ==
    \/ RuntimeStartsSession \/ CommandUnsupported \/ StartFails \/ SessionStarts
    \/ Resumed \/ ResumeFails

StopTaskStep == StopTaskStarts \/ StopTaskSends \/ StopTaskEnds

CleanupStep == DisposeAsync \/ DisposeEnds

Next ==
    \/ Process \/ ProcessStep \/ RequestStep
    \/ ProcessReturns \/ ProcessThrows
    \/ CancelToken \/ CancelCallback
    \/ StopTaskStep \/ LinkedTokenFires
    \/ HandlerSubscribes \/ HandlerStops \/ HandlerGetsEvent \/ HandlerCancelled
    \/ OnStopStarts \/ StopProcessing \/ OnStopCancelled
    \/ CleanupStep
    \/ RuntimeExits

\* Tasks and callbacks run, a request ends when its token is cancelled or its
\* connection breaks, and a stream that ends or is closed ends source.Process.
\* A session begins with its header.  Nothing makes a living runtime answer, the
\* duration elapse or events come.
Fairness ==
    /\ WF_vars(ProcessStep)
    /\ WF_vars(RequestStep /\ (token = "cancelled" \/ runtime = "exited"))
    /\ WF_vars((ProcessReturns \/ ProcessThrows) /\ (StreamEnded \/ source = "disposed"))
    /\ WF_vars(CancelCallback)
    /\ WF_vars(StopTaskStep)
    /\ WF_vars(LinkedTokenFires /\ token = "cancelled")
    /\ WF_vars(HandlerSubscribes) /\ WF_vars(HandlerCancelled)
    /\ WF_vars(StopProcessing)
    /\ WF_vars(CleanupStep)

Spec == Init /\ [][Next]_vars /\ Fairness

-----------------------------------------------------------------------------
(* Properties *)

\* The variables have their types.
TypeOK ==
    /\ token \in {"live", "cancelled"}
    /\ registration \in {"none", "active", "over"}
    /\ process \in {"idle", "queued", "request", "retry", "response", "resume",
                    "spawn", "started", "source", "publish", "unregister",
                    "initialize", "processing", "finally", "awaitStop",
                    "awaitHandler", "ended"}
    /\ result \in {"none", "ok", "canceled", "failed"}
    /\ {initialized, sessionStarted} \subseteq {"pending", "result", "canceled", "failed"}
    /\ eventSource \in {"null", "set", "taken"}
    /\ source \in {"none", "open", "stopping", "disposed"}
    /\ handler \in {"none", "starting", "subscribed", "late", "waiting", "done"}
    /\ stopSource \in BOOLEAN
    /\ stopTask \in {"none", "queued", "waiting", "sending", "done", "canceled", "failed"}
    /\ onStop \in {"idle", "await", "done", "canceled", "failed"}
    /\ onCleanup \in {"idle", "dispose", "done"}
    /\ runtime \in {"alive", "exited"}
    /\ session \in {"none", "running", "ended"}
    /\ stream \in {"none", "open", "closed"}

\* Whoever waits for the session to start or for the source to be there is not
\* forgotten: when Process takes its parts down both completion sources are
\* complete, or the token's callback is still to complete them.
NobodyIsForgotten ==
    process \in {"finally", "awaitStop", "awaitHandler", "ended"} =>
        \/ initialized # "pending" /\ sessionStarted # "pending"
        \/ token = "cancelled" /\ registration = "active"

\* The session runs although it was to be stopped: StopTracing had no effect, or
\* the stop task never ran.
StopLost ==
    /\ stopTask \in {"done", "failed", "canceled"}
    /\ session = "running" /\ runtime = "alive"

\* When Process has ended no session of a living runtime is left with a stream
\* nobody reads, but in three cases: the runtime could not be resumed, the token
\* was cancelled before the stop task had started, or StopTracing got no answer;
\* and only if the source was not published yet.
SessionIsReleased ==
    process = "ended" /\ session = "running" /\ runtime = "alive" /\ stream = "open" =>
        eventSource = "null" /\ (stopTask = "none" \/ StopLost)

\* When Process has ended, however it did, its stop task has ended too: no
\* StopTracing is sent on behalf of a run that its pipeline reports as over.
NoTaskIsLeft ==
    process = "ended" => stopTask \notin {"queued", "waiting", "sending"}

\* DisposeAsync finds the source of every processor that was initialized: one
\* that runs on after the cleanup was disposed before it had published a source.
CleanupTakesTheSource ==
    onCleanup = "done" /\ initialized = "result" => source = "disposed"

SourceIsOver == process \in {"awaitStop", "awaitHandler", "ended"}

\* Once the stop source is complete, by OnStop, by the handler or because the
\* duration elapsed, Process leaves the source, unless StopTracing was lost.
StopEndsProcessing == stopSource ~> SourceIsOver \/ StopLost

\* A cancelled run ends, wherever the cancellation finds it, unless StopTracing
\* was lost, or never sent: a stop task that sees the flag before it starts does
\* not run, and Unregister may come before the callback.
CancelEndsProcess ==
    token = "cancelled" /\ process # "idle" ~> process = "ended" \/ StopLost

\* A handler that waits for an event of a source that is disposed: it subscribed
\* to Completed too late, or not at all.
HandlerIsDeaf ==
    /\ process = "awaitHandler" /\ token = "live"
    /\ handler \in {"late", "waiting"}

\* When the runtime exits Process ends, however far it is, unless its handler
\* waits for something that will not come.
ExitEndsProcess ==
    runtime = "exited" /\ process # "idle" ~> process = "ended" \/ HandlerIsDeaf

\* A handler that awaits Completed (before or after it has awaited its logger)
\* completes once the source is disposed, and Process, which awaits it, ends.
HandlerEnds ==
    process = "awaitHandler" /\ handler \in {"starting", "subscribed"} ~> process = "ended"

\* What Process and DisposeAsync leave behind: nobody who waits, no task, no
\* source, and no session but in the three cases named above.
ProcessLeavesNothing ==
    /\ TypeOK
    /\ NobodyIsForgotten
    /\ SessionIsReleased
    /\ NoTaskIsLeft
    /\ CleanupTakesTheSource
=============================================================================
