---------------------- MODULE EventPipeProcessorProofs ----------------------
(***************************************************************************)
(* Proofs about EventPipeProcessor: what one run of Process, with whoever  *)
(* stops, cancels or disposes it meanwhile, leaves behind.                 *)
(***************************************************************************)
EXTENDS EventPipeProcessor, TLAPS

(***************************************************************************)
(* The inductive invariant.                                                *)
(***************************************************************************)

\* The places of Process, in groups: before the stop task is queued, before the
\* source is published, with a published source, and after the finally block.
BeforeSpawn == {"idle", "queued", "request", "retry", "response", "resume", "spawn"}
BeforePublish == BeforeSpawn \cup {"started", "source", "publish"}
Published == {"unregister", "initialize", "processing"}
AfterFinally == {"awaitStop", "awaitHandler", "ended"}

BothComplete == initialized # "pending" /\ sessionStarted # "pending"

\* Each completion source is complete where Process no longer would complete
\* it: by Process itself, or by the callback of the token, which as long as it
\* is registered and the token cancelled is still to come.
CompletionInv ==
    /\ process = "queued" => registration = "active" \/ BothComplete
    /\ process \in {"source", "publish"} \cup Published => sessionStarted # "pending"
    /\ process \in {"processing", "finally", "awaitStop", "awaitHandler"} => BothComplete
    /\ process = "ended" =>
          BothComplete \/ (token = "cancelled" /\ registration = "active")

\* _eventSource is set while the source is read, and is taken only together with
\* the disposal of the source and its stream.
SourceInv ==
    /\ process \in BeforePublish => eventSource = "null"
    /\ process \in Published => eventSource = "set"
    /\ process \in AfterFinally => eventSource # "set"
    /\ eventSource = "taken" => source = "disposed" /\ stream = "closed"
    /\ initialized = "result" => eventSource # "null"

\* The provider's stop task begins after the session and is awaited.
StopTaskInv ==
    /\ process \in BeforeSpawn => stopTask = "none"
    /\ process \in {"awaitHandler", "ended"} =>
          stopTask \notin {"queued", "waiting", "sending"}

\* DisposeAsync leaves no completion source pending, and no source undisposed
\* that it could have found.
CleanupInv ==
    /\ onCleanup # "idle" => initialized # "pending"
    /\ onCleanup = "done" /\ initialized = "result" => source = "disposed"

Inv == TypeOK /\ CompletionInv /\ SourceInv /\ StopTaskInv /\ CleanupInv

\* What expands in every step of the proof.
USE DEF BeforeSpawn, BeforePublish, Published, AfterFinally, BothComplete, Inv,
        signal, completions, body, input, stopping, callers, target, TrySet,
        CompleteBoth, Throw, StreamEnded, DisposeSource

-----------------------------------------------------------------------------

\* A processor that has not begun.
LEMMA InitInv == Init => Inv
BY DEF Init, TypeOK, CompletionInv, SourceInv, StopTaskInv, CleanupInv

\* Process up to the start of the session.
LEMMA StartInv ==
    ASSUME Inv, Process \/ BodyStarts \/ RequestStep \/ SpawnStopTask
    PROVE  Inv'
<1> USE DEF Process, BodyStarts, RequestStep, RuntimeStartsSession,
            CommandUnsupported, StartFails, SessionStarts, Resumed, ResumeFails,
            SpawnStopTask
<1>1. TypeOK'
  BY DEF TypeOK
<1>2. CompletionInv'
  BY DEF TypeOK, CompletionInv
<1>3. SourceInv'
  BY DEF TypeOK, SourceInv
<1>4. StopTaskInv'
  BY DEF TypeOK, StopTaskInv
<1>5. CleanupInv'
  BY DEF TypeOK, CleanupInv
<1> QED
  BY <1>1, <1>2, <1>3, <1>4, <1>5

\* Process from there until it has read the stream.
LEMMA ReadInv ==
    ASSUME Inv, AnnounceStart \/ CreateSource \/ CreateSourceFails \/ Publish
                \/ Unregister \/ Initialize \/ ProcessReturns \/ ProcessThrows
    PROVE  Inv'
<1> USE DEF AnnounceStart, CreateSource, CreateSourceFails, Publish, Unregister,
            Initialize, ProcessReturns, ProcessThrows
<1>1. TypeOK'
  BY DEF TypeOK
<1>2. CompletionInv'
  BY DEF TypeOK, CompletionInv
<1>3. SourceInv'
  BY DEF TypeOK, SourceInv
<1>4. StopTaskInv'
  BY DEF TypeOK, StopTaskInv
<1>5. CleanupInv'
  BY DEF TypeOK, SourceInv, CleanupInv
<1> QED
  BY <1>1, <1>2, <1>3, <1>4, <1>5

\* The finally block and what is awaited after it.
LEMMA FinallyInv ==
    ASSUME Inv, Finally \/ AwaitStopTask \/ AwaitHandler
    PROVE  Inv'
<1> USE DEF Finally, AwaitStopTask, AwaitHandler
<1>1. TypeOK'
  BY DEF TypeOK
<1>2. CompletionInv'
  BY DEF TypeOK, CompletionInv
<1>3. SourceInv'
  BY DEF TypeOK, SourceInv
<1>4. StopTaskInv'
  BY DEF TypeOK, StopTaskInv
<1>5. CleanupInv'
  BY DEF TypeOK, CleanupInv
<1> QED
  BY <1>1, <1>2, <1>3, <1>4, <1>5

\* The token, the stop task, the handler and the runtime.
LEMMA OthersInv ==
    ASSUME Inv, CancelToken \/ CancelCallback \/ StopTaskStep \/ LinkedTokenFires
                \/ HandlerSubscribes \/ HandlerStops \/ HandlerGetsEvent
                \/ HandlerCancelled \/ RuntimeExits
    PROVE  Inv'
<1> USE DEF CancelToken, CancelCallback, StopTaskStep, StopTaskStarts,
            StopTaskSends, StopTaskEnds, LinkedTokenFires, HandlerSubscribes,
            HandlerStops, HandlerGetsEvent, HandlerCancelled, RuntimeExits
<1>1. TypeOK'
  BY DEF TypeOK
<1>2. CompletionInv'
  BY DEF TypeOK, CompletionInv
<1>3. SourceInv'
  BY DEF TypeOK, SourceInv
<1>4. StopTaskInv'
  BY DEF TypeOK, StopTaskInv
<1>5. CleanupInv'
  BY DEF TypeOK, CleanupInv
<1> QED
  BY <1>1, <1>2, <1>3, <1>4, <1>5

\* OnStop and OnCleanup of the pipeline.
LEMMA CallersInv ==
    ASSUME Inv, OnStopStarts \/ StopProcessing \/ OnStopCancelled \/ CleanupStep
    PROVE  Inv'
<1> USE DEF OnStopStarts, StopProcessing, OnStopCancelled, CleanupStep,
            DisposeAsync, DisposeEnds
<1>1. TypeOK'
  BY DEF TypeOK
<1>2. CompletionInv'
  BY DEF TypeOK, CompletionInv
<1>3. SourceInv'
  BY DEF TypeOK, SourceInv
<1>4. StopTaskInv'
  BY DEF TypeOK, StopTaskInv
<1>5. CleanupInv'
  BY DEF TypeOK, SourceInv, CleanupInv
<1> QED
  BY <1>1, <1>2, <1>3, <1>4, <1>5

\* Every step of the specification preserves the invariant.
LEMMA NextInv == Inv /\ [Next]_vars => Inv'
<1> SUFFICES ASSUME Inv, [Next]_vars PROVE Inv'
  OBVIOUS
<1>1. CASE UNCHANGED vars
  BY <1>1 DEF vars, TypeOK, CompletionInv, SourceInv, StopTaskInv, CleanupInv
<1> QED
  BY <1>1, StartInv, ReadInv, FinallyInv, OthersInv, CallersInv DEF Next, ProcessStep

\* The invariant holds in every reachable state.
LEMMA Invariance == Spec => []Inv
BY InitInv, NextInv, PTL DEF Spec

-----------------------------------------------------------------------------

\* However Process ends and whoever stops, cancels or disposes it: nobody waits
\* for a session that will not start, its stop task is over, DisposeAsync finds
\* the source, and a session is left only in the cases SessionIsReleased names.
THEOREM LeavesNothing == Spec => []ProcessLeavesNothing
<1>1. Inv => NobodyIsForgotten
  BY DEF CompletionInv, NobodyIsForgotten
<1>2. Inv => SessionIsReleased
  BY DEF TypeOK, SourceInv, StopTaskInv, SessionIsReleased, StopLost
<1>3. Inv => NoTaskIsLeft /\ CleanupTakesTheSource
  BY DEF StopTaskInv, CleanupInv, NoTaskIsLeft, CleanupTakesTheSource
<1>4. Inv => ProcessLeavesNothing
  BY <1>1, <1>2, <1>3 DEF ProcessLeavesNothing
<1> QED
  BY <1>4, Invariance, PTL
=============================================================================
