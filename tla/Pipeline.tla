------------------------------ MODULE Pipeline ------------------------------
(***************************************************************************)
(* Pipeline (Pipeline.cs), the base class of everything that collects      *)
(* events from a runtime: RunAsync starts the asynchronous method          *)
(* RunAsyncCore once, StopAsync starts StopAsyncCore once, both may start  *)
(* the cleanup, once, and DisposeAsync cancels and awaits all three.       *)
(*                                                                         *)
(* Each public method takes the lock once, so it is one step up to the     *)
(* first await of the method it starts.  What OnRun, OnStop and OnCleanup  *)
(* do is up to the subclass: they end at any time, with any outcome,       *)
(* OperationCanceledException included, cancelled token or not.            *)
(***************************************************************************)
EXTENDS FiniteSets

CONSTANTS Runners,   \* calls of RunAsync, each with a token
          Stoppers,  \* calls of StopAsync, each with a token
          Disposers, \* calls of DisposeAsync
          Nobody

Callers == Runners \cup Stoppers \cup Disposers

ASSUME CallersAssumption ==
    /\ Runners \cap (Stoppers \cup Disposers) = {}
    /\ Stoppers \cap Disposers = {}
    /\ Nobody \notin Callers

VARIABLES
    isCleanedUp,    \* _isCleanedUp
    disposeSource,  \* _disposeSource: "active", "cancelled" or "disposed"
    runTask,        \* _runTask: where RunAsyncCore is
    stopTask,       \* _stopTask: where StopAsyncCore is
    cleanupTask,    \* _cleanupTask
    runner,         \* the call whose token RunAsyncCore observes
    stopper,        \* the call whose token StopAsyncCore observes
    cancelled,      \* the calls whose token is cancelled
    pc,             \* where each call is
    cleanups        \* history: the calls of OnCleanup that have begun

tasks == <<runTask, stopTask, cleanupTask, runner, stopper>>
vars == <<isCleanedUp, disposeSource, tasks, cancelled, pc, cleanups>>

Init ==
    /\ isCleanedUp = FALSE
    /\ disposeSource = "active"
    /\ runTask = "none"
    /\ stopTask = "none"
    /\ cleanupTask = "none"
    /\ runner = Nobody
    /\ stopper = Nobody
    /\ cancelled = {}
    /\ pc = [c \in Callers |-> "idle"]
    /\ cleanups = {}

\* A mutant of LinkedCancelled: the caller's token is not linked.
OnlyDisposeCancels(c) == disposeSource # "active"

\* The linked token of RunAsyncCore or StopAsyncCore, started by call c.
LinkedCancelled(c) == c \in cancelled \/ disposeSource # "active"

\* Cleanup(), called by the run or the stop task.
Cleanup(by) ==
    IF cleanupTask = "none"
    THEN /\ cleanupTask' = "running"
         /\ cleanups' = cleanups \cup {by}
    ELSE UNCHANGED <<cleanupTask, cleanups>>

-----------------------------------------------------------------------------
(* RunAsync and RunAsyncCore *)

\* The call gets the run task, a completed task when DisposeAsync came first.
RunAsync(r) ==
    /\ pc[r] = "idle"
    /\ IF isCleanedUp \/ runTask # "none"
       THEN /\ pc' = [pc EXCEPT ![r] = IF runTask = "none" THEN "returned" ELSE "run"]
            /\ UNCHANGED <<runTask, cleanupTask, runner, cleanups>>
       ELSE /\ pc' = [pc EXCEPT ![r] = "run"]
            /\ runner' = r
            /\ IF LinkedCancelled(r)
               THEN runTask' = "cleanup" /\ Cleanup("run")
               ELSE runTask' = "running" /\ UNCHANGED <<cleanupTask, cleanups>>
    /\ UNCHANGED <<isCleanedUp, disposeSource, stopTask, stopper, cancelled>>

\* OnRun returns or throws, and the finally block starts the cleanup.
OnRunEnds ==
    /\ runTask = "running"
    /\ runTask' = "cleanup"
    /\ Cleanup("run")
    /\ UNCHANGED <<isCleanedUp, disposeSource, stopTask, runner, stopper,
                   cancelled, pc>>

\* A mutant of RunEnds: the task is forgotten when it has completed.
RunEndsForgotten ==
    /\ runTask = "cleanup"
    /\ cleanupTask = "done"
    /\ runTask' = "none"
    /\ UNCHANGED <<isCleanedUp, disposeSource, stopTask, cleanupTask, runner,
                   stopper, cancelled, pc, cleanups>>

\* The cleanup was awaited.
RunEnds ==
    /\ runTask = "cleanup"
    /\ cleanupTask = "done"
    /\ runTask' = "done"
    /\ UNCHANGED <<isCleanedUp, disposeSource, stopTask, cleanupTask, runner,
                   stopper, cancelled, pc, cleanups>>

\* OnCleanup returns a task that completes or fails.
OnCleanupEnds ==
    /\ cleanupTask = "running"
    /\ cleanupTask' = "done"
    /\ UNCHANGED <<isCleanedUp, disposeSource, runTask, stopTask, runner,
                   stopper, cancelled, pc, cleanups>>

-----------------------------------------------------------------------------
(* StopAsync and StopAsyncCore *)

\* The call gets the stop task, a completed task when DisposeAsync came first,
\* or PipelineException.
StopAsync(s) ==
    /\ pc[s] = "idle"
    /\ IF isCleanedUp \/ runTask = "none" \/ stopTask # "none"
       THEN /\ pc' = [pc EXCEPT ![s] = IF stopTask # "none" THEN "stop"
                                       ELSE IF isCleanedUp THEN "returned"
                                       ELSE "threw"]
            /\ UNCHANGED <<stopTask, cleanupTask, stopper, cleanups>>
       ELSE /\ pc' = [pc EXCEPT ![s] = "stop"]
            /\ stopper' = s
            /\ IF LinkedCancelled(s)
               THEN stopTask' = "cleanup" /\ Cleanup("stop")
               ELSE stopTask' = "running" /\ UNCHANGED <<cleanupTask, cleanups>>
    /\ UNCHANGED <<isCleanedUp, disposeSource, runTask, runner, cancelled>>

\* OnStop returns, or throws something else than OperationCanceledException.
OnStopEnds ==
    /\ stopTask = "running"
    /\ stopTask' \in {"done", "failed"}
    /\ UNCHANGED <<isCleanedUp, disposeSource, runTask, cleanupTask, runner,
                   stopper, cancelled, pc, cleanups>>

\* OperationCanceledException, whoever threw it: the pipeline is cleaned up
\* although it runs.
OnStopCancelled ==
    /\ stopTask = "running"
    /\ stopTask' = "cleanup"
    /\ Cleanup("stop")
    /\ UNCHANGED <<isCleanedUp, disposeSource, runTask, runner, stopper,
                   cancelled, pc>>

StopEnds ==
    /\ stopTask = "cleanup"
    /\ cleanupTask = "done"
    /\ stopTask' = "done"
    /\ UNCHANGED <<isCleanedUp, disposeSource, runTask, cleanupTask, runner,
                   stopper, cancelled, pc, cleanups>>

-----------------------------------------------------------------------------
(* The callers *)

CancelToken(c) ==
    /\ c \notin cancelled
    /\ cancelled' = cancelled \cup {c}
    /\ UNCHANGED <<isCleanedUp, disposeSource, tasks, pc, cleanups>>

Ended(t) == t \in {"done", "failed"}

\* The call awaits the task it was given.
Return(c) ==
    /\ \/ pc[c] = "run" /\ Ended(runTask)
       \/ pc[c] = "stop" /\ Ended(stopTask)
    /\ pc' = [pc EXCEPT ![c] = "returned"]
    /\ UNCHANGED <<isCleanedUp, disposeSource, tasks, cancelled, cleanups>>

-----------------------------------------------------------------------------
(* DisposeAsync *)

\* A second call returns at once.
DisposeAsync(d) ==
    /\ pc[d] = "idle"
    /\ isCleanedUp' = TRUE
    /\ pc' = [pc EXCEPT ![d] = IF isCleanedUp THEN "returned" ELSE "cancel"]
    /\ UNCHANGED <<disposeSource, tasks, cancelled, cleanups>>

\* A mutant of DisposeCancels: _disposeSource is not cancelled.
DisposeCancelsNothing(d) ==
    /\ pc[d] = "cancel"
    /\ pc' = [pc EXCEPT ![d] = "awaitRun"]
    /\ UNCHANGED <<isCleanedUp, disposeSource, tasks, cancelled, cleanups>>

DisposeCancels(d) ==
    /\ pc[d] = "cancel"
    /\ disposeSource' = "cancelled"
    /\ pc' = [pc EXCEPT ![d] = "awaitRun"]
    /\ UNCHANGED <<isCleanedUp, tasks, cancelled, cleanups>>

\* A mutant of DisposeAwaits: the stop task is not awaited.
DisposeAwaitsRun(d) ==
    /\ \/ /\ pc[d] = "awaitRun" /\ (runTask = "none" \/ Ended(runTask))
          /\ pc' = [pc EXCEPT ![d] = "awaitCleanup"]
       \/ /\ pc[d] = "awaitCleanup" /\ (cleanupTask = "none" \/ Ended(cleanupTask))
          /\ pc' = [pc EXCEPT ![d] = "end"]
    /\ UNCHANGED <<isCleanedUp, disposeSource, tasks, cancelled, cleanups>>

\* SafeExecuteTask: each task is acquired when its turn has come, and awaited
\* if there is one.
DisposeAwaits(d) ==
    /\ \/ /\ pc[d] = "awaitRun" /\ (runTask = "none" \/ Ended(runTask))
          /\ pc' = [pc EXCEPT ![d] = "awaitStop"]
       \/ /\ pc[d] = "awaitStop" /\ (stopTask = "none" \/ Ended(stopTask))
          /\ pc' = [pc EXCEPT ![d] = "awaitCleanup"]
       \/ /\ pc[d] = "awaitCleanup" /\ (cleanupTask = "none" \/ Ended(cleanupTask))
          /\ pc' = [pc EXCEPT ![d] = "end"]
    /\ UNCHANGED <<isCleanedUp, disposeSource, tasks, cancelled, cleanups>>

DisposeEnds(d) ==
    /\ pc[d] = "end"
    /\ disposeSource' = "disposed"
    /\ pc' = [pc EXCEPT ![d] = "returned"]
    /\ UNCHANGED <<isCleanedUp, tasks, cancelled, cleanups>>

-----------------------------------------------------------------------------

DisposeStep(d) == DisposeCancels(d) \/ DisposeAwaits(d) \/ DisposeEnds(d)

Next ==
    \/ \E r \in Runners : RunAsync(r)
    \/ \E s \in Stoppers : StopAsync(s)
    \/ \E c \in Runners \cup Stoppers : CancelToken(c) \/ Return(c)
    \/ OnRunEnds \/ RunEnds \/ OnCleanupEnds
    \/ OnStopEnds \/ OnStopCancelled \/ StopEnds
    \/ \E d \in Disposers : DisposeAsync(d) \/ DisposeStep(d)

\* OnStop has succeeded: a stop that was cancelled has begun the cleanup.
StopSucceeded == stopTask = "done" /\ cleanups = {}

\* OnRun need not end by itself.  It does once it was told to, by its token or
\* by an OnStop that succeeded (EventPipeProcessor says how far its subclass
\* keeps this promise).  OnCleanup alone does not end it.
ToldToEnd == LinkedCancelled(runner) \/ StopSucceeded

\* Continuations run, OnCleanup ends, OnStop ends once its token is cancelled.
Fairness ==
    /\ WF_vars(OnRunEnds /\ ToldToEnd)
    /\ WF_vars(RunEnds) /\ WF_vars(OnCleanupEnds) /\ WF_vars(StopEnds)
    /\ WF_vars((OnStopEnds \/ OnStopCancelled) /\ LinkedCancelled(stopper))
    /\ \A c \in Runners \cup Stoppers : WF_vars(Return(c))
    /\ \A d \in Disposers : WF_vars(DisposeStep(d))

Spec == Init /\ [][Next]_vars /\ Fairness

-----------------------------------------------------------------------------
(* Properties *)

Positions == {"none", "running", "cleanup", "done"}

\* The variables have their types.
TypeOK ==
    /\ isCleanedUp \in BOOLEAN
    /\ disposeSource \in {"active", "cancelled", "disposed"}
    /\ runTask \in Positions
    /\ stopTask \in Positions \cup {"failed"}
    /\ cleanupTask \in {"none", "running", "done"}
    /\ runner \in Runners \cup {Nobody}
    /\ stopper \in Stoppers \cup {Nobody}
    /\ cancelled \subseteq Runners \cup Stoppers
    /\ pc \in [Callers -> {"idle", "run", "stop", "returned", "threw", "cancel",
                           "awaitRun", "awaitStop", "awaitCleanup", "end"}]
    /\ cleanups \subseteq {"run", "stop"}

\* OnCleanup is called once, by the run task or by the stop task, however the
\* two end (the tests count it: PipelineTests.cs:50).
CleanedUpOnce ==
    /\ \A a, b \in cleanups : a = b
    /\ cleanupTask = "none" <=> cleanups = {}

\* A caller of RunAsync that returns finds a pipeline that will not run any
\* more: the run has ended and was cleaned up, or it will never begin.
RunReturnMeansStopped ==
    \A r \in Runners : pc[r] = "returned" =>
        \/ runTask = "done" /\ cleanupTask = "done"
        \/ runTask = "none" /\ isCleanedUp

\* When DisposeAsync disposes the token source no task is left that could use
\* it, and none begins later: what was running has ended, cleanup included.
DisposedMeansIdle ==
    disposeSource = "disposed" =>
        /\ runTask = "none" \/ runTask = "done"
        /\ stopTask = "none" \/ Ended(stopTask)
        /\ runTask = "done" => cleanupTask = "done"

\* The documented states of the pipeline.
Aborted ==
    isCleanedUp \/ runner \in cancelled \/ stopper \in cancelled

\* All asynchronous work has ceased: the run, the stop and the cleanup.
HasStopped ==
    /\ runTask = "done" \/ (runTask = "none" /\ disposeSource = "disposed")
    /\ stopTask = "none" \/ Ended(stopTask)
    /\ cleanupTask # "running"

Phase ==
    IF HasStopped THEN "Stopped"
    ELSE IF Aborted THEN "Aborting"
    ELSE IF runTask = "none" THEN "Unstarted"
    ELSE IF runTask = "running" /\ stopTask = "none" THEN "Running"
    ELSE "Stopping"

Lifecycle == INSTANCE PipelineLifecycle
             WITH phase <- Phase, asked <- stopTask # "none"

\* The pipeline moves between the documented states (lines 16-34) along the
\* documented transitions: it never runs again, it does not stop without
\* having been stopping or aborting, and StopAsync starts work once.  There is
\* one exception to "all work has ceased" (line 24): the first StopAsync may
\* come after the run has ended, and then OnStop is called.
ImplementsLifecycle == Lifecycle!Spec

\* DisposeAsync ends, as do the calls of RunAsync and StopAsync that are
\* pending: the three awaits of DisposeAsync cannot wait for one another.
DisposeReleasesAll ==
    \A c \in Callers :
        isCleanedUp /\ pc[c] # "idle" ~> pc[c] \in {"returned", "threw"}

\* A successful OnStop ends the run, and so does the cancellation of the run's
\* own token, whatever the other calls do meanwhile.
StopEndsRun == StopSucceeded \/ runner \in cancelled ~> runTask = "done"

\* One cleanup, a run that returns when all is over, and no task left to a
\* disposed token source.
TasksAreSound ==
    TypeOK /\ CleanedUpOnce /\ RunReturnMeansStopped /\ DisposedMeansIdle
=============================================================================
