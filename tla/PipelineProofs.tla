--------------------------- MODULE PipelineProofs ---------------------------
(***************************************************************************)
(* Proofs about Pipeline, for any number of calls of RunAsync, StopAsync   *)
(* and DisposeAsync, and for any subclass.                                 *)
(***************************************************************************)
EXTENDS Pipeline, TLAPS

(***************************************************************************)
(* The inductive invariant.                                                *)
(***************************************************************************)

Disposing == {"cancel", "awaitRun", "awaitStop", "awaitCleanup", "end"}

\* A call is only ever at the positions of its own method.
CallInv ==
    /\ \A r \in Runners : pc[r] \in {"idle", "run", "returned"}
    /\ \A s \in Stoppers : pc[s] \in {"idle", "stop", "returned", "threw"}
    /\ \A d \in Disposers : pc[d] \in {"idle", "returned"} \cup Disposing
    /\ \A r \in Runners : pc[r] = "run" => runTask # "none"

\* A task that is past its body has the cleanup behind it, or awaits it; there
\* is no stop and no cleanup without a run.
TaskInv ==
    /\ runTask = "none" => /\ stopTask = "none" /\ cleanupTask = "none"
                           /\ runner = Nobody
    /\ stopTask = "none" => stopper = Nobody
    /\ runTask = "cleanup" => cleanupTask # "none"
    /\ runTask = "done" => cleanupTask = "done"
    /\ stopTask = "cleanup" => cleanupTask # "none"

\* One DisposeAsync does the work; the tasks it has awaited have ended, and
\* none has begun since.
DisposeInv ==
    /\ \A d \in Disposers : pc[d] \in Disposing =>
          isCleanedUp /\ disposeSource # "disposed"
    /\ \A d, e \in Disposers : pc[d] \in Disposing /\ pc[e] \in Disposing => d = e
    /\ disposeSource # "active" => isCleanedUp
    /\ \A d \in Disposers :
          pc[d] \in {"awaitStop", "awaitCleanup", "end"} =>
              runTask \in {"none", "done"}
    /\ \A d \in Disposers :
          pc[d] \in {"awaitCleanup", "end"} => stopTask \in {"none", "done", "failed"}

Inv ==
    /\ TypeOK
    /\ CallInv
    /\ TaskInv
    /\ DisposeInv
    /\ CleanedUpOnce
    /\ RunReturnMeansStopped
    /\ DisposedMeansIdle

-----------------------------------------------------------------------------

\* A new pipeline satisfies the invariant.
LEMMA InitInv == Init => Inv
BY CallersAssumption
   DEF Init, Inv, TypeOK, CallInv, TaskInv, DisposeInv, Disposing, CleanedUpOnce,
       RunReturnMeansStopped, DisposedMeansIdle, Callers, Positions, Ended

\* Cleanup records the task that calls it, and starts the cleanup task.
LEMMA CleanupType ==
    ASSUME TypeOK, NEW by \in {"run", "stop"}, Cleanup(by)
    PROVE  cleanups' \subseteq {"run", "stop"}
BY DEF TypeOK, Cleanup

\* RunAsync preserves the invariant.
LEMMA RunAsyncInv == ASSUME Inv, NEW r \in Runners, RunAsync(r) PROVE Inv'
<1> USE CallersAssumption DEF Inv, TypeOK, CallInv, RunAsync, Cleanup, Callers,
        Disposing
<1>1. TypeOK'
  BY ZenonT(40) DEF Positions
<1>2. CallInv'
  OBVIOUS
<1>3. TaskInv'
  BY DEF TaskInv
<1>4. DisposeInv'
  BY DEF DisposeInv
<1>5. CleanedUpOnce'
  BY ZenonT(40) DEF CleanedUpOnce, TaskInv
<1>6. RunReturnMeansStopped'
  BY DEF RunReturnMeansStopped, TaskInv
<1>7. DisposedMeansIdle'
  BY DEF DisposedMeansIdle, DisposeInv, Ended
<1> QED
  BY <1>1, <1>2, <1>3, <1>4, <1>5, <1>6, <1>7 DEF Inv

\* StopAsync preserves the invariant.
LEMMA StopAsyncInv == ASSUME Inv, NEW s \in Stoppers, StopAsync(s) PROVE Inv'
<1> USE CallersAssumption DEF Inv, TypeOK, CallInv, StopAsync, Cleanup, Callers,
        Disposing
<1>1. TypeOK'
  <2>1. CASE isCleanedUp \/ runTask = "none" \/ stopTask # "none"
    BY <2>1, ZenonT(40)
  <2>2. CASE ~(isCleanedUp \/ runTask = "none" \/ stopTask # "none")
    <3>1. cleanups' \subseteq {"run", "stop"}
      <4>1. Cleanup("stop") \/ cleanups' = cleanups
        BY <2>2
      <4> QED
        BY <4>1, CleanupType
    <3>2. stopTask' \in Positions /\ cleanupTask' \in {"none", "running", "done"}
      BY <2>2 DEF Positions
    <3> QED
      BY <2>2, <3>1, <3>2
  <2> QED
    BY <2>1, <2>2
<1>2. CallInv'
  OBVIOUS
<1>3. TaskInv'
  BY DEF TaskInv
<1>4. DisposeInv'
  BY DEF DisposeInv
<1>5. CleanedUpOnce'
  BY DEF CleanedUpOnce
<1>6. RunReturnMeansStopped'
  BY DEF RunReturnMeansStopped
<1>7. DisposedMeansIdle'
  BY DEF DisposedMeansIdle, DisposeInv, Ended
<1> QED
  BY <1>1, <1>2, <1>3, <1>4, <1>5, <1>6, <1>7 DEF Inv

\* The steps of the run, stop and cleanup tasks preserve the invariant.
LEMMA TaskStepInv ==
    ASSUME Inv,
           \/ OnRunEnds \/ RunEnds \/ OnCleanupEnds
           \/ OnStopEnds \/ OnStopCancelled \/ StopEnds
    PROVE  Inv'
<1> USE CallersAssumption DEF Inv, TypeOK, CallInv, Callers, Disposing, OnRunEnds,
        RunEnds, OnCleanupEnds, OnStopEnds, OnStopCancelled, StopEnds, Cleanup
<1>1. TypeOK'
  <2>1. CASE OnRunEnds
    BY <2>1, ZenonT(40) DEF Positions
  <2>2. CASE RunEnds \/ OnCleanupEnds \/ OnStopEnds \/ StopEnds
    BY <2>2 DEF Positions
  <2>3. CASE OnStopCancelled
    <3>1. cleanups' \subseteq {"run", "stop"}
      <4>1. Cleanup("stop")
        BY <2>3
      <4> QED
        BY <4>1, CleanupType
    <3> QED
      BY <2>3, <3>1 DEF Positions
  <2> QED
    BY <2>1, <2>2, <2>3
<1>2. CallInv'
  OBVIOUS
<1>3. TaskInv'
  BY DEF TaskInv
<1>4. DisposeInv'
  BY DEF DisposeInv
<1>5. CleanedUpOnce'
  BY ZenonT(40) DEF CleanedUpOnce, TaskInv
<1>6. RunReturnMeansStopped'
  BY DEF RunReturnMeansStopped
<1>7. DisposedMeansIdle'
  BY DEF DisposedMeansIdle, DisposeInv, TaskInv, Ended
<1> QED
  BY <1>1, <1>2, <1>3, <1>4, <1>5, <1>6, <1>7 DEF Inv

\* The callers of RunAsync and StopAsync preserve the invariant.
LEMMA CallerInv ==
    ASSUME Inv, NEW c \in Runners \cup Stoppers, CancelToken(c) \/ Return(c)
    PROVE  Inv'
<1> USE CallersAssumption DEF Inv, TypeOK, CallInv, Callers, Disposing,
        CancelToken, Return, tasks
<1>1. TypeOK'
  OBVIOUS
<1>2. CallInv'
  OBVIOUS
<1>3. TaskInv'
  BY DEF TaskInv
<1>4. DisposeInv'
  BY DEF DisposeInv
<1>5. CleanedUpOnce'
  BY DEF CleanedUpOnce
<1>6. RunReturnMeansStopped'
  BY DEF RunReturnMeansStopped, TaskInv, Ended, Positions
<1>7. DisposedMeansIdle'
  BY DEF DisposedMeansIdle, Ended
<1> QED
  BY <1>1, <1>2, <1>3, <1>4, <1>5, <1>6, <1>7 DEF Inv

\* DisposeAsync preserves the invariant.
LEMMA DisposeAsyncInv ==
    ASSUME Inv, NEW d \in Disposers, DisposeAsync(d) \/ DisposeStep(d)
    PROVE  Inv'
<1> USE CallersAssumption DEF Inv, TypeOK, CallInv, Callers, Disposing,
        DisposeAsync, DisposeStep, DisposeCancels, DisposeAwaits, DisposeEnds, tasks
<1>1. TypeOK'
  OBVIOUS
<1>2. CallInv'
  OBVIOUS
<1>3. TaskInv'
  BY DEF TaskInv
<1>4. DisposeInv'
  <2>1. CASE DisposeAsync(d)
    BY <2>1 DEF DisposeInv
  <2>2. CASE DisposeCancels(d)
    BY <2>2 DEF DisposeInv
  <2>3. CASE DisposeAwaits(d)
    <3>1. disposeSource' = disposeSource /\ isCleanedUp' = isCleanedUp
          /\ runTask' = runTask /\ stopTask' = stopTask
      BY <2>3
    <3>2. \A e \in Disposers : e # d => pc'[e] = pc[e]
      BY <2>3
    <3>3. /\ pc[d] \in Disposing /\ pc'[d] \in Disposing
          /\ pc'[d] \in {"awaitStop", "awaitCleanup", "end"} =>
                runTask \in {"none", "done"}
          /\ pc'[d] \in {"awaitCleanup", "end"} =>
                stopTask \in {"none", "done", "failed"}
      BY <2>3 DEF DisposeInv, Ended, Positions
    <3> QED
      BY <3>1, <3>2, <3>3 DEF DisposeInv
  <2>4. CASE DisposeEnds(d)
    BY <2>4 DEF DisposeInv
  <2> QED
    BY <2>1, <2>2, <2>3, <2>4
<1>5. CleanedUpOnce'
  BY DEF CleanedUpOnce
<1>6. RunReturnMeansStopped'
  BY DEF RunReturnMeansStopped
<1>7. DisposedMeansIdle'
  BY DEF DisposedMeansIdle, DisposeInv, TaskInv, Ended
<1> QED
  BY <1>1, <1>2, <1>3, <1>4, <1>5, <1>6, <1>7 DEF Inv

\* Every step of the pipeline preserves the invariant.
LEMMA NextInv == Inv /\ [Next]_vars => Inv'
<1> SUFFICES ASSUME Inv, [Next]_vars PROVE Inv'
  OBVIOUS
<1>1. CASE UNCHANGED vars
  BY <1>1 DEF vars, tasks, Inv, TypeOK, CallInv, TaskInv, DisposeInv, CleanedUpOnce,
     RunReturnMeansStopped, DisposedMeansIdle
<1> QED
  BY <1>1, RunAsyncInv, StopAsyncInv, TaskStepInv, CallerInv, DisposeAsyncInv
  DEF Next

\* The invariant holds in every state of the pipeline.
LEMMA Invariance == Spec => []Inv
BY InitInv, NextInv, PTL DEF Spec

-----------------------------------------------------------------------------
(* The theorems. *)

\* The pipeline keeps its types.
THEOREM TypeCorrect == Spec => []TypeOK
<1>1. Inv => TypeOK
  BY DEF Inv
<1> QED
  BY <1>1, Invariance, PTL

\* OnCleanup is called once at most, by the run or by the stop.
THEOREM CleanupHappensOnce == Spec => []CleanedUpOnce
<1>1. Inv => CleanedUpOnce
  BY DEF Inv
<1> QED
  BY <1>1, Invariance, PTL

\* Who awaited RunAsync finds the pipeline stopped and cleaned up.
THEOREM RunReturnIsFinal == Spec => []RunReturnMeansStopped
<1>1. Inv => RunReturnMeansStopped
  BY DEF Inv
<1> QED
  BY <1>1, Invariance, PTL

\* When the token source is disposed all work has ended, for good.
THEOREM DisposeIsFinal == Spec => []DisposedMeansIdle
<1>1. Inv => DisposedMeansIdle
  BY DEF Inv
<1> QED
  BY <1>1, Invariance, PTL

\* The pipeline implements the documented states and transitions, with the
\* late StopAsync as the only exception.
THEOREM Refinement == Spec => ImplementsLifecycle
<1> DEFINE asked == stopTask # "none"
           Step == Lifecycle!Next \/ (UNCHANGED Phase /\ asked' = asked)
<1> USE DEF Phase, HasStopped, Aborted
<1>1. Init => Lifecycle!Init
  BY CallersAssumption DEF Init, Lifecycle!Init
<1>2. Inv /\ [Next]_vars => [Lifecycle!Next]_<<Phase, asked>>
  <2> SUFFICES ASSUME Inv, [Next]_vars PROVE Step
    OBVIOUS
  <2> USE CallersAssumption DEF Inv, TypeOK, TaskInv, Positions, Ended,
          Lifecycle!Next, Lifecycle!Run, Lifecycle!Stop, Lifecycle!Abort,
          Lifecycle!Finish, Lifecycle!LateStop, Lifecycle!Ask
  <2>1. ASSUME NEW r \in Runners, RunAsync(r) PROVE Step
    BY <2>1 DEF RunAsync, Cleanup, LinkedCancelled, DisposeInv, Callers
  <2>2. ASSUME NEW s \in Stoppers, StopAsync(s) PROVE Step
    BY <2>2 DEF StopAsync, Cleanup, LinkedCancelled, DisposeInv, Callers
  <2>3. ASSUME NEW c \in Runners \cup Stoppers, CancelToken(c) \/ Return(c)
        PROVE  Step
    BY <2>3 DEF CancelToken, Return, tasks, Callers
  <2>4. CASE OnRunEnds \/ RunEnds \/ OnCleanupEnds
    BY <2>4 DEF OnRunEnds, RunEnds, OnCleanupEnds, Cleanup
  <2>5. CASE OnStopEnds \/ OnStopCancelled \/ StopEnds
    BY <2>5 DEF OnStopEnds, OnStopCancelled, StopEnds, Cleanup
  <2>6. ASSUME NEW d \in Disposers, DisposeAsync(d) \/ DisposeStep(d)
        PROVE  Step
    BY <2>6 DEF DisposeAsync, DisposeStep, DisposeCancels, DisposeAwaits,
       DisposeEnds, DisposeInv, Disposing, tasks
  <2>7. CASE UNCHANGED vars
    BY <2>7 DEF vars, tasks
  <2> QED
    BY <2>1, <2>2, <2>3, <2>4, <2>5, <2>6, <2>7 DEF Next
<1> QED
  BY <1>1, <1>2, Invariance, PTL DEF Spec, ImplementsLifecycle, Lifecycle!Spec

\* The tasks of the pipeline are sound for any number of callers.
THEOREM TasksSound == Spec => []TasksAreSound
BY TypeCorrect, CleanupHappensOnce, RunReturnIsFinal, DisposeIsFinal, PTL
   DEF TasksAreSound
=============================================================================
