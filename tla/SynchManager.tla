---------------------------- MODULE SynchManager ----------------------------
(***************************************************************************)
(* The synchronization manager of the platform adaptation layer            *)
(* (synchmgr): WaitForSingleObject on threads and processes, the only      *)
(* objects wait.cpp lets wait for, the end of a thread, the worker thread  *)
(* that monitors processes, and PrepareForShutdown.                        *)
(*                                                                         *)
(* A waiter registers under the local synch lock and blocks on a condition *)
(* of its own.  Who signals the object takes the waiter's wait state from  *)
(* "waiting" to "active" under the same lock, but sets the waiter's        *)
(* predicate only after it has released the lock.  A timeout fights for    *)
(* the wait state without any lock.                                        *)
(***************************************************************************)
EXTENDS Integers, Sequences, FiniteSets

CONSTANTS Threads,     \* threads of this process, which are objects too
          Processes,   \* other processes
          PipeSize     \* bound: how many commands the process pipe holds

Objects == Threads \cup Processes
None == "none"
Worker == "worker"

ASSUME SMAssumption ==
    /\ Threads \cap Processes = {}
    /\ IsFiniteSet(Threads) /\ IsFiniteSet(Processes)
    /\ None \notin Objects /\ Worker \notin Objects
    /\ PipeSize \in Nat \ {0}

VARIABLES
    lock,       \* who holds the local synch lock, s_csSynchProcessLock
    monLock,    \* who holds s_csMonitoredProcessesLock
    pc, obj, tmo, ret,   \* of each thread: its place, object, timeout, result
    waitState,  \* m_shridWaitAwakened of each thread
    pred,       \* iPred of each thread's native wait data
    pending,    \* m_rgpthrPendingSignalings: whom it still has to signal
    signaled,   \* is the signal count of the object 1?
    queue,      \* the threads registered with the object, in order
    refs,       \* references to the object's synch data
    alive,      \* processes that still run
    monitored,  \* m_pmplnMonitoredProcesses
    monCount,   \* m_lMonitoredProcessesCount
    exited,     \* m_pmplnExitedNodes
    pipe, pipeOpen,   \* the process pipe, and whether its write end is open
    worker,     \* the worker thread: its place, poll timeout and locals
    shutdown    \* where PrepareForShutdown is

calls == <<obj, tmo>>
native == <<waitState, pred>>
objects == <<signaled, queue, refs>>
monitoring == <<monitored, monCount, exited>>
vars == <<lock, monLock, pc, calls, ret, native, pending, objects, alive,
          monitoring, pipe, pipeOpen, worker, shutdown>>

Init ==
    /\ lock = None /\ monLock = None
    /\ pc = [t \in Threads |-> "idle"]
    /\ obj = [t \in Threads |-> None]
    /\ tmo = [t \in Threads |-> None]
    /\ ret = [t \in Threads |-> None]
    /\ waitState = [t \in Threads |-> "active"]
    /\ pred = [t \in Threads |-> FALSE]
    /\ pending = [a \in Threads \cup {Worker} |-> <<>>]
    /\ signaled = [o \in Objects |-> FALSE]
    /\ queue = [o \in Objects |-> <<>>]
    /\ refs = [o \in Objects |-> 1]
    /\ alive = Processes
    /\ monitored = {} /\ monCount = 0 /\ exited = {}
    /\ pipe = <<>> /\ pipeOpen = TRUE
    /\ worker = [at |-> "poll", timeout |-> "infinite", count |-> 0,
                 shuttingDown |-> FALSE]
    /\ shutdown = "no"

-----------------------------------------------------------------------------
(* Signalling                                                              *)

InSeq(t, s) == \E i \in DOMAIN s : s[i] = t

\* The elements of s that are in T, in their order.
Among(s, T) ==
    LET kept[i \in 0..Len(s)] ==
          IF i = 0 THEN <<>>
          ELSE IF s[i] \in T THEN Append(kept[i - 1], s[i]) ELSE kept[i - 1]
    IN  kept[Len(s)]

\* HasProcessExited
HasProcessExited(p) == p \notin alive

\* InterlockedAwaken: the waiters it takes from "waiting" to "active".  One
\* that has timed out but is still registered is passed over.
Awakened(o) == {t \in Threads : InSeq(t, queue[o]) /\ waitState[t] = "waiting"}

\* Signal(1), and SetSignalCount(1) with ReleaseAllLocalWaiters: the waiters
\* are unregistered, and their conditions left for `by` to signal when it has
\* released the lock.  nodes is how many other references to the object's
\* synch data are given up.
SignalObject(o, by, nodes) ==
    LET woken == Awakened(o) IN
    /\ signaled' = [signaled EXCEPT ![o] = TRUE]
    /\ waitState' = [t \in Threads |->
                        IF t \in woken THEN "active" ELSE waitState[t]]
    /\ queue' = [queue EXCEPT ![o] = Among(@, Threads \ woken)]
    /\ refs' = [refs EXCEPT ![o] = @ - Cardinality(woken) - nodes]
    /\ pending' = [pending EXCEPT ![by] =
                      @ \o Among(queue[o], woken)]

\* SignalThreadCondition, for the first in the array of pending signalings.
RunDeferredSignaling(by) ==
    /\ pred' = [pred EXCEPT ![Head(pending[by])] = TRUE]
    /\ pending' = [pending EXCEPT ![by] = Tail(@)]

-----------------------------------------------------------------------------
(* WaitForSingleObject                                                     *)

Goes(t, label) == pc' = [pc EXCEPT ![t] = label]

\* WaitForSingleObject is about to return this, for the object it waited for.
Returns(t, result, o) ==
    /\ ret' = [ret EXCEPT ![t] = result]
    /\ obj' = [obj EXCEPT ![t] = o]
    /\ tmo' = [tmo EXCEPT ![t] = None]

\* Where a thread goes that releases the synch lock: to
\* RunDeferredThreadConditionSignalings first, if it has to wake others.
Releases(t, waiters, label) == Goes(t, IF waiters = {} THEN label ELSE "defer")

\* WaiterEnqueue, with the node's reference, and the change of the wait state.
Enqueue(t, o) ==
    /\ waitState' = [waitState EXCEPT ![t] = "waiting"]
    /\ queue' = [queue EXCEPT ![o] = Append(@, t)]
    /\ refs' = [refs EXCEPT ![o] = @ + 1]

\* GetSynchWaitControllersForObjects takes the synch lock; ReleaseController
\* releases it.  Where nothing in between needs the other lock, the section is
\* one step.
Begins(t, o) ==
    /\ pc[t] = "idle" /\ o # t
    /\ lock = None
    /\ UNCHANGED <<monLock, pred, alive, monitoring, pipe, pipeOpen, worker,
                   shutdown>>

\* CanThreadWaitWithoutBlocking
CanWait(o) == signaled[o] \/ (o \in Processes /\ HasProcessExited(o))

\* The object is signaled.
WaitSucceeds(t, o) ==
    /\ Begins(t, o)
    /\ signaled[o]
    /\ Goes(t, "return") /\ Returns(t, "signaled", o)
    /\ UNCHANGED <<lock, waitState, pending, objects>>

\* It is a process that has exited, and this thread is the first to see it.
WaitFindsExit(t, o) ==
    /\ Begins(t, o)
    /\ ~signaled[o] /\ CanWait(o)
    /\ SignalObject(o, t, 0)
    /\ Releases(t, Awakened(o), "return") /\ Returns(t, "signaled", o)
    /\ UNCHANGED lock

\* The timeout is zero; or RegisterWaitingThread finds no memory.
WaitFails(t, o, result) ==
    /\ Begins(t, o)
    /\ ~CanWait(o)
    /\ Goes(t, "return") /\ Returns(t, result, None)
    /\ UNCHANGED <<lock, waitState, pending, objects>>

\* RegisterWaitingThread, for a thread.
WaitForThread(t, o, timeout) ==
    /\ Begins(t, o)
    /\ ~CanWait(o) /\ o \in Threads
    /\ Enqueue(t, o)
    /\ obj' = [obj EXCEPT ![t] = o]
    /\ tmo' = [tmo EXCEPT ![t] = timeout]
    /\ Goes(t, "blocked")
    /\ UNCHANGED <<lock, ret, pending, signaled>>

\* The same for a process, which has to be monitored first.
WaitForProcess(t, o, timeout) ==
    /\ Begins(t, o)
    /\ ~CanWait(o) /\ o \in Processes
    /\ lock' = t
    /\ obj' = [obj EXCEPT ![t] = o]
    /\ tmo' = [tmo EXCEPT ![t] = timeout]
    /\ Goes(t, "register")
    /\ UNCHANGED <<ret, waitState, pending, objects>>

WaitForSingleObject(t) ==
    \E o \in Objects :
        \/ WaitSucceeds(t, o) \/ WaitFindsExit(t, o)
        \/ \E result \in {"timeout", "failed"} : WaitFails(t, o, result)
        \/ \E timeout \in {"finite", "infinite"} :
              WaitForThread(t, o, timeout) \/ WaitForProcess(t, o, timeout)

\* RegisterProcessForMonitoring: the worker is told of a new process.
RegisterProcessForMonitoring(t) ==
    LET p == obj[t] IN
    /\ pc[t] = "register" /\ p \in Processes
    /\ monLock = None
    /\ IF p \in monitored
       THEN Goes(t, "enqueue") /\ UNCHANGED <<monitored, monCount, refs>>
       ELSE /\ monitored' = monitored \cup {p}
            /\ monCount' = monCount + 1
            /\ refs' = [refs EXCEPT ![p] = @ + 1]
            /\ Goes(t, "notify")
    /\ UNCHANGED <<lock, monLock, calls, ret, native, pending, signaled, queue,
                   alive, exited, pipe, pipeOpen, worker, shutdown>>

CanWrite == pipeOpen /\ Len(pipe) < PipeSize

\* WakeUpLocalWorkerThread with SynchWorkerCmdNop.  When it cannot write, the
\* wait fails, and the process stays in the list.
WakeUpWorker(t) ==
    /\ pc[t] = "notify"
    /\ \/ /\ CanWrite
          /\ pipe' = Append(pipe, "nop")
          /\ Goes(t, "enqueue") /\ UNCHANGED <<lock, calls, ret>>
       \/ /\ ~CanWrite
          /\ lock' = None
          /\ Goes(t, "return") /\ Returns(t, "failed", None)
          /\ UNCHANGED pipe
    /\ UNCHANGED <<monLock, native, pending, objects, alive, monitoring,
                   pipeOpen, worker, shutdown>>

\* The rest of RegisterWaitingThread, and ReleaseController.
RegisterWaitingThread(t) ==
    /\ pc[t] = "enqueue"
    /\ Enqueue(t, obj[t])
    /\ lock' = None
    /\ Goes(t, "blocked")
    /\ UNCHANGED <<monLock, calls, ret, pred, pending, signaled, alive,
                   monitoring, pipe, pipeOpen, worker, shutdown>>

\* RunDeferredThreadConditionSignalings, one waiter after the other.
SignalDeferred(t) ==
    /\ pc[t] = "defer"
    /\ RunDeferredSignaling(t)
    /\ Goes(t, CASE Len(pending[t]) > 1 -> "defer"
                 [] ret[t] = "exit" -> "ended"
                 [] OTHER -> "return")
    /\ UNCHANGED <<lock, monLock, calls, ret, waitState, objects, alive,
                   monitoring, pipe, pipeOpen, worker, shutdown>>

\* There is no memory for the node of the process.
RegisterFails(t) ==
    /\ pc[t] = "register" /\ obj[t] \notin monitored
    /\ monLock = None
    /\ lock' = None
    /\ Goes(t, "return") /\ Returns(t, "failed", None)
    /\ UNCHANGED <<monLock, native, pending, objects, alive, monitoring,
                   pipe, pipeOpen, worker, shutdown>>

-----------------------------------------------------------------------------
(* BlockThread                                                             *)

\* ThreadNativeWait tests the predicate before it sleeps and whenever it is
\* woken, and resets it unless it has timed out.
NativeWaitEnds(t) ==
    /\ pc[t] \in {"blocked", "rewait"}
    /\ pred[t]
    /\ pred' = [pred EXCEPT ![t] = FALSE]
    /\ Goes(t, "return") /\ Returns(t, "signaled", obj[t])
    /\ UNCHANGED <<lock, monLock, waitState, pending, objects, alive,
                   monitoring, pipe, pipeOpen, worker, shutdown>>

\* A mutant of NativeWaitTimesOut: the wait is not unregistered.
NativeWaitTimesOutAtOnce(t) ==
    /\ pc[t] = "blocked" /\ tmo[t] = "finite" /\ waitState[t] = "waiting"
    /\ waitState' = [waitState EXCEPT ![t] = "active"]
    /\ Goes(t, "return") /\ Returns(t, "timeout", None)
    /\ UNCHANGED <<lock, monLock, pred, pending, objects, alive, monitoring,
                   pipe, pipeOpen, worker, shutdown>>

\* pthread_cond_timedwait may time out just as the predicate is set.
NativeWaitTimesOut(t) ==
    /\ pc[t] = "blocked" /\ tmo[t] = "finite"
    /\ Goes(t, "timedOut")
    /\ UNCHANGED <<lock, monLock, calls, ret, native, pending, objects, alive,
                   monitoring, pipe, pipeOpen, worker, shutdown>>

\* A mutant of SwitchToActive: a timeout is a timeout, whoever came first.
SwitchToActiveAlways(t) ==
    /\ pc[t] = "timedOut"
    /\ waitState' = [waitState EXCEPT ![t] = "active"]
    /\ Goes(t, "unregister")
    /\ UNCHANGED <<lock, monLock, calls, ret, pred, pending, objects, alive,
                   monitoring, pipe, pipeOpen, worker, shutdown>>

\* The wait state goes back to "active".  If it was already, somebody is about
\* to set the predicate, which is waited for and reset: "a signaling raced".
SwitchToActive(t) ==
    /\ pc[t] = "timedOut"
    /\ waitState' = [waitState EXCEPT ![t] = "active"]
    /\ Goes(t, IF waitState[t] = "active" THEN "rewait" ELSE "unregister")
    /\ UNCHANGED <<lock, monLock, calls, ret, pred, pending, objects, alive,
                   monitoring, pipe, pipeOpen, worker, shutdown>>

\* UnRegisterWait, under the synch lock.  Nobody calls
\* UnRegisterProcessForMonitoring: a process stays monitored until it exits.
UnRegisterWait(t) ==
    /\ pc[t] = "unregister" /\ lock = None
    /\ queue' = [queue EXCEPT ![obj[t]] = Among(@, Threads \ {t})]
    /\ refs' = [refs EXCEPT ![obj[t]] = @ - 1]
    /\ Goes(t, "return") /\ Returns(t, "timeout", None)
    /\ UNCHANGED <<lock, monLock, native, pending, signaled, alive,
                   monitoring, pipe, pipeOpen, worker, shutdown>>

\* WaitForSingleObject returns.
Return(t) ==
    /\ pc[t] = "return"
    /\ Goes(t, "idle") /\ Returns(t, None, None)
    /\ UNCHANGED <<lock, monLock, native, pending, objects, alive, monitoring,
                   pipe, pipeOpen, worker, shutdown>>

-----------------------------------------------------------------------------
(* The end of a thread, and of a process                                   *)

\* InternalEndCurrentThread signals the thread's object.  It owns no object
\* that it could abandon.
InternalEndCurrentThread(t) ==
    /\ pc[t] = "idle"
    /\ lock = None
    /\ SignalObject(t, t, 0)
    /\ Releases(t, Awakened(t), "ended") /\ Returns(t, "exit", None)
    /\ UNCHANGED <<lock, monLock, pred, alive, monitoring, pipe,
                   pipeOpen, worker, shutdown>>

ProcessExits(p) ==
    /\ p \in alive
    /\ alive' = alive \ {p}
    /\ UNCHANGED <<lock, monLock, pc, calls, ret, native, pending, objects,
                   monitoring, pipe, pipeOpen, worker, shutdown>>

-----------------------------------------------------------------------------
(* WorkerThread and DoMonitorProcesses                                     *)

threads == <<pc, calls, ret>>
WorkerGoes(label) == worker' = [worker EXCEPT !.at = label]

\* SynchWorkerCmdNop, which is also what a timeout or the end of the pipe is
\* taken for.
WorkerNop == WorkerGoes(IF worker.shuttingDown THEN "done" ELSE "scan")

\* A mutant of ReadCmdFromProcessPipe: the shutdown closes the pipe and is then
\* forgotten.
ReadCmdKeepsPolling ==
    /\ worker.at = "poll"
    /\ pipe # <<>>
    /\ pipe' = Tail(pipe)
    /\ \/ Head(pipe) = "nop" /\ WorkerNop /\ UNCHANGED pipeOpen
       \/ /\ Head(pipe) = "shutdown"
          /\ pipeOpen' = FALSE
          /\ worker' = [worker EXCEPT !.timeout = "short"]
    /\ UNCHANGED <<lock, monLock, threads, native, pending, objects, alive,
                   monitoring, shutdown>>

ReadCmdFromProcessPipe ==
    /\ worker.at = "poll"
    /\ pipe # <<>>
    /\ pipe' = Tail(pipe)
    /\ \/ Head(pipe) = "nop" /\ WorkerNop /\ UNCHANGED pipeOpen
       \/ /\ Head(pipe) = "shutdown"
          /\ pipeOpen' = FALSE
          /\ worker' = [worker EXCEPT !.shuttingDown = TRUE,
                                      !.timeout = "short"]
    /\ UNCHANGED <<lock, monLock, threads, native, pending, objects, alive,
                   monitoring, shutdown>>

PollTimesOut ==
    /\ worker.at = "poll"
    /\ pipe = <<>> /\ (worker.timeout # "infinite" \/ ~pipeOpen)
    /\ WorkerNop
    /\ UNCHANGED <<lock, monLock, threads, native, pending, objects, alive,
                   monitoring, pipe, pipeOpen, shutdown>>

\* Under the lock of the list, what has exited moves to the other list.
ScanProcesses ==
    LET gone == {p \in monitored : HasProcessExited(p)} IN
    /\ worker.at = "scan"
    /\ monLock = None
    /\ monLock' = Worker
    /\ monitored' = monitored \ gone
    /\ exited' = exited \cup gone
    /\ monCount' = monCount - Cardinality(gone)
    /\ worker' = [worker EXCEPT !.at = "scanned",
                                !.count = monCount - Cardinality(gone)]
    /\ UNCHANGED <<lock, threads, native, pending, objects, alive, pipe,
                   pipeOpen, shutdown>>

PollTimeout(count) == IF count > 0 THEN "short" ELSE "infinite"

\* The locks are acquired in the order of RegisterProcessForMonitoring, so
\* this one has to be released first.
EndScan ==
    /\ worker.at = "scanned"
    /\ monLock' = None
    /\ worker' = [worker EXCEPT
          !.at = IF exited = {} THEN "poll" ELSE "acquire",
          !.timeout = IF exited = {} THEN PollTimeout(worker.count) ELSE @,
          !.count = IF exited = {} THEN 0 ELSE @]
    /\ UNCHANGED <<lock, threads, native, pending, objects, alive, monitoring,
                   pipe, pipeOpen, shutdown>>

AcquireSynchLock ==
    /\ worker.at = "acquire" /\ lock = None
    /\ lock' = Worker
    /\ WorkerGoes("acquireList")
    /\ UNCHANGED <<monLock, threads, native, pending, objects, alive,
                   monitoring, pipe, pipeOpen, shutdown>>

AcquireMonitoredLock ==
    /\ worker.at = "acquireList" /\ monLock \in {None, Worker}
    /\ monLock' = Worker
    /\ WorkerGoes("signal")
    /\ UNCHANGED <<lock, threads, native, pending, objects, alive, monitoring,
                   pipe, pipeOpen, shutdown>>

SignalExited(p) ==
    /\ worker.at = "signal" /\ p \in exited
    /\ exited' = exited \ {p}
    /\ SignalObject(p, Worker, 1)
    /\ UNCHANGED <<lock, monLock, threads, pred, alive, monitored, monCount,
                   pipe, pipeOpen, worker, shutdown>>

ReleaseLocks ==
    /\ worker.at = "signal" /\ exited = {}
    /\ monLock' = None /\ lock' = None
    /\ WorkerGoes("defer")
    /\ UNCHANGED <<threads, native, pending, objects, alive, monitoring, pipe,
                   pipeOpen, shutdown>>

\* A mutant of WorkerDefers: the worker only signals what it finds pending the
\* next time.
WorkerDefersNothing ==
    /\ worker.at = "defer"
    /\ worker' = [worker EXCEPT !.at = "poll", !.count = 0,
                                !.timeout = PollTimeout(worker.count)]
    /\ UNCHANGED <<lock, monLock, threads, native, pending, objects, alive,
                   monitoring, pipe, pipeOpen, shutdown>>

WorkerDefers ==
    /\ worker.at = "defer"
    /\ \/ /\ pending[Worker] # <<>>
          /\ RunDeferredSignaling(Worker)
          /\ UNCHANGED worker
       \/ /\ pending[Worker] = <<>>
          /\ worker' = [worker EXCEPT !.at = "poll", !.count = 0,
                                      !.timeout = PollTimeout(worker.count)]
          /\ UNCHANGED <<pred, pending>>
    /\ UNCHANGED <<lock, monLock, threads, waitState, objects, alive,
                   monitoring, pipe, pipeOpen, shutdown>>

DoMonitorProcesses ==
    \/ ScanProcesses \/ EndScan
    \/ AcquireSynchLock \/ AcquireMonitoredLock
    \/ \E p \in Processes : SignalExited(p)
    \/ ReleaseLocks \/ WorkerDefers

WorkerThread == ReadCmdFromProcessPipe \/ PollTimesOut \/ DoMonitorProcesses

-----------------------------------------------------------------------------
(* PrepareForShutdown                                                      *)

\* The list is discarded; its count is not touched.
DiscardMonitoredProcesses ==
    /\ shutdown = "no" /\ monLock = None
    /\ monitored' = {}
    /\ refs' = [o \in Objects |-> refs[o] - Cardinality({o} \cap monitored)]
    /\ shutdown' = "wake"
    /\ UNCHANGED <<lock, monLock, threads, native, pending, signaled, queue,
                   alive, monCount, exited, pipe, pipeOpen, worker>>

\* The worker is told to end.  What follows changes nothing here: a wait for
\* the worker, of two seconds at most, and the release of its object.
PrepareForShutdown ==
    /\ shutdown = "wake"
    /\ \/ /\ CanWrite
          /\ pipe' = Append(pipe, "shutdown")
          /\ shutdown' = "told"
       \/ ~CanWrite /\ shutdown' = "error" /\ UNCHANGED pipe
    /\ UNCHANGED <<lock, monLock, threads, native, pending, objects, alive,
                   monitoring, pipeOpen, worker>>

-----------------------------------------------------------------------------
\* What a thread that is in a call does.
Step(t) ==
    \/ RegisterProcessForMonitoring(t) \/ RegisterFails(t) \/ WakeUpWorker(t)
    \/ RegisterWaitingThread(t) \/ SignalDeferred(t)
    \/ NativeWaitEnds(t) \/ NativeWaitTimesOut(t)
    \/ SwitchToActive(t) \/ UnRegisterWait(t) \/ Return(t)

Next ==
    \/ \E t \in Threads :
          WaitForSingleObject(t) \/ Step(t) \/ InternalEndCurrentThread(t)
    \/ \E p \in Processes : ProcessExits(p)
    \/ WorkerThread
    \/ DiscardMonitoredProcesses \/ PrepareForShutdown

\* Threads run, and an Enter of a critical section returns, whoever else wants
\* it: what EnterReturns of CriticalSection says.  Nobody has to wait or to end.
Fairness ==
    /\ \A t \in Threads : SF_vars(Step(t))
    /\ SF_vars(WorkerThread)

Spec == Init /\ [][Next]_vars /\ Fairness

-----------------------------------------------------------------------------
(* Properties                                                              *)

Labels == {"idle", "register", "notify", "enqueue", "defer", "blocked",
           "timedOut", "rewait", "unregister", "return", "ended"}

TypeOK ==
    /\ lock \in Threads \cup {Worker, None}
    /\ monLock \in {Worker, None}
    /\ pc \in [Threads -> Labels]
    /\ obj \in [Threads -> Objects \cup {None}]
    /\ tmo \in [Threads -> {None, "finite", "infinite"}]
    /\ ret \in [Threads -> {None, "signaled", "timeout", "failed", "exit"}]
    /\ waitState \in [Threads -> {"active", "waiting"}]
    /\ pred \in [Threads -> BOOLEAN]
    /\ DOMAIN pending = Threads \cup {Worker}
    /\ \A a \in DOMAIN pending : pending[a] \in Seq(Threads)
    /\ signaled \in [Objects -> BOOLEAN]
    /\ \A o \in Objects : queue[o] \in Seq(Threads) /\ refs[o] \in Nat
    /\ alive \subseteq Processes
    /\ monitored \subseteq Processes /\ exited \subseteq Processes
    /\ monCount \in Nat
    /\ pipe \in Seq({"nop", "shutdown"}) /\ Len(pipe) <= PipeSize
    /\ pipeOpen \in BOOLEAN
    /\ worker \in [at : {"poll", "scan", "scanned", "acquire", "acquireList",
                         "signal", "defer", "done"},
                   timeout : {"infinite", "short"}, count : Nat,
                   shuttingDown : BOOLEAN]
    /\ shutdown \in {"no", "wake", "told", "error"}

\* t has registered its wait and not yet returned or given up.
Waiting(t) ==
    pc[t] \in {"blocked", "timedOut", "rewait"}

\* The wake-ups that are on their way to t.
Wakeups(t) ==
    Cardinality({w \in (DOMAIN pending) \X (1..Cardinality(Threads)) :
                    w[2] \in DOMAIN pending[w[1]] /\ pending[w[1]][w[2]] = t})
    + (IF pred[t] THEN 1 ELSE 0)

\* A thread that was chosen to be woken has exactly one wake-up coming, as a
\* pending signaling or as a set predicate, and any other thread has none: a
\* wake-up that raced with a timeout is not left for the next wait to find,
\* and no thread that has ended is signalled.
WakeupsConserved ==
    \A t \in Threads :
        Wakeups(t) = IF Waiting(t) /\ waitState[t] = "active" THEN 1 ELSE 0

\* A thread is in the list of the object it waits for exactly while it can be
\* chosen, or until it has taken itself out after a timeout.
QueuesMatchWaits ==
    \A t \in Threads, o \in Objects :
        InSeq(t, queue[o]) <=>
            /\ obj[t] = o
            /\ \/ Waiting(t) /\ waitState[t] = "waiting"
               \/ pc[t] = "unregister"

\* Nobody is left waiting for an object that is signaled, although the test of
\* the object and the registration are separate steps.
SignaledHasNoWaiter ==
    \A t \in Threads :
        Waiting(t) /\ waitState[t] = "waiting" => ~signaled[obj[t]]

\* A wait that reports success waited for an object that is signaled.
ResultsAreTrue ==
    \A t \in Threads : ret[t] = "signaled" => signaled[obj[t]]

\* The synch data of an object has a reference for the object, for each
\* registered waiter and for each node of the two lists of processes.
ReferencesMatch ==
    \A o \in Objects :
        refs[o] = 1 + Len(queue[o]) + Cardinality({o} \cap monitored)
                    + Cardinality({o} \cap exited)

\* While somebody waits for a process, some list has it.
WaitedForIsMonitored ==
    shutdown = "no" =>
        \A t \in Threads :
            Waiting(t) /\ waitState[t] = "waiting" /\ obj[t] \in Processes =>
                obj[t] \in monitored \cup exited

\* The worker does not sleep for good with a process in the list, even when
\* the pipe was too full to tell it of that one.
WorkerLooksAgain ==
    monitored # {} /\ worker.at = "poll" /\ worker.timeout = "infinite" =>
        \/ pipe # <<>> \/ ~pipeOpen
        \/ \E t \in Threads : pc[t] = "notify"

\* Who waits for a process that has exited or a thread that has ended gets to
\* know it, until the list of processes is discarded for the shutdown.
WaitersAreReleased ==
    \A t \in Threads :
        Waiting(t) /\ (signaled[obj[t]] \/ obj[t] \in Processes \ alive) ~>
            ~Waiting(t) \/ (shutdown # "no" /\ obj[t] \in Processes)

\* A wait with a timeout returns, even when it loses the race against a
\* signal and has to wait without one.
FiniteWaitsReturn ==
    \A t \in Threads :
        pc[t] # "idle" /\ tmo[t] # "infinite" ~> pc[t] \in {"idle", "ended"}

\* The worker that was told to shut down comes to its end.
WorkerStops == shutdown = "told" ~> worker.at = "done"

\* The lists of waiting threads, their wait states, the reference counts and the
\* processes the worker looks at agree, whoever holds the locks.
QueuesAreSound ==
    /\ TypeOK
    /\ QueuesMatchWaits
    /\ SignaledHasNoWaiter
    /\ ReferencesMatch
    /\ WaitedForIsMonitored
    /\ WorkerLooksAgain

\* A thread is woken once for each time it was chosen, and what its wait returns
\* is what happened.
WakeupsAreTrue == WakeupsConserved /\ ResultsAreTrue

\* A wait ends when its process has exited, and when its time has passed.
WaitsEnd == WaitersAreReleased /\ FiniteWaitsReturn
=============================================================================
