--------------------------- MODULE RuntimeStartup ---------------------------
(***************************************************************************)
(* How a debugger is told that a runtime starts: RegisterForRuntimeStartup *)
(* and UnregisterForRuntimeStartup of dbgshim.cpp on Unix, over            *)
(* PAL_RuntimeStartupHelper of process.cpp.                                *)
(*                                                                         *)
(* A registered debugger publishes two named semaphores (and on macOS two  *)
(* named pipes as well).  A starting runtime that finds them posts         *)
(* "startup" and waits for "continue".  A worker thread of the debugger    *)
(* waits for "startup", calls the user's callback and posts "continue";    *)
(* with pipes, an events thread translates between pipes and semaphores.   *)
(* The runtime is not part of this repository: its steps are external.     *)
(***************************************************************************)
EXTENDS Integers

CONSTANTS N,       \* how many debuggers want the runtime, in a build without
          NPipes   \* pipes and in one with pipes

ASSUME RSAssumption == N \in Nat /\ NPipes \in 0..N

\* The debuggers, in the order in which they register.
Debuggers == 1..N
None == 0

VARIABLES
    overPipes,   \* ENABLE_RUNTIME_EVENTS_OVER_PIPES, a choice of the build
    names,       \* what the names in the file system stand for: whose objects
    helper,      \* the fields of each PAL_RuntimeStartupHelper
    client,      \* where each debugger's thread in Register is
    unreg,       \* where its call of Unregister is
    caller,      \* the thread that called it
    shim,        \* dbgshim's RuntimeStartupHelper
    worker,      \* where each StartupHelperThread is
    pe,          \* has its pe an error?
    events,      \* where each StartupHelperRuntimeEventsThread is
    fds,         \* whose pipes the events thread has open
    pipes,       \* what is in each pair of pipes, and from whom
    rt,          \* where the runtime is
    rtOn,        \* whose objects the runtime has open
    timedOut,    \* history: did a wait of Unregister run into its 60 seconds?
    calls        \* history: the calls of the user's callback that did not throw

system == <<overPipes, names>>
debugger == <<client, unreg, caller, shim>>
working == <<worker, pe>>
piping == <<events, fds, pipes>>
runtime == <<rt, rtOn>>
history == <<timedOut, calls>>
vars == <<system, helper, debugger, working, piping, runtime, history>>

Objects == {"startup", "continue", "startupPipe", "continuePipe"}

NoSem == -2       \* SEM_FAILED: no semaphore, and so no count

Init ==
    /\ overPipes \in BOOLEAN
    /\ names = [o \in Objects |-> None]
    /\ helper = [d \in Debuggers |->
                   [ref |-> 1, canceled |-> FALSE, error |-> FALSE,
                    startup |-> NoSem, continue |-> NoSem, dtor |-> "no"]]
    /\ client = [d \in Debuggers |-> "idle"]
    /\ unreg = [d \in Debuggers |-> "no"]
    /\ caller = [d \in Debuggers |-> "nobody"]
    /\ shim = [d \in Debuggers |-> "none"]
    /\ worker = [d \in Debuggers |-> "none"]
    /\ pe = [d \in Debuggers |-> FALSE]
    /\ events = [d \in Debuggers |-> "none"]
    /\ fds = [d \in Debuggers |-> [startupPipe |-> None, continuePipe |-> None]]
    /\ pipes = [d \in Debuggers |-> [started |-> FALSE, continue |-> None]]
    /\ rt = "notStarted"
    /\ rtOn = [o \in Objects |-> None]
    /\ timedOut = [d \in Debuggers |-> FALSE]
    /\ calls = [d \in Debuggers |-> 0]

-----------------------------------------------------------------------------
(* References and the destructor                                           *)

\* Release: the last one runs the destructor.
Released(hlp) ==
    [hlp EXCEPT !.ref = @ - 1, !.dtor = IF hlp.ref = 1 THEN "startup" ELSE @]

Release(d) == helper' = [helper EXCEPT ![d] = Released(@)]

\* sem_close and sem_unlink, if sem_open had succeeded.
DestructorSemaphore(d, sem, next) ==
    /\ helper[d].dtor = sem
    /\ helper' = [helper EXCEPT ![d].dtor = next]
    /\ names' = IF helper[d][sem] = NoSem THEN names
                ELSE [names EXCEPT ![sem] = None]
    /\ UNCHANGED <<overPipes, debugger, working, piping, runtime, history>>

\* The pipes are unlinked whoever created them.
DestructorPipes(d) ==
    /\ helper[d].dtor = "pipes"
    /\ helper' = [helper EXCEPT ![d].dtor = "yes"]
    /\ names' = IF overPipes
                THEN [names EXCEPT !["startupPipe"] = None, !["continuePipe"] = None]
                ELSE names
    /\ UNCHANGED <<overPipes, debugger, working, piping, runtime, history>>

Destructor(d) ==
    \/ DestructorSemaphore(d, "startup", "continue")
    \/ DestructorSemaphore(d, "continue", "pipes")
    \/ DestructorPipes(d)

-----------------------------------------------------------------------------
(* RegisterForRuntimeStartup, PAL_RegisterForRuntimeStartup and Register   *)

\* Register fails at this point: PAL_RegisterForRuntimeStartup releases its
\* helper and dbgshim its own.
RegisterFails(d) ==
    /\ client' = [client EXCEPT ![d] = "failed"]
    /\ shim' = [shim EXCEPT ![d] = "freed"]

\* Both helpers are made.  CreatePipe unlinks a pipe that is there already.
Register(d) ==
    /\ client[d] = "idle"
    /\ \A e \in 1..(d - 1) : client[e] # "idle"
    /\ overPipes => d <= NPipes
    /\ client' = [client EXCEPT ![d] = "continue"]
    /\ shim' = [shim EXCEPT ![d] = "alive"]
    /\ names' = IF overPipes
                THEN [names EXCEPT !["startupPipe"] = d, !["continuePipe"] = d]
                ELSE names
    /\ UNCHANGED <<overPipes, helper, unreg, caller, working, piping, runtime,
                   history>>

\* sem_open with O_CREAT | O_EXCL: it fails if there is one of that name, or
\* for want of resources.
CreateSemaphore(d, sem, next) ==
    /\ client[d] = sem
    /\ \/ /\ names[sem] = None
          /\ names' = [names EXCEPT ![sem] = d]
          /\ helper' = [helper EXCEPT ![d][sem] = 0]
          /\ client' = [client EXCEPT ![d] = next]
          /\ UNCHANGED shim
       \/ /\ UNCHANGED names
          /\ Release(d)
          /\ RegisterFails(d)
    /\ UNCHANGED <<overPipes, unreg, caller, working, piping, runtime, history>>

\* InternalCreateThread of the events thread, with a reference for it.
CreateEventsThread(d) ==
    /\ client[d] = "events"
    /\ \/ /\ overPipes
          /\ helper' = [helper EXCEPT ![d].ref = @ + 1]
          /\ events' = [events EXCEPT ![d] = "openContinue"]
          /\ client' = [client EXCEPT ![d] = "worker"]
          /\ UNCHANGED shim
       \/ /\ overPipes
          /\ Release(d)
          /\ RegisterFails(d)
          /\ UNCHANGED events
       \/ /\ ~overPipes
          /\ client' = [client EXCEPT ![d] = "worker"]
          /\ UNCHANGED <<helper, shim, events>>
    /\ UNCHANGED <<unreg, caller, fds, pipes, working, runtime, history,
                   system>>

\* A mutant of CreateWorkerThread: the thread gets no reference.
CreateWorkerThreadUncounted(d) ==
    /\ client[d] = "worker"
    /\ worker' = [worker EXCEPT ![d] = "start"]
    /\ client' = [client EXCEPT ![d] = "registered"]
    /\ UNCHANGED <<helper, unreg, caller, shim, pe, piping, runtime, history,
                   system>>

\* The same for the worker thread.  When it fails, nobody tells an events
\* thread that is running, nor a runtime that has found the semaphores.
CreateWorkerThread(d) ==
    /\ client[d] = "worker"
    /\ \/ /\ helper' = [helper EXCEPT ![d].ref = @ + 1]
          /\ worker' = [worker EXCEPT ![d] = "start"]
          /\ client' = [client EXCEPT ![d] = "registered"]
          /\ UNCHANGED shim
       \/ /\ Release(d)
          /\ RegisterFails(d)
          /\ UNCHANGED worker
    /\ UNCHANGED <<unreg, caller, pe, piping, runtime, history, system>>

Registering(d) ==
    \/ CreateSemaphore(d, "continue", "startup")
    \/ CreateSemaphore(d, "startup", "events")
    \/ CreateEventsThread(d)
    \/ CreateWorkerThread(d)

-----------------------------------------------------------------------------
(* UnregisterForRuntimeStartup, PAL_UnregisterForRuntimeStartup and        *)
(* Unregister, called by the debugger's thread or by the callback          *)

\* Where the worker thread runs the user's callback.
InUserCode == {"inCallback", "inReport", "inErrorCallback"}

Unregister(d, who) ==
    /\ client[d] = "registered" /\ unreg[d] = "no"
    /\ who = "worker" => worker[d] \in InUserCode
    /\ caller' = [caller EXCEPT ![d] = who]
    /\ helper' = [helper EXCEPT ![d].canceled = TRUE]
    /\ unreg' = [unreg EXCEPT ![d] = "postContinue"]
    /\ UNCHANGED <<client, shim, working, piping, runtime, history, system>>

\* sem_post of a semaphore of d.
Post(d, sem) == helper' = [helper EXCEPT ![d][sem] = @ + 1]

UnregisterPosts(d) ==
    /\ \/ unreg[d] = "postContinue" /\ Post(d, "continue")
          /\ unreg' = [unreg EXCEPT ![d] = "postStartup"]
       \/ unreg[d] = "postStartup" /\ Post(d, "startup")
          /\ unreg' = [unreg EXCEPT ![d] = "waitWorker"]
    /\ UNCHANGED <<client, caller, shim, working, piping, runtime, history,
                   system>>

\* A mutant of WaitWorker: it does not wait.
WaitWorkerNever(d) ==
    /\ unreg[d] = "waitWorker"
    /\ unreg' = [unreg EXCEPT ![d] = "waitEvents"]
    /\ UNCHANGED <<helper, client, caller, shim, working, piping, runtime,
                   history, system>>

\* WaitForSingleObject on the worker thread, unless it is the caller ...
WaitWorker(d) ==
    /\ unreg[d] = "waitWorker"
    /\ caller[d] = "worker" \/ worker[d] = "ended"
    /\ unreg' = [unreg EXCEPT ![d] = "waitEvents"]
    /\ UNCHANGED <<helper, client, caller, shim, working, piping, runtime,
                   history, system>>

\* ... and on the events thread.
WaitEvents(d) ==
    /\ unreg[d] = "waitEvents"
    /\ overPipes => events[d] = "ended"
    /\ unreg' = [unreg EXCEPT ![d] = "release"]
    /\ UNCHANGED <<helper, client, caller, shim, working, piping, runtime,
                   history, system>>

\* Either wait gives up after 60 seconds, and Unregister goes on all the same.
WaitTimesOut(d) ==
    /\ \/ unreg[d] = "waitWorker" /\ caller[d] = "client" /\ worker[d] # "ended"
          /\ unreg' = [unreg EXCEPT ![d] = "waitEvents"]
       \/ unreg[d] = "waitEvents" /\ overPipes /\ events[d] # "ended"
          /\ unreg' = [unreg EXCEPT ![d] = "release"]
    /\ timedOut' = [timedOut EXCEPT ![d] = TRUE]
    /\ UNCHANGED <<helper, client, caller, shim, calls, working, piping,
                   runtime, system>>

UnregisterReleases(d) ==
    /\ unreg[d] = "release"
    /\ Release(d)
    /\ unreg' = [unreg EXCEPT ![d] = "releaseShim"]
    /\ UNCHANGED <<client, caller, shim, working, piping, runtime, history,
                   system>>

\* dbgshim's helper has no reference for the thread that is given its address.
UnregisterReturns(d) ==
    /\ unreg[d] = "releaseShim"
    /\ shim' = [shim EXCEPT ![d] = "freed"]
    /\ unreg' = [unreg EXCEPT ![d] = "done"]
    /\ UNCHANGED <<helper, client, caller, working, piping, runtime, history,
                   system>>

Unregistering(d) ==
    \/ UnregisterPosts(d) \/ WaitWorker(d) \/ WaitEvents(d)
    \/ UnregisterReleases(d) \/ UnregisterReturns(d)

-----------------------------------------------------------------------------
(* StartupHelperThread and InvokeStartupCallback                           *)

WorkerGoes(d, label) == worker' = [worker EXCEPT ![d] = label]

\* IsCoreClrProcessReady: is there a transport pipe of the runtime?
IsCoreClrProcessReady == rt # "notStarted"

WorkerStarts(d) ==
    /\ worker[d] = "start"
    /\ WorkerGoes(d, IF IsCoreClrProcessReady THEN "testCanceled" ELSE "waitStartup")
    /\ UNCHANGED <<helper, pe, debugger, piping, runtime, history, system>>

\* sem_wait on the startup semaphore, and a look at m_error.
WorkerWakes(d) ==
    /\ worker[d] = "waitStartup"
    /\ helper[d].startup > 0
    /\ helper' = [helper EXCEPT ![d].startup = @ - 1]
    /\ pe' = [pe EXCEPT ![d] = helper[d].error]
    /\ WorkerGoes(d, IF helper[d].error THEN "testError" ELSE "testCanceled")
    /\ UNCHANGED <<debugger, piping, runtime, history, system>>

WorkerTestsCanceled(d) ==
    /\ worker[d] = "testCanceled"
    /\ WorkerGoes(d, IF helper[d].canceled THEN "post" ELSE "modules")
    /\ UNCHANGED <<helper, pe, debugger, piping, runtime, history, system>>

\* CreateProcessModules fails; or RuntimeStartupHandler takes none of the
\* modules for a runtime; or it takes one, and makes an ICorDebug or fails to.
WorkerLooksAtModules(d) ==
    /\ worker[d] = "modules"
    /\ \/ WorkerGoes(d, "post") /\ pe' = [pe EXCEPT ![d] = TRUE]
       \/ WorkerGoes(d, "post") /\ UNCHANGED pe
       \/ WorkerGoes(d, "found") /\ UNCHANGED pe
       \/ WorkerGoes(d, "report") /\ UNCHANGED pe
    /\ UNCHANGED <<helper, debugger, piping, runtime, history, system>>

\* RuntimeStartupHelper::InvokeStartupCallback reads m_callback and calls it:
\* with an ICorDebug when a runtime was "found"; to "report" that there is none,
\* or that the first call threw; and with the PAL's error when that has "failed".
CallUser(d, from, to) ==
    /\ worker[d] = from
    /\ calls' = [calls EXCEPT ![d] = @ + 1]
    /\ WorkerGoes(d, to)
    /\ UNCHANGED <<helper, pe, timedOut, debugger, piping, runtime, system>>

\* The callback returns or throws after the Unregister it may have called.
UserIsDone(d) == caller[d] = "worker" => unreg[d] = "done"

\* The helper of dbgshim is not touched any more.
UserReturns(d) ==
    /\ \/ worker[d] \in {"inCallback", "inReport"} /\ WorkerGoes(d, "post")
       \/ worker[d] = "inErrorCallback" /\ WorkerGoes(d, "release")
    /\ UserIsDone(d)
    /\ UNCHANGED <<helper, pe, debugger, piping, runtime, history, system>>

\* dbgshim catches an exception of the first call and calls again, with E_FAIL;
\* one of that call is caught by the PAL, as ERROR_ACCESS_DENIED.  Nobody catches
\* one of the last call: it ends the debugger, and is left out.
UserThrows(d) ==
    /\ \/ worker[d] = "inCallback" /\ WorkerGoes(d, "report") /\ UNCHANGED pe
       \/ /\ worker[d] = "inReport"
          /\ WorkerGoes(d, "post")
          /\ pe' = [pe EXCEPT ![d] = TRUE]
    /\ UserIsDone(d)
    /\ calls' = [calls EXCEPT ![d] = @ - 1]
    /\ UNCHANGED <<helper, timedOut, debugger, piping, runtime, system>>

\* A mutant of WorkerPosts: only who called the user lets the runtime go on.
WorkerPostsSometimes(d) ==
    /\ worker[d] = "post"
    /\ IF calls[d] > 0 THEN Post(d, "continue") ELSE UNCHANGED helper
    /\ WorkerGoes(d, "testError")
    /\ UNCHANGED <<pe, debugger, piping, runtime, history, system>>

\* Every way out of InvokeStartupCallback lets the runtime go on.
WorkerPosts(d) ==
    /\ worker[d] = "post"
    /\ Post(d, "continue")
    /\ WorkerGoes(d, "testError")
    /\ UNCHANGED <<pe, debugger, piping, runtime, history, system>>

\* "Invoke the callback on errors", unless canceled.
WorkerTestsError(d) ==
    /\ worker[d] = "testError"
    /\ WorkerGoes(d, IF pe[d] /\ ~helper[d].canceled THEN "failed" ELSE "release")
    /\ UNCHANGED <<helper, pe, debugger, piping, runtime, history, system>>

\* The wrapper of the thread releases the helper when it ends.
WorkerEnds(d) ==
    /\ worker[d] = "release"
    /\ Release(d)
    /\ WorkerGoes(d, "ended")
    /\ UNCHANGED <<pe, debugger, piping, runtime, history, system>>

Working(d) ==
    \/ WorkerStarts(d) \/ WorkerWakes(d) \/ WorkerTestsCanceled(d)
    \/ WorkerLooksAtModules(d)
    \/ CallUser(d, "found", "inCallback")
    \/ CallUser(d, "report", "inReport")
    \/ UserReturns(d) \/ UserThrows(d) \/ WorkerPosts(d) \/ WorkerTestsError(d)
    \/ CallUser(d, "failed", "inErrorCallback")
    \/ WorkerEnds(d)

-----------------------------------------------------------------------------
(* StartupHelperRuntimeEventsThread                                        *)

EventsGo(d, label) == events' = [events EXCEPT ![d] = label]

\* A pipe can be opened for writing while somebody reads it.
RuntimeReads(p) ==
    /\ rtOn["continuePipe"] = p
    /\ rt \in {"openStartupPipe", "writeStarted", "waitPipe"}

\* OpenNonBlockingPipe retries while there is no reader.  It gives up when
\* canceled, when there is no pipe, and when open or kqueue fails, which may
\* happen any time.
EventsOpen(d, pipe, next) ==
    /\ \/ EventsGo(d, "close") /\ UNCHANGED fds
       \/ /\ ~helper[d].canceled /\ names[pipe] # None
          /\ pipe = "continuePipe" => RuntimeReads(names[pipe])
          /\ fds' = [fds EXCEPT ![d][pipe] = names[pipe]]
          /\ EventsGo(d, next)
    /\ UNCHANGED <<helper, pipes, debugger, working, runtime, history, system>>

EventsOpenContinue(d) ==
    events[d] = "openContinue" /\ EventsOpen(d, "continuePipe", "openStartup")

EventsOpenStartup(d) ==
    events[d] = "openStartup" /\ EventsOpen(d, "startupPipe", "read")

\* ReadNonBlockingPipe until the event is there, the pipe fails, or Unregister
\* was called; only a failure sets m_error.
EventsRead(d) ==
    LET p == fds[d].startupPipe IN
    /\ events[d] = "read"
    /\ EventsGo(d, "postStartup")
    /\ \/ /\ pipes[p].started
          /\ pipes' = [pipes EXCEPT ![p].started = FALSE]
          /\ UNCHANGED helper
       \/ helper[d].canceled /\ UNCHANGED <<helper, pipes>>
       \/ /\ ~helper[d].canceled
          /\ helper' = [helper EXCEPT ![d].error = TRUE]
          /\ UNCHANGED pipes
    /\ UNCHANGED <<fds, debugger, working, runtime, history, system>>

\* The worker thread is told ...
EventsPostStartup(d) ==
    /\ events[d] = "postStartup"
    /\ Post(d, "startup")
    /\ EventsGo(d, "waitContinue")
    /\ UNCHANGED <<fds, pipes, debugger, working, runtime, history, system>>

\* ... and when it has posted "continue", or Unregister has,
EventsWaitContinue(d) ==
    /\ events[d] = "waitContinue"
    /\ helper[d].continue > 0
    /\ helper' = [helper EXCEPT ![d].continue = @ - 1]
    /\ EventsGo(d, "write")
    /\ UNCHANGED <<fds, pipes, debugger, working, runtime, history, system>>

\* the runtime is.
EventsWrite(d) ==
    /\ events[d] = "write"
    /\ pipes' = [pipes EXCEPT ![fds[d].continuePipe].continue = d]
    /\ EventsGo(d, "close")
    /\ UNCHANGED <<helper, fds, debugger, working, runtime, history, system>>

\* The descriptors are closed and the wrapper of the thread releases.
EventsEnd(d) ==
    /\ events[d] = "close"
    /\ fds' = [fds EXCEPT ![d] = [startupPipe |-> None, continuePipe |-> None]]
    /\ Release(d)
    /\ EventsGo(d, "ended")
    /\ UNCHANGED <<pipes, debugger, working, runtime, history, system>>

Translating(d) ==
    \/ EventsOpenContinue(d) \/ EventsOpenStartup(d) \/ EventsRead(d)
    \/ EventsPostStartup(d) \/ EventsWaitContinue(d) \/ EventsWrite(d)
    \/ EventsEnd(d)

-----------------------------------------------------------------------------
(* The runtime: external.  An older one knows the semaphores only.         *)

RuntimeGoes(label) ==
    /\ rt' = label
    /\ UNCHANGED <<events, fds, debugger, working, history, system>>

RuntimeLoads ==
    /\ rt = "notStarted"
    /\ \/ RuntimeGoes("openStartup")
       \/ overPipes /\ RuntimeGoes("openContinuePipe")
    /\ UNCHANGED <<helper, pipes, rtOn>>

\* A name that is not there: nobody debugs, and the runtime just runs.
RuntimeOpens(object, next) ==
    /\ IF names[object] = None
       THEN RuntimeGoes("running") /\ UNCHANGED rtOn
       ELSE RuntimeGoes(next) /\ rtOn' = [rtOn EXCEPT ![object] = names[object]]
    /\ UNCHANGED <<helper, pipes>>

RuntimePosts ==
    /\ rt = "post"
    /\ Post(rtOn["startup"], "startup")
    /\ RuntimeGoes("waiting")
    /\ UNCHANGED <<pipes, rtOn>>

RuntimeWaits ==
    LET d == rtOn["continue"] IN
    /\ rt = "waiting"
    /\ helper[d].continue > 0
    /\ helper' = [helper EXCEPT ![d].continue = @ - 1]
    /\ RuntimeGoes("continued")
    /\ UNCHANGED <<pipes, rtOn>>

RuntimeWrites ==
    /\ rt = "writeStarted"
    /\ pipes' = [pipes EXCEPT ![rtOn["startupPipe"]].started = TRUE]
    /\ RuntimeGoes("waitPipe")
    /\ UNCHANGED <<helper, rtOn>>

\* It reads the answer, or the end of a pipe that nobody writes to.
RuntimeReadsPipe ==
    LET p == rtOn["continuePipe"] IN
    /\ rt = "waitPipe"
    /\ \/ pipes[p].continue # None /\ RuntimeGoes("continued")
       \/ /\ pipes[p].continue = None
          /\ \A d \in Debuggers : fds[d].continuePipe # p
          /\ RuntimeGoes("running")
    /\ UNCHANGED <<helper, pipes, rtOn>>

RuntimeRuns ==
    \/ rt = "openStartup" /\ RuntimeOpens("startup", "openContinue")
    \/ rt = "openContinue" /\ RuntimeOpens("continue", "post")
    \/ RuntimePosts \/ RuntimeWaits
    \/ rt = "openContinuePipe" /\ RuntimeOpens("continuePipe", "openStartupPipe")
    \/ /\ rt = "openStartupPipe"
       /\ \/ names["startupPipe"] = None
          \/ \E d \in Debuggers : fds[d].startupPipe = names["startupPipe"]
       /\ RuntimeOpens("startupPipe", "writeStarted")
    \/ RuntimeWrites \/ RuntimeReadsPipe

-----------------------------------------------------------------------------
\* What the threads of a debugger do by themselves.
Running(d) ==
    \/ Registering(d) \/ Unregistering(d)
    \/ Working(d) \/ Translating(d) \/ Destructor(d)

Next ==
    \/ \E d \in Debuggers :
          \/ Register(d) \/ Running(d) \/ WaitTimesOut(d)
          \/ \E who \in {"client", "worker"} : Unregister(d, who)
    \/ RuntimeLoads \/ RuntimeRuns

\* Threads run and callbacks return or throw; that some thread goes on is enough, since
\* none has a loop.  Nobody has to register, to unregister, or to start a
\* runtime, and no wait has to time out.
Fairness == WF_vars((\E d \in Debuggers : Running(d)) \/ RuntimeRuns)

Spec == Init /\ [][Next]_vars /\ Fairness

-----------------------------------------------------------------------------
(* Properties                                                              *)

WorkerLabels == {"none", "start", "waitStartup", "testCanceled", "modules",
                 "found", "inCallback", "report", "inReport", "post", "testError",
                 "failed", "inErrorCallback", "release", "ended"}

TypeOK ==
    /\ overPipes \in BOOLEAN
    /\ names \in [Objects -> Debuggers \cup {None}]
    /\ helper \in [Debuggers ->
          [ref : 0..3, canceled : BOOLEAN, error : BOOLEAN,
           startup : {NoSem} \cup 0..3, continue : {NoSem} \cup 0..2,
           dtor : {"no", "startup", "continue", "pipes", "yes"}]]
    /\ client \in [Debuggers -> {"idle", "continue", "startup", "events",
                                 "worker", "registered", "failed"}]
    /\ unreg \in [Debuggers -> {"no", "postContinue", "postStartup", "waitWorker",
                                "waitEvents", "release", "releaseShim", "done"}]
    /\ caller \in [Debuggers -> {"nobody", "client", "worker"}]
    /\ shim \in [Debuggers -> {"none", "alive", "freed"}]
    /\ worker \in [Debuggers -> WorkerLabels]
    /\ pe \in [Debuggers -> BOOLEAN]
    /\ events \in [Debuggers -> {"none", "openContinue", "openStartup", "read",
                                 "postStartup", "waitContinue", "write", "close",
                                 "ended"}]
    /\ fds \in [Debuggers -> [startupPipe : Debuggers \cup {None},
                              continuePipe : Debuggers \cup {None}]]
    /\ pipes \in [Debuggers -> [started : BOOLEAN, continue : Debuggers \cup {None}]]
    /\ rt \in {"notStarted", "openStartup", "openContinue", "post", "waiting",
               "openContinuePipe", "openStartupPipe", "writeStarted", "waitPipe",
               "continued", "running"}
    /\ rtOn \in [Objects -> Debuggers \cup {None}]
    /\ timedOut \in [Debuggers -> BOOLEAN]
    /\ calls \in [Debuggers -> Nat]

\* Who holds a reference to the helper: the debugger until it has released
\* it, and the threads that run.
Holders(d) ==
    (IF client[d] = "failed" \/ unreg[d] \in {"releaseShim", "done"} THEN 0 ELSE 1)
    + (IF worker[d] \in {"none", "ended"} THEN 0 ELSE 1)
    + (IF events[d] \in {"none", "ended"} THEN 0 ELSE 1)

\* The helper lives exactly as long as somebody can reach it: the destructor
\* runs when both threads have ended and the debugger has let go, even if
\* Unregister had given up waiting for them.
HelperLives(d) ==
    /\ helper[d].ref = Holders(d)
    /\ helper[d].dtor # "no" <=> Holders(d) = 0

HelpersLive == \A d \in Debuggers : HelperLives(d)

\* A second debugger is refused and changes nothing: the semaphores of a
\* registered debugger keep their names until its own destructor runs.  And
\* "continue" is made first and unlinked last: a runtime that has found
\* "startup" finds the "continue" of the same debugger as long as that lives.
SemaphoresStayPublished ==
    \A d \in Debuggers :
        helper[d].dtor = "no" =>
            /\ client[d] = "registered" =>
                   names["startup"] = d /\ names["continue"] = d
            /\ rt = "openContinue" /\ rtOn["startup"] = d => names["continue"] = d

\* The user hears of a runtime or of an error, not of both, and once: it is called
\* again only when it has answered with an exception.
CalledOnce == \A d \in Debuggers : calls[d] <= 1

\* "It will block until the callback thread finishes and no more callbacks will
\* be initiated after this API returns", and dbgshim's helper is not used when it
\* is gone.  The code keeps this with two exceptions.  An Unregister that has
\* waited 60 seconds in vain returns while the thread goes on, and calls.  And a
\* callback that has called Unregister and then throws is called again, through
\* a helper that is freed.
QuietAfterUnregister ==
    \A d \in Debuggers :
        shim[d] = "freed" /\ ~timedOut[d] =>
            /\ worker[d] \notin {"modules", "found", "failed"}
            /\ caller[d] = "client" => worker[d] = "ended"
            /\ worker[d] = "report" => caller[d] = "worker"

\* The debugger that has let the runtime go on.
ReleasedBy == IF rtOn["continuePipe"] = None THEN rtOn["continue"]
              ELSE pipes[rtOn["continuePipe"]].continue

\* The runtime is blocked until the callback has returned: the debugger lets
\* it go on before that only when it has been told to unregister.
BlockedDuringCallback ==
    rt = "continued" =>
        \/ helper[ReleasedBy].canceled
        \/ worker[ReleasedBy] \in {"testError", "failed", "inErrorCallback",
                                   "release", "ended"}

\* A debugger that lets its runtime wait: its Register failed after it had
\* published the semaphores, and posts nothing; or its pipe could not be read,
\* and only Unregister would post.
Deserts(d) == client[d] = "failed" \/ (helper[d].error /\ unreg[d] = "no")

\* The debugger whose answer the runtime waits for.  (One that has opened "startup"
\* of one debugger and "continue" of the next is heard by neither.)
HeldBy ==
    IF rt = "waiting" /\ rtOn["startup"] = rtOn["continue"] THEN rtOn["continue"]
    ELSE IF rt = "waitPipe" THEN rtOn["continuePipe"] ELSE None

\* A runtime that a debugger holds is let go, whatever the callback, the modules,
\* Unregister and the other debuggers do, unless that debugger deserts it.
RuntimeIsReleased == HeldBy # None ~> HeldBy = None \/ Deserts(HeldBy)

\* Every Unregister returns, and then both threads end.
UnregisterCompletes ==
    \A d \in Debuggers :
        unreg[d] # "no" ~> unreg[d] = "done" /\ helper[d].dtor = "yes"

\* A helper lives as long as a thread or a caller uses it, and no semaphore of a
\* registered debugger loses its name to another.  (Its pipes may: CreatePipe and
\* the destructor unlink them whoever made them.)
ObjectsAreSound == TypeOK /\ HelpersLive /\ SemaphoresStayPublished

\* The user is called once, or again after an exception, while the runtime is held,
\* and not after an Unregister that has seen the thread end.
CallbackContract == CalledOnce /\ QuietAfterUnregister /\ BlockedDuringCallback

\* Neither the runtime that waits for a debugger that has not deserted it nor the
\* caller that unregisters waits for ever.
BothSidesReturn == RuntimeIsReleased /\ UnregisterCompletes
=============================================================================
