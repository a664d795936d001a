# Formal models of the .NET diagnostics libraries

TLA+ models of the parts of this repository that are hard to test: the server
side of the diagnostics IPC protocol and its router
(`Microsoft.Diagnostics.NETCore.Client`), the queue that hands web sockets to the
router (`Microsoft.Diagnostics.WebSocketServer`), the event pipelines
(`Microsoft.Diagnostics.Monitoring`, `...Monitoring.EventPipe`), and on the native
side the runtime startup notification of dbgshim with the critical sections and
the synchronization manager it runs on (`src/shared/pal`). TLC checks them on
small instances; TLAPS proves the safety properties of all ten of them for every
number of callers, threads, runtimes, debuggers or connections. `PROJECT.json` lists
the runs, the theorems, the source lines each definition models, and for every
property a plausible bug that breaks it.

    tlc -config HandleableCollection.cfg MCHandleableCollection
    tlapm HandleableCollectionProofs.tla

## 1. The system

The repository has four layers. The *client library* talks to a .NET runtime:
either it connects to the runtime's endpoint, or (reverse mode) the runtime
connects to it. The *monitoring libraries* start an event session over such a
connection and process its events. The *tools* (dotnet-trace, -counters, -dump,
-gcdump, -dsrouter ...) are command lines around both. The *debugger side* (SOS,
dbgshim, DebugServices, SymbolStore) reads dumps and stopped processes; it is
sequential but for dbgshim, which meets a starting runtime, and the platform
adaptation layer (PAL) below it. The models are of the first two layers and of
these two native parts.

| component | state | operations | hard behaviour | what makes it correct |
|---|---|---|---|---|
| `HandleableCollection<T>` | list of items, list of queued handlers, `_disposed`, one task per call | Add, Handle(Async), ClearItems, Dispose | timeout callbacks and half of Dispose run without the lock; loops remove from the list they walk | items and handlers never pass each other; an item is in one place; Dispose leaves nobody waiting |
| `ReversedDiagnosticsServer` | transport, accept task, dictionary from runtime to stream collection, endpoint infos | Start, accept loop, Accept, Connect, WaitForConnection, RemoveConnection, DisposeAsync | collections are shared by reference while the dictionary changes; runtimes reconnect and die | no accepted stream leaks; clients get the newest stream and never share one; a runtime is announced once |
| `IpcServerTransport` | current listener, cancellation source, `_disposed` | AcceptAsync, Dispose | Dispose runs beside AcceptAsync without a lock; creating a listener may fail | one listener, and one between any two calls; returned connections are not closed; Dispose ends the accept |
| `WebSocketServerImpl` | one slot and three semaphores | HandleWebSocket (Enqueue), AcceptConnection (Dequeue), StartServer, StopServer | cancellation at either of two awaits | the slot is not overwritten nor read empty; the permit is not lost |
| `Pipeline` | run, stop and cleanup tasks, dispose source | RunAsync, StopAsync, DisposeAsync, for any OnRun, OnStop, OnCleanup | any two of the calls race; each may be cancelled; the tasks await each other's cleanup | documented life cycle; one cleanup; nothing runs after disposal |
| Router (`DiagnosticsServerRouterFactory`, `...Runner`) | running routers, the backend endpoint | CreateRouterAsync, Start, Stop, Dispose, runRouter | two accepts race while a third task looks after the first stream; `async void` stop; timeouts decide whether the runtime is dead | each accepted stream ends in a router or is closed; both sides of a router go together; a dead runtime is given up |
| `DiagnosticsEventPipeProcessor`, `EventPipeStreamProvider`, `EventPipeSession`, `EventTaskSource` | event source, three completion sources, stop task, `_stopped`, the session's stream | Process, StopProcessing, DisposeAsync, StopSessionAsync | five tasks, a token whose callbacks run after its flag is set, a runtime that does not answer or exits | the run ends when it is stopped, cancelled or the runtime exits; the session and its stream are released; nobody waits for a session that will not start |
| PAL critical section (cs.cpp) | lock word with waiter count and awakened bit, owner, recursion, native predicate | Initialize, Enter, Leave, Delete | compare-and-exchange on values read before; lazy initialization of the native part; spurious wake-ups | it is a recursive lock; no wake-up is lost or duplicated; Enter returns |
| Runtime startup (dbgshim.cpp, process.cpp) | named semaphores and pipes, a reference-counted helper, worker and events threads | Register, Unregister, the two threads' steps | Unregister from outside or from the callback, against a worker in any place; a runtime waits meanwhile | the runtime continues, and not before the callback returned; the callback is called once, and again only if it throws; the helper outlives its threads |
| PAL synchronization manager | wait state, predicate and pending signalings of each thread, queues and references of each object, list of monitored processes, command pipe | WaitForSingleObject, end of a thread, worker thread, PrepareForShutdown | wake-ups are delivered after the lock was released, and race with timeouts; two locks | no wake-up is lost or left for a later wait; who waits for what has ended is released; the worker stops |
| Triggers | sliding window | HasSatisfiedCondition | boundary of the window | the condition held for the whole window |
| Message encoding, commands, payload decoding, tools, symbol store, SOS | | | sequential, or data rather than control | |

They interact as follows. A runtime connects to the *transport*; the accept loop
of the *reversed server* takes the stream and puts it into the *handleable
collection* of its runtime. A client of that runtime, or the *router*, takes it
out with Connect and sends a command. `WebSocketServerImpl` is a transport of its
own for browsers. A *pipeline* subclass starts an *event session* with such a
command, and its OnRun (the *event pipe processor*) reads the events until OnStop
or OnCleanup. dbgshim's *startup helper* waits with the *synchronization manager*,
which is built on the *critical sections*.

## 2. The modules

| module | models | state and actions against the code |
|---|---|---|
| `HandleableCollection` | HandleableCollection.cs | `items`, `handlers`, `disposed` and `lock` are the fields and the monitor; `task[w]` is the TaskCompletionSource of call `w`. Each walk of Add (`AddBegin`, `AddAsk`, `AddAct`, `AddStore`) and of RunOrQueueHandler (`RunHandler`, `RunAsk`, `RunAct`, `QueueHandler`) is split between reading `IsCompleted` with the handler's answer, and `TrySetResult`, because `Expire` (the timeout) may come in between. Dispose takes the lock only in `DisposeBegin`. `took` is a history variable. |
| `ReversedServer` | ReversedDiagnosticsServer.cs | `dict` is `_streamCollections`, `coll` the collection objects, `loop` the accept loop with its locals, `call` the clients, `remover` RemoveConnection, `disposal` the position of DisposeAsync. Runtimes (`RuntimeConnect`, `RuntimeMovesOn`, `RuntimeDrops`) are external, modelled from how the server uses them. |
| `ServerTransport` | IpcServerTransport.cs, IpcSocket.cs | the transports in one module, with `TransportSpec` as the specification: `kind` is chosen at the start; `"compatSocket"` is the socket whose AcceptAsync IpcSocket brings along in builds for netstandard2.0, and `"anyPort"` (with its `compat` form) a socket on port 0, where a new socket can be bound while the old one is open. `refused` and `raced` are history variables. |
| `WebSocketQueue` | WebSocketServerImpl.cs | `empty`, `full`, `objLock` are the semaphores' counts and `obj` the slot; the specification is `QueueSpec`. Enqueue and Dequeue share the actions they have in common. A stream that AcceptConnection returned is `inUse` until its user disposes it, if ever. |
| `PipelineLifecycle` | Pipeline.cs, lines 15-34 | the abstract specification: the documented states and arrows, and one more (`LateStop`). |
| `Pipeline` | Pipeline.cs | `runTask`, `stopTask`, `cleanupTask` are positions in the two async methods and in OnCleanup; `pc` holds the callers. OnRun, OnStop and OnCleanup end at any time. |
| `Router` | DiagnosticsServerRouterFactory.cs, DiagnosticsServerRouterRunner.cs | `loop` is runRouter, `create` CreateRouterAsync with its exception, `net`, `ipc`, `check` its three tasks, `routers` the Router objects with their two copy tasks. The reversed server on the network side is reduced to what a router sees of it (`registered`, `announced`, `stored`). |
| `EventPipeProcessor` | DiagnosticsEventPipeProcessor.cs, EventPipeStreamProvider.cs, EventPipeSession.cs, EventSourcePipeline.cs, EventTaskSource.cs | one run: `process` is Process, `stopTask` the provider's `_currentTask`, `handler` the subclass's task, `onStop` and `onCleanup` the pipeline's calls; cancelling the token and running its callbacks are two steps. The runtime is external. |
| `RecursiveLock` | cs.cpp | the abstract specification of a critical section |
| `CriticalSection` | cs.cpp, the unfair variant | `lockCount` is the packed word; every read and every compare-and-exchange is a step. |
| `RuntimeStartup` | dbgshim.cpp (Unix), PAL_RuntimeStartupHelper in process.cpp | `helper` holds the fields of each helper, `client`, `unreg`, `worker`, `events` the places of the threads. The user's callback may return or throw (`UserThrows`: both catch blocks that lead to another call). The runtime (`rt`) is external. |
| `SynchManager` | synchmanager.cpp, synchcontrollers.cpp, wait.cpp | `pc` is the place of each thread in a wait, `waitState`, `pred` and `pending` its synchronization data, `queue` and `refs` the objects'. Enter and Leave of the two locks are steps where the order matters. |
| `MC...` | | constants and symmetry for TLC |
| `...Proofs` | | inductive invariants, lemmas and theorems |

`ReversedServer` composes with the collection through what `HandleableCollection`
establishes: its operations are one step each in `ReversedServer`, because
Dispose excludes the others (`DisposeIsExclusive`), a pending call is in the list
(`NoForgottenWaiter`), an item and a handler do not pass each other
(`NoMissedHandOff`), and the only thing that can go wrong inside an operation is
that the call expires while it is handed the item (`LostOnlyByExpiry`). That last
case stays visible: the stream becomes `"lost"`.

`Pipeline` and `EventPipeProcessor` fit together in the same way. `Pipeline` says
what any OnRun, OnStop and OnCleanup may do, and assumes of OnRun only that it ends
after its token was cancelled or OnStop succeeded; `CancelEndsProcess` and
`StopEndsProcessing` check that of the real one, the latter up to the end of its
handler, and with the lost StopTracing and the deaf handler of section 5 as exceptions. `SynchManager` takes from
`CriticalSection` that an Enter returns.

Operators named "A mutant of X" are no part of the specifications. Each is X with
a plausible bug, and shows that a property would notice it.

### What is abstracted

Items, streams, cookies and web sockets are model values. Advertise data either
parses or does not. Time is absent: a timeout may happen whenever the call is
pending. A handler is the set of answers it may give. Streams and collections of
`ReversedServer` are reused once nothing refers to them, so that a small number
of each stands for an unbounded sequence of connections. `TestStream` is exact
about whether the peer is alive; a socket that dies unnoticed is a stream that
dies a moment later.

## 3. The runs

| run | bounds | shows |
|---|---|---|
| `collection` | 2 items, 2 handlers that take and one that may answer anything, 1 ClearItems, 1 Dispose | all safety properties of the collection; Dispose ends every pending call |
| `server` | 1 runtime, 3 streams, 2 calls of any kind, 1 RemoveConnection, DisposeAsync | all safety properties of the server |
| `server_serves` | 1 runtime, 2 streams, 1 call, 1 RemoveConnection, DisposeAsync | a client is served, also beside a removal; disposal ends |
| `websocket_queue` | 3 web sockets, 2 accepters that call again and again | all safety properties of the queue; every web socket reaches a user, if no permit was lost; a disposed stream ends its handler |
| `pipeline` | 2 calls of RunAsync, 2 of StopAsync, 1 of DisposeAsync | safety, the refinement of `PipelineLifecycle`, and that disposal and stop end everything |
| `transport` | each of 5 kinds of transport, 4 listeners, any number of accepts | safety and liveness, failures and cancellation included |
| `router` | 1 runtime with 1 stream, 1 front end that comes back, 1 router at a time | who owns which connection, the one case that leaks, routers end, the loop recovers |
| `event_pipe` | one run, everything that can happen to it (no constants) | what is left behind when Process ends; stop, cancellation and exit of the runtime end it |
| `event_pipe_handler` | the same | the finding of section 5 |
| `critical_section` | 3 threads, 2 enters each, spin count 1 | the refinement of `RecursiveLock`, the accounting of waiters, every Enter returns |
| `runtime_startup` | 2 debuggers with semaphores, or 1 with pipes | the life of the shared objects, the contract of the callback, runtime and Unregister return |
| `synch_manager` | 2 threads, 1 process, a pipe of 1 command | the wait queues, no lost or stray wake-up, waits and the worker end |

The invariants of a module that are about one subject are conjuncts of one
invariant: `QueuesAreSound` of `SynchManager`, for example, is the conjunction of
the type invariant and five others, each with its own comment. TLC names the
conjunction; its trace shows which part failed.

Why the bounds are enough. A race in the collection involves an item, a handler
that takes it, one that is passed over or removed from the middle of the list,
and a Dispose: two items and three handlers have all of these, and the theorems
lift the bound. The stream collections of different runtimes share no state but
the endpoint infos, the accept loop and DisposeAsync, so one runtime with three
streams (one stored, one in the accept loop, one with a client) has the races of
the server; two runtimes would add the interleavings of independent entries.
Three web sockets and two accepters let one of each be in its critical section
while another waits and a third is cancelled. For the pipeline two calls of RunAsync
and StopAsync beside a DisposeAsync give every pair of racing methods, and again the
theorems lift the bound.
Four listeners allow a replacement, a failure and a recreation before and during
disposal; the bound is named in `Recovers`. In `Router` streams are reused, so one
stream of the runtime and one of a front end stand for unboundedly many that follow
each other; two front ends at a time exceed the five minutes with the liveness
properties, and what they may do to each other (share a stream, leave one behind) is
proved for any number. `server_serves` has one client and one removal for the same
reason; the safety of two clients and a removal is in `server`. Three threads are the least number
with an owner, a sleeping and an awakened waiter of a critical section; two enters
allow nesting and a return. Two threads and a process let a thread wait for the
other, a timeout meet a signal, and the worker signal while a thread registers; a
pipe of one command makes it full. Two debuggers meet the same names with
semaphores; with pipes, where each has an events thread more, one fits in the time.

`CHECK_DEADLOCK FALSE` appears where the system may rest: a pipeline nobody
disposes, a server without runtimes, a queue without web sockets. In
`HandleableCollection` deadlock is checked: every call ends, by `Finished`.

### Fairness

Threads and continuations that can run do run (weak fairness of their steps).
Nobody is obliged to call an operation, no timeout or cancellation has to happen,
and no client has to connect. Beyond that:

- `ReversedServer`: a runtime that is free connects again, which the IPC protocol
  demands of it; its advertise data is not unreadable for ever (strong fairness of
  `FindCollection`). `ConnectEnds` also supposes that from some time on runtimes
  keep their connections. No client has to give a stream back.
- `WebSocketQueue`: strong fairness of a call's steps, as SemaphoreSlim serves
  asynchronous waiters in the order in which they came; the router accepts again
  and again. The user of a stream does not have to dispose it.
- `Pipeline`: OnRun ends once its token is cancelled or OnStop has succeeded;
  OnStop ends once its token is cancelled; OnCleanup ends.
- `ServerTransport`: a wait ends when it is cancelled or the listener is closed;
  the system does not refuse a new listener for ever (strong fairness of
  `Recreate`).
- `Router`: tasks run and timers elapse. No peer has to do anything, not even read
  what was sent to it, and no server has to hand out a connection. That a dead endpoint is
  reset supposes that front ends pause (`ClientsPause`); see section 5.
- `EventPipeProcessor`: tasks and callbacks run; a request ends when it is cancelled
  or the runtime exits, and reading ends when the stream does. Nothing makes a
  living runtime answer, and no handler has to see the event it waits for
  (`HandlerIsDeaf`).
- `CriticalSection`: who is inside leaves, and the native objects can be created
  some time (strong fairness of `FullyInitialize`). The lock is unfair: that an
  Enter returns needs that the others do not enter for ever, which `MaxEnters` bounds.
- `RuntimeStartup`: threads and the runtime run, and a callback returns or throws; no
  wait has to time out.
- `SynchManager`: strong fairness of the threads' and of the worker's steps, since
  an Enter of one of its two locks returns (`EnterReturns` of `CriticalSection`).
  No thread or process has to end.

## 4. What is proved

All theorems hold for every value of the constants, under the named assumptions of
the modules (disjoint kinds of callers; every handler has at least one answer; the
values that stand for nobody are no stream, thread or process; finitely many threads
and processes, which the count in the lock word and the reference counts need; a pipe
that holds at least one command). TLC evaluates
these assumptions in the runs. Each proof has the same plan: an inductive invariant
`Inv`, one lemma per action or group of actions, and the properties as consequences
of `Inv`.

**HandleableCollectionProofs.** `TypeCorrect`, `DisposeExclusive`,
`NobodyForgotten`, `HandOff`, `ItemsConserved`, `LossIsExpiry`,
`DisposeCompletes`, `NoLateDelivery`, `ServedInOrder`. The properties are not inductive by
themselves, since they speak of the lists between operations while the loops are
in the middle of one. The inductive invariant adds: who is in a loop holds the
lock; the lists hold no element twice and only calls that are waiting; the
handlers an Add has already passed are those that skipped, so that a stored item
has been offered to every handler before it; and where Dispose is in its walk,
the handlers behind its index are not pending. Lemmas on `RemoveAt` and `Append`
(what stays in the list, and at which place) are stated once. From
`DisposeExclusive` and the invariant, `NoLateDelivery` is an action property: only
a holder of the lock completes a task with an item. `ServedInOrder` is another: who is
in the list has left its loop (`QueuedInv`), so that nobody queues a handler twice and
moves behind itself; a handler that an Add has passed may skip, and while one that
takes any item is queued nothing is stored that a newcomer could take. `DisposeSafe`, `NobodyMissed`
and `Conservation` combine these into the invariants that the run checks.

**PipelineProofs.** `TypeCorrect`, `CleanupHappensOnce`, `RunReturnIsFinal`,
`DisposeIsFinal`, together `TasksSound`, and `Refinement`. The invariant ties the positions of the run and
stop tasks to the cleanup, and the position of DisposeAsync to the tasks it has
awaited: past an await, the task is done or can never begin, because `_isCleanedUp`
was set under the lock first. `Refinement` maps the initial state to Unstarted and
every step to a step of the life cycle or a stutter; Stopped is the state in which the
run, the stop and the cleanup are all over.

**ReversedServerProofs.** `StreamsKept`, `NewestStored`, `AnnouncesOnce`,
`CallsSound`: all four invariants of the run, for any numbers of runtimes, streams,
calls and removals. None is inductive, because the accept loop, the callers and
RemoveConnection hold collections by reference while the dictionary changes. The
invariant says who disposes a collection: one that stores a stream, or that the loop
is about to store one in, is in the dictionary, in the copy that DisposeAsync took or
with a remover (`KeptInv`), and a stored stream is in one list and is not the one in
the hands of the loop (`StoredInv`). For `NewestStored` the loop files a stream only
in a collection that the dictionary has for the runtime of that stream or for nobody,
and a collection that has replaced it meanwhile is empty (`DictInv`): ClearItems and
Add are two steps, and between them a client may have created it. `AnnouncesOnce`
needs an account: an announcement, also one that is still to be made, is paid for by
the collection that it came with, and RemoveConnection pays it back (`PaidInv`).
`Added` is what an Add does to a collection, whichever handlers are in it; the lemmas
on lists say what `Append`, `Tail`, `RemoveFirst` and a suffix leave in a list.
The proof found a flaw of the model that one runtime in the instance hides: a name of
a connection was given to a second runtime while the accept loop still referred to the
first by it, which announced the wrong runtime. `RuntimeConnect` now leaves such a
name alone; in the code connections are objects and the case cannot arise.

**RouterProofs** has the proofs about the router and the two ways in which
connections reach a server.

*Transports*: `ListenerSound` and the action property `KeepsConnections`. The listener
in the field is the only open one (but on port 0), and what was handed out is not in the field
(`FieldInv`, `HandedInv`); `ListenInv` says for each place of AcceptAsync why it
listens or what has closed the listener.

*Queue of web sockets*: `TypeCorrect`, `PermitIsUnique`, `SlotIsUsedWell`,
`ConnsConserved`, and together `QueueSound`. The invariant counts: the two semaphores
and the calls between reserving and signalling make up one permit (the calls that
dropped it included), and the slot's content follows from where the permit is.

*Router*: `ConnectionsOwned`, and the action property `LeaksOnlyOnError`, for any
numbers of runtimes, streams and routers. The streams of the three tasks of
CreateRouterAsync are visible only in the tasks' results, so the invariant says at
each of its awaits which tasks there are and which of them have succeeded (`TaskInv`,
`CreateInv`); hence `WhenAll` leaves no accept behind. The streams of a creation that
has not thrown are open and no router's, those of a router are open and no other's
(`CreationOwns`, `RoutersOwn`, `RoutersDiffer`), which is what allows a router to be
disposed of without closing a stream of another. A runtime's stream is handed to a
creation only from the server that keeps it for that runtime (`StoredInv`), and the
endpoint stays registered and unannounced until it is reset (`EndpointInv`): otherwise
the server would announce a second time a runtime that is being routed. Lemmas state
once what disposing of streams and removing the dead routers leaves of the streams
(`DisposeEffect`, `RemoveEffect`).

**EventPipeProcessorProofs.** `LeavesNothing`. The invariant follows Process: which
completion source is complete at which place (or will be, by a callback of the token
that has not run yet), and when the event source is null, set or taken.

**CriticalSectionProofs.** `LockSound`, `WakeupsSound`, and `Refinement` of
`RecursiveLock`, for any number of threads, spins and enters. Lemmas say what each
exchange does to the three fields of the word; `CountInv` ties its waiter count to the
number of threads that are registered and not awakened, by the cardinality theorems,
and the awakened bit to one thread or one set predicate; `ReleaseInv` says that a free
lock with waiters has a wake-up on its way. The values that a thread read
before its compare-and-exchange need only what the exchange does not check again
(`ValInv`).

**RuntimeStartupProofs.** `ObjectsSound` and `ContractKept`, for any number of
debuggers that register for the process, in builds with and without pipes. A step of
a thread of one debugger leaves the others alone (`OthersKept`), so that each action is
looked at for its own debugger; the runtime and the names are what they share. The
reference count is the number of holders only while the places of the threads agree
with the place of the registration (`RegisterInv`). Each semaphore's count is bounded
by who has posted to it (`PostInv`: the runtime, the events thread and Unregister post
"startup" once, the worker and Unregister post "continue" once), a name stands for the semaphore
of the debugger that made it until its destructor (`NameInv`), and "continue" is
posted, written into a pipe or read by the runtime only when the debugger was told to
unregister or its worker is past the callback (`EventsInv`, `RuntimeInv`). `QuietInv`
follows Unregister against the worker, from outside and from the callback, and
`CallInv` the calls of the user: `calls` counts those that did not throw, and is 0
wherever the worker is about to call.

**SynchManagerProofs.** `QueuesSound` and `WakeupsTrue`, for any numbers of threads
and processes and any size of the pipe. Neither is inductive, because a thread is
chosen under the lock and woken after it. `PendingInv` follows the wake-up: a thread
is chosen and still waits exactly if its predicate is set or it is in one list of
pending signalings, once, and never both. So the signal that is delivered late meets
the wait for which it was meant, since a wait that was chosen does not leave before
(`SignalInv`: a waiting thread has been chosen exactly if its object is signaled). The
registration of a wait for a process releases no lock between the test and the queue
(`LockInv`, `CallInv`). The references of an object are one for its handle and one for
each queue node and each list of processes that has it (`RefInv`), by the cardinality
theorems. For the worker, `WatchInv` keeps a process that is waited for in the list of
monitored ones or among the exited ones on their way to be signaled, and `LookInv`
covers the time between a scan that found nothing and the poll without a timeout: a
process that was added meanwhile is announced by a command in the pipe or by a thread
about to write one. What `Among` leaves of a queue (which threads, in which number,
each once) is a fact about a recursive function for lists of any length; it is proved
by the least length for which it fails, `WFMin` on the natural numbers
(`LeastNumber`), since the induction theorems of the library are beyond the provers.

Only model-checked: every property with fairness (`DisposeReleasesWaiters`,
`ConnectEnds`, `DisposeEnds`, `ConnIsServed`, `DisposeReleasesAll`, `StopEndsRun`,
`Recovers`, `DisposeEndsAccept`, `RoutersEnd`, `LoopRecovers`, `StopEndsProcessing`,
`CancelEndsProcess`, `ExitEndsProcess`, `EnterReturns`, `BothSidesReturn`,
`WaitsEnd`, `WorkerStops`), which is beyond the prover. Every invariant, action
property and refinement that a run checks is a theorem.

## 5. Finding and remarks

**Finding: a handler may wait for an event that was raised before**
(MetricsPipeline.cs:69 and 86, EventLogsPipeline.cs:56). OnEventSourceAvailable
awaits the loggers' PipelineStarted before it subscribes to Completed. Process does
not wait for that: when the stream ends early, the source is processed and disposed,
Completed is raised to nobody, and the handler that subscribes afterwards never
ends, nor does Process, which awaits it
(DiagnosticsEventPipeProcessor.cs:108-112: "Await the task returned by the event
handling method AFTER the EventPipeEventSource is disposed"). The run
`event_pipe_handler` shows it.

The other modules state what the code does in the following places as exceptions in
their properties, so that a reader finds them there.

*Collection, server, transport, queue.*
An item may be lost when a call expires between the handler's answer and
TrySetResult, whose result TryHandler ignores (HandleableCollection.cs:234;
`ItemsAreConserved`). A Connect that verified before DisposeAsync completed waits
for its timeout on a new collection (ReversedDiagnosticsServer.cs:326). After
RemoveConnection a Connect creates the collection, and the runtime that comes next
is not announced (line 304). A call of the web socket queue cancelled while it
awaits `_objLock` does not return its permit (WebSocketServerImpl.cs:132, 152), and
nobody is served any more: `QueueIsSound` counts the permit as that call's and
`ConnIsServed` promises nothing after it, so that no property forbids it.
ReversedDiagnosticsServer.cs:111-112 disposes the transport first "to prevent the
AcceptAsync call on the server transport from recreating the server stream"; a call
that is about to do so at that moment does (IpcServerTransport.cs:137, 150, 217), and
the listener stays open. It is the only way to one after Dispose (`DeafAfterDispose`,
history `raced`). On port 0, the default of the router's TCP server
(DiagnosticsServerRouterFactory.cs:303), an accept that fails while its socket is open
replaces it by one on another port and leaves it open (`OneListener`). Cancelling an
accept closes the socket in builds for netstandard2.0 (IpcSocket.cs:29).
`AnnouncedOnce` bounds announcements from above only; that a runtime is announced at
all is not true of the code, as line 304 above shows.

*Router.* When the IPC accept fails after the network stream was accepted, the
stream is not closed (DiagnosticsServerRouterFactory.cs:881-899; the only case
`OnlyErrorCaseLeaks` allows). At the end runRouter drops the routers that run
without disposing them (DiagnosticsServerRouterRunner.cs:157). The backend is reset
on a timeout only when no router runs (lines 122-126), and a creation ends early
when a front end leaves, so that front ends that come and go keep a dead runtime's
endpoint (DiagnosticsServerRouterFactory.cs:260). Hence `LoopRecovers` promises the
reset only from the time on when front ends pause: without `ClientsPause` it is false.

*Event pipe.* A session is left running in three cases, which
`ProcessLeavesNothing` names: a failing ResumeRuntime throws after the session was
started (EventPipeStreamProvider.cs:72-91); a StopTracing that failed is not
retried, since `_stopped` is set first; and a stop task whose Task.Run sees a
cancelled token never starts (lines 93-103). The handler of EventProcessInfoPipeline
waits only for events (EventProcessInfoPipeline.cs:50-56) and hangs if the runtime
exits before them. A DisposeAsync before the source is published leaves Process
running. EventPipeSession tests and sets `_stopped` without a lock
(EventPipeSession.cs:171); its only modelled user has one stop task, a tool that
stops a session from two threads may send StopTracing twice.

*Pipeline.* The task of StopAsync completes when OnStop does (Pipeline.cs:148), so
that it tells less than lines 26-28 promise: only RunAsync's task shows that the run is
over (`RunReturnMeansStopped`). A first StopAsync that comes when run and cleanup are
over, and before DisposeAsync, starts OnStop (lines 132-136), so that a pipeline in
which "all asynchronous work has ceased" (line 24) works again: this is `LateStop` of
`PipelineLifecycle`, the one arrow that is not in the class summary. And StopAsync on
an unstarted pipeline throws (line 130; PipelineTests.cs:28 asserts it), where lines 21
and 106 have it move to Stopping: the life cycle has that arrow, the code never takes it.

*Runtime startup.* "It will block until the callback thread finishes and no more
callbacks will be initiated after this API returns" (dbgshim.cpp:925-927) is not what
the code guarantees. Unregister waits 60 seconds for the worker at most, and a worker
that is slower calls the user afterwards, through a helper of dbgshim that was freed
(process.cpp:1835, dbgshim.cpp:942). And a callback that has called Unregister and then
throws is called again by the catch block, again through the freed helper
(dbgshim.cpp:403-417). `CallbackContract` leaves out these two cases and no other. A
callback that throws is called up to three times: by dbgshim's catch block with E_FAIL,
and if it throws again, by StartupHelperThread with ERROR_ACCESS_DENIED
(process.cpp:1904-1909, 2123-2128); an exception of that call ends the process, and is
not modelled. A registration that fails after it has published its semaphores
(process.cpp:1804) posts nothing, and a runtime that has found them waits for ever; nor
does a worker post that learns of an unreadable pipe, before Unregister is called; nor
anybody, when the runtime has opened the semaphores of two debuggers. `RuntimeIsReleased`
leaves out these three (`Deserts`, `HeldBy`), each for the debugger that the runtime
waits for only. A second registration for a process over pipes takes the names away from
the first (process.cpp:1306): what `ObjectsAreSound` says of names is about semaphores.
A sem_wait that fails with anything but EINTR (process.cpp:2108) is left out: it takes
an invalid semaphore, and the helper that owns it outlives the thread.

*Critical section.* That nobody is inside or waits when Delete is called is the caller's
obligation, and a guard of the model; cs.cpp does not test it. Errors of the pthread
calls, after which a sleeping thread goes on as if it had been awakened (cs.cpp:1136,
1152-1160, 1197), are left out.

*Synchronization manager.* UnRegisterProcessForMonitoring is never called, though
the comment at synchmanager.cpp:2752-2757 expects it; TWS_EARLYDEATH is never set
(synchmanager.cpp:283-291 would handle it);
shared objects cannot be made, and the exit code of a monitored process is never
read. These paths, and errors of the native wait (lines 407-413), are not in the
model. A thread keeps ten pending wake-ups and allocates memory for more; if that is refused a wake-up is dropped
(synchmanager.cpp:2010), which two threads cannot reach.

## 6. Plan

Done: the modules above, in the order collection, server, queue, pipeline,
transport, critical section, runtime startup, synchronization manager, router,
event pipe.

Their invariants, action properties and refinements are proved.

Next, models: the three other router factories, in which the router connects;
StartServer and StopServer of the web socket server; the sliding window of the
triggers against its definition; an abstract collection with atomic operations,
refined by `HandleableCollection` and used by `ReversedServer` through INSTANCE.

## 7. Not modelled

Message encoding (fixed layouts), the individual commands of DiagnosticsClient
(one request, one response), the decoding of event payloads, the command lines of
the tools, SymbolStore, file formats, DebugServices and SOS: sequential code or
binary formats. Of the PAL, thread and handle objects, files and loaders are a thin
layer over the system, and waits for several objects, mutexes and shared objects
are code that nothing here reaches. The Windows side of dbgshim polls for the
runtime with another protocol.
