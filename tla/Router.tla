------------------------------- MODULE Router -------------------------------
(***************************************************************************)
(* The diagnostics server router between front ends, which connect to an   *)
(* IPC server, and runtimes, which connect to a network server             *)
(* (IpcServerTcpServerRouterFactory), with the loop that runs it           *)
(* (runRouter) and the routers themselves.                                 *)
(*                                                                         *)
(* The loop and CreateRouterAsync are two asynchronous methods; the second *)
(* accepts on both servers at once and, while it has one stream and waits  *)
(* for the other, looks whether the first is still connected.  Each router *)
(* has two tasks that copy in one direction each.                          *)
(***************************************************************************)
EXTENDS Integers, FiniteSets

CONSTANTS Runtimes, NetStreams, IpcStreams,
          Routers,         \* bound: how many routers there are at a time
          AutoShutdown     \* is there a runtime timeout?

None == "none"

ASSUME RouterAssumption ==
    /\ NetStreams \cap IpcStreams = {}
    /\ None \notin Runtimes \cup NetStreams \cup IpcStreams
    /\ AutoShutdown \in BOOLEAN

Streams == NetStreams \cup IpcStreams
Directions == {"backToFront", "frontToBack"}

VARIABLES
    token,      \* has the user cancelled?
    loop,       \* where runRouter is
    create,     \* where CreateRouterAsync is: its place and its exception
    canceled,   \* cancelRouter, the token source of CreateRouterAsync
    net, ipc,   \* its two tasks that accept: their state, stream, exception
    check,      \* its task that looks after the stream it has
    endpoint,   \* the runtime of NetServerEndpointInfo
    dead,       \* runtimes that have ended
    registered, \* runtimes the network server knows
    announced,  \* those of them it has not yet announced
    stored,     \* the stream it keeps for each runtime
    st, peer, from,   \* of each stream: its state, is the peer there, and who
    routers     \* the routers

server == <<registered, announced, stored>>
streams == <<st, peer, from>>
creation == <<create, canceled, net, ipc, check>>
vars == <<token, loop, creation, endpoint, dead, server, streams, routers>>

NoTask == [at |-> "none", s |-> None, ex |-> None]
NoRouter == [at |-> "none", front |-> None, back |-> None, completed |-> FALSE,
             task |-> [d \in Directions |-> "none"]]

Init ==
    /\ token = FALSE
    /\ loop = "loop"
    /\ create = [at |-> "none", ex |-> None]
    /\ canceled = FALSE
    /\ net = NoTask /\ ipc = NoTask /\ check = "none"
    /\ endpoint = None
    /\ dead = {} /\ registered = {} /\ announced = {}
    /\ stored = [r \in Runtimes |-> None]
    /\ st = [s \in Streams |-> "free"]
    /\ peer = [s \in Streams |-> TRUE]
    /\ from = [s \in NetStreams |-> None]
    /\ routers = [q \in Routers |-> NoRouter]

-----------------------------------------------------------------------------
(* Streams                                                                 *)

\* A stream that is disposed of may be another one the next time: front ends
\* and runtimes connect again and again.
Dispose(gone) ==
    /\ st' = [s \in Streams |-> IF s \in gone THEN "free" ELSE st[s]]
    /\ peer' = [s \in Streams |-> s \in gone \/ peer[s]]
    /\ from' = [s \in NetStreams |-> IF s \in gone THEN None ELSE from[s]]

-----------------------------------------------------------------------------
(* The world outside                                                       *)

Cancel ==
    /\ ~token /\ loop # "stopped"
    /\ token' = TRUE
    /\ UNCHANGED <<loop, creation, endpoint, dead, server, streams, routers>>

\* A runtime, which has one idle connection at a time, connects; the network
\* server stores the stream and announces a runtime that it does not know.
RuntimeConnects(r) ==
    /\ r \notin dead /\ stored[r] = None /\ loop # "stopped"
    /\ \E s \in NetStreams : st[s] = "free"
    /\ LET s == CHOOSE s \in NetStreams : st[s] = "free" IN
          /\ st' = [st EXCEPT ![s] = "stored"]
          /\ from' = [from EXCEPT ![s] = r]
          /\ stored' = [stored EXCEPT ![r] = s]
    /\ registered' = registered \cup {r}
    /\ announced' = IF r \in registered THEN announced
                    ELSE announced \cup {r}
    /\ UNCHANGED <<token, loop, creation, endpoint, dead, peer, routers>>

\* A runtime ends, and its connections with it.
RuntimeEnds(r) ==
    /\ r \in registered \ dead /\ loop # "stopped"
    /\ dead' = dead \cup {r}
    /\ peer' = [s \in Streams |->
                  peer[s] /\ (s \in NetStreams => from[s] # r)]
    /\ UNCHANGED <<token, loop, creation, endpoint, server, st, from, routers>>

ClientConnects ==
    LET s == CHOOSE s \in IpcStreams : st[s] = "free" IN
    /\ \E c \in IpcStreams : st[c] = "free"
    /\ loop # "stopped"
    /\ st' = [st EXCEPT ![s] = "waiting"]
    /\ UNCHANGED <<token, loop, creation, endpoint, dead, server, peer, from,
                   routers>>

Disconnects(s) ==
    /\ st[s] \in {"waiting", "stored", "open"} /\ peer[s] /\ loop # "stopped"
    /\ peer' = [peer EXCEPT ![s] = FALSE]
    /\ UNCHANGED <<token, loop, creation, endpoint, dead, server, st, from,
                   routers>>

-----------------------------------------------------------------------------
(* The tasks of CreateRouterAsync                                          *)

IsCanceled == canceled \/ token
Succeeded(task) == task.at = "ok"
Completed(task) == task.at \in {"ok", "failed"}
Fails(task, ex) == [task EXCEPT !.at = "failed", !.ex = ex]
TakesStream(task, s) == [task EXCEPT !.at = "ok", !.s = s]

\* AcceptNetStreamAsync waits for a new runtime, if it has none, ...
NetAccepts(r) ==
    /\ net.at = "accept" /\ ~IsCanceled
    /\ r \in announced
    /\ announced' = announced \ {r}
    /\ endpoint' = r
    /\ net' = [net EXCEPT !.at = "connect"]
    /\ UNCHANGED <<token, loop, create, canceled, ipc, check, dead, registered,
                   stored, streams, routers>>

\* ... and then for a stream of it.
NetConnects ==
    /\ net.at = "connect" /\ ~IsCanceled
    /\ stored[endpoint] # None
    /\ net' = TakesStream(net, stored[endpoint])
    /\ st' = [st EXCEPT ![stored[endpoint]] = "open"]
    /\ stored' = [stored EXCEPT ![endpoint] = None]
    /\ UNCHANGED <<token, loop, create, canceled, ipc, check, endpoint, dead,
                   registered, announced, peer, from, routers>>

\* RuntimeTimeoutMs or NetServerTimeoutMs are over.
NetTimesOut ==
    /\ \/ /\ net.at = "accept"
          /\ net' = Fails(net, IF AutoShutdown THEN "runtimeTimeout"
                               ELSE "canceled")
       \/ net.at = "connect" /\ net' = Fails(net, "backendTimeout")
    /\ UNCHANGED <<token, loop, create, canceled, ipc, check, endpoint, dead,
                   server, streams, routers>>

NetIsCanceled ==
    /\ net.at \in {"accept", "connect"} /\ IsCanceled
    /\ net' = Fails(net, "canceled")
    /\ UNCHANGED <<token, loop, create, canceled, ipc, check, endpoint, dead,
                   server, streams, routers>>

\* AcceptIpcStreamAsync, which has no timeout.
IpcAccepts(s) ==
    /\ ipc.at = "accept" /\ ~IsCanceled
    /\ st[s] = "waiting"
    /\ ipc' = TakesStream(ipc, s)
    /\ st' = [st EXCEPT ![s] = "open"]
    /\ UNCHANGED <<token, loop, create, canceled, net, check, endpoint, dead,
                   server, peer, from, routers>>

\* The transport fails on a connection that was aborted.
IpcFails(s) ==
    /\ ipc.at = "accept" /\ ~IsCanceled
    /\ st[s] = "waiting" /\ ~peer[s]
    /\ ipc' = Fails(ipc, "error")
    /\ Dispose({s})
    /\ UNCHANGED <<token, loop, create, canceled, net, check, endpoint, dead,
                   server, routers>>

IpcIsCanceled ==
    /\ ipc.at = "accept" /\ IsCanceled
    /\ ipc' = Fails(ipc, "canceled")
    /\ UNCHANGED <<token, loop, create, canceled, net, check, endpoint, dead,
                   server, streams, routers>>

\* IsStreamConnectedAsync looks every half second, and may still be looking
\* when it is cancelled.
CheckStream(s) ==
    /\ check = "running"
    /\ \/ ~peer[s] /\ check' = "broken"
       \/ IsCanceled /\ check' = "ended"
    /\ UNCHANGED <<token, loop, create, canceled, net, ipc, endpoint, dead,
                   server, streams, routers>>

Checked == IF create.at \in {"ipcFirst", "ipcAll"} THEN ipc.s ELSE net.s

AcceptTasks ==
    \/ \E r \in Runtimes : NetAccepts(r)
    \/ NetConnects \/ NetTimesOut \/ NetIsCanceled
    \/ \E s \in IpcStreams : IpcAccepts(s) \/ IpcFails(s)
    \/ IpcIsCanceled
    \/ CheckStream(Checked)

-----------------------------------------------------------------------------
(* CreateRouterAsync                                                       *)

CreateGoes(label) == create' = [create EXCEPT !.at = label]

\* Both tasks are started; from here on the loop only waits.
CreateRouterAsync ==
    /\ create' = [at |-> "any", ex |-> None]
    /\ canceled' = FALSE
    /\ net' = [NoTask EXCEPT !.at = IF endpoint = None THEN "accept"
                                    ELSE "connect"]
    /\ ipc' = [NoTask EXCEPT !.at = "accept"]
    /\ check' = "none"

\* The first await: one of them has completed, perhaps both.
WhenAnyAccepted ==
    /\ create.at = "any"
    /\ Completed(net) \/ Completed(ipc)
    /\ \/ /\ Succeeded(ipc) /\ Succeeded(net)
          /\ CreateGoes("created") /\ UNCHANGED check
       \/ /\ Succeeded(ipc) /\ ~Succeeded(net)
          /\ CreateGoes("ipcFirst") /\ check' = "running"
       \/ /\ ~Succeeded(ipc) /\ Succeeded(net)
          /\ CreateGoes("netFirst") /\ check' = "running"
       \/ /\ ~Succeeded(ipc) /\ ~Succeeded(net)
          /\ CreateGoes("failing") /\ UNCHANGED check
    /\ UNCHANGED <<token, loop, canceled, net, ipc, endpoint, dead, server,
                   streams, routers>>

\* The second await, of the other stream or the end of the one it has; there is
\* none when one has failed.  What is still pending is cancelled.
WhenAnyOther ==
    /\ \/ create.at = "ipcFirst" /\ (Completed(net) \/ check # "running")
          /\ CreateGoes("ipcAll")
       \/ create.at = "netFirst" /\ (Completed(ipc) \/ check # "running")
          /\ CreateGoes("netAll")
       \/ create.at = "failing" /\ CreateGoes("error")
    /\ canceled' = TRUE
    /\ UNCHANGED <<token, loop, net, ipc, check, endpoint, dead, server,
                   streams, routers>>

Throws(ex) == create' = [at |-> "threw", ex |-> ex]

\* The stream that a completed task has, if it has one.
ResultOf(task) == IF Succeeded(task) THEN {task.s} ELSE {}

\* A mutant of WhenAllOther: what the runtime sent late is not disposed of.
WhenAllOtherForgets(label, other) ==
    /\ create.at = label
    /\ Completed(other) /\ check # "running"
    /\ \/ /\ Succeeded(other) /\ check = "ended"
          /\ CreateGoes("created") /\ UNCHANGED streams
       \/ /\ ~(Succeeded(other) /\ check = "ended")
          /\ Throws(IF check = "broken" THEN "endOfStream" ELSE other.ex)
          /\ Dispose(ResultOf(ipc))
    /\ UNCHANGED <<token, loop, canceled, net, ipc, check, endpoint, dead,
                   server, routers>>

\* The third await: everything is complete.  Unless the other stream came and
\* the first is still there, both are disposed of.
WhenAllOther(label, other) ==
    /\ create.at = label
    /\ Completed(other) /\ check # "running"
    /\ \/ /\ Succeeded(other) /\ check = "ended"
          /\ CreateGoes("created") /\ UNCHANGED streams
       \/ /\ ~(Succeeded(other) /\ check = "ended")
          /\ Throws(IF check = "broken" THEN "endOfStream" ELSE other.ex)
          /\ Dispose(ResultOf(net) \cup ResultOf(ipc))
    /\ UNCHANGED <<token, loop, canceled, net, ipc, check, endpoint, dead,
                   server, routers>>

\* A mutant of WhenAllFailed: the front end's stream is forgotten as well.
WhenAllFailedForgets ==
    /\ create.at = "error"
    /\ Completed(net) /\ Completed(ipc)
    /\ Throws(IF ipc.ex = "error" THEN "error"
              ELSE IF net.ex # None THEN net.ex ELSE "canceled")
    /\ UNCHANGED <<token, loop, canceled, net, ipc, check, endpoint, dead,
                   server, streams, routers>>

\* Neither had succeeded; but the one that was pending may have, before it was
\* cancelled.  A network stream is forgotten then.  The exception is the first
\* that is not a cancellation.
WhenAllFailed ==
    /\ create.at = "error"
    /\ Completed(net) /\ Completed(ipc)
    /\ Throws(IF ipc.ex = "error" THEN "error"
              ELSE IF net.ex # None THEN net.ex ELSE "canceled")
    /\ Dispose(ResultOf(ipc))
    /\ UNCHANGED <<token, loop, canceled, net, ipc, check, endpoint, dead,
                   server, routers>>

Create ==
    \/ WhenAnyAccepted \/ WhenAnyOther
    \/ WhenAllOther("ipcAll", net) \/ WhenAllOther("netAll", ipc)
    \/ WhenAllFailed

-----------------------------------------------------------------------------
(* Routers                                                                 *)

\* A copying task that can still make a step.
Copying(q, d) == routers[q].task[d] \in {"read", "write"}
Source(q, d) ==
    IF d = "backToFront" THEN routers[q].back ELSE routers[q].front
Target(q, d) ==
    IF d = "backToFront" THEN routers[q].front ELSE routers[q].back
TaskGoes(q, d, label) == routers' = [routers EXCEPT ![q].task[d] = label]

\* Something was read; what was read is written, when the peer takes it.
Copy(q, d) ==
    /\ loop # "stopped"
    /\ \/ /\ routers[q].task[d] = "read"
          /\ routers[q].at # "disposed" /\ peer[Source(q, d)]
          /\ TaskGoes(q, d, "write")
       \/ /\ routers[q].task[d] = "write"
          /\ routers[q].at # "disposed" /\ peer[Target(q, d)]
          /\ TaskGoes(q, d, "read")
    /\ UNCHANGED <<token, loop, creation, endpoint, dead, server, streams>>

\* A mutant of CopyEnds: only a peer can end a task.
CopyEndsByPeer(q, d) ==
    /\ \/ /\ \/ routers[q].task[d] = "read" /\ ~peer[Source(q, d)]
             \/ routers[q].task[d] = "write" /\ ~peer[Target(q, d)]
          /\ routers[q].at # "disposed"
          /\ routers' = [routers EXCEPT ![q].completed = TRUE,
                                        ![q].task[d] = "completing"]
       \/ routers[q].task[d] = "completing" /\ TaskGoes(q, d, "ended")
    /\ UNCHANGED <<token, loop, creation, endpoint, dead, server, streams>>

\* The end of what it reads from, or a write that fails: RouterTaskCompleted is
\* set, and then the task completes.  In a router that was disposed of nobody
\* looks at the difference any more.
CopyEnds(q, d) ==
    /\ \/ /\ \/ routers[q].task[d] = "read" /\ ~peer[Source(q, d)]
             \/ routers[q].task[d] = "write" /\ ~peer[Target(q, d)]
          /\ routers[q].at # "disposed"
          /\ routers' = [routers EXCEPT ![q].completed = TRUE,
                                        ![q].task[d] = "completing"]
       \/ routers[q].task[d] = "completing" /\ TaskGoes(q, d, "ended")
       \/ Copying(q, d) /\ routers[q].at = "disposed" /\ TaskGoes(q, d, "ended")
    /\ UNCHANGED <<token, loop, creation, endpoint, dead, server, streams>>

\* The rest of Stop, after its await, in a router that was disposed of.
StopCompletes(q) ==
    /\ routers[q].at = "disposed"
    /\ \A d \in Directions : routers[q].task[d] = "ended"
    /\ routers' = [routers EXCEPT ![q] = NoRouter]
    /\ UNCHANGED <<token, loop, creation, endpoint, dead, server, streams>>

CopyTasks ==
    \E q \in Routers :
        \/ \E d \in Directions : CopyEnds(q, d)
        \/ StopCompletes(q)

-----------------------------------------------------------------------------
(* runRouter                                                               *)

Listed == {q \in Routers : routers[q].at = "listed"}

IsRunning(q) == \A d \in Directions : routers[q].task[d] # "ended"

IsRouterDead(q) == ~IsRunning(q) \/ routers[q].completed

\* runningRouters.RemoveAll(IsRouterDead), which disposes of the dead ones:
\* Dispose cancels and closes what the tasks work on, but does not wait for
\* Stop.  The streams of `more` are disposed of as well.
RemoveAllDead(others, more) ==
    LET gone == {q \in Listed : IsRouterDead(q)} IN
    /\ routers' = [q \in Routers |->
          IF q \in gone
          THEN [routers[q] EXCEPT !.at = "disposed"]
          ELSE IF q \in Listed
          THEN [routers[q] EXCEPT !.at = others] ELSE routers[q]]
    /\ Dispose((UNION {{routers[q].front, routers[q].back} : q \in gone})
               \cup more)

LoopStarts ==
    /\ loop = "loop"
    /\ \/ /\ ~token
          /\ CreateRouterAsync
          /\ loop' = "clean"
       \/ token /\ loop' = "stopping" /\ UNCHANGED creation
    /\ UNCHANGED <<token, endpoint, dead, server, streams, routers>>

LoopCleans ==
    /\ loop = "clean"
    /\ RemoveAllDead("listed", {})
    /\ loop' = "wait"
    /\ UNCHANGED <<token, creation, endpoint, dead, server>>

\* Task.WhenAny returns a router that has completed, or the new one.
LoopSeesCompleted ==
    /\ loop = "wait"
    /\ \E q \in Listed : routers[q].completed
    /\ loop' = "clean"
    /\ UNCHANGED <<token, creation, endpoint, dead, server, streams, routers>>

LoopStartsRouter ==
    /\ loop = "wait" /\ create.at = "created"
    /\ \E q \in Routers : routers[q].at = "none"
    /\ routers' = [routers EXCEPT ![CHOOSE q \in Routers :
                                           routers[q].at = "none"] =
          [at |-> "listed", front |-> ipc.s, back |-> net.s,
           completed |-> FALSE, task |-> [d \in Directions |-> "read"]]]
    /\ create' = [at |-> "none", ex |-> None]
    /\ net' = NoTask /\ ipc' = NoTask /\ check' = "none" /\ canceled' = FALSE
    /\ loop' = "loop"
    /\ UNCHANGED <<token, endpoint, dead, server, streams>>

\* Reset: the network server forgets the runtime and the stream it stored.
Reset ==
    /\ registered' = registered \ {endpoint}
    /\ stored' = [stored EXCEPT ![endpoint] = None]
    /\ Dispose({stored[endpoint]} \cap NetStreams)
    /\ endpoint' = None
    /\ UNCHANGED announced

\* A mutant of LoopCatches: the endpoint is never reset.
LoopCatchesOnly ==
    /\ loop = "wait" /\ create.at = "threw"
    /\ loop' = IF create.ex = "runtimeTimeout" THEN "stopping" ELSE "loop"
    /\ create' = [at |-> "none", ex |-> None]
    /\ net' = NoTask /\ ipc' = NoTask /\ check' = "none" /\ canceled' = FALSE
    /\ UNCHANGED <<token, endpoint, dead, server, streams, routers>>

LoopCatches ==
    /\ loop = "wait" /\ create.at = "threw"
    /\ IF create.ex = "backendTimeout" /\ Listed = {} THEN Reset
       ELSE UNCHANGED <<endpoint, server, streams>>
    /\ loop' = IF create.ex = "runtimeTimeout" THEN "stopping" ELSE "loop"
    /\ create' = [at |-> "none", ex |-> None]
    /\ net' = NoTask /\ ipc' = NoTask /\ check' = "none" /\ canceled' = FALSE
    /\ UNCHANGED <<token, dead, routers>>

\* The finally block: routers that run are dropped as they are, and the two
\* servers are disposed of, with what they hold.
LoopStops ==
    /\ loop = "stopping"
    /\ RemoveAllDead("dropped",
                     {s \in Streams : st[s] \in {"waiting", "stored"}})
    /\ stored' = [r \in Runtimes |-> None]
    /\ registered' = {} /\ announced' = {}
    /\ loop' = "stopped"
    /\ UNCHANGED <<token, creation, endpoint, dead>>

RunRouter ==
    \/ LoopStarts \/ LoopCleans \/ LoopSeesCompleted
    \/ LoopStartsRouter \/ LoopCatches \/ LoopStops

-----------------------------------------------------------------------------
World ==
    \/ Cancel
    \/ \E r \in Runtimes : RuntimeConnects(r) \/ RuntimeEnds(r)
    \/ ClientConnects
    \/ \E s \in Streams : Disconnects(s)
    \/ \E q \in Routers, d \in Directions : Copy(q, d)

Next == World \/ AcceptTasks \/ Create \/ CopyTasks \/ RunRouter

\* Tasks that can run do run, and timers elapse.  No peer has to do anything,
\* not even to read what was sent to it, and no server has to hand out a
\* connection that it has.
Fairness ==
    /\ WF_vars(NetTimesOut \/ NetIsCanceled) /\ WF_vars(IpcIsCanceled)
    /\ WF_vars(CheckStream(Checked))
    /\ WF_vars(Create) /\ WF_vars(RunRouter)
    /\ \A q \in Routers, d \in Directions :
          WF_vars(CopyEnds(q, d) \/ StopCompletes(q))

Spec == Init /\ [][Next]_vars /\ Fairness

-----------------------------------------------------------------------------
(* Properties                                                              *)

TypeOK ==
    /\ token \in BOOLEAN /\ canceled \in BOOLEAN
    /\ loop \in {"loop", "clean", "wait", "stopping", "stopped"}
    /\ create.at \in {"none", "any", "ipcFirst", "netFirst", "ipcAll",
                      "netAll", "failing", "error", "created", "threw"}
    /\ create.ex \in {None, "canceled", "error", "endOfStream",
                      "backendTimeout", "runtimeTimeout"}
    /\ create.at = "threw" <=> create.ex # None
    /\ net.at \in {"none", "accept", "connect", "ok", "failed"}
    /\ net.s \in NetStreams \cup {None}
    /\ ipc.at \in {"none", "accept", "ok", "failed"}
    /\ ipc.s \in IpcStreams \cup {None}
    /\ check \in {"none", "running", "broken", "ended"}
    /\ endpoint \in Runtimes \cup {None}
    /\ dead \subseteq Runtimes
    /\ announced \subseteq registered /\ registered \subseteq Runtimes
    /\ stored \in [Runtimes -> NetStreams \cup {None}]
    /\ st \in [Streams -> {"free", "waiting", "stored", "open"}]
    /\ peer \in [Streams -> BOOLEAN]
    /\ from \in [NetStreams -> Runtimes \cup {None}]
    /\ \A q \in Routers :
          /\ routers[q].at \in {"none", "listed", "disposed", "dropped"}
          /\ routers[q].completed \in BOOLEAN
          /\ routers[q].task \in [Directions -> {"none", "read", "write",
                                                 "completing", "ended"}]

Alive == {q \in Routers : routers[q].at \in {"listed", "dropped"}}

\* The connections that CreateRouterAsync or a router answers for.
Held ==
    (IF create.at = "threw" THEN {} ELSE ResultOf(net) \cup ResultOf(ipc))
    \cup UNION {{routers[q].front, routers[q].back} : q \in Alive}

\* Every connection of a front end that was accepted is with the creation or
\* with one router that is not disposed of: none is left open without anybody
\* to read from it, whatever fails and in whatever order.
FrontendsAreHeld ==
    /\ \A s \in IpcStreams :
          st[s] = "open" =>
             \/ create.at # "threw" /\ ipc.s = s
             \/ \E q \in Alive : routers[q].front = s
    /\ \A q, p \in Alive :
          q # p => /\ routers[q].front # routers[p].front
                   /\ routers[q].back # routers[p].back

\* No router and no creation works on a stream that was disposed of or handed
\* out again.
HeldAreOpen == \A s \in Held : st[s] = "open"

\* A connection of a runtime is let go without being closed only where the
\* accept of a front end failed just before that of the runtime succeeded.
OnlyErrorCaseLeaks ==
    [][\A s \in NetStreams :
          s \in Held /\ s \notin Held' /\ st'[s] = "open" =>
             create.at = "error" /\ ipc.at = "failed"]_vars

\* When CreateRouterAsync is over, nothing it started is still going on: an
\* accept that went on would take a connection that nobody would serve.
NoStrayAccept ==
    create.at \in {"none", "created", "threw"} =>
        /\ net.at \notin {"accept", "connect"}
        /\ ipc.at # "accept"
        /\ check # "running"

\* After the stop no connection waits in the servers, and whoever is still
\* connected to a front end is a router that was running.
StoppedServersAreEmpty ==
    loop = "stopped" =>
        /\ \A s \in Streams : st[s] \notin {"stored", "waiting"}
        /\ \A s \in IpcStreams :
              st[s] = "open" =>
                 \E q \in Routers :
                     routers[q].at = "dropped" /\ routers[q].front = s

\* From some time on no front end connects.
ClientsPause ==
    <>[][\A s \in IpcStreams : st[s] = "free" => st'[s] = "free"]_vars

\* The endpoint of a runtime that has ended is given up, so that another one
\* can take its place, unless there are routers or the loop ends.  It takes an
\* attempt that times out, and a front end that comes and goes ends each
\* attempt before: as long as front ends do, the endpoint is kept.
DeadEndpointIsReset ==
    ClientsPause =>
        \A r \in Runtimes :
            endpoint = r /\ r \in dead ~>
                endpoint # r \/ Listed # {} \/ loop = "stopped"

\* A front end that was accepted does not wait for a runtime for good: the
\* creation ends and, by FrontendsAreHeld, leaves it with a router or closed.
FrontendIsAnswered == ipc.s # None ~> ipc.s = None

\* A router in the list has lost one of its sides.
HalfGone(q) ==
    routers[q].at = "listed" /\ \E d \in Directions : ~peer[Source(q, d)]

\* When one side of a router is gone the other is disconnected too, unless the
\* copying task that would notice is kept in a write by the other side.
DisconnectPropagates ==
    \A q \in Routers :
        HalfGone(q) ~>
            \/ routers[q].at # "listed"
            \/ loop = "stopped"
            \/ \E d \in Directions : routers[q].task[d] = "write"

\* A router that is disposed of comes to rest, both its tasks and its Stop.
DisposedRouterEnds ==
    \A q \in Routers : routers[q].at = "disposed" ~> routers[q].at = "none"

\* The loop ends when the user cancels.
RunnerStops == token ~> loop = "stopped"

\* Every connection is in the hands of somebody who will close it, and no accept
\* outlives the creation of the router that began it.
ConnectionsAreOwned ==
    /\ TypeOK
    /\ FrontendsAreHeld
    /\ HeldAreOpen
    /\ NoStrayAccept
    /\ StoppedServersAreEmpty

\* A front end is routed or closed, both sides of a router go together, and a
\* disposed router ends.
RoutersEnd == FrontendIsAnswered /\ DisconnectPropagates /\ DisposedRouterEnds

\* The loop gives up a dead runtime once the front ends leave it the time, and
\* it stops when it is told to, whatever they do.
LoopRecovers == DeadEndpointIsReset /\ RunnerStops
=============================================================================
