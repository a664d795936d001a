--------------------------- MODULE ReversedServer ---------------------------
(***************************************************************************)
(* ReversedDiagnosticsServer (ReversedDiagnosticsServer.cs): runtimes      *)
(* connect to the server and advertise a cookie; the accept loop files     *)
(* each stream in the collection of its runtime and announces a runtime    *)
(* that has no collection yet; clients accept announcements and connect,   *)
(* which hands them the stream; the runtime then connects again.           *)
(*                                                                         *)
(* Collections are objects: _streamCollections maps a cookie to one, but   *)
(* a caller of GetStreams, the accept loop and RemoveConnection keep a     *)
(* reference while the dictionary changes.  Their operations are atomic    *)
(* here, which module HandleableCollection justifies: it shows that        *)
(* Dispose excludes the other operations, that a pending call is found by  *)
(* Add and by Dispose, and that an item is lost only to a call that        *)
(* expires while it is handed over; that loss is part of this module.  A   *)
(* handler whose call has ended is ignored by Add, and leaves the list at  *)
(* once here.                                                              *)
(***************************************************************************)
EXTENDS SequencesExt, FiniteSetsExt

CONSTANTS Runtimes,    \* runtime instances, as their cookies
          Streams,     \* connections, reused once nobody refers to them
          Collections, \* stream collections, reused once unreferenced
          Calls,       \* calls of Accept, Connect and WaitForConnection
          Removers,    \* calls of RemoveConnection
          MayDispose,  \* whether the owner calls DisposeAsync
          None

ASSUME NoneAssumption ==
    None \notin Runtimes \cup Streams \cup Collections

ASSUME MayDisposeAssumption == MayDispose \in BOOLEAN

\* A collection for every runtime, every caller and the accept loop.
ASSUME CollectionsAssumption ==
    /\ IsFiniteSet(Collections)
    /\ Cardinality(Collections) > Cardinality(Runtimes) + Cardinality(Calls)
                                   + Cardinality(Removers)

VARIABLES
    conn,      \* the connection on which a runtime awaits a command
    owner,     \* the runtime that opened a stream
    alive,     \* the runtime's end of a stream is open
    st,        \* the server's end of a stream
    backlog,   \* connections that the transport has not accepted yet
    transport, \* "none", "open" or "closed"
    loop,      \* AcceptTransportAsync: its position and its locals
    dict,      \* _streamCollections
    coll,      \* the collections
    infos,     \* _endpointInfos
    call,      \* Accept, Connect, WaitForConnection and their async forms
    remover,   \* RemoveConnection
    cancelled, \* _disposalSource
    disposed,  \* _disposed
    disposal,  \* the position of DisposeAsync
    snapshot,  \* the collections that DisposeAsync has still to dispose
    latest,    \* history: the newest stream filed for a runtime
    announced, \* history: how often a runtime was announced
    removed    \* history: how often a runtime was removed

world == <<conn, owner, alive>>
closing == <<cancelled, disposed, disposal, snapshot>>
history == <<latest, announced, removed>>
vars == <<world, st, backlog, transport, loop, dict, coll, infos, call,
          remover, closing, history>>

Empty == [items |-> <<>>, waiters |-> <<>>, disposed |-> FALSE]
Gone  == [items |-> <<>>, waiters |-> <<>>, disposed |-> TRUE]
AtAccept == [pc |-> "accept", stream |-> None, coll |-> None, new |-> FALSE]

Init ==
    /\ conn = [r \in Runtimes |-> None]
    /\ owner = [s \in Streams |-> None]
    /\ alive = [s \in Streams |-> FALSE]
    /\ st = [s \in Streams |-> "closed"]
    /\ backlog = <<>>
    /\ transport = "none"
    /\ loop = [AtAccept EXCEPT !.pc = "unstarted"]
    /\ dict = [r \in Runtimes |-> None]
    /\ coll = [k \in Collections |-> Empty]
    /\ infos = Empty
    /\ call = [c \in Calls |->
                 [pc |-> "idle", kind |-> "accept", rt |-> None,
                  coll |-> None, got |-> None]]
    /\ remover = [m \in Removers |-> [pc |-> "idle", coll |-> None]]
    /\ cancelled = FALSE
    /\ disposed = FALSE
    /\ disposal = "idle"
    /\ snapshot = {}
    /\ latest = [r \in Runtimes |-> None]
    /\ announced = [r \in Runtimes |-> 0]
    /\ removed = [r \in Runtimes |-> 0]

-----------------------------------------------------------------------------
(* Runtimes, outside the server *)

\* The runtime opens a connection and writes its advertise message.
RuntimeConnect(r) ==
    /\ transport = "open"
    /\ conn[r] = None
    /\ \E s \in Streams :
        /\ st[s] = "closed"
        /\ \A q \in Runtimes : conn[q] # s
        /\ loop.stream # s
        /\ conn' = [conn EXCEPT ![r] = s]
        /\ owner' = [owner EXCEPT ![s] = r]
        /\ alive' = [alive EXCEPT ![s] = TRUE]
        /\ st' = [st EXCEPT ![s] = "backlog"]
        /\ backlog' = Append(backlog, s)
    /\ UNCHANGED <<transport, loop, dict, coll, infos, call, remover, closing,
                   history>>

\* A command arrived, or the server closed the stream: the runtime is free to
\* connect again.
RuntimeMovesOn(r) ==
    /\ conn[r] # None
    /\ st[conn[r]] \in {"held", "closed"}
    /\ conn' = [conn EXCEPT ![r] = None]
    /\ UNCHANGED <<owner, alive, st, backlog, transport, loop, dict, coll,
                   infos, call, remover, closing, history>>

\* The runtime exits or loses its connection.
RuntimeDrops(r) ==
    /\ conn[r] # None
    /\ alive' = [alive EXCEPT ![conn[r]] = FALSE]
    /\ conn' = [conn EXCEPT ![r] = None]
    /\ UNCHANGED <<owner, st, backlog, transport, loop, dict, coll, infos,
                   call, remover, closing, history>>

-----------------------------------------------------------------------------
(* Collections as objects *)

Unreferenced(k) ==
    /\ \A r \in Runtimes : dict[r] # k
    /\ \A c \in Calls : call[c].coll # k
    /\ \A m \in Removers : remover[m].coll # k
    /\ loop.coll # k
    /\ k \notin snapshot

\* GetOrAdd(cookie, new collection)
GetOrAdd(r, k) ==
    IF dict[r] # None
    THEN /\ k = dict[r]
         /\ UNCHANGED <<dict, coll>>
    ELSE /\ Unreferenced(k)
         /\ k = CHOOSE f \in Collections : Unreferenced(f)
         /\ dict' = [dict EXCEPT ![r] = k]
         /\ coll' = [coll EXCEPT ![k] = Empty]

Close(S) == [s \in Streams |-> IF s \in S THEN "closed" ELSE st[s]]

\* The calls of a list that take the item they are offered.
Takers(ws) == {p \in 1..Len(ws) : call[ws[p]].kind \in {"connect", "accept"}}

\* A mutant of DisposeCollection: the pending calls are left alone.
DisposeItemsOnly(k) ==
    /\ coll' = [coll EXCEPT ![k] = Gone]
    /\ st' = Close(Range(coll[k].items))
    /\ UNCHANGED call

\* HandleableCollection.Dispose on a collection of streams.
DisposeCollection(k) ==
    /\ coll' = [coll EXCEPT ![k] = Gone]
    /\ st' = Close(Range(coll[k].items))
    /\ call' = [c \in Calls |->
                  IF c \in Range(coll[k].waiters)
                  THEN [call[c] EXCEPT !.pc = "rejected", !.coll = None]
                  ELSE call[c]]

\* The call ends with the stream, or expires while it is handed the stream:
\* then nobody has it.
Ended(c, pc, s) == [call[c] EXCEPT !.pc = pc, !.coll = None, !.got = s]
Handover(c, s, lost) ==
    IF lost THEN Ended(c, "expired", None) ELSE Ended(c, "done", s)
HandedOver(s, lost) == [st EXCEPT ![s] = IF lost THEN "lost" ELSE "held"]

\* HandleableCollection.Add of a stream.  The waiting calls are offered it in
\* order: WaitForConnection completes on a live stream and leaves it, but
\* disposes a dead one; Connect takes it either way.
AddTo(k, s) ==
    LET ws == coll[k].waiters
        takers == Takers(ws)
        asked == IF takers = {} THEN Len(ws) ELSE Min(takers)
        waits == {ws[p] : p \in (1..asked) \ takers}
    IN  IF ~alive[s] /\ ws # <<>> /\ 1 \notin takers
        THEN /\ st' = Close({s})
             /\ UNCHANGED <<coll, call>>
        ELSE \E lost \in BOOLEAN :
               /\ takers = {} => ~lost
               /\ call' = [c \in Calls |->
                             CASE c \in waits -> Ended(c, "done", None)
                               [] takers # {} /\ c = ws[asked] ->
                                      Handover(c, s, lost)
                               [] OTHER -> call[c]]
               /\ st' = IF takers = {} THEN st ELSE HandedOver(s, lost)
               /\ coll' = [coll EXCEPT
                             ![k].waiters = SubSeq(ws, asked + 1, Len(ws)),
                             ![k].items = IF takers = {} THEN Append(@, s)
                                                         ELSE @]

-----------------------------------------------------------------------------
(* Start and AcceptTransportAsync *)

\* Called by the owner of the server, who also disposes it, and not at the
\* same time; a second call throws.
Start ==
    /\ transport = "none"
    /\ disposal = "idle"
    /\ transport' = "open"
    /\ loop' = AtAccept
    /\ UNCHANGED <<world, st, backlog, dict, coll, infos, call, remover,
                   closing, history>>

AcceptStream ==
    /\ loop.pc = "accept"
    /\ ~cancelled
    /\ transport = "open"
    /\ backlog # <<>>
    /\ loop' = [loop EXCEPT !.pc = "parse", !.stream = Head(backlog)]
    /\ backlog' = Tail(backlog)
    /\ st' = [st EXCEPT ![Head(backlog)] = "accepted"]
    /\ UNCHANGED <<world, transport, dict, coll, infos, call, remover, closing,
                   history>>

AcceptStop ==
    /\ loop.pc = "accept"
    /\ cancelled
    /\ loop' = [loop EXCEPT !.pc = "stopped"]
    /\ UNCHANGED <<world, st, backlog, transport, dict, coll, infos, call,
                   remover, closing, history>>

\* Partial or malformed advertise data, the parse timeout, or cancellation.
ParseFails ==
    /\ loop.pc = "parse"
    /\ st' = Close({loop.stream})
    /\ loop' = AtAccept
    /\ UNCHANGED <<world, backlog, transport, dict, coll, infos, call, remover,
                   closing, history>>

\* A mutant of FindCollection: every collection counts as new.
FindCollectionAlwaysNew ==
    /\ loop.pc = "parse"
    /\ \E k \in Collections :
        /\ GetOrAdd(owner[loop.stream], k)
        /\ loop' = [loop EXCEPT !.pc = "clear", !.coll = k, !.new = TRUE]
    /\ UNCHANGED <<world, st, backlog, transport, infos, call, remover,
                   closing, history>>

\* ParseAsync returns, and the runtime's collection is looked up or created.
FindCollection ==
    /\ loop.pc = "parse"
    /\ \E k \in Collections :
        /\ GetOrAdd(owner[loop.stream], k)
        /\ loop' = [loop EXCEPT !.pc = "clear", !.coll = k,
                                !.new = dict[owner[loop.stream]] = None]
    /\ UNCHANGED <<world, st, backlog, transport, infos, call, remover,
                   closing, history>>

\* A mutant of CollectionWasDisposed: the stream is not disposed.
CollectionWasDisposedLeaks ==
    /\ loop.pc \in {"clear", "add"}
    /\ coll[loop.coll].disposed
    /\ loop' = AtAccept
    /\ UNCHANGED <<world, st, backlog, transport, dict, coll, infos, call,
                   remover, closing, history>>

\* ObjectDisposedException: RemoveConnection was faster.
CollectionWasDisposed ==
    /\ loop.pc \in {"clear", "add"}
    /\ coll[loop.coll].disposed
    /\ st' = Close({loop.stream})
    /\ loop' = AtAccept
    /\ UNCHANGED <<world, backlog, transport, dict, coll, infos, call, remover,
                   closing, history>>

\* A mutant of ClearItems: the older stream stays.
ClearItemsMissing ==
    /\ loop.pc = "clear"
    /\ ~coll[loop.coll].disposed
    /\ loop' = [loop EXCEPT !.pc = "add"]
    /\ UNCHANGED <<world, st, backlog, transport, dict, coll, infos, call,
                   remover, closing, history>>

\* A mutant of ClearItems: the queued handlers are dropped as well.
ClearItemsAndHandlers ==
    /\ loop.pc = "clear"
    /\ ~coll[loop.coll].disposed
    /\ st' = Close(Range(coll[loop.coll].items))
    /\ coll' = [coll EXCEPT ![loop.coll] = Empty]
    /\ loop' = [loop EXCEPT !.pc = "add"]
    /\ UNCHANGED <<world, backlog, transport, dict, infos, call, remover,
                   closing, history>>

\* Streams of earlier connections of the runtime are disposed.

ClearItems ==
    /\ loop.pc = "clear"
    /\ ~coll[loop.coll].disposed
    /\ st' = Close(Range(coll[loop.coll].items))
    /\ coll' = [coll EXCEPT ![loop.coll].items = <<>>]
    /\ loop' = [loop EXCEPT !.pc = "add"]
    /\ UNCHANGED <<world, backlog, transport, dict, infos, call, remover,
                   closing, history>>

AddStream ==
    /\ loop.pc = "add"
    /\ ~coll[loop.coll].disposed
    /\ AddTo(loop.coll, loop.stream)
    /\ latest' = [latest EXCEPT ![owner[loop.stream]] = loop.stream]
    /\ loop' = IF loop.new
               THEN [loop EXCEPT !.pc = "announce"]
               ELSE AtAccept
    /\ UNCHANGED <<world, backlog, transport, dict, infos, remover, closing,
                   announced, removed>>

\* _endpointInfos.Add: the first waiting Accept takes the announcement.
Announce ==
    /\ loop.pc = "announce"
    /\ LET r == owner[loop.stream]
           ws == infos.waiters
       IN  /\ announced' = [announced EXCEPT ![r] = @ + 1]
           /\ IF ws = <<>>
              THEN /\ infos' = [infos EXCEPT !.items = Append(@, r)]
                   /\ UNCHANGED call
              ELSE \E lost \in BOOLEAN :
                     /\ infos' = [infos EXCEPT !.waiters = Tail(ws)]
                     /\ call' = [call EXCEPT ![Head(ws)] =
                                   Handover(Head(ws), None, lost)]
    /\ loop' = AtAccept
    /\ UNCHANGED <<world, st, backlog, transport, dict, coll, remover, closing,
                   latest, removed>>

-----------------------------------------------------------------------------
(* Accept, Connect and WaitForConnection *)

\* VerifyNotDisposed and VerifyIsStarted
CallBegin(c) ==
    /\ call[c].pc = "idle"
    /\ \E kind \in {"accept", "connect", "wait"}, r \in Runtimes :
         call' = [call EXCEPT
                    ![c].pc = IF disposed \/ transport = "none"
                              THEN "rejected" ELSE "verified",
                    ![c].kind = kind,
                    ![c].rt = r]
    /\ UNCHANGED <<world, st, backlog, transport, loop, dict, coll, infos,
                   remover, closing, history>>

GetStreams(c) ==
    /\ call[c].pc = "verified"
    /\ call[c].kind # "accept"
    /\ \E k \in Collections :
        /\ GetOrAdd(call[c].rt, k)
        /\ call' = [call EXCEPT ![c].pc = "handle", ![c].coll = k]
    /\ UNCHANGED <<world, st, backlog, transport, loop, infos, remover,
                   closing, history>>

\* _endpointInfos.Handle
HandleInfo(c) ==
    /\ call[c].pc = "verified"
    /\ call[c].kind = "accept"
    /\ IF infos.disposed
       THEN /\ call' = [call EXCEPT ![c].pc = "rejected"]
            /\ UNCHANGED infos
       ELSE IF infos.items = <<>>
       THEN /\ infos' = [infos EXCEPT !.waiters = Append(@, c)]
            /\ call' = [call EXCEPT ![c].pc = "waiting"]
       ELSE \E lost \in BOOLEAN :
              /\ infos' = [infos EXCEPT !.items = Tail(@)]
              /\ call' = [call EXCEPT ![c] = Handover(c, None, lost)]
    /\ UNCHANGED <<world, st, backlog, transport, loop, dict, coll, remover,
                   closing, history>>

\* The Handle of the stream collection found before, with DefaultHandler or
\* WaitForConnectionHandler.
HandleStream(c) ==
    /\ call[c].pc = "handle"
    /\ LET k == call[c].coll
           items == coll[k].items
           live == SelectInSeq(items, LAMBDA s : alive[s])
       IN  \/ /\ coll[k].disposed
              /\ call' = [call EXCEPT ![c] = Ended(c, "rejected", None)]
              /\ UNCHANGED <<coll, st>>
           \/ /\ ~coll[k].disposed
              /\ call[c].kind = "connect"
              /\ items # <<>>
              /\ coll' = [coll EXCEPT ![k].items = Tail(items)]
              /\ \E lost \in BOOLEAN :
                   /\ call' = [call EXCEPT
                                 ![c] = Handover(c, Head(items), lost)]
                   /\ st' = HandedOver(Head(items), lost)
           \/ /\ ~coll[k].disposed
              /\ call[c].kind = "wait"
              /\ live # 0
              /\ st' = Close({items[p] : p \in 1..(live - 1)})
              /\ coll' = [coll EXCEPT ![k].items = SubSeq(@, live, Len(@))]
              /\ call' = [call EXCEPT ![c] = Ended(c, "done", None)]
           \/ /\ ~coll[k].disposed
              /\ IF call[c].kind = "wait" THEN live = 0 ELSE items = <<>>
              /\ st' = Close(Range(items))
              /\ coll' = [coll EXCEPT ![k].items = <<>>,
                                      ![k].waiters = Append(@, c)]
              /\ call' = [call EXCEPT ![c].pc = "waiting"]
    /\ UNCHANGED <<world, backlog, transport, loop, dict, infos, remover,
                   closing, history>>

\* The timeout, or the caller's token.
CallExpires(c) ==
    /\ call[c].pc = "waiting"
    /\ call' = [call EXCEPT ![c] = Ended(c, "expired", None)]
    /\ coll' = [k \in Collections |->
                  [coll[k] EXCEPT !.waiters = RemoveFirst(@, c)]]
    /\ infos' = [infos EXCEPT !.waiters = RemoveFirst(@, c)]
    /\ UNCHANGED <<world, st, backlog, transport, loop, dict, remover, closing,
                   history>>

\* IpcClient has written its command, read the response and disposes the
\* stream.
ClientCloses(c) ==
    /\ call[c].got # None
    /\ st' = Close({call[c].got})
    /\ call' = [call EXCEPT ![c].got = None]
    /\ UNCHANGED <<world, backlog, transport, loop, dict, coll, infos, remover,
                   closing, history>>

-----------------------------------------------------------------------------
(* RemoveConnection *)

TryRemove(m) ==
    /\ remover[m].pc = "idle"
    /\ \/ /\ disposed \/ transport = "none"
          /\ remover' = [remover EXCEPT ![m].pc = "rejected"]
          /\ UNCHANGED <<dict, removed>>
       \/ /\ ~disposed /\ transport # "none"
          /\ \E r \in Runtimes :
               IF dict[r] = None
               THEN /\ remover' = [remover EXCEPT ![m].pc = "done"]
                    /\ UNCHANGED <<dict, removed>>
               ELSE /\ remover' = [remover EXCEPT ![m].pc = "dispose",
                                                  ![m].coll = dict[r]]
                    /\ dict' = [dict EXCEPT ![r] = None]
                    /\ removed' = [removed EXCEPT ![r] = @ + 1]
    /\ UNCHANGED <<world, st, backlog, transport, loop, coll, infos, call,
                   closing, latest, announced>>

DisposeRemoved(m) ==
    /\ remover[m].pc = "dispose"
    /\ DisposeCollection(remover[m].coll)
    /\ remover' = [remover EXCEPT ![m].pc = "done", ![m].coll = None]
    /\ UNCHANGED <<world, backlog, transport, loop, dict, infos, closing,
                   history>>

-----------------------------------------------------------------------------
(* DisposeAsync *)

\* _transport.Dispose(): connections that were not accepted are reset.
DisposeTransport ==
    /\ MayDispose
    /\ disposal = "idle"
    /\ transport' = IF transport = "none" THEN "none" ELSE "closed"
    /\ st' = Close(Range(backlog))
    /\ backlog' = <<>>
    /\ disposal' = "cancel"
    /\ UNCHANGED <<world, loop, dict, coll, infos, call, remover, cancelled,
                   disposed, snapshot, history>>

\* A mutant of Cancel: _disposalSource is not cancelled.
CancelMissing ==
    /\ disposal = "cancel"
    /\ disposal' = "await"
    /\ UNCHANGED <<world, st, backlog, transport, loop, dict, coll, infos,
                   call, remover, cancelled, disposed, snapshot, history>>

\* _disposalSource.Cancel()

Cancel ==
    /\ disposal = "cancel"
    /\ cancelled' = TRUE
    /\ disposal' = "await"
    /\ UNCHANGED <<world, st, backlog, transport, loop, dict, coll, infos,
                   call, remover, disposed, snapshot, history>>

\* await _acceptTransportTask, then _endpointInfos.Dispose().
DisposeInfos ==
    /\ disposal = "await"
    /\ loop.pc \in {"unstarted", "stopped"}
    /\ infos' = Gone
    /\ call' = [c \in Calls |->
                  IF c \in Range(infos.waiters)
                  THEN [call[c] EXCEPT !.pc = "rejected"]
                  ELSE call[c]]
    /\ disposal' = "values"
    /\ UNCHANGED <<world, st, backlog, transport, loop, dict, coll, remover,
                   cancelled, disposed, snapshot, history>>

\* _streamCollections.Values is a copy.
TakeValues ==
    /\ disposal = "values"
    /\ snapshot' = Range(dict) \ {None}
    /\ disposal' = "collections"
    /\ UNCHANGED <<world, st, backlog, transport, loop, dict, coll, infos,
                   call, remover, cancelled, disposed, history>>

DisposeNext ==
    /\ disposal = "collections"
    /\ \E k \in snapshot :
        /\ DisposeCollection(k)
        /\ snapshot' = snapshot \ {k}
    /\ UNCHANGED <<world, backlog, transport, loop, dict, infos, remover,
                   cancelled, disposed, disposal, history>>

ClearDictionary ==
    /\ disposal = "collections"
    /\ snapshot = {}
    /\ dict' = [r \in Runtimes |-> None]
    /\ disposal' = "flag"
    /\ UNCHANGED <<world, st, backlog, transport, loop, coll, infos, call,
                   remover, cancelled, disposed, snapshot, history>>

SetDisposed ==
    /\ disposal = "flag"
    /\ disposed' = TRUE
    /\ disposal' = "done"
    /\ UNCHANGED <<world, st, backlog, transport, loop, dict, coll, infos,
                   call, remover, cancelled, snapshot, history>>

-----------------------------------------------------------------------------

RuntimeStep(r) == RuntimeConnect(r) \/ RuntimeMovesOn(r)

LoopStep ==
    \/ AcceptStream \/ AcceptStop \/ ParseFails \/ FindCollection
    \/ CollectionWasDisposed \/ ClearItems \/ AddStream \/ Announce

CallStep(c) == GetStreams(c) \/ HandleInfo(c) \/ HandleStream(c)

DisposalStep ==
    \/ Cancel \/ DisposeInfos \/ TakeValues \/ DisposeNext
    \/ ClearDictionary \/ SetDisposed

Next ==
    \/ \E r \in Runtimes : RuntimeStep(r) \/ RuntimeDrops(r)
    \/ Start
    \/ LoopStep
    \/ \E c \in Calls : \/ CallBegin(c) \/ CallStep(c)
                       \/ CallExpires(c) \/ ClientCloses(c)
    \/ \E m \in Removers : TryRemove(m) \/ DisposeRemoved(m)
    \/ DisposeTransport
    \/ DisposalStep

\* Tasks and threads that have work run, but a client may keep a stream for as
\* long as it likes.  A runtime that is free to connect does, as the IPC
\* protocol demands of it.  SF: the advertise data of a runtime does not fail
\* to parse for ever.
Fairness ==
    /\ \A r \in Runtimes : WF_vars(RuntimeStep(r))
    /\ WF_vars(LoopStep)
    /\ SF_vars(FindCollection)
    /\ \A c \in Calls : WF_vars(CallStep(c))
    /\ \A m \in Removers : WF_vars(DisposeRemoved(m))
    /\ WF_vars(DisposalStep)

Spec == Init /\ [][Next]_vars /\ Fairness
-----------------------------------------------------------------------------
(* Properties *)

\* The variables have their types.
TypeOK ==
    /\ conn \in [Runtimes -> Streams \cup {None}]
    /\ owner \in [Streams -> Runtimes \cup {None}]
    /\ alive \in [Streams -> BOOLEAN]
    /\ st \in [Streams -> {"backlog", "accepted", "held", "lost", "closed"}]
    /\ backlog \in Seq(Streams)
    /\ transport \in {"none", "open", "closed"}
    /\ loop \in [pc : {"unstarted", "accept", "parse", "clear", "add",
                       "announce", "stopped"},
                 stream : Streams \cup {None}, coll : Collections \cup {None},
                 new : BOOLEAN]
    /\ dict \in [Runtimes -> Collections \cup {None}]
    /\ coll \in [Collections -> [items : Seq(Streams), waiters : Seq(Calls),
                                 disposed : BOOLEAN]]
    /\ infos \in [items : Seq(Runtimes), waiters : Seq(Calls),
                  disposed : BOOLEAN]
    /\ call \in [Calls -> [pc : {"idle", "verified", "handle", "waiting", "done",
                                 "expired", "rejected"},
                           kind : {"accept", "connect", "wait"},
                           rt : Runtimes \cup {None},
                           coll : Collections \cup {None},
                           got : Streams \cup {None}]]
    /\ remover \in [Removers -> [pc : {"idle", "dispose", "done", "rejected"},
                                 coll : Collections \cup {None}]]
    /\ cancelled \in BOOLEAN /\ disposed \in BOOLEAN
    /\ disposal \in {"idle", "cancel", "await", "values", "collections", "flag",
                     "done"}
    /\ snapshot \in SUBSET Collections
    /\ latest \in [Runtimes -> Streams \cup {None}]
    /\ announced \in [Runtimes -> Nat]
    /\ removed \in [Runtimes -> Nat]

\* The collections that somebody will still hand streams from, or dispose.
Reachable ==
    {k \in Collections :
        \/ k \in Range(dict) \cup snapshot
        \/ \E m \in Removers : remover[m].coll = k
        \/ loop.coll = k}

Stored(s) == {k \in Collections : s \in Range(coll[k].items)}

\* Every accepted stream that no client has is in the hands of the accept
\* loop, or is stored once, in a collection that is in use: none is left open
\* where no operation can reach it, whatever RemoveConnection and
\* DisposeAsync do between the steps of the accept loop.
NoStreamLeaks ==
    \A s \in Streams :
        IF st[s] = "accepted"
        THEN \/ /\ loop.stream = s /\ loop.pc \in {"parse", "clear", "add"}
                /\ Stored(s) = {}
             \/ \E k \in Reachable : Stored(s) = {k} /\ ~coll[k].disposed
        ELSE Stored(s) = {}

\* A collection stores at most the newest stream of its runtime: a client
\* never connects to a stream that the runtime has already replaced.
OnlyNewestStored ==
    \A r \in Runtimes :
        dict[r] # None =>
            /\ Len(coll[dict[r]].items) <= 1
            /\ Range(coll[dict[r]].items) \subseteq {latest[r]}

\* A runtime is announced at most once, until it is removed: its reconnects
\* give no new endpoint infos, even when they race with RemoveConnection.
AnnouncedOnce == \A r \in Runtimes : announced[r] <= removed[r] + 1

\* No two clients talk on the same stream.
OneClientPerStream ==
    \A s \in Streams :
        Cardinality({c \in Calls : call[c].got = s})
            = (IF st[s] = "held" THEN 1 ELSE 0)

\* DisposeAsync waits for the accept loop before it disposes what the loop
\* uses, so that the loop never finds _endpointInfos disposed; once the server
\* is disposed nothing is stored, but for what RemoveConnection is disposing.
DisposedServerIsQuiet ==
    /\ infos.disposed => loop.pc \in {"unstarted", "stopped"}
    /\ disposed =>
         \A s \in Streams :
            \/ st[s] \in {"held", "lost", "closed"}
            \/ \E m \in Removers : Stored(s) = {remover[m].coll}

\* A caller that was given a collection is in its list as long as it waits,
\* and the collection is not disposed: no Connect is left behind in a
\* collection that RemoveConnection has disposed.
WaitersAreListed ==
    \A c \in Calls : call[c].pc = "waiting" =>
        IF call[c].kind = "accept"
        THEN c \in Range(infos.waiters)
        ELSE /\ c \in Range(coll[call[c].coll].waiters)
             /\ ~coll[call[c].coll].disposed

\* DisposeAsync ends: the accept loop it waits for always stops.
DisposeEnds == disposal = "cancel" ~> disposed

\* Runtimes stop dropping their connections.
SteadyRuntimes == <>[][\A s \in Streams : alive[s] => alive'[s]]_vars

\* A client that connects to a runtime gets a stream, expires, or fails, also
\* when the runtime is removed in the meantime.  One exception is a disposal
\* that begins before it is served: a call that verified the server before it was
\* disposed may create a collection that nobody will dispose.  The other
\* is a runtime whose connection was lost to a call that expired: nobody uses
\* it and nobody closes it, so the runtime does not connect again.
ConnectEnds ==
    SteadyRuntimes =>
      \A c \in Calls :
        call[c].kind = "connect" /\ call[c].pc = "waiting"
            ~> \/ call[c].pc # "waiting"
               \/ disposal # "idle"
               \/ \E s \in Streams : st[s] = "lost" /\ owner[s] = call[c].rt

\* No two clients share a stream, no caller waits where nobody looks, and a
\* disposed server stores nothing, whatever happens in between.
CallsAreSound ==
    TypeOK /\ OneClientPerStream /\ DisposedServerIsQuiet /\ WaitersAreListed
=============================================================================
