--------------------------- MODULE WebSocketQueue ---------------------------
(***************************************************************************)
(* WebSocketServerImpl (WebSocketServerImpl.cs): the web server runs one   *)
(* handler for every web socket that a browser opens; the router accepts   *)
(* the connections.  They meet in Queue<Conn>, a queue of one element made *)
(* of three semaphores: _empty and _full count the free and the used slot, *)
(* _objLock guards the slot.                                               *)
(*                                                                         *)
(* Enqueue and Dequeue mirror each other: each awaits its own semaphore,   *)
(* awaits the lock, uses the slot, releases the lock and then the other    *)
(* semaphore.  The two awaits observe the caller's token.  The waiters of  *)
(* a SemaphoreSlim are served one at a time; here in any order.            *)
(***************************************************************************)
EXTENDS Naturals, FiniteSets

CONSTANTS Conns,     \* web sockets, each with its handler
          Accepters, \* callers of AcceptConnection, one call after another
          NoConn     \* default(Conn)

ASSUME ConnsAssumption ==
    /\ Conns \cap Accepters = {}
    /\ NoConn \notin Conns
    /\ {"empty", "full"} \cap (Conns \cup Accepters) = {}

VARIABLES
    obj,       \* _obj
    empty,     \* the count of _empty
    full,      \* the count of _full
    objLock,   \* the count of _objLock
    pc,        \* where each call is
    cancelled, \* the calls whose token is cancelled
    got,       \* the local t of Dequeue
    inUse,     \* the connections whose stream AcceptConnection has returned
    closed     \* the connections whose stream was disposed

queueVars == <<obj, empty, full, objLock, pc, cancelled, got, inUse, closed>>

Calls == Conns \cup Accepters

QueueInit ==
    /\ obj = NoConn
    /\ empty = 1
    /\ full = 0
    /\ objLock = 1
    /\ pc = [c \in Calls |-> "idle"]
    /\ cancelled = {}
    /\ got = [a \in Accepters |-> NoConn]
    /\ inUse = {}
    /\ closed = {}

-----------------------------------------------------------------------------

\* HandleWebSocket enters Enqueue; AcceptConnection enters Dequeue, once more
\* if the last call was cancelled.
Enter(c) ==
    /\ \/ pc[c] = "idle"
       \/ c \in Accepters /\ pc[c] = "cancelled"
    /\ pc' = [pc EXCEPT ![c] = "reserve"]
    /\ cancelled' = cancelled \ {c}
    /\ UNCHANGED <<obj, empty, full, objLock, got, inUse, closed>>

\* The request is aborted, or the router gives up.
CancelCall(c) ==
    /\ pc[c] \notin {"idle", "done", "cancelled", "dropped"}
    /\ c \notin cancelled
    /\ cancelled' = cancelled \cup {c}
    /\ UNCHANGED <<obj, empty, full, objLock, pc, got, inUse, closed>>

\* A mutant of Reserve: Enqueue does not await _empty.
ReserveUnawaited(c) ==
    /\ pc[c] = "reserve"
    /\ c \notin cancelled
    /\ \/ c \in Conns /\ UNCHANGED <<empty, full>>
       \/ c \in Accepters /\ full > 0 /\ full' = full - 1 /\ UNCHANGED empty
    /\ pc' = [pc EXCEPT ![c] = "lock"]
    /\ UNCHANGED <<obj, objLock, cancelled, got, inUse, closed>>

\* await _empty.WaitAsync(token), or _full
Reserve(c) ==
    /\ pc[c] = "reserve"
    /\ c \notin cancelled
    /\ \/ c \in Conns /\ empty > 0 /\ empty' = empty - 1 /\ UNCHANGED full
       \/ c \in Accepters /\ full > 0 /\ full' = full - 1 /\ UNCHANGED empty
    /\ pc' = [pc EXCEPT ![c] = "lock"]
    /\ UNCHANGED <<obj, objLock, cancelled, got, inUse, closed>>

\* await _objLock.WaitAsync(token); locked = true
LockObj(c) ==
    /\ pc[c] = "lock"
    /\ c \notin cancelled
    /\ objLock > 0
    /\ objLock' = objLock - 1
    /\ pc' = [pc EXCEPT ![c] = "use"]
    /\ UNCHANGED <<obj, empty, full, cancelled, got, inUse, closed>>

\* OperationCanceledException out of an await.  The finally block does nothing
\* unless the lock was taken: a call that waits for the lock does not give
\* back what it reserved.
WaitCancelled(c) ==
    /\ c \in cancelled
    /\ \/ pc[c] = "reserve" /\ pc' = [pc EXCEPT ![c] = "cancelled"]
       \/ pc[c] = "lock"    /\ pc' = [pc EXCEPT ![c] = "dropped"]
    /\ UNCHANGED <<obj, empty, full, objLock, cancelled, got, inUse, closed>>

\* _obj = t
Store(p) ==
    /\ pc[p] = "use"
    /\ obj' = p
    /\ pc' = [pc EXCEPT ![p] = "unlock"]
    /\ UNCHANGED <<empty, full, objLock, cancelled, got, inUse, closed>>

\* t = _obj; _obj = default
Take(a) ==
    /\ pc[a] = "use"
    /\ got' = [got EXCEPT ![a] = obj]
    /\ obj' = NoConn
    /\ pc' = [pc EXCEPT ![a] = "unlock"]
    /\ UNCHANGED <<empty, full, objLock, cancelled, inUse, closed>>

\* _objLock.Release()
UnlockObj(c) ==
    /\ pc[c] = "unlock"
    /\ objLock' = objLock + 1
    /\ pc' = [pc EXCEPT ![c] = "signal"]
    /\ UNCHANGED <<obj, empty, full, cancelled, got, inUse, closed>>

\* _full.Release(), or _empty.  AcceptConnection returns the stream.
Signal(c) ==
    /\ pc[c] = "signal"
    /\ \/ /\ c \in Conns
          /\ full' = full + 1
          /\ pc' = [pc EXCEPT ![c] = "enqueued"]
          /\ UNCHANGED <<empty, got, inUse>>
       \/ /\ c \in Accepters
          /\ empty' = empty + 1
          /\ pc' = [pc EXCEPT ![c] = "idle"]
          /\ got' = [got EXCEPT ![c] = NoConn]
          /\ inUse' = inUse \cup {got[c]}
          /\ UNCHANGED full
    /\ UNCHANGED <<obj, objLock, cancelled, closed>>

\* The user of the stream disposes it, whenever it likes: OnStreamDispose.
DisposeStream(p) ==
    /\ p \in inUse
    /\ inUse' = inUse \ {p}
    /\ closed' = closed \cup {p}
    /\ UNCHANGED <<obj, empty, full, objLock, pc, cancelled, got>>

\* A mutant of HandlerReturns: a handler that was cancelled meanwhile is not
\* completed.
HandlerReturnsUncancelled(p) ==
    /\ pc[p] = "enqueued"
    /\ p \in closed \ cancelled
    /\ pc' = [pc EXCEPT ![p] = "done"]
    /\ UNCHANGED <<obj, empty, full, objLock, cancelled, got, inUse, closed>>

\* await streamDisposedTCS.Task: the token does not end this wait.
HandlerReturns(p) ==
    /\ pc[p] = "enqueued"
    /\ p \in closed
    /\ pc' = [pc EXCEPT ![p] = "done"]
    /\ UNCHANGED <<obj, empty, full, objLock, cancelled, got, inUse, closed>>

-----------------------------------------------------------------------------

QueueStep(c) ==
    Reserve(c) \/ LockObj(c) \/ WaitCancelled(c) \/ UnlockObj(c) \/ Signal(c)

ConnStep(p) == QueueStep(p) \/ Store(p) \/ HandlerReturns(p)
AccepterStep(a) == QueueStep(a) \/ Take(a)

QueueNext ==
    \/ \E c \in Calls : Enter(c) \/ CancelCall(c)
    \/ \E p \in Conns : ConnStep(p) \/ DisposeStream(p)
    \/ \E a \in Accepters : AccepterStep(a)

\* SF: SemaphoreSlim serves its asynchronous waiters first come, first served.
\* The router's accept loop calls AcceptConnection again and again, whatever
\* becomes of the streams it has got.
QueueFairness ==
    /\ \A p \in Conns : SF_queueVars(ConnStep(p))
    /\ \A a \in Accepters : SF_queueVars(Enter(a) \/ AccepterStep(a))

QueueSpec == QueueInit /\ [][QueueNext]_queueVars /\ QueueFairness

-----------------------------------------------------------------------------
(* Properties *)

\* Calls that hold a permit, and the one that was cancelled with it.
Transit == {c \in Calls : pc[c] \in {"lock", "use", "unlock", "signal", "dropped"}}

\* The variables have their types; Release never exceeds the maximum count of
\* a semaphore, which would throw SemaphoreFullException.
QueueTypeOK ==
    /\ obj \in Conns \cup {NoConn}
    /\ empty \in 0..1
    /\ full \in 0..1
    /\ objLock \in 0..1
    /\ pc \in [Calls -> {"idle", "reserve", "lock", "use", "unlock", "signal",
                         "enqueued", "done", "cancelled", "dropped"}]
    /\ cancelled \subseteq Calls
    /\ got \in [Accepters -> Conns \cup {NoConn}]
    /\ inUse \subseteq Conns
    /\ closed \subseteq Conns

\* There is one permit: it is in _empty, in _full, or with one call.
Permit ==
    (IF empty > 0 THEN {"empty"} ELSE {}) \cup (IF full > 0 THEN {"full"} ELSE {})
        \cup Transit

OnePermit == \E p \in {"empty", "full"} \cup Calls : Permit = {p}

\* Enqueue never overwrites a connection that nobody has taken, and Dequeue
\* never returns default.
SlotMatchesUse ==
    \A c \in Calls : pc[c] = "use" => (obj = NoConn <=> c \in Conns)

\* A connection that was enqueued is in the slot, with one accepter, in use or
\* closed, and in only one of these places.
Where(p) ==
    (IF obj = p THEN {"slot"} ELSE {}) \cup (IF p \in inUse THEN {"inUse"} ELSE {})
        \cup (IF p \in closed THEN {"closed"} ELSE {})
        \cup {a \in Accepters : got[a] = p}

ConnInOnePlace ==
    \A p \in Conns :
        IF pc[p] \in {"unlock", "signal", "enqueued", "done"}
        THEN \E w \in {"slot", "inUse", "closed"} \cup Accepters : Where(p) = {w}
        ELSE Where(p) = {}

\* From some time on no call is cancelled.
CallsStayAlive == <>[][cancelled' \subseteq cancelled]_queueVars

\* Every web socket gets to a user or gives up, however many streams stay in
\* use and whatever was cancelled elsewhere, as long as no call was cancelled
\* between its two awaits: that call takes the permit with it, and nobody is
\* served after it.  And in the end every handler whose stream was disposed has
\* returned, also when its request was aborted meanwhile.
ConnIsServed ==
    /\ CallsStayAlive => \A p \in Conns :
          pc[p] = "reserve" ~> \/ p \in inUse \cup closed
                               \/ pc[p] = "cancelled"
                               \/ \E c \in Calls : pc[c] = "dropped"
    /\ <>[](\A p \in closed : pc[p] = "done")

\* The queue of one element, whoever is cancelled: one permit, a slot that is
\* written empty and read full, and connections that are given to one accepter.
QueueIsSound == QueueTypeOK /\ OnePermit /\ SlotMatchesUse /\ ConnInOnePlace
=============================================================================
