---------------------------- MODULE RouterProofs ----------------------------
(***************************************************************************)
(* Proofs about Router and the two ways in which connections reach a       *)
(* server: ServerTransport, for any number of listeners and accepts and    *)
(* every kind of transport; WebSocketQueue, for any number of web sockets, *)
(* of callers of AcceptConnection and of cancellations; and Router, for    *)
(* any numbers of runtimes, streams and routers.                           *)
(***************************************************************************)
EXTENDS Router, ServerTransport, WebSocketQueue, TLAPS

(***************************************************************************)
(* ServerTransport: the inductive invariant.                               *)
(***************************************************************************)

\* Only the listener in the field listens, unless the port is free to choose,
\* and not while the pipe in it is a connection about to be replaced.
FieldInv ==
    /\ AnyPort \/ \A l \in Open : l = current
    /\ listener[current] # "unborn"
    /\ accept = "replace" => current \notin Open

\* Pipes that were handed out have left the field for good.
HandedInv ==
    /\ current \notin handed
    /\ \A l \in handed : listener[l] # "unborn"

\* Dispose cancels, frees and marks after it has begun.
DisposeInv ==
    /\ dispose = "idle" => source = "active" /\ ~disposed
    /\ dispose \in {"close", "free", "flag", "done"} => source # "active"

\* What a call finds when it begins holds until it waits; from then on only
\* cancellation closes the listener, and the catch block ends the call with
\* that or goes on to recreate.
ListenInv ==
    dispose = "idle" =>
        /\ accept \in {"idle", "link"} =>
              \/ current \in Open
              \/ refused
              \/ ClosesOnCancel /\ result = "cancelled"
        /\ accept \in {"wait", "catch"} =>
              current \in Open \/ refused \/ ClosesOnCancel

ListenerInv ==
    /\ TransportTypeOK /\ FieldInv /\ HandedInv
    /\ DisposeInv /\ DeafAfterDispose /\ ListenInv

-----------------------------------------------------------------------------

\* The constructor's listener is the only one.
LEMMA ListenerInitInv == TransportInit => ListenerInv
BY TransportAssumption DEF TransportInit, ListenerInv, TransportTypeOK, FieldInv,
    HandedInv, DisposeInv, DeafAfterDispose, ListenInv, Open,
    ClosesOnCancel, Creating

\* The steps of AcceptAsync that create no listener.
LEMMA ListenerAcceptInv ==
    ASSUME ListenerInv, AcceptBegin \/ AcceptLink \/ Connected \/ WaitThrows
                \/ ReplaceThrows \/ Catch \/ RecreateThrows \/ CancelToken
    PROVE  ListenerInv'
<1> USE TransportAssumption
    DEF ListenerInv, Open, LinkedCancelled, ClosesOnCancel, AnyPort,
        creationHistory, IsPipe, AcceptEnds,
        CloseWaiting, Closed, AcceptBegin, AcceptLink, Connected, WaitThrows,
        ReplaceThrows, Catch, RecreateThrows, CancelToken
<1>1. TransportTypeOK'
  <2>1. /\ listener' \in [Listeners -> {"unborn", "open", "taken", "closed"}]
        /\ accept' \in {"idle", "link", "wait", "replace", "catch", "recreate"}
        /\ result' \in {"none", "stream", "failed", "cancelled", "rejected"}
    BY DEF TransportTypeOK
  <2>2. callToken' \in BOOLEAN /\ refused' \in BOOLEAN /\ raced' \in BOOLEAN
    BY DEF TransportTypeOK
  <2> QED
    BY <2>1, <2>2 DEF TransportTypeOK
<1>2. FieldInv'
  BY DEF TransportTypeOK, FieldInv
<1>3. HandedInv'
  BY DEF TransportTypeOK, HandedInv
<1>4. DisposeInv'
  BY DEF TransportTypeOK, DisposeInv
<1>6. DeafAfterDispose'
  BY DEF TransportTypeOK, DisposeInv, DeafAfterDispose, Creating
<1>5. ListenInv'
  BY DEF TransportTypeOK, FieldInv, DisposeInv, ListenInv
<1> QED
  BY <1>1, <1>2, <1>3, <1>4, <1>5, <1>6

\* The two that create one: it is new, and the old one no longer listens.
LEMMA ListenerCreateInv == ASSUME ListenerInv, Replace \/ Recreate PROVE ListenerInv'
<1> USE DEF ListenerInv, Open, Unborn, IsPipe, AnyPort, AcceptEnds, Closed,
        Replace, Recreate
<1>1. TransportTypeOK'
  BY DEF TransportTypeOK
<1>2. FieldInv'
  BY DEF TransportTypeOK, FieldInv
<1>3. HandedInv'
  BY DEF TransportTypeOK, FieldInv, HandedInv
<1>4. DisposeInv'
  BY DEF TransportTypeOK, DisposeInv
<1>6. DeafAfterDispose'
  BY DEF TransportTypeOK, DisposeInv, DeafAfterDispose, Creating
<1>5. ListenInv'
  BY DEF TransportTypeOK, ListenInv
<1> QED
  BY <1>1, <1>2, <1>3, <1>4, <1>5, <1>6

\* Dispose touches only the listener in the field.
LEMMA ListenerDisposeInv ==
    ASSUME ListenerInv, DisposeBegin \/ DisposeStep PROVE ListenerInv'
<1> USE DEF ListenerInv, Open, ClosesOnCancel, AnyPort, creationHistory,
        CloseWaiting, DisposeBegin, DisposeStep, DisposeCancels, DisposeCloses,
        DisposeFrees, DisposeEnds
<1>1. TransportTypeOK'
  <2>1. raced' \in BOOLEAN
    <3>1. raced' = raced \/ raced' = Creating
      OBVIOUS
    <3>2. Creating \in BOOLEAN
      BY DEF Creating
    <3> QED
      BY <3>1, <3>2 DEF TransportTypeOK
  <2> QED
    BY <2>1 DEF TransportTypeOK
<1>2. FieldInv'
  BY DEF TransportTypeOK, FieldInv
<1>3. HandedInv'
  BY DEF TransportTypeOK, HandedInv
<1>4. DisposeInv'
  BY DEF TransportTypeOK, DisposeInv
<1>6. DeafAfterDispose'
  BY DEF TransportTypeOK, DisposeInv, DeafAfterDispose, Creating
<1>5. ListenInv'
  BY DEF TransportTypeOK, DisposeInv, ListenInv
<1> QED
  BY <1>1, <1>2, <1>3, <1>4, <1>5, <1>6

\* Every step of the specification preserves the invariant.
LEMMA ListenerNextInv == ListenerInv /\ [TransportNext]_transportVars => ListenerInv'
<1> SUFFICES ASSUME ListenerInv, [TransportNext]_transportVars PROVE ListenerInv'
  OBVIOUS
<1>1. CASE UNCHANGED transportVars
  BY <1>1 DEF transportVars, ListenerInv, TransportTypeOK, FieldInv, HandedInv,
      DisposeInv, DeafAfterDispose, Creating, ListenInv, Open,
      ClosesOnCancel, AnyPort, creationHistory
<1> QED
  BY <1>1, ListenerAcceptInv, ListenerCreateInv, ListenerDisposeInv DEF
      TransportNext, AcceptStep

\* The invariant holds in every reachable state.
LEMMA ListenerInvariance == TransportSpec => []ListenerInv
BY ListenerInitInv, ListenerNextInv, PTL DEF TransportSpec

-----------------------------------------------------------------------------

\* There is one listener at most, between calls one at least unless it was
\* refused or closed by a cancellation, and none after Dispose unless Dispose
\* met a call that was creating one, whatever fails in AcceptAsync.
THEOREM ListenerSound == TransportSpec => []ListenerIsSound
<1>1. ListenerInv => ListenerIsSound
  BY DEF ListenerInv, FieldInv, DeafAfterDispose, ListenInv, ListenerIsSound, OneListener,
      ListensBetweenCalls
<1> QED
  BY <1>1, ListenerInvariance, PTL

\* No retry and no Dispose closes a pipe that was returned as a connection.
THEOREM KeepsConnections == TransportSpec => ConnectionsAreKept
<1>1. ListenerInv /\ [TransportNext]_transportVars
          => [\A l \in handed :
                 listener[l] = "taken" => listener'[l] = "taken"]_transportVars
  BY DEF ListenerInv, TransportTypeOK, HandedInv, TransportNext, AcceptStep,
      DisposeStep, transportVars, AcceptBegin, AcceptLink, Connected, WaitThrows,
      Replace, ReplaceThrows, Catch, Recreate, RecreateThrows, CancelToken,
      DisposeBegin, DisposeCancels, DisposeCloses, DisposeFrees, DisposeEnds,
      CloseWaiting, Closed, Unborn
<1> QED
  BY <1>1, ListenerInvariance, PTL DEF TransportSpec, ConnectionsAreKept

-----------------------------------------------------------------------------
(***************************************************************************)
(* WebSocketQueue: the inductive invariant.                                *)
(***************************************************************************)

\* The permit, as facts about pairs of places.
PermitInv ==
    /\ empty > 0 => full = 0 /\ Transit = {}
    /\ full > 0 => Transit = {}
    /\ empty = 0 /\ full = 0 => Transit # {}
    /\ \A c, d \in Transit : c = d

\* The slot is full when the permit is in _full, and during the second half of
\* Enqueue and the first half of Dequeue; a call that was cancelled left it as
\* it was.
SlotInv ==
    /\ empty > 0 => obj = NoConn
    /\ full > 0 => obj # NoConn
    /\ \A p \in Conns :
          /\ pc[p] \in {"lock", "use", "dropped"} => obj = NoConn
          /\ pc[p] \in {"unlock", "signal"} => obj = p
    /\ \A a \in Accepters :
          /\ pc[a] \in {"lock", "use", "dropped"} => obj # NoConn
          /\ pc[a] \in {"unlock", "signal"} => obj = NoConn

\* A connection is in the slot, with an accepter, in use or closed, once it was
\* stored.
Enqueued(p) == pc[p] \in {"unlock", "signal", "enqueued", "done"}

PlaceInv ==
    /\ \A p \in Conns :
          Enqueued(p) <=> \/ obj = p \/ p \in inUse \cup closed
                          \/ \E a \in Accepters : got[a] = p
    /\ \A p \in Conns : obj = p => p \notin inUse \cup closed
    /\ \A p \in Conns : p \notin inUse \cap closed
    /\ \A a \in Accepters :
          /\ got[a] # NoConn => obj # got[a] /\ got[a] \notin inUse \cup closed
          /\ got[a] # NoConn <=> pc[a] \in {"unlock", "signal"}
    /\ \A a, b \in Accepters : got[a] = got[b] /\ got[a] # NoConn => a = b

\* Who uses the slot holds the lock.
MutexInv == \A c \in Calls : pc[c] \in {"use", "unlock"} => objLock = 0

QueueInv ==
    /\ QueueTypeOK
    /\ MutexInv
    /\ PermitInv
    /\ SlotInv
    /\ PlaceInv

-----------------------------------------------------------------------------

\* The constructor of Queue<T> leaves the permit in _empty.
LEMMA QueueInitInv == QueueInit => QueueInv
BY ConnsAssumption DEF QueueInit, QueueInv, QueueTypeOK, MutexInv, PermitInv,
    SlotInv, PlaceInv, Enqueued, Transit, Calls

\* Entering a call and cancelling it change nothing in the queue.
LEMMA EnterInv ==
    ASSUME QueueInv, NEW c \in Calls, Enter(c) \/ CancelCall(c) PROVE QueueInv'
<1> USE ConnsAssumption DEF QueueInv, QueueTypeOK, Calls, Enter, CancelCall
<1>1. QueueTypeOK'
  OBVIOUS
<1>a. MutexInv'
  BY DEF MutexInv, PermitInv, Transit
<1>2. PermitInv'
  BY DEF PermitInv, Transit
<1>3. SlotInv'
  BY DEF SlotInv
<1>4. PlaceInv'
  BY DEF PlaceInv, Enqueued
<1> QED
  BY <1>1, <1>a, <1>2, <1>3, <1>4 DEF QueueInv

\* Reserving takes the permit out of the semaphore.
LEMMA ReserveInv == ASSUME QueueInv, NEW c \in Calls, Reserve(c) PROVE QueueInv'
<1> USE ConnsAssumption DEF QueueInv, QueueTypeOK, Calls, Reserve
<1>1. QueueTypeOK'
  OBVIOUS
<1>a. MutexInv'
  BY DEF MutexInv, PermitInv, Transit
<1>2. PermitInv'
  BY DEF PermitInv, Transit
<1>3. SlotInv'
  BY DEF SlotInv
<1>4. PlaceInv'
  BY DEF PlaceInv, Enqueued
<1> QED
  BY <1>1, <1>a, <1>2, <1>3, <1>4 DEF QueueInv

\* Taking the lock, and failing to, keep the permit with the call.
LEMMA LockInv ==
    ASSUME QueueInv, NEW c \in Calls, LockObj(c) \/ WaitCancelled(c) PROVE QueueInv'
<1> USE ConnsAssumption DEF QueueInv, QueueTypeOK, Calls, LockObj, WaitCancelled
<1>1. QueueTypeOK'
  OBVIOUS
<1>a. MutexInv'
  BY DEF MutexInv, PermitInv, Transit
<1>2. PermitInv'
  BY DEF PermitInv, Transit
<1>3. SlotInv'
  BY DEF SlotInv
<1>4. PlaceInv'
  BY DEF PlaceInv, Enqueued
<1> QED
  BY <1>1, <1>a, <1>2, <1>3, <1>4 DEF QueueInv

\* Enqueue writes the slot.
LEMMA StoreInv == ASSUME QueueInv, NEW p \in Conns, Store(p) PROVE QueueInv'
<1> USE ConnsAssumption DEF QueueInv, QueueTypeOK, Calls, Store
<1>1. QueueTypeOK'
  OBVIOUS
<1>a. MutexInv'
  BY DEF MutexInv, PermitInv, Transit
<1>2. PermitInv'
  BY DEF PermitInv, Transit
<1>3. SlotInv'
  BY DEF SlotInv, PermitInv, Transit
<1>4. PlaceInv'
  BY DEF PlaceInv, Enqueued, SlotInv
<1> QED
  BY <1>1, <1>a, <1>2, <1>3, <1>4 DEF QueueInv

\* Dequeue empties the slot.
LEMMA TakeInv == ASSUME QueueInv, NEW a \in Accepters, Take(a) PROVE QueueInv'
<1> USE ConnsAssumption DEF QueueInv, QueueTypeOK, Calls, Take
<1>1. QueueTypeOK'
  OBVIOUS
<1>a. MutexInv'
  BY DEF MutexInv, PermitInv, Transit
<1>2. PermitInv'
  BY DEF PermitInv, Transit
<1>3. SlotInv'
  BY DEF SlotInv, PermitInv, Transit
<1>4. PlaceInv'
  BY DEF PlaceInv, Enqueued, SlotInv
<1> QED
  BY <1>1, <1>a, <1>2, <1>3, <1>4 DEF QueueInv

\* Releasing the lock changes nothing else.
LEMMA UnlockInv == ASSUME QueueInv, NEW c \in Calls, UnlockObj(c) PROVE QueueInv'
<1> USE ConnsAssumption DEF QueueInv, QueueTypeOK, Calls, UnlockObj
<1>1. QueueTypeOK'
  BY DEF MutexInv
<1>a. MutexInv'
  BY DEF MutexInv, PermitInv, Transit
<1>2. PermitInv'
  BY DEF PermitInv, Transit
<1>3. SlotInv'
  BY DEF SlotInv
<1>4. PlaceInv'
  BY DEF PlaceInv, Enqueued
<1> QED
  BY <1>1, <1>a, <1>2, <1>3, <1>4 DEF QueueInv

\* The permit goes into the other semaphore.
LEMMA SignalInv == ASSUME QueueInv, NEW c \in Calls, Signal(c) PROVE QueueInv'
<1> USE ConnsAssumption DEF QueueInv, QueueTypeOK, Calls
<1>0. c \in Transit /\ empty = 0 /\ full = 0
  BY DEF PermitInv, Transit, Signal
<1>c. CASE c \in Conns
  <2>u. /\ pc[c] = "signal" /\ full' = 1 /\ pc' = [pc EXCEPT ![c] = "enqueued"]
        /\ UNCHANGED <<obj, empty, objLock, cancelled, got, inUse, closed>>
    BY <1>0, <1>c DEF Signal
  <2>1. QueueTypeOK'
    BY <2>u
  <2>a. MutexInv'
    BY <2>u DEF MutexInv
  <2>2. PermitInv'
    BY <1>0, <2>u DEF PermitInv, Transit
  <2>3. SlotInv'
    BY <1>0, <1>c, <2>u DEF SlotInv
  <2>4. PlaceInv'
    BY <1>c, <2>u DEF PlaceInv, Enqueued
  <2> QED
    BY <2>1, <2>a, <2>2, <2>3, <2>4 DEF QueueInv
<1>d. CASE c \in Accepters
  <2>u. /\ pc[c] = "signal" /\ empty' = 1 /\ pc' = [pc EXCEPT ![c] = "idle"]
        /\ got' = [got EXCEPT ![c] = NoConn] /\ inUse' = inUse \cup {got[c]}
        /\ UNCHANGED <<obj, full, objLock, cancelled, closed>>
    BY <1>0, <1>d DEF Signal
  <2>g. got[c] \in Conns
    BY <1>d, <2>u DEF PlaceInv
  <2>1. QueueTypeOK'
    <3>1. got' \in [Accepters -> Conns \cup {NoConn}]
      BY <1>d, <2>u
    <3>2. inUse' \subseteq Conns
      BY <2>u, <2>g
    <3> QED
      BY <2>u, <3>1, <3>2
  <2>a. MutexInv'
    BY <2>u DEF MutexInv
  <2>2. PermitInv'
    BY <1>0, <2>u DEF PermitInv, Transit
  <2>3. SlotInv'
    BY <1>0, <1>d, <2>u DEF SlotInv
  <2>4. PlaceInv'
    BY <1>d, <2>u, <2>g DEF PlaceInv, Enqueued
  <2> QED
    BY <2>1, <2>a, <2>2, <2>3, <2>4 DEF QueueInv
<1> QED
  BY <1>c, <1>d

\* The stream is disposed, or the handler returns.
LEMMA CloseInv ==
    ASSUME QueueInv,
           \E p \in Conns : DisposeStream(p) \/ HandlerReturns(p)
    PROVE  QueueInv'
<1> USE ConnsAssumption DEF QueueInv, QueueTypeOK, Calls, DisposeStream,
        HandlerReturns
<1>1. QueueTypeOK'
  BY DEF PlaceInv
<1>a. MutexInv'
  BY DEF MutexInv, PermitInv, Transit
<1>2. PermitInv'
  BY DEF PermitInv, Transit
<1>3. SlotInv'
  BY DEF SlotInv
<1>4. PlaceInv'
  BY DEF PlaceInv, Enqueued
<1> QED
  BY <1>1, <1>a, <1>2, <1>3, <1>4 DEF QueueInv

\* Every step preserves the invariant.
LEMMA QueueNextInv == QueueInv /\ [QueueNext]_queueVars => QueueInv'
<1> SUFFICES ASSUME QueueInv, [QueueNext]_queueVars PROVE QueueInv'
  OBVIOUS
<1>1. ASSUME NEW c \in Calls, QueueStep(c)
      PROVE  QueueInv'
  BY <1>1, ReserveInv, LockInv, UnlockInv, SignalInv DEF QueueStep
<1>2. ASSUME NEW p \in Conns, ConnStep(p) \/ DisposeStream(p)
      PROVE  QueueInv'
  BY <1>1, <1>2, StoreInv, CloseInv DEF ConnStep, Calls
<1>3. ASSUME NEW a \in Accepters, AccepterStep(a)
      PROVE  QueueInv'
  BY <1>1, <1>3, TakeInv DEF AccepterStep, Calls
<1>4. CASE UNCHANGED queueVars
  BY <1>4 DEF queueVars, QueueInv, QueueTypeOK, MutexInv, PermitInv, Transit,
      SlotInv, PlaceInv, Enqueued
<1> QED
  BY <1>2, <1>3, <1>4, EnterInv DEF QueueNext

\* The invariant holds in every state of the queue.
LEMMA QueueInvariance == QueueSpec => []QueueInv
BY QueueInitInv, QueueNextInv, PTL DEF QueueSpec

-----------------------------------------------------------------------------
(* The theorems. *)

\* The semaphores never exceed their maximum: no Release throws.
THEOREM TypeCorrect == QueueSpec => []QueueTypeOK
<1>1. QueueInv => QueueTypeOK
  BY DEF QueueInv
<1> QED
  BY <1>1, QueueInvariance, PTL

\* The permit is never duplicated, and lost only to a cancelled call.
THEOREM PermitIsUnique == QueueSpec => []OnePermit
<1>1. QueueInv => OnePermit
  <2> SUFFICES ASSUME QueueInv
               PROVE  \E p \in {"empty", "full"} \cup Calls : Permit = {p}
    BY DEF OnePermit
  <2> USE DEF QueueInv, QueueTypeOK, PermitInv
  <2>1. CASE empty > 0
    <3>1. Permit = {"empty"}
      BY <2>1 DEF Permit
    <3> QED
      BY <3>1
  <2>2. CASE full > 0
    <3>1. Permit = {"full"}
      BY <2>2 DEF Permit
    <3> QED
      BY <3>1
  <2>3. CASE empty = 0 /\ full = 0
    <3>1. PICK c \in Transit : TRUE
      BY <2>3
    <3>2. Permit = {c} /\ c \in Calls
      BY <2>3, <3>1 DEF Permit, Transit
    <3> QED
      BY <3>2
  <2> QED
    BY <2>1, <2>2, <2>3
<1> QED
  BY <1>1, QueueInvariance, PTL

\* Enqueue never overwrites a connection, Dequeue never returns default.
THEOREM SlotIsUsedWell == QueueSpec => []SlotMatchesUse
<1>1. QueueInv => SlotMatchesUse
  BY ConnsAssumption DEF QueueInv, SlotInv, SlotMatchesUse, Calls
<1> QED
  BY <1>1, QueueInvariance, PTL

\* No connection is lost or given to two accepters.
THEOREM ConnsConserved == QueueSpec => []ConnInOnePlace
<1>1. QueueInv => ConnInOnePlace
  <2> SUFFICES ASSUME QueueInv, NEW p \in Conns
               PROVE  IF Enqueued(p)
                      THEN \E w \in {"slot", "inUse", "closed"} \cup Accepters :
                              Where(p) = {w}
                      ELSE Where(p) = {}
    BY DEF ConnInOnePlace, Enqueued
  <2> USE ConnsAssumption DEF QueueInv, PlaceInv, Where
  <2>1. CASE ~Enqueued(p)
    BY <2>1
  <2>2. CASE obj = p
    BY <2>2
  <2>3. CASE p \in inUse \cup closed
    BY <2>3
  <2>4. ASSUME NEW a \in Accepters, got[a] = p
        PROVE  Where(p) = {a}
    BY <2>4
  <2> QED
    BY <2>1, <2>2, <2>3, <2>4
<1> QED
  BY <1>1, QueueInvariance, PTL

\* The queue is sound for any number of web sockets, accepters and cancellations.
THEOREM QueueSound == QueueSpec => []QueueIsSound
BY TypeCorrect, PermitIsUnique, SlotIsUsedWell, ConnsConserved, PTL DEF QueueIsSound

-----------------------------------------------------------------------------
(***************************************************************************)
(* Router: the types of the records.                                       *)
(***************************************************************************)

CreateType ==
    [at : {"none", "any", "ipcFirst", "netFirst", "ipcAll", "netAll",
           "failing", "error", "created", "threw"},
     ex : {None, "canceled", "error", "endOfStream", "backendTimeout",
           "runtimeTimeout"}]

TaskExceptions ==
    {None, "canceled", "error", "backendTimeout", "runtimeTimeout"}

NetType ==
    [at : {"none", "accept", "connect", "ok", "failed"},
     s : NetStreams \cup {None}, ex : TaskExceptions]

IpcType ==
    [at : {"none", "accept", "ok", "failed"},
     s : IpcStreams \cup {None}, ex : {None, "canceled", "error"}]

TaskLabels == {"none", "read", "write", "completing", "ended"}

RouterType ==
    [at : {"none", "listed", "disposed", "dropped"},
     front : IpcStreams \cup {None}, back : NetStreams \cup {None},
     completed : BOOLEAN, task : [Directions -> TaskLabels]]

StateType == {"free", "waiting", "stored", "open"}

CreationTypes ==
    /\ token \in BOOLEAN /\ canceled \in BOOLEAN
    /\ loop \in {"loop", "clean", "wait", "stopping", "stopped"}
    /\ create \in CreateType /\ net \in NetType /\ ipc \in IpcType
    /\ check \in {"none", "running", "broken", "ended"}

StreamTypes ==
    /\ st \in [Streams -> StateType]
    /\ peer \in [Streams -> BOOLEAN]
    /\ from \in [NetStreams -> Runtimes \cup {None}]

ServerTypes ==
    /\ endpoint \in Runtimes \cup {None}
    /\ dead \subseteq Runtimes
    /\ announced \subseteq registered /\ registered \subseteq Runtimes
    /\ stored \in [Runtimes -> NetStreams \cup {None}]

RouterTypes == routers \in [Routers -> RouterType]

(***************************************************************************)
(* The inductive invariant.                                                *)
(***************************************************************************)

\* What a task that accepts has tells how it ended.
TaskInv ==
    /\ net.at = "ok" <=> net.s # None
    /\ ipc.at = "ok" <=> ipc.s # None
    /\ net.at = "failed" <=> net.ex # None
    /\ ipc.at = "failed" <=> ipc.ex # None
    /\ net.at = "connect" \/ net.ex = "backendTimeout" => endpoint # None

\* Which of its tasks CreateRouterAsync has and which have succeeded, at each of
\* its awaits.
CreateInv ==
    /\ create.at = "none" => net = NoTask /\ ipc = NoTask /\ check = "none"
    /\ create.at # "none" => net.at # "none" /\ ipc.at # "none"
    /\ create.at \in {"any", "failing", "error"} => check = "none"
    /\ create.at \in {"failing", "error"} =>
          net.at = "failed" \/ ipc.at = "failed"
    /\ create.at \in {"ipcFirst", "ipcAll"} =>
          ipc.at = "ok" /\ check # "none"
    /\ create.at \in {"netFirst", "netAll"} =>
          net.at = "ok" /\ check # "none"
    /\ create.at = "created" =>
          net.at = "ok" /\ ipc.at = "ok" /\ check # "running"
    /\ create.at = "threw" =>
          /\ net.at \in {"ok", "failed"} /\ ipc.at \in {"ok", "failed"}
          /\ check # "running"
    /\ create.at = "threw" <=> create.ex # None
    /\ create.ex = "backendTimeout" => net.ex = "backendTimeout"

\* The loop waits for a creation exactly while there is one.
LoopInv == loop \in {"clean", "wait"} <=> create.at # "none"

\* The runtime of the endpoint is known to the server, which does not announce
\* it again.
EndpointInv ==
    /\ endpoint \notin announced
    /\ endpoint # None /\ loop # "stopped" => endpoint \in registered

\* A stream the network server keeps came from the runtime it is kept for.
StoredInv ==
    \A r \in Runtimes :
        stored[r] # None =>
            st[stored[r]] = "stored" /\ from[stored[r]] = r

\* The streams of a creation that has not thrown are open and no router's.
CreationOwns ==
    create.at # "threw" =>
        /\ net.s # None =>
              st[net.s] = "open" /\ \A q \in Alive : routers[q].back # net.s
        /\ ipc.s # None =>
              st[ipc.s] = "open" /\ \A q \in Alive : routers[q].front # ipc.s

\* A router that was not disposed of has two open streams, ...
RoutersOwn ==
    \A q \in Alive :
        /\ routers[q].front \in IpcStreams /\ st[routers[q].front] = "open"
        /\ routers[q].back \in NetStreams /\ st[routers[q].back] = "open"

\* ... and no other has one of them.
RoutersDiffer ==
    \A q, p \in Alive :
        q # p => /\ routers[q].front # routers[p].front
                 /\ routers[q].back # routers[p].back

\* An accepted connection of a front end is with the creation or a router.
FrontsAreOwned ==
    \A s \in IpcStreams :
        st[s] = "open" =>
            \/ create.at # "threw" /\ ipc.s = s
            \/ \E q \in Alive : routers[q].front = s

\* The servers are empty after the stop, and no router is in the list.
StoppedInv ==
    loop = "stopped" =>
        /\ \A s \in Streams : st[s] \notin {"stored", "waiting"}
        /\ \A q \in Routers : routers[q].at # "listed"

Inv ==
    /\ CreationTypes /\ StreamTypes /\ ServerTypes /\ RouterTypes
    /\ TaskInv /\ CreateInv /\ LoopInv /\ EndpointInv
    /\ StoredInv /\ CreationOwns /\ RoutersOwn /\ RoutersDiffer
    /\ FrontsAreOwned /\ StoppedInv

-----------------------------------------------------------------------------
(* Streams                                                                 *)

\* What Dispose leaves of the streams it is given and of the others.
Disposed(gone) ==
    /\ \A s \in Streams \cap gone : st'[s] = "free"
    /\ \A s \in Streams \ gone : st'[s] = st[s]
    /\ \A s \in NetStreams \ gone : from'[s] = from[s]

LEMMA DisposeEffect ==
    ASSUME StreamTypes, NEW gone, Dispose(gone)
    PROVE  StreamTypes' /\ Disposed(gone)
<1>1. st' \in [Streams -> StateType]
  BY DEF Dispose, StreamTypes, StateType
<1>2. peer' \in [Streams -> BOOLEAN]
  BY Zenon DEF Dispose, StreamTypes
<1>3. from' \in [NetStreams -> Runtimes \cup {None}]
  BY DEF Dispose, StreamTypes
<1> QED
  BY <1>1, <1>2, <1>3 DEF Dispose, Disposed, StreamTypes, Streams

-----------------------------------------------------------------------------
(* Routers                                                                 *)

\* The same routers are in the list, and the same ones are alive, with the same
\* streams.
AliveKept ==
    \A q \in Routers :
        /\ routers'[q].at \in {"listed", "dropped"} <=> q \in Alive
        /\ routers'[q].at = "listed" <=> routers[q].at = "listed"
        /\ q \in Alive => /\ routers'[q].front = routers[q].front
                          /\ routers'[q].back = routers[q].back

\* RemoveAllDead, with what is disposed of.  None of the streams in `more` is
\* open.
LEMMA RemoveEffect ==
    ASSUME Inv, NEW others \in {"listed", "dropped"}, NEW more,
           \A s \in more \cap Streams : st[s] # "open",
           RemoveAllDead(others, more), UNCHANGED <<create, net, ipc>>
    PROVE  /\ StreamTypes' /\ RouterTypes' /\ CreationOwns' /\ RoutersOwn'
           /\ RoutersDiffer' /\ FrontsAreOwned'
           /\ \A s \in Streams : \/ st'[s] = st[s]
                                 \/ st'[s] = "free"
           /\ \A s \in more \cap Streams : st'[s] = "free"
           /\ \A s \in NetStreams : st[s] # "open" /\ s \notin more =>
                 st'[s] = st[s] /\ from'[s] = from[s]
           /\ \A q \in Routers : routers'[q].at = "listed" => others = "listed"
           /\ \A s \in NetStreams, q \in Alive :
                 s = routers[q].back => st'[s] = "free" \/ q \in Alive'
<1> DEFINE gone == {q \in Listed : IsRouterDead(q)}
           streamsOf == UNION {{routers[q].front, routers[q].back} : q \in gone}
<1>a. /\ routers' = [q \in Routers |->
            IF q \in gone
            THEN [routers[q] EXCEPT !.at = "disposed"]
            ELSE IF q \in Listed
            THEN [routers[q] EXCEPT !.at = others] ELSE routers[q]]
      /\ Dispose(streamsOf \cup more)
  BY DEF RemoveAllDead
<1>b. gone \subseteq Listed
  OBVIOUS
<1>c. \A s : s \in streamsOf <=>
            \E q \in gone : s = routers[q].front \/ s = routers[q].back
  OBVIOUS
<1>d. StreamTypes' /\ Disposed(streamsOf \cup more)
  BY <1>a, DisposeEffect DEF Inv
<1> HIDE DEF gone, streamsOf
<1>e. \A q \in Routers :
        /\ routers[q] \in RouterType /\ routers'[q] \in RouterType
        /\ routers'[q].front = routers[q].front
        /\ routers'[q].back = routers[q].back
        /\ routers'[q].at = IF q \in gone THEN "disposed"
                            ELSE IF routers[q].at = "listed" THEN others
                            ELSE routers[q].at
  BY <1>a DEF Inv, RouterTypes, RouterType, Listed
<1>f. RouterTypes'
  BY <1>a, <1>e DEF RouterTypes
<1>g. \A q \in Routers : q \in Alive' <=> q \in Alive /\ q \notin gone
  BY <1>b, <1>e DEF Alive, Listed
<1>h. \A q \in gone : q \in Alive
  BY <1>b DEF Listed, Alive
<1>i. \A q \in Alive : /\ routers[q].front \in Streams \ NetStreams
                       /\ routers[q].back \in NetStreams
                       /\ routers[q].front \in IpcStreams
                       /\ st[routers[q].front] = "open"
                       /\ st[routers[q].back] = "open"
  BY RouterAssumption DEF Inv, RoutersOwn, Streams
<1>j. \A q \in Alive' : /\ q \in Alive /\ q \in Routers
                        /\ routers[q].front \notin streamsOf \cup more
                        /\ routers[q].back \notin streamsOf \cup more
  <2> SUFFICES ASSUME NEW q \in Alive'
               PROVE  /\ q \in Alive /\ q \in Routers
                      /\ routers[q].front \notin streamsOf \cup more
                      /\ routers[q].back \notin streamsOf \cup more
    OBVIOUS
  <2>1. q \in Routers /\ q \in Alive /\ q \notin gone
    BY <1>g DEF Alive
  <2>2. routers[q].front \notin more /\ routers[q].back \notin more
    BY <1>i, <2>1 DEF Streams
  <2>3. routers[q].front \notin streamsOf
    BY <1>c, <1>h, <1>i, <2>1 DEF Inv, RoutersDiffer
  <2>4. routers[q].back \notin streamsOf
    BY <1>c, <1>h, <1>i, <2>1 DEF Inv, RoutersDiffer
  <2> QED
    BY <2>1, <2>2, <2>3, <2>4
<1>k. RoutersOwn'
  BY <1>d, <1>e, <1>i, <1>j DEF RoutersOwn, Disposed, Streams
<1>l. RoutersDiffer'
  BY <1>e, <1>j DEF Inv, RoutersDiffer
<1>m. CreationOwns'
  <2> SUFFICES ASSUME create.at # "threw" PROVE CreationOwns'
    BY DEF CreationOwns
  <2>1. ASSUME net.s # None
        PROVE  st'[net.s] = "open" /\ \A q \in Alive' : routers'[q].back # net.s
    <3>1. /\ net.s \in NetStreams /\ st[net.s] = "open"
          /\ \A q \in Alive : routers[q].back # net.s
      BY <2>1 DEF Inv, CreationOwns, CreationTypes, NetType
    <3>2. net.s \notin streamsOf \cup more
      BY <1>c, <1>h, <1>i, <3>1 DEF Streams
    <3> QED
      BY <1>d, <1>e, <1>j, <3>1, <3>2 DEF Disposed, Streams
  <2>2. ASSUME ipc.s # None
        PROVE  st'[ipc.s] = "open" /\ \A q \in Alive' : routers'[q].front # ipc.s
    <3>1. /\ ipc.s \in IpcStreams /\ st[ipc.s] = "open"
          /\ \A q \in Alive : routers[q].front # ipc.s
      BY <2>2 DEF Inv, CreationOwns, CreationTypes, IpcType
    <3>2. ipc.s \notin streamsOf \cup more
      BY RouterAssumption, <1>c, <1>h, <1>i, <3>1 DEF Streams
    <3> QED
      BY <1>d, <1>e, <1>j, <3>1, <3>2 DEF Disposed, Streams
  <2> QED
    BY <2>1, <2>2 DEF CreationOwns
<1>n. FrontsAreOwned'
  <2> SUFFICES ASSUME NEW s \in IpcStreams, st'[s] = "open",
                      ~(create.at # "threw" /\ ipc.s = s)
               PROVE  \E q \in Alive' : routers'[q].front = s
    BY DEF FrontsAreOwned
  <2>1. s \in Streams /\ s \notin streamsOf \cup more /\ st[s] = "open"
    BY <1>d DEF Disposed, Streams
  <2>2. PICK q \in Alive : routers[q].front = s
    BY <2>1 DEF Inv, FrontsAreOwned
  <2>3. q \in Routers /\ q \notin gone
    BY <1>c, <2>1, <2>2 DEF Alive
  <2> QED
    BY <1>e, <1>g, <2>2, <2>3
<1>o. \A s \in Streams \ more : st[s] # "open" => s \notin streamsOf
  BY <1>c, <1>h, <1>i
<1>p. \A s \in NetStreams, q \in Alive :
         s = routers[q].back => st'[s] = "free" \/ q \in Alive'
  BY <1>c, <1>d, <1>g, <1>h DEF Disposed, Alive, Streams
<1>q. /\ \A s \in Streams : st'[s] = st[s] \/ st'[s] = "free"
      /\ \A s \in more \cap Streams : st'[s] = "free"
      /\ \A s \in NetStreams : st[s] # "open" /\ s \notin more =>
            st'[s] = st[s] /\ from'[s] = from[s]
  BY <1>d, <1>o DEF Disposed, Streams
<1>r. \A q \in Routers : routers'[q].at = "listed" => others = "listed"
  BY <1>e
<1> QED
  BY <1>d, <1>f, <1>k, <1>l, <1>m, <1>n, <1>p, <1>q, <1>r

-----------------------------------------------------------------------------
(* One lemma for each action                                               *)

\* The user cancels.
LEMMA CancelInv ==
    ASSUME Inv, Cancel
    PROVE  Inv'
<1>u. UNCHANGED <<loop, create, canceled, net, ipc, check, endpoint, dead,
                  registered, announced, stored, st, peer, from, routers>>
  BY DEF Cancel, creation, server, streams
<1>1. StreamTypes' /\ ServerTypes' /\ RouterTypes' /\ TaskInv' /\ CreateInv' /\
     LoopInv' /\ EndpointInv' /\ StoredInv' /\ CreationOwns' /\ RoutersOwn' /\
     RoutersDiffer' /\ FrontsAreOwned' /\ StoppedInv'
  BY <1>u DEF Inv, StreamTypes, ServerTypes, RouterTypes, TaskInv, CreateInv,
     LoopInv, EndpointInv, StoredInv, CreationOwns, RoutersOwn, RoutersDiffer,
     FrontsAreOwned, StoppedInv, Alive
<1>2. CreationTypes'
  BY RouterAssumption, <1>u DEF Inv, CreationTypes, Cancel
<1> QED
  BY <1>1, <1>2 DEF Inv

\* A runtime connects: the free stream that it gets is nobody's.
LEMMA RuntimeConnectsInv ==
    ASSUME Inv, NEW r \in Runtimes, RuntimeConnects(r)
    PROVE  Inv'
<1>u. UNCHANGED <<token, loop, create, canceled, net, ipc, check, endpoint,
                  dead, peer, routers>>
  BY DEF RuntimeConnects, creation, server, streams
<1>c. PICK s \in NetStreams :
        /\ st[s] = "free"
        /\ st' = [st EXCEPT ![s] = "stored"]
        /\ from' = [from EXCEPT ![s] = r]
        /\ stored' = [stored EXCEPT ![r] = s]
  BY DEF RuntimeConnects
<1>t. s \in Streams /\ st \in [Streams -> StateType] /\ loop # "stopped"
  BY DEF Inv, StreamTypes, Streams, RuntimeConnects
<1>1. CreationTypes' /\ RouterTypes' /\ TaskInv' /\ CreateInv' /\ LoopInv' /\
     RoutersDiffer'
  BY <1>u DEF Inv, CreationTypes, RouterTypes, TaskInv, CreateInv, LoopInv,
     RoutersDiffer, Alive
<1>2. StreamTypes'
  BY <1>u, <1>c, <1>t DEF Inv, StreamTypes, StateType
<1>3. ServerTypes'
  BY RouterAssumption, <1>u DEF Inv, ServerTypes, RuntimeConnects
<1>4. EndpointInv'
  BY RouterAssumption, <1>u DEF Inv, EndpointInv, ServerTypes, RuntimeConnects
<1>5. StoredInv'
  BY RouterAssumption, <1>c, <1>t DEF Inv, StoredInv, StreamTypes, ServerTypes
<1>6. CreationOwns'
  BY <1>u, <1>c, <1>t DEF Inv, CreationOwns, Alive
<1>7. RoutersOwn'
  BY <1>u, <1>c, <1>t DEF Inv, RoutersOwn, Alive
<1>8. FrontsAreOwned'
  BY RouterAssumption, <1>u, <1>c, <1>t DEF Inv, FrontsAreOwned, Alive
<1>9. StoppedInv'
  BY <1>u, <1>t DEF StoppedInv
<1> QED
  BY <1>1, <1>2, <1>3, <1>4, <1>5, <1>6, <1>7, <1>8, <1>9 DEF Inv

\* A runtime ends.
LEMMA RuntimeEndsInv ==
    ASSUME Inv, NEW r \in Runtimes, RuntimeEnds(r)
    PROVE  Inv'
<1>u. UNCHANGED <<token, loop, create, canceled, net, ipc, check, endpoint,
                  registered, announced, stored, st, from, routers>>
  BY DEF RuntimeEnds, creation, server, streams
<1>1. CreationTypes' /\ RouterTypes' /\ TaskInv' /\ CreateInv' /\ LoopInv' /\
     EndpointInv' /\ StoredInv' /\ CreationOwns' /\ RoutersOwn' /\
     RoutersDiffer' /\ FrontsAreOwned' /\ StoppedInv'
  BY <1>u DEF Inv, CreationTypes, RouterTypes, TaskInv, CreateInv, LoopInv,
     EndpointInv, StoredInv, CreationOwns, RoutersOwn, RoutersDiffer,
     FrontsAreOwned, StoppedInv, Alive
<1>2. StreamTypes'
  <2>1. peer' \in [Streams -> BOOLEAN]
    BY Zenon DEF RuntimeEnds
  <2> QED
    BY <1>u, <2>1 DEF Inv, StreamTypes
<1>3. ServerTypes'
  BY RouterAssumption, <1>u DEF Inv, ServerTypes, RuntimeEnds
<1> QED
  BY <1>1, <1>2, <1>3 DEF Inv

\* A front end connects.
LEMMA ClientConnectsInv ==
    ASSUME Inv, ClientConnects
    PROVE  Inv'
<1>u. UNCHANGED <<token, loop, create, canceled, net, ipc, check, endpoint,
                  dead, registered, announced, stored, peer, from, routers>>
  BY DEF ClientConnects, creation, server, streams
<1>c. PICK s \in IpcStreams : st[s] = "free" /\ st' = [st EXCEPT ![s] = "waiting"]
  BY DEF ClientConnects
<1>t. s \in Streams /\ st \in [Streams -> StateType] /\ loop # "stopped"
  BY DEF Inv, StreamTypes, Streams, ClientConnects
<1>1. CreationTypes' /\ ServerTypes' /\ RouterTypes' /\ TaskInv' /\ CreateInv'
     /\ LoopInv' /\ EndpointInv' /\ RoutersDiffer'
  BY <1>u DEF Inv, CreationTypes, ServerTypes, RouterTypes, TaskInv, CreateInv,
     LoopInv, EndpointInv, RoutersDiffer, Alive
<1>2. StreamTypes'
  BY <1>u, <1>c, <1>t DEF Inv, StreamTypes, StateType
<1>3. StoredInv'
  BY RouterAssumption, <1>u, <1>c, <1>t DEF Inv, StoredInv, StreamTypes, ServerTypes
<1>4. CreationOwns'
  BY <1>u, <1>c, <1>t DEF Inv, CreationOwns, Alive
<1>5. RoutersOwn'
  BY <1>u, <1>c, <1>t DEF Inv, RoutersOwn, Alive
<1>6. FrontsAreOwned'
  BY RouterAssumption, <1>u, <1>c, <1>t DEF Inv, FrontsAreOwned, Alive
<1>7. StoppedInv'
  BY <1>u, <1>t DEF StoppedInv
<1> QED
  BY <1>1, <1>2, <1>3, <1>4, <1>5, <1>6, <1>7 DEF Inv

\* A peer disconnects.
LEMMA DisconnectsInv ==
    ASSUME Inv, NEW s \in Streams, Disconnects(s)
    PROVE  Inv'
<1>u. UNCHANGED <<token, loop, create, canceled, net, ipc, check, endpoint,
                  dead, registered, announced, stored, st, from, routers>>
  BY DEF Disconnects, creation, server, streams
<1>1. CreationTypes' /\ ServerTypes' /\ RouterTypes' /\ TaskInv' /\ CreateInv'
     /\ LoopInv' /\ EndpointInv' /\ StoredInv' /\ CreationOwns' /\ RoutersOwn'
     /\ RoutersDiffer' /\ FrontsAreOwned' /\ StoppedInv'
  BY <1>u DEF Inv, CreationTypes, ServerTypes, RouterTypes, TaskInv, CreateInv,
     LoopInv, EndpointInv, StoredInv, CreationOwns, RoutersOwn, RoutersDiffer,
     FrontsAreOwned, StoppedInv, Alive
<1>2. StreamTypes'
  BY RouterAssumption, <1>u DEF Inv, StreamTypes, StateType, Disconnects
<1> QED
  BY <1>1, <1>2 DEF Inv

\* The network server announces a runtime.
LEMMA NetAcceptsInv ==
    ASSUME Inv, NEW r \in Runtimes, NetAccepts(r)
    PROVE  Inv'
<1>u. UNCHANGED <<token, loop, create, canceled, ipc, check, dead, registered,
                  stored, st, peer, from, routers>>
  BY DEF NetAccepts, creation, server, streams
<1>g. net.at = "accept" /\ endpoint' = r /\ r \in announced
      /\ announced' = announced \ {r}
  BY DEF NetAccepts
<1>e1. /\ net \in NetType /\ net' \in NetType
       /\ net'.at = "connect" /\ net'.s = net.s /\ net'.ex = net.ex
  BY RouterAssumption, <1>g DEF Inv, CreationTypes, NetType, TaskExceptions,
     NetAccepts
<1>1. StreamTypes' /\ RouterTypes' /\ LoopInv' /\ StoredInv' /\ RoutersOwn' /\
     RoutersDiffer' /\ FrontsAreOwned' /\ StoppedInv'
  BY <1>u DEF Inv, StreamTypes, RouterTypes, LoopInv, StoredInv, RoutersOwn,
     RoutersDiffer, FrontsAreOwned, StoppedInv, Alive
<1>2. CreationTypes'
  BY RouterAssumption, <1>u, <1>g, <1>e1 DEF Inv, CreationTypes
<1>3. ServerTypes'
  BY <1>u DEF Inv, ServerTypes, NetAccepts
<1>4. TaskInv'
  BY RouterAssumption, <1>u, <1>g, <1>e1 DEF Inv, TaskInv, None
<1>5. CreateInv'
  BY RouterAssumption, <1>u, <1>g, <1>e1 DEF Inv, CreateInv, NoTask, TaskInv,
     None
<1>6. EndpointInv'
  BY RouterAssumption, <1>u, <1>g, <1>e1 DEF Inv, EndpointInv, ServerTypes
<1>7. CreationOwns'
  BY RouterAssumption, <1>u, <1>g, <1>e1 DEF Inv, CreationOwns, Alive, TaskInv
<1> QED
  BY <1>1, <1>2, <1>3, <1>4, <1>5, <1>6, <1>7 DEF Inv

\* The network server hands out the stream that it keeps.
LEMMA NetConnectsInv ==
    ASSUME Inv, NetConnects
    PROVE  Inv'
<1>u. UNCHANGED <<token, loop, create, canceled, ipc, check, endpoint, dead,
                  registered, announced, peer, from, routers>>
  BY DEF NetConnects, TakesStream, creation, server, streams
<1>g. net.at = "connect"
  BY DEF NetConnects, TakesStream
<1>b. endpoint \in Runtimes /\ stored[endpoint] # None
  BY <1>g DEF Inv, TaskInv, ServerTypes, NetConnects
<1>c. PICK s \in NetStreams :
        /\ s = stored[endpoint] /\ st[s] = "stored" /\ from[s] = endpoint
        /\ net' = [net EXCEPT !.at = "ok", !.s = s]
        /\ st' = [st EXCEPT ![s] = "open"]
        /\ stored' = [stored EXCEPT ![endpoint] = None]
  BY <1>b DEF Inv, StoredInv, ServerTypes, NetConnects, TakesStream
<1>t. /\ s \in Streams /\ s # None /\ s \notin IpcStreams
      /\ st \in [Streams -> StateType]
      /\ stored \in [Runtimes -> NetStreams \cup {None}]
      /\ from \in [NetStreams -> Runtimes \cup {None}]
  BY RouterAssumption DEF Inv, StreamTypes, ServerTypes, Streams
<1>e1. /\ net \in NetType /\ net' \in NetType
       /\ net'.at = "ok" /\ net'.s = s /\ net'.ex = net.ex
  BY RouterAssumption, <1>b, <1>c, <1>t, <1>g DEF Inv, CreationTypes, NetType,
     TaskExceptions, NetConnects, TakesStream
<1>1. RouterTypes' /\ LoopInv' /\ EndpointInv' /\ RoutersDiffer'
  BY <1>u DEF Inv, RouterTypes, LoopInv, EndpointInv, RoutersDiffer, Alive
<1>2. CreationTypes'
  BY RouterAssumption, <1>u, <1>b, <1>c, <1>t, <1>g, <1>e1 DEF Inv,
     CreationTypes
<1>3. StreamTypes'
  BY RouterAssumption, <1>u, <1>b, <1>c, <1>t, <1>g, <1>e1 DEF Inv, StreamTypes,
     StateType
<1>4. ServerTypes'
  BY RouterAssumption, <1>u, <1>b, <1>c, <1>t, <1>g, <1>e1 DEF Inv, ServerTypes
<1>5. TaskInv'
  BY RouterAssumption, <1>u, <1>b, <1>c, <1>t, <1>g, <1>e1 DEF Inv, TaskInv,
     None
<1>6. CreateInv'
  BY RouterAssumption, <1>u, <1>b, <1>c, <1>t, <1>g, <1>e1 DEF Inv, CreateInv,
     NoTask, TaskInv, None
<1>7. StoredInv'
  BY RouterAssumption, <1>u, <1>b, <1>c, <1>t, <1>g, <1>e1 DEF Inv, StoredInv,
     StreamTypes, ServerTypes
<1>8. CreationOwns'
  BY RouterAssumption, <1>u, <1>b, <1>c, <1>t, <1>g, <1>e1 DEF Inv,
     CreationOwns, Alive, TaskInv, RoutersOwn
<1>9. RoutersOwn'
  BY RouterAssumption, <1>u, <1>b, <1>c, <1>t, <1>g, <1>e1 DEF Inv, RoutersOwn,
     Alive
<1>10. FrontsAreOwned'
  BY RouterAssumption, <1>u, <1>b, <1>c, <1>t, <1>g, <1>e1 DEF Inv,
     FrontsAreOwned, Alive
<1>11. StoppedInv'
  BY RouterAssumption, <1>u, <1>b, <1>c, <1>t, <1>g, <1>e1 DEF Inv, StoppedInv
<1> QED
  BY <1>1, <1>2, <1>3, <1>4, <1>5, <1>6, <1>7, <1>8, <1>9, <1>10, <1>11 DEF Inv

\* A timeout of the accept of a runtime.
LEMMA NetTimesOutInv ==
    ASSUME Inv, NetTimesOut
    PROVE  Inv'
<1>u. UNCHANGED <<token, loop, create, canceled, ipc, check, endpoint, dead,
                  registered, announced, stored, st, peer, from, routers>>
  BY DEF NetTimesOut, Fails, creation, server, streams
<1>g. net.at \in {"accept", "connect"}
  BY DEF NetTimesOut, Fails
<1>x. PICK ex \in TaskExceptions \ {None} :
        /\ net' = [net EXCEPT !.at = "failed", !.ex = ex]
        /\ ex = "backendTimeout" => net.at = "connect"
  BY DEF NetTimesOut, Fails, TaskExceptions, None
<1>e1. /\ net \in NetType /\ net' \in NetType
       /\ net'.at = "failed" /\ net'.s = net.s /\ net'.ex = ex
  BY RouterAssumption, <1>x, <1>g DEF Inv, CreationTypes, NetType,
     TaskExceptions, NetTimesOut, Fails, None
<1>1. StreamTypes' /\ ServerTypes' /\ RouterTypes' /\ LoopInv' /\ EndpointInv'
     /\ StoredInv' /\ RoutersOwn' /\ RoutersDiffer' /\ FrontsAreOwned' /\
     StoppedInv'
  BY <1>u DEF Inv, StreamTypes, ServerTypes, RouterTypes, LoopInv, EndpointInv,
     StoredInv, RoutersOwn, RoutersDiffer, FrontsAreOwned, StoppedInv, Alive
<1>2. CreationTypes'
  BY RouterAssumption, <1>u, <1>x, <1>g, <1>e1 DEF Inv, CreationTypes
<1>3. TaskInv'
  BY RouterAssumption, <1>u, <1>x, <1>g, <1>e1 DEF Inv, TaskInv, None
<1>4. CreateInv'
  BY RouterAssumption, <1>u, <1>x, <1>g, <1>e1 DEF Inv, CreateInv, NoTask,
     TaskInv, None
<1>5. CreationOwns'
  BY RouterAssumption, <1>u, <1>x, <1>g, <1>e1 DEF Inv, CreationOwns, Alive,
     TaskInv
<1> QED
  BY <1>1, <1>2, <1>3, <1>4, <1>5 DEF Inv

\* The accept of a runtime is cancelled.
LEMMA NetIsCanceledInv ==
    ASSUME Inv, NetIsCanceled
    PROVE  Inv'
<1>u. UNCHANGED <<token, loop, create, canceled, ipc, check, endpoint, dead,
                  registered, announced, stored, st, peer, from, routers>>
  BY DEF NetIsCanceled, Fails, creation, server, streams
<1>g. net.at \in {"accept", "connect"}
  BY DEF NetIsCanceled, Fails
<1>e1. /\ net \in NetType /\ net' \in NetType
       /\ net'.at = "failed" /\ net'.s = net.s /\ net'.ex = "canceled"
  BY RouterAssumption, <1>g DEF Inv, CreationTypes, NetType, TaskExceptions,
     NetIsCanceled, Fails
<1>1. StreamTypes' /\ ServerTypes' /\ RouterTypes' /\ LoopInv' /\ EndpointInv'
     /\ StoredInv' /\ RoutersOwn' /\ RoutersDiffer' /\ FrontsAreOwned' /\
     StoppedInv'
  BY <1>u DEF Inv, StreamTypes, ServerTypes, RouterTypes, LoopInv, EndpointInv,
     StoredInv, RoutersOwn, RoutersDiffer, FrontsAreOwned, StoppedInv, Alive
<1>2. CreationTypes'
  BY RouterAssumption, <1>u, <1>g, <1>e1 DEF Inv, CreationTypes
<1>3. TaskInv'
  BY RouterAssumption, <1>u, <1>g, <1>e1 DEF Inv, TaskInv, None
<1>4. CreateInv'
  BY RouterAssumption, <1>u, <1>g, <1>e1 DEF Inv, CreateInv, NoTask, TaskInv,
     None
<1>5. CreationOwns'
  BY RouterAssumption, <1>u, <1>g, <1>e1 DEF Inv, CreationOwns, Alive, TaskInv
<1> QED
  BY <1>1, <1>2, <1>3, <1>4, <1>5 DEF Inv

\* A front end is accepted.
LEMMA IpcAcceptsInv ==
    ASSUME Inv, NEW s \in IpcStreams, IpcAccepts(s)
    PROVE  Inv'
<1>u. UNCHANGED <<token, loop, create, canceled, net, check, endpoint, dead,
                  registered, announced, stored, peer, from, routers>>
  BY DEF IpcAccepts, TakesStream, creation, server, streams
<1>g. /\ ipc.at = "accept" /\ st[s] = "waiting"
      /\ st' = [st EXCEPT ![s] = "open"]
  BY DEF IpcAccepts, TakesStream
<1>t. /\ s \in Streams /\ s # None /\ s \notin NetStreams /\ st \in [Streams -> StateType]
      /\ create.at # "threw" /\ loop # "stopped"
  BY RouterAssumption, <1>g DEF Inv, StreamTypes, Streams, CreateInv, LoopInv, NoTask
<1>e1. /\ ipc \in IpcType /\ ipc' \in IpcType
       /\ ipc'.at = "ok" /\ ipc'.s = s /\ ipc'.ex = ipc.ex
  BY RouterAssumption, <1>t, <1>g DEF Inv, CreationTypes, IpcType,
     TaskExceptions, IpcAccepts, TakesStream
<1>1. ServerTypes' /\ RouterTypes' /\ LoopInv' /\ EndpointInv' /\ RoutersDiffer'
  BY <1>u DEF Inv, ServerTypes, RouterTypes, LoopInv, EndpointInv,
     RoutersDiffer, Alive
<1>2. CreationTypes'
  BY RouterAssumption, <1>u, <1>t, <1>g, <1>e1 DEF Inv, CreationTypes
<1>3. StreamTypes'
  BY RouterAssumption, <1>u, <1>t, <1>g, <1>e1 DEF Inv, StreamTypes, StateType
<1>4. TaskInv'
  BY RouterAssumption, <1>u, <1>t, <1>g, <1>e1 DEF Inv, TaskInv, None
<1>5. CreateInv'
  BY RouterAssumption, <1>u, <1>t, <1>g, <1>e1 DEF Inv, CreateInv, NoTask,
     TaskInv, None
<1>6. StoredInv'
  BY RouterAssumption, <1>u, <1>t, <1>g, <1>e1 DEF Inv, StoredInv, StreamTypes,
     ServerTypes
<1>7. CreationOwns'
  BY RouterAssumption, <1>u, <1>t, <1>g, <1>e1 DEF Inv, CreationOwns, Alive,
     TaskInv, RoutersOwn, CreationTypes, NetType
<1>8. RoutersOwn'
  BY RouterAssumption, <1>u, <1>t, <1>g, <1>e1 DEF Inv, RoutersOwn, Alive
<1>9. FrontsAreOwned'
  BY RouterAssumption, <1>u, <1>t, <1>g, <1>e1 DEF Inv, FrontsAreOwned, Alive,
     TaskInv
<1>10. StoppedInv'
  BY RouterAssumption, <1>u, <1>t, <1>g, <1>e1 DEF Inv, StoppedInv
<1> QED
  BY <1>1, <1>2, <1>3, <1>4, <1>5, <1>6, <1>7, <1>8, <1>9, <1>10 DEF Inv

\* The accept of a front end fails.
LEMMA IpcFailsInv ==
    ASSUME Inv, NEW s \in IpcStreams, IpcFails(s)
    PROVE  Inv'
<1>u. UNCHANGED <<token, loop, create, canceled, net, check, endpoint, dead,
                  registered, announced, stored, routers>>
  BY DEF IpcFails, Fails, creation, server, streams
<1>g. ipc.at = "accept" /\ st[s] = "waiting"
  BY DEF IpcFails, Fails
<1>d. StreamTypes' /\ Disposed({s})
  BY DisposeEffect DEF Inv, IpcFails
<1>e1. /\ ipc \in IpcType /\ ipc' \in IpcType
       /\ ipc'.at = "failed" /\ ipc'.s = ipc.s /\ ipc'.ex = "error"
  BY RouterAssumption, <1>d, <1>g DEF Inv, CreationTypes, IpcType,
     TaskExceptions, IpcFails, Fails
<1>1. ServerTypes' /\ RouterTypes' /\ LoopInv' /\ EndpointInv' /\ RoutersDiffer'
  BY <1>u DEF Inv, ServerTypes, RouterTypes, LoopInv, EndpointInv,
     RoutersDiffer, Alive
<1>2. CreationTypes'
  BY RouterAssumption, <1>u, <1>d, <1>g, <1>e1 DEF Inv, CreationTypes, Disposed,
     Streams
<1>3. StreamTypes'
  BY RouterAssumption, <1>u, <1>d, <1>g, <1>e1 DEF Inv, StreamTypes, StateType,
     Disposed, Streams
<1>4. TaskInv'
  BY RouterAssumption, <1>u, <1>d, <1>g, <1>e1 DEF Inv, TaskInv, None, Disposed,
     Streams
<1>5. CreateInv'
  BY RouterAssumption, <1>u, <1>d, <1>g, <1>e1 DEF Inv, CreateInv, NoTask,
     TaskInv, None, Disposed, Streams
<1>6. StoredInv'
  BY RouterAssumption, <1>u, <1>d, <1>g, <1>e1 DEF Inv, StoredInv, StreamTypes,
     ServerTypes, Disposed, Streams
<1>7. CreationOwns'
  BY RouterAssumption, <1>u, <1>d, <1>g, <1>e1 DEF Inv, CreationOwns, Alive,
     TaskInv, Disposed, Streams, CreationTypes, NetType, IpcType
<1>8. RoutersOwn'
  BY RouterAssumption, <1>u, <1>d, <1>g, <1>e1 DEF Inv, RoutersOwn, Alive,
     Disposed, Streams
<1>9. FrontsAreOwned'
  BY RouterAssumption, <1>u, <1>d, <1>g, <1>e1 DEF Inv, FrontsAreOwned, Alive,
     Disposed, Streams
<1>10. StoppedInv'
  BY RouterAssumption, <1>u, <1>d, <1>g, <1>e1 DEF Inv, StoppedInv, Disposed,
     Streams
<1> QED
  BY <1>1, <1>2, <1>3, <1>4, <1>5, <1>6, <1>7, <1>8, <1>9, <1>10 DEF Inv

\* The accept of a front end is cancelled.
LEMMA IpcIsCanceledInv ==
    ASSUME Inv, IpcIsCanceled
    PROVE  Inv'
<1>u. UNCHANGED <<token, loop, create, canceled, net, check, endpoint, dead,
                  registered, announced, stored, st, peer, from, routers>>
  BY DEF IpcIsCanceled, Fails, creation, server, streams
<1>g. ipc.at = "accept"
  BY DEF IpcIsCanceled, Fails
<1>e1. /\ ipc \in IpcType /\ ipc' \in IpcType
       /\ ipc'.at = "failed" /\ ipc'.s = ipc.s /\ ipc'.ex = "canceled"
  BY RouterAssumption, <1>g DEF Inv, CreationTypes, IpcType, TaskExceptions,
     IpcIsCanceled, Fails
<1>1. StreamTypes' /\ ServerTypes' /\ RouterTypes' /\ LoopInv' /\ EndpointInv'
     /\ StoredInv' /\ RoutersOwn' /\ RoutersDiffer' /\ StoppedInv'
  BY <1>u DEF Inv, StreamTypes, ServerTypes, RouterTypes, LoopInv, EndpointInv,
     StoredInv, RoutersOwn, RoutersDiffer, StoppedInv, Alive
<1>2. CreationTypes'
  BY RouterAssumption, <1>u, <1>g, <1>e1 DEF Inv, CreationTypes
<1>3. TaskInv'
  BY RouterAssumption, <1>u, <1>g, <1>e1 DEF Inv, TaskInv, None
<1>4. CreateInv'
  BY RouterAssumption, <1>u, <1>g, <1>e1 DEF Inv, CreateInv, NoTask, TaskInv,
     None
<1>5. CreationOwns'
  BY RouterAssumption, <1>u, <1>g, <1>e1 DEF Inv, CreationOwns, Alive, TaskInv
<1>6. FrontsAreOwned'
  BY RouterAssumption, <1>u, <1>g, <1>e1 DEF Inv, FrontsAreOwned, Alive
<1> QED
  BY <1>1, <1>2, <1>3, <1>4, <1>5, <1>6 DEF Inv

\* The check of the first stream ends.
LEMMA CheckStreamInv ==
    ASSUME Inv, NEW s, CheckStream(s)
    PROVE  Inv'
<1>u. UNCHANGED <<token, loop, create, canceled, net, ipc, endpoint, dead,
                  registered, announced, stored, st, peer, from, routers>>
  BY DEF CheckStream, creation, server, streams
<1>1. StreamTypes' /\ ServerTypes' /\ RouterTypes' /\ TaskInv' /\ LoopInv' /\
     EndpointInv' /\ StoredInv' /\ CreationOwns' /\ RoutersOwn' /\
     RoutersDiffer' /\ FrontsAreOwned' /\ StoppedInv'
  BY <1>u DEF Inv, StreamTypes, ServerTypes, RouterTypes, TaskInv, LoopInv,
     EndpointInv, StoredInv, CreationOwns, RoutersOwn, RoutersDiffer,
     FrontsAreOwned, StoppedInv, Alive
<1>2. CreationTypes'
  BY RouterAssumption, <1>u DEF Inv, CreationTypes, CheckStream
<1>3. CreateInv'
  BY RouterAssumption, <1>u DEF Inv, CreateInv, NoTask, TaskInv, None,
     CheckStream
<1> QED
  BY <1>1, <1>2, <1>3 DEF Inv

\* The first await of CreateRouterAsync.
LEMMA WhenAnyAcceptedInv ==
    ASSUME Inv, WhenAnyAccepted
    PROVE  Inv'
<1>u. UNCHANGED <<token, loop, canceled, net, ipc, endpoint, dead, registered,
                  announced, stored, st, peer, from, routers>>
  BY DEF WhenAnyAccepted, CreateGoes, Completed, Succeeded, creation, server,
     streams
<1>g. create.at = "any"
  BY DEF WhenAnyAccepted, CreateGoes, Completed, Succeeded
<1>c. PICK label \in {"created", "ipcFirst", "netFirst", "failing"} :
        /\ create' = [create EXCEPT !.at = label]
        /\ label = "created" => net.at = "ok" /\ ipc.at = "ok" /\ check' = check
        /\ label = "ipcFirst" => ipc.at = "ok" /\ check' = "running"
        /\ label = "netFirst" => net.at = "ok" /\ check' = "running"
        /\ label = "failing" => /\ net.at = "failed" \/ ipc.at = "failed"
                                /\ check' = check
  BY DEF WhenAnyAccepted, CreateGoes, Completed, Succeeded
<1>e1. /\ create \in CreateType /\ create' \in CreateType
       /\ create'.at = label /\ create'.ex = create.ex
  BY RouterAssumption, <1>c, <1>g DEF Inv, CreationTypes, CreateType,
     TaskExceptions, WhenAnyAccepted, CreateGoes, Completed, Succeeded
<1>1. StreamTypes' /\ ServerTypes' /\ RouterTypes' /\ TaskInv' /\ EndpointInv'
     /\ StoredInv' /\ RoutersOwn' /\ RoutersDiffer' /\ StoppedInv'
  BY <1>u DEF Inv, StreamTypes, ServerTypes, RouterTypes, TaskInv, EndpointInv,
     StoredInv, RoutersOwn, RoutersDiffer, StoppedInv, Alive
<1>2. CreationTypes'
  BY RouterAssumption, <1>u, <1>c, <1>g, <1>e1 DEF Inv, CreationTypes
<1>3. CreateInv'
  BY RouterAssumption, <1>u, <1>c, <1>g, <1>e1 DEF Inv, CreateInv, NoTask,
     TaskInv, None
<1>4. LoopInv'
  BY RouterAssumption, <1>u, <1>c, <1>g, <1>e1 DEF Inv, LoopInv, CreationTypes,
     CreateType
<1>5. CreationOwns'
  BY RouterAssumption, <1>u, <1>c, <1>g, <1>e1 DEF Inv, CreationOwns, Alive,
     TaskInv
<1>6. FrontsAreOwned'
  BY RouterAssumption, <1>u, <1>c, <1>g, <1>e1 DEF Inv, FrontsAreOwned, Alive
<1> QED
  BY <1>1, <1>2, <1>3, <1>4, <1>5, <1>6 DEF Inv

\* The second await of CreateRouterAsync.
LEMMA WhenAnyOtherInv ==
    ASSUME Inv, WhenAnyOther
    PROVE  Inv'
<1>u. UNCHANGED <<token, loop, net, ipc, check, endpoint, dead, registered,
                  announced, stored, st, peer, from, routers>>
  BY DEF WhenAnyOther, CreateGoes, creation, server, streams
<1>c. PICK label \in {"ipcAll", "netAll", "error"} :
        /\ create' = [create EXCEPT !.at = label]
        /\ label = "ipcAll" => create.at = "ipcFirst"
        /\ label = "netAll" => create.at = "netFirst"
        /\ label = "error" => create.at = "failing"
        /\ create.at \in {"ipcFirst", "netFirst", "failing"}
        /\ canceled' = TRUE
  BY DEF WhenAnyOther, CreateGoes
<1>e1. /\ create \in CreateType /\ create' \in CreateType
       /\ create'.at = label /\ create'.ex = create.ex
  BY RouterAssumption, <1>c DEF Inv, CreationTypes, CreateType, TaskExceptions,
     WhenAnyOther, CreateGoes
<1>1. StreamTypes' /\ ServerTypes' /\ RouterTypes' /\ TaskInv' /\ EndpointInv'
     /\ StoredInv' /\ RoutersOwn' /\ RoutersDiffer' /\ StoppedInv'
  BY <1>u DEF Inv, StreamTypes, ServerTypes, RouterTypes, TaskInv, EndpointInv,
     StoredInv, RoutersOwn, RoutersDiffer, StoppedInv, Alive
<1>2. CreationTypes'
  BY RouterAssumption, <1>u, <1>c, <1>e1 DEF Inv, CreationTypes
<1>3. CreateInv'
  BY RouterAssumption, <1>u, <1>c, <1>e1 DEF Inv, CreateInv, NoTask, TaskInv,
     None
<1>4. LoopInv'
  BY RouterAssumption, <1>u, <1>c, <1>e1 DEF Inv, LoopInv, CreationTypes,
     CreateType
<1>5. CreationOwns'
  BY RouterAssumption, <1>u, <1>c, <1>e1 DEF Inv, CreationOwns, Alive, TaskInv
<1>6. FrontsAreOwned'
  BY RouterAssumption, <1>u, <1>c, <1>e1 DEF Inv, FrontsAreOwned, Alive
<1> QED
  BY <1>1, <1>2, <1>3, <1>4, <1>5, <1>6 DEF Inv

\* CreateRouterAsync returns a router: both streams are there, and the first is
\* still connected.
LEMMA CreatedInv ==
    ASSUME Inv, create.at \in {"ipcAll", "netAll"}, net.at = "ok",
           ipc.at = "ok", check = "ended", CreateGoes("created"),
           UNCHANGED <<token, loop, canceled, net, ipc, check, endpoint, dead,
                      registered, announced, stored, st, peer, from,
                      routers>>
    PROVE  Inv'
<1>u. UNCHANGED <<token, loop, canceled, net, ipc, check, endpoint, dead,
                  registered, announced, stored, st, peer, from, routers>>
  BY DEF CreateGoes, creation, server, streams
<1>e1. /\ create \in CreateType /\ create' \in CreateType
       /\ create'.at = "created" /\ create'.ex = create.ex
  BY RouterAssumption DEF Inv, CreationTypes, CreateType, TaskExceptions,
     CreateGoes
<1>1. StreamTypes' /\ ServerTypes' /\ RouterTypes' /\ TaskInv' /\ EndpointInv'
     /\ StoredInv' /\ RoutersOwn' /\ RoutersDiffer' /\ StoppedInv'
  BY <1>u DEF Inv, StreamTypes, ServerTypes, RouterTypes, TaskInv, EndpointInv,
     StoredInv, RoutersOwn, RoutersDiffer, StoppedInv, Alive
<1>2. CreationTypes'
  BY RouterAssumption, <1>u, <1>e1 DEF Inv, CreationTypes
<1>3. CreateInv'
  BY RouterAssumption, <1>u, <1>e1 DEF Inv, CreateInv, NoTask, TaskInv, None
<1>4. LoopInv'
  BY RouterAssumption, <1>u, <1>e1 DEF Inv, LoopInv, CreationTypes, CreateType
<1>5. CreationOwns'
  BY RouterAssumption, <1>u, <1>e1 DEF Inv, CreationOwns, Alive, TaskInv
<1>6. FrontsAreOwned'
  BY RouterAssumption, <1>u, <1>e1 DEF Inv, FrontsAreOwned, Alive
<1> QED
  BY <1>1, <1>2, <1>3, <1>4, <1>5, <1>6 DEF Inv

\* CreateRouterAsync throws.  What a front end has sent is disposed of.
LEMMA ThrowsInv ==
    ASSUME Inv, create.at \in {"ipcAll", "netAll", "error"},
           Completed(net), Completed(ipc), check # "running",
           NEW ex, ex # None, ex = "backendTimeout" => net.ex = ex,
           ex \in TaskExceptions \cup {"endOfStream"}, Throws(ex),
           NEW gone, Dispose(gone), ResultOf(ipc) \subseteq gone,
           gone \subseteq ResultOf(net) \cup ResultOf(ipc),
           UNCHANGED <<token, loop, canceled, net, ipc, check, endpoint, dead,
                      registered, announced, stored, routers>>
    PROVE  Inv'
<1>u. UNCHANGED <<token, loop, canceled, net, ipc, check, endpoint, dead,
                  registered, announced, stored, routers>>
  BY DEF Throws, creation, server, streams
<1>c. net.at \in {"ok", "failed"} /\ ipc.at \in {"ok", "failed"}
  BY DEF Completed
<1>d. StreamTypes' /\ Disposed(gone)
  BY DisposeEffect DEF Inv
<1>h. \A s \in gone : \/ s = net.s /\ s \in NetStreams
                      \/ s = ipc.s /\ s \in IpcStreams
  BY DEF ResultOf, Succeeded, Inv, TaskInv, CreationTypes, NetType, IpcType
<1>i. \A s \in gone : /\ s \in Streams /\ st[s] = "open"
                      /\ \A q \in Alive : /\ routers[q].front # s
                                          /\ routers[q].back # s
  BY RouterAssumption, <1>h DEF Inv, CreationOwns, RoutersOwn, Streams
<1>e1. /\ create \in CreateType /\ create' \in CreateType
       /\ create'.at = "threw" /\ create'.ex = ex
  BY RouterAssumption, <1>c, <1>d, <1>i DEF Inv, CreationTypes, CreateType,
     TaskExceptions, Throws
<1>1. ServerTypes' /\ RouterTypes' /\ TaskInv' /\ EndpointInv' /\ RoutersDiffer'
  BY <1>u DEF Inv, ServerTypes, RouterTypes, TaskInv, EndpointInv,
     RoutersDiffer, Alive
<1>2. CreationTypes'
  BY RouterAssumption, <1>u, <1>c, <1>d, <1>i, <1>e1 DEF Inv, CreationTypes
<1>3. StreamTypes'
  BY <1>d
<1>4. CreateInv'
  BY RouterAssumption, <1>u, <1>c, <1>d, <1>i, <1>e1 DEF Inv, CreateInv, NoTask,
     TaskInv, None
<1>5. LoopInv'
  BY RouterAssumption, <1>u, <1>c, <1>d, <1>i, <1>e1 DEF Inv, LoopInv,
     CreationTypes, CreateType
<1>6. StoredInv'
  BY RouterAssumption, <1>u, <1>c, <1>d, <1>i, <1>e1 DEF Inv, StoredInv,
     StreamTypes, ServerTypes, Disposed, Streams
<1>7. CreationOwns'
  BY RouterAssumption, <1>u, <1>c, <1>d, <1>i, <1>e1 DEF Inv, CreationOwns,
     Alive, TaskInv
<1>8. RoutersOwn'
  BY RouterAssumption, <1>u, <1>c, <1>d, <1>i, <1>e1 DEF Inv, RoutersOwn, Alive,
     Disposed, Streams
<1>9. FrontsAreOwned'
  <2> SUFFICES ASSUME NEW s \in IpcStreams, st'[s] = "open"
               PROVE  \E q \in Alive' : routers'[q].front = s
    BY DEF FrontsAreOwned
  <2>1. s \in Streams /\ s \notin gone /\ st[s] = "open"
    BY <1>d DEF Disposed, Streams
  <2>2. ipc.s # s
    BY RouterAssumption, <2>1 DEF Inv, TaskInv, ResultOf, Succeeded
  <2> QED
    BY <1>u, <2>1, <2>2 DEF Inv, FrontsAreOwned, Alive
<1>10. StoppedInv'
  BY RouterAssumption, <1>u, <1>c, <1>d, <1>i, <1>e1 DEF Inv, StoppedInv,
     Disposed, Streams
<1> QED
  BY <1>1, <1>2, <1>3, <1>4, <1>5, <1>6, <1>7, <1>8, <1>9, <1>10 DEF Inv

\* The third await of CreateRouterAsync, in its three cases.
LEMMA WhenAllInv ==
    ASSUME Inv,
           \/ WhenAllOther("ipcAll", net) \/ WhenAllOther("netAll", ipc)
           \/ WhenAllFailed
    PROVE  Inv'
<1>t. net.ex \in TaskExceptions /\ ipc.ex \in {None, "canceled", "error"}
  BY DEF Inv, CreationTypes, NetType, IpcType
<1>s. UNCHANGED <<token, loop, canceled, net, ipc, check, endpoint, dead,
                  registered, announced, stored, routers>>
  BY DEF WhenAllOther, WhenAllFailed, server
<1>1. CASE WhenAllOther("ipcAll", net)
  <2>1. /\ create.at = "ipcAll" /\ Completed(net) /\ check # "running"
        /\ ipc.at = "ok" /\ check # "none" /\ Completed(ipc)
    BY <1>1 DEF WhenAllOther, Inv, CreateInv, Completed
  <2>2. CASE /\ Succeeded(net) /\ check = "ended"
             /\ CreateGoes("created") /\ UNCHANGED streams
    BY <1>s, <2>1, <2>2, CreatedInv DEF streams, Succeeded
  <2>3. CASE /\ ~(Succeeded(net) /\ check = "ended")
             /\ Throws(IF check = "broken" THEN "endOfStream" ELSE net.ex)
             /\ Dispose(ResultOf(net) \cup ResultOf(ipc))
    <3> DEFINE ex == IF check = "broken" THEN "endOfStream" ELSE net.ex
    <3>1. check # "broken" => net.at = "failed"
      BY <2>1, <2>3 DEF Inv, CreationTypes, Succeeded, Completed
    <3>2. /\ ex \in TaskExceptions \cup {"endOfStream"} /\ ex # None
          /\ ex = "backendTimeout" => net.ex = ex
      BY <1>t, <3>1 DEF Inv, TaskInv, None
    <3> HIDE DEF ex
    <3>3. Throws(ex)
      BY <2>3 DEF ex
    <3> QED
      BY <1>s, <2>1, <2>3, <3>2, <3>3, ThrowsInv
  <2> QED
    BY <1>1, <2>2, <2>3 DEF WhenAllOther
<1>2. CASE WhenAllOther("netAll", ipc)
  <2>1. /\ create.at = "netAll" /\ Completed(ipc) /\ check # "running"
        /\ net.at = "ok" /\ check # "none" /\ Completed(net)
    BY <1>2 DEF WhenAllOther, Inv, CreateInv, Completed
  <2>2. CASE /\ Succeeded(ipc) /\ check = "ended"
             /\ CreateGoes("created") /\ UNCHANGED streams
    BY <1>s, <2>1, <2>2, CreatedInv DEF streams, Succeeded
  <2>3. CASE /\ ~(Succeeded(ipc) /\ check = "ended")
             /\ Throws(IF check = "broken" THEN "endOfStream" ELSE ipc.ex)
             /\ Dispose(ResultOf(net) \cup ResultOf(ipc))
    <3> DEFINE ex == IF check = "broken" THEN "endOfStream" ELSE ipc.ex
    <3>1. check # "broken" => ipc.at = "failed"
      BY <2>1, <2>3 DEF Inv, CreationTypes, Succeeded, Completed
    <3>2. /\ ex \in TaskExceptions \cup {"endOfStream"} /\ ex # None
          /\ ex # "backendTimeout"
      BY <1>t, <3>1 DEF Inv, TaskInv, None, TaskExceptions
    <3> HIDE DEF ex
    <3>3. Throws(ex)
      BY <2>3 DEF ex
    <3> QED
      BY <1>s, <2>1, <2>3, <3>2, <3>3, ThrowsInv
  <2> QED
    BY <1>2, <2>2, <2>3 DEF WhenAllOther
<1>3. CASE WhenAllFailed
  <2> DEFINE ex == IF ipc.ex = "error" THEN "error"
                   ELSE IF net.ex # None THEN net.ex ELSE "canceled"
  <2>1. /\ create.at = "error" /\ Completed(net) /\ Completed(ipc)
        /\ Throws(ex) /\ Dispose(ResultOf(ipc))
    BY <1>3 DEF WhenAllFailed
  <2>2. check # "running"
    BY <2>1 DEF Inv, CreateInv
  <2>3. /\ ex \in TaskExceptions \cup {"endOfStream"} /\ ex # None
        /\ ex = "backendTimeout" => net.ex = ex
    BY <1>t DEF None, TaskExceptions
  <2> HIDE DEF ex
  <2> QED
    BY <1>s, <2>1, <2>2, <2>3, ThrowsInv
<1> QED
  BY <1>1, <1>2, <1>3

\* A step that changes no stream, and which routers are alive and in the list
\* neither.
LEMMA CopyingInv ==
    ASSUME Inv, AliveKept, RouterTypes',
           UNCHANGED <<token, loop, create, canceled, net, ipc, check, endpoint,
                      dead, registered, announced, stored, st, peer,
                      from>>
    PROVE  Inv'
<1>u. UNCHANGED <<token, loop, create, canceled, net, ipc, check, endpoint,
                  dead, registered, announced, stored, st, peer, from>>
  BY DEF creation, server, streams
<1>1. CreationTypes' /\ StreamTypes' /\ ServerTypes' /\ TaskInv' /\ CreateInv'
     /\ LoopInv' /\ EndpointInv' /\ StoredInv'
  BY <1>u DEF Inv, CreationTypes, StreamTypes, ServerTypes, TaskInv, CreateInv,
     LoopInv, EndpointInv, StoredInv
<1>2. RouterTypes'
  OBVIOUS
<1>3. CreationOwns'
  BY RouterAssumption, <1>u DEF Inv, CreationOwns, Alive, TaskInv, AliveKept
<1>4. RoutersOwn'
  BY RouterAssumption, <1>u DEF Inv, RoutersOwn, Alive, AliveKept
<1>5. RoutersDiffer'
  BY RouterAssumption, <1>u DEF Inv, RoutersDiffer, Alive, AliveKept
<1>6. FrontsAreOwned'
  BY RouterAssumption, <1>u DEF Inv, FrontsAreOwned, Alive, AliveKept
<1>7. StoppedInv'
  BY RouterAssumption, <1>u DEF Inv, StoppedInv, AliveKept
<1> QED
  BY <1>1, <1>2, <1>3, <1>4, <1>5, <1>6, <1>7 DEF Inv

\* A step of a copying task.
LEMMA TaskGoesKeeps ==
    ASSUME RouterTypes, NEW q \in Routers, NEW d \in Directions,
           NEW label \in TaskLabels, NEW completed \in BOOLEAN,
           \/ TaskGoes(q, d, label)
           \/ routers' = [routers EXCEPT ![q].completed = completed,
                                         ![q].task[d] = label]
    PROVE  AliveKept /\ RouterTypes'
<1>1. \A p \in Routers : routers[p] \in RouterType
  BY DEF RouterTypes
<1>2. [routers[q].task EXCEPT ![d] = label] \in [Directions -> TaskLabels]
  BY <1>1 DEF RouterType
<1> DEFINE task == [routers[q].task EXCEPT ![d] = label]
<1>3. CASE TaskGoes(q, d, label)
  <2>1. routers' = [routers EXCEPT ![q] = [routers[q] EXCEPT !.task = task]]
    BY <1>3, <1>1 DEF TaskGoes, RouterTypes, RouterType
  <2> HIDE DEF task
  <2>2. [routers[q] EXCEPT !.task = task] \in RouterType
    BY <1>1, <1>2 DEF RouterType, task
  <2>3. RouterTypes'
    BY <2>1, <2>2 DEF RouterTypes
  <2>4. AliveKept
    BY <1>1, <2>1 DEF RouterTypes, RouterType, AliveKept, Alive
  <2> QED
    BY <2>3, <2>4
<1>4. CASE routers' = [routers EXCEPT ![q].completed = completed,
                                      ![q].task[d] = label]
  <2>1. routers' = [routers EXCEPT ![q] =
                       [routers[q] EXCEPT !.completed = completed, !.task = task]]
    BY <1>4, <1>1 DEF RouterTypes, RouterType
  <2> HIDE DEF task
  <2>2. [routers[q] EXCEPT !.completed = completed, !.task = task] \in RouterType
    BY <1>1, <1>2 DEF RouterType, task
  <2>3. RouterTypes'
    BY <2>1, <2>2 DEF RouterTypes
  <2>4. AliveKept
    BY <1>1, <2>1 DEF RouterTypes, RouterType, AliveKept, Alive
  <2> QED
    BY <2>3, <2>4
<1> QED
  BY <1>3, <1>4

\* The steps of a router's tasks, and the end of Stop, change only the tasks.
LEMMA CopyKeeps ==
    ASSUME RouterTypes, NEW q \in Routers,
           \/ \E d \in Directions : Copy(q, d) \/ CopyEnds(q, d)
           \/ StopCompletes(q)
    PROVE  AliveKept /\ RouterTypes'
<1>1. CASE \E d \in Directions : Copy(q, d) \/ CopyEnds(q, d)
  <2>1. PICK d \in Directions : Copy(q, d) \/ CopyEnds(q, d)
    BY <1>1
  <2>2. PICK label \in TaskLabels :
            \/ TaskGoes(q, d, label)
            \/ routers' = [routers EXCEPT ![q].completed = TRUE,
                                          ![q].task[d] = label]
    BY <2>1 DEF Copy, CopyEnds, TaskLabels
  <2> QED
    BY <2>2, TaskGoesKeeps
<1>2. CASE StopCompletes(q)
  <2>1. routers[q].at = "disposed" /\ routers' = [routers EXCEPT ![q] = NoRouter]
    BY <1>2 DEF StopCompletes
  <2>2. NoRouter \in RouterType
    BY DEF NoRouter, RouterType, TaskLabels
  <2>3. RouterTypes'
    BY <2>1, <2>2 DEF RouterTypes
  <2>4. NoRouter.at = "none"
    BY DEF NoRouter
  <2>5. AliveKept
    BY <2>1, <2>4 DEF RouterTypes, AliveKept, Alive
  <2> QED
    BY <2>3, <2>5
<1> QED
  BY <1>1, <1>2

LEMMA CopyInv ==
    ASSUME Inv, NEW q \in Routers,
           \/ \E d \in Directions : Copy(q, d) \/ CopyEnds(q, d)
           \/ StopCompletes(q)
    PROVE  Inv'
<1>1. UNCHANGED <<token, loop, create, canceled, net, ipc, check, endpoint, dead,
                  registered, announced, stored, st, peer, from>>
  BY DEF Copy, CopyEnds, StopCompletes, creation, server, streams
<1>2. AliveKept /\ RouterTypes'
  BY CopyKeeps DEF Inv
<1> QED
  BY <1>1, <1>2, CopyingInv

\* The loop starts a creation.
LEMMA LoopCreatesInv ==
    ASSUME Inv, loop = "loop", CreateRouterAsync, loop' = "clean",
           UNCHANGED <<token, endpoint, dead, registered, announced, stored, st,
                      peer, from, routers>>
    PROVE  Inv'
<1>u. UNCHANGED <<token, endpoint, dead, registered, announced, stored, st,
                  peer, from, routers>>
  BY DEF CreateRouterAsync, creation, server, streams
<1>e. /\ create' \in CreateType /\ create'.at = "any" /\ create'.ex = None
      /\ canceled' = FALSE /\ check' = "none" /\ create.at = "none"
  BY DEF CreateRouterAsync, CreateType, Inv, LoopInv
<1>f. /\ net' \in NetType /\ net'.at = IF endpoint = None THEN "accept" ELSE "connect"
      /\ net'.s = None /\ net'.ex = None
  BY DEF CreateRouterAsync, NoTask, NetType, TaskExceptions
<1>h. ipc' \in IpcType /\ ipc'.at = "accept" /\ ipc'.s = None /\ ipc'.ex = None
  BY DEF CreateRouterAsync, NoTask, IpcType
<1>i. ipc.s = None
  BY <1>e DEF Inv, CreateInv, NoTask
<1>1. StreamTypes' /\ ServerTypes' /\ RouterTypes' /\ StoredInv' /\ RoutersOwn'
     /\ RoutersDiffer'
  BY <1>u DEF Inv, StreamTypes, ServerTypes, RouterTypes, StoredInv, RoutersOwn,
     RoutersDiffer, Alive
<1>2. CreationTypes'
  BY RouterAssumption, <1>u, <1>e, <1>f, <1>h, <1>i DEF Inv, CreationTypes
<1>3. TaskInv'
  BY RouterAssumption, <1>u, <1>e, <1>f, <1>h, <1>i DEF Inv, TaskInv, None
<1>4. CreateInv'
  BY RouterAssumption, <1>u, <1>e, <1>f, <1>h, <1>i DEF Inv, CreateInv, NoTask,
     TaskInv, None
<1>5. LoopInv'
  BY RouterAssumption, <1>u, <1>e, <1>f, <1>h, <1>i DEF Inv, LoopInv,
     CreationTypes, CreateType
<1>6. EndpointInv'
  BY RouterAssumption, <1>u, <1>e, <1>f, <1>h, <1>i DEF Inv, EndpointInv,
     ServerTypes
<1>7. CreationOwns'
  BY RouterAssumption, <1>u, <1>e, <1>f, <1>h, <1>i DEF Inv, CreationOwns,
     Alive, TaskInv
<1>8. FrontsAreOwned'
  BY RouterAssumption, <1>u, <1>e, <1>f, <1>h, <1>i DEF Inv, FrontsAreOwned,
     Alive
<1>9. StoppedInv'
  BY RouterAssumption, <1>u, <1>e, <1>f, <1>h, <1>i DEF Inv, StoppedInv
<1> QED
  BY <1>1, <1>2, <1>3, <1>4, <1>5, <1>6, <1>7, <1>8, <1>9 DEF Inv

\* The loop sees that it was cancelled.
LEMMA LoopLeavesInv ==
    ASSUME Inv, loop = "loop", loop' = "stopping",
           UNCHANGED <<token, create, canceled, net, ipc, check, endpoint, dead,
                      registered, announced, stored, st, peer, from,
                      routers>>
    PROVE  Inv'
<1>u. UNCHANGED <<token, create, canceled, net, ipc, check, endpoint, dead,
                  registered, announced, stored, st, peer, from, routers>>
  BY DEF creation, server, streams
<1>1. StreamTypes' /\ ServerTypes' /\ RouterTypes' /\ TaskInv' /\ CreateInv' /\
     StoredInv' /\ CreationOwns' /\ RoutersOwn' /\ RoutersDiffer' /\
     FrontsAreOwned'
  BY <1>u DEF Inv, StreamTypes, ServerTypes, RouterTypes, TaskInv, CreateInv,
     StoredInv, CreationOwns, RoutersOwn, RoutersDiffer, FrontsAreOwned, Alive
<1>2. CreationTypes'
  BY RouterAssumption, <1>u DEF Inv, CreationTypes
<1>3. LoopInv'
  BY RouterAssumption, <1>u DEF Inv, LoopInv, CreationTypes, CreateType
<1>4. EndpointInv'
  BY RouterAssumption, <1>u DEF Inv, EndpointInv, ServerTypes
<1>5. StoppedInv'
  BY RouterAssumption, <1>u DEF Inv, StoppedInv
<1> QED
  BY <1>1, <1>2, <1>3, <1>4, <1>5 DEF Inv

\* The loop sees that a router has completed.
LEMMA LoopSeesCompletedInv ==
    ASSUME Inv, LoopSeesCompleted
    PROVE  Inv'
<1>u. UNCHANGED <<token, create, canceled, net, ipc, check, endpoint, dead,
                  registered, announced, stored, st, peer, from, routers>>
  BY DEF LoopSeesCompleted, creation, server, streams
<1>1. StreamTypes' /\ ServerTypes' /\ RouterTypes' /\ TaskInv' /\ CreateInv' /\
     StoredInv' /\ CreationOwns' /\ RoutersOwn' /\ RoutersDiffer' /\
     FrontsAreOwned'
  BY <1>u DEF Inv, StreamTypes, ServerTypes, RouterTypes, TaskInv, CreateInv,
     StoredInv, CreationOwns, RoutersOwn, RoutersDiffer, FrontsAreOwned, Alive
<1>2. CreationTypes'
  BY RouterAssumption, <1>u DEF Inv, CreationTypes, LoopSeesCompleted
<1>3. LoopInv'
  BY RouterAssumption, <1>u DEF Inv, LoopInv, CreationTypes, CreateType,
     LoopSeesCompleted
<1>4. EndpointInv'
  BY RouterAssumption, <1>u DEF Inv, EndpointInv, ServerTypes, LoopSeesCompleted
<1>5. StoppedInv'
  BY RouterAssumption, <1>u DEF Inv, StoppedInv, LoopSeesCompleted
<1> QED
  BY <1>1, <1>2, <1>3, <1>4, <1>5 DEF Inv

\* The loop disposes of the dead routers.
LEMMA LoopCleansInv ==
    ASSUME Inv, LoopCleans
    PROVE  Inv'
<1>u. UNCHANGED <<token, create, canceled, net, ipc, check, endpoint, dead,
                  registered, announced, stored>>
  BY DEF LoopCleans, creation, server, streams
<1>g. loop = "clean" /\ loop' = "wait" /\ RemoveAllDead("listed", {})
  BY DEF LoopCleans
<1>r. /\ StreamTypes' /\ RouterTypes' /\ CreationOwns' /\ RoutersOwn'
      /\ RoutersDiffer' /\ FrontsAreOwned'
      /\ \A s \in NetStreams : st[s] # "open" =>
            st'[s] = st[s] /\ from'[s] = from[s]
  BY <1>g, <1>u, RemoveEffect
<1>1. ServerTypes' /\ TaskInv' /\ CreateInv'
  BY <1>u DEF Inv, ServerTypes, TaskInv, CreateInv
<1>2. CreationTypes'
  BY RouterAssumption, <1>u, <1>g, <1>r DEF Inv, CreationTypes
<1>3. StreamTypes'
  BY <1>r
<1>4. RouterTypes'
  BY <1>r
<1>5. LoopInv'
  BY RouterAssumption, <1>u, <1>g, <1>r DEF Inv, LoopInv, CreationTypes,
     CreateType
<1>6. EndpointInv'
  BY RouterAssumption, <1>u, <1>g, <1>r DEF Inv, EndpointInv, ServerTypes
<1>7. StoredInv'
  BY <1>u, <1>r DEF Inv, StoredInv, ServerTypes
<1>8. CreationOwns'
  BY <1>r
<1>9. RoutersOwn'
  BY <1>r
<1>10. RoutersDiffer'
  BY <1>r
<1>11. FrontsAreOwned'
  BY <1>r
<1>12. StoppedInv'
  BY <1>g DEF StoppedInv
<1> QED
  BY <1>1, <1>2, <1>3, <1>4, <1>5, <1>6, <1>7, <1>8, <1>9, <1>10, <1>11, <1>12
     DEF Inv

\* The finally block of the loop.
LEMMA LoopStopsInv ==
    ASSUME Inv, LoopStops
    PROVE  Inv'
<1>u. UNCHANGED <<token, create, canceled, net, ipc, check, endpoint, dead>>
  BY DEF LoopStops, creation, server, streams
<1>g. loop = "stopping" /\ loop' = "stopped" /\ create.at = "none"
  BY DEF LoopStops, Inv, LoopInv
<1> DEFINE more == {s \in Streams : st[s] \in {"waiting", "stored"}}
<1>d. RemoveAllDead("dropped", more)
  BY DEF LoopStops
<1>m. \A s \in more \cap Streams : st[s] # "open"
  OBVIOUS
<1>n. \A s \in Streams : s \notin more => st[s] \notin {"waiting", "stored"}
  OBVIOUS
<1> HIDE DEF more
<1>r. /\ StreamTypes' /\ RouterTypes' /\ CreationOwns' /\ RoutersOwn'
      /\ RoutersDiffer' /\ FrontsAreOwned'
      /\ \A s \in Streams : st'[s] = st[s] \/ st'[s] = "free"
      /\ \A s \in more \cap Streams : st'[s] = "free"
      /\ \A q \in Routers : routers'[q].at # "listed"
  BY <1>d, <1>m, <1>u, RemoveEffect
<1>s. /\ stored' = [r \in Runtimes |-> None] /\ registered' = {} /\ announced' = {}
  BY DEF LoopStops
<1>1. TaskInv' /\ CreateInv'
  BY <1>u DEF Inv, TaskInv, CreateInv
<1>2. CreationTypes'
  BY RouterAssumption, <1>u, <1>g, <1>r, <1>s DEF Inv, CreationTypes
<1>3. StreamTypes'
  BY <1>r
<1>4. ServerTypes'
  BY RouterAssumption, <1>u, <1>g, <1>r, <1>s DEF Inv, ServerTypes
<1>5. RouterTypes'
  BY <1>r
<1>6. LoopInv'
  BY RouterAssumption, <1>u, <1>g, <1>r, <1>s DEF Inv, LoopInv, CreationTypes,
     CreateType
<1>7. EndpointInv'
  BY RouterAssumption, <1>u, <1>g, <1>r, <1>s DEF Inv, EndpointInv, ServerTypes
<1>8. StoredInv'
  BY <1>s DEF StoredInv
<1>9. CreationOwns'
  BY <1>r
<1>10. RoutersOwn'
  BY <1>r
<1>11. RoutersDiffer'
  BY <1>r
<1>12. FrontsAreOwned'
  BY <1>r
<1>13. StoppedInv'
  BY <1>n, <1>r DEF StoppedInv
<1> QED
  BY <1>1, <1>2, <1>3, <1>4, <1>5, <1>6, <1>7, <1>8, <1>9, <1>10, <1>11, <1>12,
     <1>13 DEF Inv

\* The new router takes over the streams of the creation.
LEMMA LoopStartsRouterInv ==
    ASSUME Inv, LoopStartsRouter
    PROVE  Inv'
<1>u. UNCHANGED <<token, endpoint, dead, registered, announced, stored, st,
                  peer, from>>
  BY DEF LoopStartsRouter, creation, server, streams
<1>e. /\ net \in NetType /\ ipc \in IpcType /\ create \in CreateType
      /\ NoTask \in NetType /\ NoTask \in IpcType
      /\ [at |-> "none", ex |-> None] \in CreateType
      /\ NoTask.at = "none" /\ NoTask.s = None /\ NoTask.ex = None
  BY DEF Inv, CreationTypes, NoTask, NetType, IpcType, CreateType, TaskExceptions
<1>k. /\ create'.at = "none" /\ create'.ex = None /\ create' \in CreateType
      /\ net' = NoTask /\ ipc' = NoTask /\ check' = "none" /\ canceled' = FALSE
  BY <1>e DEF LoopStartsRouter

<1>g. /\ loop = "wait" /\ loop' = "loop" /\ create.at = "created"
      /\ net.at = "ok" /\ ipc.at = "ok"
  BY DEF LoopStartsRouter, Inv, CreateInv
<1>i. /\ net.s \in NetStreams /\ st[net.s] = "open"
      /\ \A p \in Alive : routers[p].back # net.s
      /\ ipc.s \in IpcStreams /\ st[ipc.s] = "open"
      /\ \A p \in Alive : routers[p].front # ipc.s
  BY <1>e, <1>g DEF Inv, TaskInv, CreationOwns, NetType, IpcType
<1> DEFINE new == [at |-> "listed", front |-> ipc.s, back |-> net.s,
                   completed |-> FALSE, task |-> [d \in Directions |-> "read"]]
<1>q. PICK q \in Routers :
        routers[q].at = "none" /\ routers' = [routers EXCEPT ![q] = new]
  BY DEF LoopStartsRouter
<1>n. /\ new \in RouterType /\ new.at = "listed" /\ new.front = ipc.s
      /\ new.back = net.s
  BY <1>i DEF RouterType, TaskLabels
<1> HIDE DEF new
<1>r. /\ RouterTypes' /\ routers'[q].at = "listed" /\ q \in Routers
      /\ routers'[q].front = ipc.s /\ routers'[q].back = net.s
      /\ \A p \in Routers : p # q => routers'[p] = routers[p]
  BY <1>q, <1>n DEF Inv, RouterTypes
<1>a. q \in Alive' /\ \A p \in Alive' : p = q \/ (p \in Alive /\ routers'[p] = routers[p])
  BY <1>r DEF Alive
<1>b. \A p \in Alive : p \in Alive' /\ routers'[p] = routers[p] /\ p # q
  BY <1>r, <1>q DEF Alive
<1>1. StreamTypes' /\ ServerTypes' /\ StoredInv'
  BY <1>u DEF Inv, StreamTypes, ServerTypes, StoredInv
<1>2. CreationTypes'
  BY RouterAssumption, <1>u, <1>e, <1>k, <1>g, <1>i, <1>r DEF Inv, CreationTypes
<1>3. RouterTypes'
  BY <1>r
<1>4. TaskInv'
  BY RouterAssumption, <1>u, <1>e, <1>k, <1>g, <1>i, <1>r DEF Inv, TaskInv, None
<1>5. CreateInv'
  BY RouterAssumption, <1>u, <1>e, <1>k, <1>g, <1>i, <1>r DEF Inv, CreateInv,
     NoTask, TaskInv, None
<1>6. LoopInv'
  BY RouterAssumption, <1>u, <1>e, <1>k, <1>g, <1>i, <1>r DEF Inv, LoopInv,
     CreationTypes, CreateType
<1>7. EndpointInv'
  BY RouterAssumption, <1>u, <1>e, <1>k, <1>g, <1>i, <1>r DEF Inv, EndpointInv,
     ServerTypes
<1>8. CreationOwns'
  BY <1>e, <1>k DEF CreationOwns
<1>9. RoutersOwn'
  BY <1>a, <1>i, <1>r, <1>u DEF Inv, RoutersOwn
<1>10. RoutersDiffer'
  BY <1>a, <1>i, <1>r DEF Inv, RoutersDiffer
<1>11. FrontsAreOwned'
  BY <1>a, <1>b, <1>r, <1>u DEF Inv, FrontsAreOwned
<1>12. StoppedInv'
  BY RouterAssumption, <1>u, <1>e, <1>k, <1>g, <1>i, <1>r DEF Inv, StoppedInv
<1> QED
  BY <1>1, <1>2, <1>3, <1>4, <1>5, <1>6, <1>7, <1>8, <1>9, <1>10, <1>11, <1>12
     DEF Inv

\* What a catch block without Reset leaves.
LEMMA CaughtInv ==
    ASSUME Inv, LoopCatches
    PROVE  /\ CreationTypes' /\ TaskInv' /\ CreateInv' /\ LoopInv'
           /\ create.at = "threw" /\ create'.at = "none"
           /\ loop # "stopped" /\ loop' # "stopped"
           /\ ipc'.s = None /\ net'.s = None
           /\ UNCHANGED <<token, dead, routers>>
<1>g. /\ loop = "wait" /\ create.at = "threw" /\ loop' \in {"stopping", "loop"}
      /\ UNCHANGED <<token, dead, routers>>
  BY DEF LoopCatches
<1>e. /\ net \in NetType /\ ipc \in IpcType /\ create \in CreateType
      /\ NoTask \in NetType /\ NoTask \in IpcType
      /\ [at |-> "none", ex |-> None] \in CreateType
      /\ NoTask.at = "none" /\ NoTask.s = None /\ NoTask.ex = None
  BY DEF Inv, CreationTypes, NoTask, NetType, IpcType, CreateType, TaskExceptions
<1>k. /\ create'.at = "none" /\ create'.ex = None /\ create' \in CreateType
      /\ net' = NoTask /\ ipc' = NoTask /\ check' = "none" /\ canceled' = FALSE
  BY <1>e DEF LoopCatches
<1>1. CreationTypes'
  BY <1>e, <1>g, <1>k DEF Inv, CreationTypes
<1>2. TaskInv'
  BY <1>e, <1>k DEF TaskInv, None
<1>3. CreateInv' /\ LoopInv'
  BY <1>e, <1>g, <1>k DEF CreateInv, LoopInv, None
<1> QED
  BY <1>1, <1>2, <1>3, <1>g, <1>e, <1>k

\* The catch block of the loop, with and without Reset.
LEMMA LoopCatchesInv == ASSUME Inv, LoopCatches PROVE Inv'
<1>c. /\ CreationTypes' /\ TaskInv' /\ CreateInv' /\ LoopInv'
      /\ create.at = "threw" /\ create'.at = "none"
      /\ loop # "stopped" /\ loop' # "stopped"
      /\ ipc'.s = None /\ net'.s = None
      /\ UNCHANGED <<token, dead, routers>>
  BY CaughtInv
<1>1. CASE UNCHANGED <<endpoint, server, streams>>
  <2>u. UNCHANGED <<endpoint, registered, announced, stored, st, peer, from>>
    BY <1>1 DEF server, streams
  <2>1. /\ StreamTypes' /\ ServerTypes' /\ RouterTypes' /\ StoredInv'
        /\ RoutersOwn' /\ RoutersDiffer'
    BY <1>c, <2>u DEF Inv, StreamTypes, ServerTypes, RouterTypes, StoredInv,
       RoutersOwn, RoutersDiffer, Alive
  <2>2. CreationOwns' /\ StoppedInv' /\ EndpointInv'
    BY <1>c, <2>u DEF Inv, CreationOwns, StoppedInv, EndpointInv
  <2>3. FrontsAreOwned'
    BY <1>c, <2>u DEF Inv, FrontsAreOwned, Alive
  <2> QED
    BY <1>c, <2>1, <2>2, <2>3 DEF Inv
<1>2. CASE create.ex = "backendTimeout" /\ Reset
  <2>1. endpoint \in Runtimes
    BY <1>2 DEF Inv, CreateInv, TaskInv, ServerTypes
  <2> DEFINE gone == {stored[endpoint]} \cap NetStreams
  <2>2. /\ registered' = registered \ {endpoint}
        /\ stored' = [stored EXCEPT ![endpoint] = None]
        /\ Dispose(gone) /\ endpoint' = None /\ announced' = announced
    BY <1>2 DEF Reset
  <2>3. StreamTypes' /\ Disposed(gone)
    BY <2>2, DisposeEffect DEF Inv
  <2>4. \A s \in gone : s \in NetStreams /\ st[s] = "stored" /\ from[s] = endpoint
    BY RouterAssumption, <2>1 DEF Inv, StoredInv
  <2> HIDE DEF gone
  <2>5. ServerTypes' /\ EndpointInv'
    BY RouterAssumption, <1>c, <2>1, <2>2 DEF Inv, ServerTypes, EndpointInv
  <2>6. RouterTypes' /\ RoutersDiffer' /\ CreationOwns' /\ StoppedInv'
    BY <1>c DEF Inv, RouterTypes, RoutersDiffer, Alive, CreationOwns, StoppedInv
  <2>7. StoredInv'
    BY RouterAssumption, <2>1, <2>2, <2>3, <2>4
       DEF Inv, StoredInv, ServerTypes, Disposed, Streams
  <2>8. RoutersOwn'
    BY <1>c, <2>3, <2>4 DEF Inv, RoutersOwn, Disposed, Streams, Alive
  <2>9. FrontsAreOwned'
    BY RouterAssumption, <1>c, <2>3, <2>4
       DEF Inv, FrontsAreOwned, Disposed, Streams, Alive
  <2> QED
    BY <1>c, <2>3, <2>5, <2>6, <2>7, <2>8, <2>9 DEF Inv
<1> QED
  BY <1>1, <1>2 DEF LoopCatches

-----------------------------------------------------------------------------
(* The theorems                                                            *)

\* Nothing is connected in the beginning.
LEMMA InitInv == Init => Inv
<1> SUFFICES ASSUME Init PROVE Inv
  OBVIOUS
<1>1. NoTask \in NetType /\ NoTask \in IpcType /\ NoRouter \in RouterType
  BY DEF NoTask, NetType, IpcType, TaskExceptions, NoRouter, RouterType, TaskLabels
<1>2. CreationTypes /\ ServerTypes
  BY <1>1 DEF Init, CreationTypes, CreateType, ServerTypes
<1>3. StreamTypes /\ RouterTypes
  BY <1>1 DEF Init, StreamTypes, StateType, RouterTypes
<1>4. TaskInv /\ CreateInv /\ LoopInv /\ EndpointInv
  BY DEF Init, TaskInv, CreateInv, LoopInv, EndpointInv, NoTask, None
<1>5. Alive = {}
  BY DEF Init, Alive, NoRouter
<1>6. StoredInv /\ CreationOwns /\ RoutersOwn /\ RoutersDiffer
  BY <1>5 DEF Init, StoredInv, CreationOwns, RoutersOwn, RoutersDiffer, NoTask
<1>7. FrontsAreOwned /\ StoppedInv
  BY DEF Init, FrontsAreOwned, StoppedInv, Streams
<1> QED
  BY <1>2, <1>3, <1>4, <1>6, <1>7 DEF Inv

\* A step that changes nothing.
LEMMA StutterInv == ASSUME Inv, UNCHANGED vars PROVE Inv'
<1>u. UNCHANGED <<token, loop, create, canceled, net, ipc, check, endpoint, dead,
                  registered, announced, stored, st, peer, from, routers>>
  BY DEF vars, creation, server, streams
<1>1. /\ CreationTypes' /\ StreamTypes' /\ ServerTypes' /\ RouterTypes' /\ TaskInv'
      /\ CreateInv' /\ LoopInv' /\ EndpointInv' /\ StoredInv' /\ StoppedInv'
  BY <1>u DEF Inv, CreationTypes, StreamTypes, ServerTypes, RouterTypes, TaskInv,
     CreateInv, LoopInv, EndpointInv, StoredInv, StoppedInv
<1>2. CreationOwns' /\ RoutersOwn' /\ RoutersDiffer' /\ FrontsAreOwned'
  BY <1>u DEF Inv, CreationOwns, RoutersOwn, RoutersDiffer, FrontsAreOwned, Alive
<1> QED
  BY <1>1, <1>2 DEF Inv

\* Every step of the system keeps the invariant.
LEMMA NextInv == ASSUME Inv, [Next]_vars PROVE Inv'
<1>1. CASE World
  BY <1>1, CancelInv, RuntimeConnectsInv, RuntimeEndsInv, ClientConnectsInv,
     DisconnectsInv, CopyInv DEF World
<1>2. CASE AcceptTasks
  BY <1>2, NetAcceptsInv, NetConnectsInv, NetTimesOutInv, NetIsCanceledInv,
     IpcAcceptsInv, IpcFailsInv, IpcIsCanceledInv, CheckStreamInv DEF AcceptTasks
<1>3. CASE Create
  BY <1>3, WhenAnyAcceptedInv, WhenAnyOtherInv, WhenAllInv DEF Create
<1>4. CASE CopyTasks
  BY <1>4, CopyInv DEF CopyTasks
<1>5. CASE RunRouter
  <2>1. CASE LoopStarts
    <3>1. /\ loop = "loop"
          /\ UNCHANGED <<token, endpoint, dead, registered, announced, stored,
                         st, peer, from, routers>>
      BY <2>1 DEF LoopStarts, server, streams
    <3>2. CASE CreateRouterAsync /\ loop' = "clean"
      BY <3>1, <3>2, LoopCreatesInv
    <3>3. CASE loop' = "stopping" /\ UNCHANGED creation
      BY <3>1, <3>3, LoopLeavesInv DEF creation
    <3> QED
      BY <2>1, <3>2, <3>3 DEF LoopStarts
  <2> QED
    BY <1>5, <2>1, LoopCleansInv, LoopSeesCompletedInv, LoopStartsRouterInv,
       LoopCatchesInv, LoopStopsInv DEF RunRouter
<1>6. CASE UNCHANGED vars
  BY <1>6, StutterInv
<1> QED
  BY <1>1, <1>2, <1>3, <1>4, <1>5, <1>6 DEF Next

LEMMA Invariance == Spec => []Inv
BY InitInv, NextInv, PTL DEF Spec

\* The invariant has what the run checks.
LEMMA InvOwned == ASSUME Inv PROVE ConnectionsAreOwned
<1>1. TypeOK
  <2>1. \A q \in Routers :
          /\ routers[q].at \in {"none", "listed", "disposed", "dropped"}
          /\ routers[q].completed \in BOOLEAN
          /\ routers[q].task \in [Directions -> TaskLabels]
    BY DEF Inv, RouterTypes, RouterType
  <2>2. /\ create.at \in {"none", "any", "ipcFirst", "netFirst", "ipcAll",
                          "netAll", "failing", "error", "created", "threw"}
        /\ create.ex \in {None, "canceled", "error", "endOfStream",
                          "backendTimeout", "runtimeTimeout"}
        /\ net.at \in {"none", "accept", "connect", "ok", "failed"}
        /\ net.s \in NetStreams \cup {None}
        /\ ipc.at \in {"none", "accept", "ok", "failed"}
        /\ ipc.s \in IpcStreams \cup {None}
    BY DEF Inv, CreationTypes, CreateType, NetType, IpcType
  <2>3. create.at = "threw" <=> create.ex # None
    BY DEF Inv, CreateInv
  <2> QED
    BY <2>1, <2>2, <2>3
       DEF Inv, TypeOK, CreationTypes, StreamTypes, ServerTypes, StateType, TaskLabels
<1>2. FrontendsAreHeld
  BY DEF Inv, FrontsAreOwned, RoutersDiffer, FrontendsAreHeld
<1>3. HeldAreOpen
  <2> SUFFICES ASSUME NEW s \in Held PROVE st[s] = "open"
    BY DEF HeldAreOpen
  <2>1. CASE \E q \in Alive : s = routers[q].front \/ s = routers[q].back
    BY <2>1 DEF Inv, RoutersOwn
  <2>2. CASE create.at # "threw" /\ s \in ResultOf(net) \cup ResultOf(ipc)
    BY <2>2 DEF Inv, CreationOwns, TaskInv, ResultOf, Succeeded
  <2> QED
    BY <2>1, <2>2 DEF Held
<1>4. NoStrayAccept
  BY DEF Inv, CreateInv, NoTask, NoStrayAccept
<1>5. StoppedServersAreEmpty
  <2> SUFFICES ASSUME loop = "stopped" PROVE StoppedServersAreEmpty
    BY DEF StoppedServersAreEmpty
  <2>1. \A s \in IpcStreams : ipc.s # s
    BY RouterAssumption DEF Inv, LoopInv, CreateInv, NoTask
  <2>2. \A q \in Alive : q \in Routers /\ routers[q].at = "dropped"
    BY DEF Inv, StoppedInv, Alive
  <2> QED
    BY <2>1, <2>2 DEF Inv, StoppedInv, FrontsAreOwned, StoppedServersAreEmpty
<1> QED
  BY <1>1, <1>2, <1>3, <1>4, <1>5 DEF ConnectionsAreOwned

\* Every connection of a front end that was accepted is with the creation or
\* with one router, no router works on a stream that was disposed of, and no
\* accept goes on when CreateRouterAsync is over.
THEOREM ConnectionsOwned == Spec => []ConnectionsAreOwned
BY Invariance, InvOwned, PTL

-----------------------------------------------------------------------------
(* What is let go of                                                       *)

\* The creation or a router holds the connection s of a runtime.
NetHeld(s) ==
    \/ create.at # "threw" /\ net.s = s
    \/ \E q \in Alive : routers[q].back = s

\* Nobody else can be meant by Held.
NetHeldIsHeld == \A s \in NetStreams : s \in Held <=> NetHeld(s)

LEMMA HeldByNet == Inv => NetHeldIsHeld
<1> SUFFICES ASSUME Inv, NEW s \in NetStreams
             PROVE  s \in Held <=> NetHeld(s)
  BY DEF NetHeldIsHeld
<1>1. \A q \in Alive : routers[q].front # s
  BY RouterAssumption DEF Inv, RoutersOwn
<1>2. s \notin ResultOf(ipc)
  BY RouterAssumption DEF Inv, TaskInv, CreationTypes, IpcType, ResultOf, Succeeded
<1>3. s \in ResultOf(net) <=> net.s = s
  BY RouterAssumption DEF Inv, TaskInv, ResultOf, Succeeded
<1> QED
  BY <1>1, <1>2, <1>3 DEF Held, NetHeld

\* A step of CreateRouterAsync lets go of a connection of a runtime that it does
\* not close only where the accept of a front end failed.
LEMMA CreateLeaks ==
    ASSUME Inv, Create, NEW s \in NetStreams, NetHeld(s), ~NetHeld(s)',
           st'[s] = "open"
    PROVE  create.at = "error" /\ ipc.at = "failed"
<1>1. UNCHANGED <<net, ipc, routers>>
  BY DEF Create, WhenAnyAccepted, WhenAnyOther, WhenAllOther, WhenAllFailed
<1>2. create.at # "threw" /\ net.s = s /\ create'.at = "threw"
  BY <1>1 DEF NetHeld, Alive
<1>3. net.at = "ok" /\ s \in ResultOf(net)
  BY RouterAssumption, <1>2 DEF Inv, TaskInv, ResultOf, Succeeded
<1>4. create \in CreateType
  BY DEF Inv, CreationTypes
<1>5. ~WhenAnyAccepted /\ ~WhenAnyOther
  BY <1>2, <1>4 DEF WhenAnyAccepted, WhenAnyOther, CreateGoes, CreateType
<1>6. ~Dispose(ResultOf(net) \cup ResultOf(ipc))
  <2> SUFFICES ASSUME Dispose(ResultOf(net) \cup ResultOf(ipc)) PROVE FALSE
    OBVIOUS
  <2>1. Disposed(ResultOf(net) \cup ResultOf(ipc))
    BY DisposeEffect DEF Inv
  <2> QED
    BY <1>3, <2>1 DEF Disposed, Streams
<1>7. ~CreateGoes("created")
  BY <1>2, <1>4 DEF CreateGoes, CreateType
<1>8. WhenAllFailed
  BY <1>5, <1>6, <1>7 DEF Create, WhenAllOther
<1> QED
  BY <1>3, <1>8 DEF WhenAllFailed, Inv, CreateInv

\* The loop lets go of no connection of a runtime that it does not close.
LEMMA LoopKeeps ==
    ASSUME Inv, RunRouter, NEW s \in NetStreams, NetHeld(s), st'[s] = "open"
    PROVE  NetHeld(s)'
<1>n. s # None
  BY RouterAssumption
<1>1. CASE LoopStarts
  <2>1. loop = "loop" /\ routers' = routers
    BY <1>1 DEF LoopStarts
  <2>2. net.s = None
    BY <2>1 DEF Inv, LoopInv, CreateInv, NoTask
  <2> QED
    BY <1>n, <2>1, <2>2 DEF NetHeld, Alive
<1>2. CASE LoopCleans \/ LoopStops
  <2> DEFINE more == {t \in Streams : st[t] \in {"waiting", "stored"}}
  <2>1. /\ RemoveAllDead("listed", {}) \/ RemoveAllDead("dropped", more)
        /\ UNCHANGED <<create, net, ipc>>
    BY <1>2 DEF LoopCleans, LoopStops, creation
  <2>2. \A t \in more \cap Streams : st[t] # "open"
    OBVIOUS
  <2> HIDE DEF more
  <2>3. /\ RouterTypes'
        /\ \A q \in Alive : s = routers[q].back => st'[s] = "free" \/ q \in Alive'
    BY <2>1, <2>2, RemoveEffect
  <2>4. \A q \in Routers : routers'[q].back = routers[q].back
    BY <2>1 DEF RemoveAllDead, Inv, RouterTypes, RouterType
  <2> QED
    BY <2>1, <2>3, <2>4 DEF NetHeld, Alive
<1>3. CASE LoopSeesCompleted
  BY <1>3 DEF LoopSeesCompleted, creation, NetHeld, Alive
<1>4. CASE LoopStartsRouter
  <2> DEFINE new == [at |-> "listed", front |-> ipc.s, back |-> net.s,
                     completed |-> FALSE, task |-> [d \in Directions |-> "read"]]
  <2>1. PICK q \in Routers :
          routers[q].at = "none" /\ routers' = [routers EXCEPT ![q] = new]
    BY <1>4 DEF LoopStartsRouter
  <2>2. new.at = "listed" /\ new.back = net.s
    OBVIOUS
  <2> HIDE DEF new
  <2>3. /\ routers'[q].at = "listed" /\ routers'[q].back = net.s
        /\ \A p \in Routers : p # q => routers'[p] = routers[p]
    BY <2>1, <2>2 DEF Inv, RouterTypes
  <2> QED
    BY <2>1, <2>3 DEF NetHeld, Alive
<1>5. CASE LoopCatches
  BY <1>5 DEF LoopCatches, NetHeld, Alive
<1> QED
  BY <1>1, <1>2, <1>3, <1>4, <1>5 DEF RunRouter

\* Nor does anything else.
LEMMA OthersKeep ==
    ASSUME Inv, World \/ AcceptTasks \/ CopyTasks \/ UNCHANGED vars,
           NEW s \in NetStreams, NetHeld(s)
    PROVE  NetHeld(s)'
<1>n. s # None
  BY RouterAssumption
<1>c. create' = create
  BY DEF World, Cancel, RuntimeConnects, RuntimeEnds, ClientConnects, Disconnects,
     Copy, AcceptTasks, NetAccepts, NetConnects, NetTimesOut, NetIsCanceled,
     IpcAccepts, IpcFails, IpcIsCanceled, CheckStream, CopyTasks, CopyEnds,
     StopCompletes, vars, creation
<1>1. CASE AcceptTasks
  <2>1. routers' = routers
    BY <1>1 DEF AcceptTasks, NetAccepts, NetConnects, NetTimesOut, NetIsCanceled,
       IpcAccepts, IpcFails, IpcIsCanceled, CheckStream
  <2>2. net.s = s => net.at = "ok"
    BY <1>n DEF Inv, TaskInv
  <2>3. net.at = "ok" => net' = net
    BY <1>1 DEF AcceptTasks, NetAccepts, NetConnects, NetTimesOut, NetIsCanceled,
       IpcAccepts, IpcFails, IpcIsCanceled, CheckStream
  <2> QED
    BY <1>c, <2>1, <2>2, <2>3 DEF NetHeld, Alive
<1>2. CASE World \/ CopyTasks \/ UNCHANGED vars
  <2>1. net' = net
    BY <1>2 DEF World, Cancel, RuntimeConnects, RuntimeEnds, ClientConnects,
       Disconnects, Copy, CopyTasks, CopyEnds, StopCompletes, vars, creation
  <2>2. CASE routers' = routers
    BY <1>c, <2>1, <2>2 DEF NetHeld, Alive
  <2>3. CASE \E q \in Routers : \/ \E d \in Directions : Copy(q, d) \/ CopyEnds(q, d)
                                \/ StopCompletes(q)
    <3>1. AliveKept
      BY <2>3, CopyKeeps DEF Inv
    <3> QED
      BY <1>c, <2>1, <3>1 DEF NetHeld, Alive, AliveKept
  <2> QED
    BY <1>2, <2>2, <2>3 DEF World, Cancel, RuntimeConnects, RuntimeEnds,
       ClientConnects, Disconnects, CopyTasks, vars
<1> QED
  BY <1>1, <1>2

\* A connection of a runtime is let go without being closed only where the
\* accept of a front end failed just before that of the runtime succeeded.
THEOREM LeaksOnlyOnError == Spec => OnlyErrorCaseLeaks
<1> DEFINE Kept == \A s \in NetStreams :
                       s \in Held /\ s \notin Held' /\ st'[s] = "open" =>
                          create.at = "error" /\ ipc.at = "failed"
<1>1. ASSUME Inv, NetHeldIsHeld, NetHeldIsHeld', [Next]_vars PROVE Kept
  <2> SUFFICES ASSUME NEW s \in NetStreams, s \in Held, s \notin Held',
                      st'[s] = "open"
               PROVE  create.at = "error" /\ ipc.at = "failed"
    OBVIOUS
  <2>1. NetHeld(s) /\ ~NetHeld(s)'
    BY <1>1 DEF NetHeldIsHeld
  <2> QED
    BY <1>1, <2>1, CreateLeaks, LoopKeeps, OthersKeep DEF Next
<1>2. Inv /\ NetHeldIsHeld /\ NetHeldIsHeld' /\ [Next]_vars => [Kept]_vars
  BY <1>1
<1> QED
  BY Invariance, HeldByNet, <1>2, PTL DEF Spec, OnlyErrorCaseLeaks
=============================================================================
