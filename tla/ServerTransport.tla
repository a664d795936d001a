-------------------------- MODULE ServerTransport --------------------------
(***************************************************************************)
(* IpcServerTransport (IpcServerTransport.cs) in its two forms: the named  *)
(* pipe, whose server stream becomes the connection and is replaced by a   *)
(* new one, and the socket (TCP or Unix domain), which goes on listening.  *)
(* Both replace a listener that failed.  An accept loop calls AcceptAsync, *)
(* one call at a time, each with a token; the owner calls Dispose, on      *)
(* another thread and without a lock.                                      *)
(*                                                                         *)
(* A listener is a NamedPipeServerStream or an IpcSocket.  Where the       *)
(* library is not built for .NET 8, IpcSocket.AcceptAsync closes the       *)
(* socket when its token is cancelled.                                     *)
(***************************************************************************)
EXTENDS FiniteSets

CONSTANTS Listeners,  \* the listeners that may be created: a bound
          Kinds       \* the kinds of transport to consider

\* "socket" is the build for .NET 8, "compatSocket" the one for netstandard2.0;
\* "anyPort" and "compatAnyPort" are TCP sockets that are bound to port 0, as
\* 127.0.0.1:0, which the TCP server of the router is given by default.
ASSUME TransportAssumption ==
    /\ Listeners # {}
    /\ Kinds \subseteq {"pipe", "socket", "compatSocket", "anyPort", "compatAnyPort"}

VARIABLES
    kind,     \* the kind of transport, which never changes
    listener, \* the state of each listener
    current,  \* _stream or _socket
    source,   \* _cancellation: "active", "cancelled" or "disposed"
    disposed, \* _disposed
    accept,   \* the position in AcceptAsync
    callToken, \* the token of the call is cancelled
    result,   \* how the last call ended
    handed,   \* pipes that were returned as connections
    refused,  \* history: a listener could not be created, and none was since
    raced,    \* history: Dispose closed while a listener was being created
    dispose   \* the position in Dispose

creationHistory == <<refused, raced>>
transportVars == <<kind, listener, current, source, disposed, accept, callToken,
                   result, handed, creationHistory, dispose>>

IsPipe == kind = "pipe"
ClosesOnCancel == kind \in {"compatSocket", "compatAnyPort"}
AnyPort == kind \in {"anyPort", "compatAnyPort"}

Open == {l \in Listeners : listener[l] = "open"}
Unborn == {l \in Listeners : listener[l] = "unborn"}

\* The constructor creates the first listener.
TransportInit ==
    /\ kind \in Kinds
    /\ current \in Listeners
    /\ listener = [l \in Listeners |-> IF l = current THEN "open" ELSE "unborn"]
    /\ source = "active"
    /\ disposed = FALSE
    /\ accept = "idle"
    /\ callToken = FALSE
    /\ result = "none"
    /\ handed = {}
    /\ refused = FALSE
    /\ raced = FALSE
    /\ dispose = "idle"

\* linkedSource.IsCancellationRequested
LinkedCancelled == callToken \/ source # "active"

\* A cancelled token closes the socket that is being waited for.
CloseWaiting ==
    listener' = IF ClosesOnCancel /\ accept = "wait"
                THEN [listener EXCEPT ![current] = "closed"]
                ELSE listener

-----------------------------------------------------------------------------
(* AcceptAsync *)

AcceptEnds(how) == accept' = "idle" /\ result' = how

\* VerifyNotDisposed
AcceptBegin ==
    /\ accept = "idle"
    /\ IF disposed
       THEN AcceptEnds("rejected") /\ UNCHANGED callToken
       ELSE accept' = "link" /\ callToken' = FALSE /\ UNCHANGED result
    /\ UNCHANGED <<kind, listener, current, source, disposed, handed, dispose,
                   creationHistory>>

\* A mutant of AcceptLink: a closed socket is taken for a cancellation.
AcceptLinkGivesUp ==
    /\ accept = "link"
    /\ IF source = "disposed" \/ current \notin Open
       THEN /\ AcceptEnds(IF source = "disposed" THEN "rejected" ELSE "cancelled")
            /\ UNCHANGED listener
       ELSE /\ accept' = "wait"
            /\ listener' = IF ClosesOnCancel /\ LinkedCancelled
                           THEN [listener EXCEPT ![current] = "closed"]
                           ELSE listener
            /\ UNCHANGED result
    /\ UNCHANGED <<kind, current, source, disposed, callToken, handed, dispose,
                   creationHistory>>

\* _cancellation.Token throws once the source is disposed.  A token that is
\* already cancelled closes the socket as soon as the wait begins.
AcceptLink ==
    /\ accept = "link"
    /\ IF source = "disposed"
       THEN AcceptEnds("rejected") /\ UNCHANGED listener
       ELSE /\ accept' = "wait"
            /\ listener' = IF ClosesOnCancel /\ LinkedCancelled
                           THEN [listener EXCEPT ![current] = "closed"]
                           ELSE listener
            /\ UNCHANGED result
    /\ UNCHANGED <<kind, current, source, disposed, callToken, handed, dispose,
                   creationHistory>>

\* A client connects.  A named pipe is the connection from now on.
Connected ==
    /\ accept = "wait"
    /\ ~LinkedCancelled
    /\ current \in Open
    /\ IF IsPipe
       THEN /\ accept' = "replace"
            /\ listener' = [listener EXCEPT ![current] = "taken"]
            /\ UNCHANGED result
       ELSE AcceptEnds("stream") /\ UNCHANGED listener
    /\ UNCHANGED <<kind, current, source, disposed, callToken, handed, dispose,
                   creationHistory>>

\* The wait throws: cancellation, a listener that is closed, or an I/O error.
WaitThrows ==
    /\ accept = "wait"
    /\ accept' = "catch"
    /\ UNCHANGED <<kind, listener, current, source, disposed, callToken, result,
                   handed, dispose, creationHistory>>

\* A mutant of Replace: the pipe is returned and not replaced.
ReplaceMissing ==
    /\ accept = "replace"
    /\ handed' = handed \cup {current}
    /\ AcceptEnds("stream")
    /\ UNCHANGED <<kind, listener, current, source, disposed, callToken, dispose,
                   creationHistory>>

\* A mutant of Replace: the new pipe is created before the old one is read.
ReplaceReordered ==
    /\ accept = "replace"
    /\ \E l \in Unborn :
        /\ listener' = [listener EXCEPT ![l] = "open"]
        /\ current' = l
        /\ handed' = handed \cup {l}
    /\ AcceptEnds("stream")
    /\ refused' = FALSE
    /\ UNCHANGED <<kind, source, disposed, callToken, raced, dispose>>

\* The connected pipe is transferred and a new one created.
Replace ==
    /\ accept = "replace"
    /\ \E l \in Unborn :
        /\ listener' = [listener EXCEPT ![l] = "open"]
        /\ current' = l
    /\ handed' = handed \cup {current}
    /\ AcceptEnds("stream")
    /\ refused' = FALSE
    /\ UNCHANGED <<kind, source, disposed, callToken, raced, dispose>>

\* The constructor of the new pipe throws into the catch block.
ReplaceThrows ==
    /\ accept = "replace"
    /\ accept' = "catch"
    /\ refused' = TRUE
    /\ UNCHANGED <<kind, listener, current, source, disposed, callToken, result,
                   handed, raced, dispose>>

\* The catch block keeps the listener when anything was cancelled.
Catch ==
    /\ accept = "catch"
    /\ IF LinkedCancelled
       THEN AcceptEnds("cancelled")
       ELSE accept' = "recreate" /\ UNCHANGED result
    /\ UNCHANGED <<kind, listener, current, source, disposed, callToken, handed,
                   dispose, creationHistory>>

\* What the catch block leaves of the old listener: a pipe is disposed, a
\* socket is not.
Closed == IF IsPipe THEN [listener EXCEPT ![current] = "closed"] ELSE listener

\* A socket that still listens keeps its address, and no other can be bound to
\* it.  To port 0 it can: the system chooses another port, and the old socket
\* is left open.
Recreate ==
    /\ accept = "recreate"
    /\ IsPipe \/ AnyPort \/ current \notin Open
    /\ \E l \in Unborn :
        /\ listener' = [Closed EXCEPT ![l] = "open"]
        /\ current' = l
    /\ AcceptEnds("failed")
    /\ refused' = FALSE
    /\ UNCHANGED <<kind, source, disposed, callToken, handed, raced, dispose>>

RecreateThrows ==
    /\ accept = "recreate"
    /\ listener' = Closed
    /\ AcceptEnds("failed")
    /\ refused' = TRUE
    /\ UNCHANGED <<kind, current, source, disposed, callToken, handed, raced,
                   dispose>>

\* The caller cancels this call only.
CancelToken ==
    /\ accept # "idle"
    /\ ~callToken
    /\ callToken' = TRUE
    /\ CloseWaiting
    /\ UNCHANGED <<kind, current, source, disposed, accept, result, handed,
                   dispose, creationHistory>>

-----------------------------------------------------------------------------
(* Dispose *)

DisposeBegin ==
    /\ dispose = "idle"
    /\ dispose' = "cancel"
    /\ UNCHANGED <<kind, listener, current, source, disposed, accept, callToken,
                   result, handed, creationHistory>>

\* _cancellation.Cancel() runs the callbacks of the linked tokens.
DisposeCancels ==
    /\ dispose = "cancel"
    /\ source' = "cancelled"
    /\ CloseWaiting
    /\ dispose' = "close"
    /\ UNCHANGED <<kind, current, disposed, accept, callToken, result, handed,
                   creationHistory>>

\* AcceptAsync is beyond its check of the token and about to create a listener.
Creating == accept \in {"replace", "recreate"}

DisposeCloses ==
    /\ dispose = "close"
    /\ listener' = [listener EXCEPT ![current] = "closed"]
    /\ raced' = Creating
    /\ dispose' = "free"
    /\ UNCHANGED <<kind, current, source, disposed, accept, callToken, result,
                   handed, refused>>

\* _cancellation.Dispose()
DisposeFrees ==
    /\ dispose = "free"
    /\ source' = "disposed"
    /\ dispose' = "flag"
    /\ UNCHANGED <<kind, listener, current, disposed, accept, callToken, result,
                   handed, creationHistory>>

\* A mutant of DisposeEnds: _disposed is not set.
DisposeEndsUnmarked ==
    /\ dispose = "flag"
    /\ dispose' = "done"
    /\ UNCHANGED <<kind, listener, current, source, disposed, accept, callToken,
                   result, handed, creationHistory>>

DisposeEnds ==
    /\ dispose = "flag"
    /\ disposed' = TRUE
    /\ dispose' = "done"
    /\ UNCHANGED <<kind, listener, current, source, accept, callToken, result,
                   handed, creationHistory>>

-----------------------------------------------------------------------------

AcceptStep ==
    \/ AcceptLink \/ Connected \/ Replace \/ ReplaceThrows
    \/ Catch \/ Recreate \/ RecreateThrows

DisposeStep == DisposeCancels \/ DisposeCloses \/ DisposeFrees \/ DisposeEnds

TransportNext ==
    \/ AcceptBegin \/ AcceptStep \/ WaitThrows \/ CancelToken
    \/ DisposeBegin \/ DisposeStep

\* A wait ends when it is cancelled or its listener is closed, but no client is
\* obliged to connect.  The accept loop goes on.  SF: the system does not
\* refuse a new listener for ever.
TransportFairness ==
    /\ WF_transportVars(AcceptBegin)
    /\ WF_transportVars(AcceptStep)
    /\ WF_transportVars(WaitThrows /\ (LinkedCancelled \/ current \notin Open))
    /\ SF_transportVars(Recreate)
    /\ WF_transportVars(DisposeStep)

TransportSpec ==
    TransportInit /\ [][TransportNext]_transportVars /\ TransportFairness

-----------------------------------------------------------------------------
(* Properties *)

\* The variables have their types.
TransportTypeOK ==
    /\ kind \in Kinds
    /\ listener \in [Listeners -> {"unborn", "open", "taken", "closed"}]
    /\ current \in Listeners
    /\ source \in {"active", "cancelled", "disposed"}
    /\ disposed \in BOOLEAN
    /\ accept \in {"idle", "link", "wait", "replace", "catch", "recreate"}
    /\ callToken \in BOOLEAN
    /\ result \in {"none", "stream", "failed", "cancelled", "rejected"}
    /\ handed \subseteq Listeners
    /\ refused \in BOOLEAN
    /\ raced \in BOOLEAN
    /\ dispose \in {"idle", "cancel", "close", "free", "flag", "done"}

\* Nothing listens that the transport has forgotten: a listener that is replaced
\* was handed over or closed.  Only a socket on port 0 is replaced while it
\* still listens, and nobody closes it then.
OneListener == AnyPort \/ Open \subseteq {current}

\* Once Dispose has closed the listener there is none, and no call creates one:
\* it is what ReversedDiagnosticsServer counts on when it disposes the transport
\* before it cancels (ReversedDiagnosticsServer.cs:111-112).  It counts on too
\* much: a call that was about to create a listener at that moment creates it,
\* and nobody closes it.  This is the only such case.
DeafAfterDispose ==
    dispose \in {"free", "flag", "done"} =>
        raced \/ ~(Creating \/ current \in Open)

\* Between two calls the transport listens, unless the system refused it a
\* listener since the last one (lines 141-153 and 210-221).  Cancelling a call
\* does not cost the listener, where cancellation does not close it.
ListensBetweenCalls ==
    accept = "idle" /\ dispose = "idle" =>
        \/ current \in Open
        \/ refused
        \/ ClosesOnCancel /\ result = "cancelled"

\* A pipe that was returned as a connection belongs to the caller: no retry and
\* no Dispose closes it.
ConnectionsAreKept ==
    [][\A l \in handed :
          listener[l] = "taken" => listener'[l] = "taken"]_transportVars

\* From some time on no call is cancelled.
CancellationEnds == <>[][callToken' => callToken]_transportVars

\* A transport that has lost its listener listens again, whatever failed,
\* unless it is disposed or the bound on listeners is reached.
Recovers ==
    CancellationEnds =>
        (current \notin Open ~> \/ current \in Open
                                \/ dispose # "idle"
                                \/ Unborn = {})

\* Dispose ends the pending AcceptAsync, and no later call waits.
DisposeEndsAccept == dispose # "idle" ~> [](accept = "idle")

\* There is one listener at most, between calls one at least and after Dispose
\* none, but for the cases named above.
ListenerIsSound ==
    TransportTypeOK /\ OneListener /\ ListensBetweenCalls /\ DeafAfterDispose
=============================================================================
