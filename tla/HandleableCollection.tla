------------------------ MODULE HandleableCollection ------------------------
(***************************************************************************)
(* HandleableCollection<T> (HandleableCollection.cs): a list of items and  *)
(* a list of queued handlers.  Add offers an item to the queued handlers   *)
(* and stores it when none of them removes it; Handle and HandleAsync      *)
(* offer the stored items to a handler and queue it when it accepts none.  *)
(* The diagnostics server keeps its endpoint infos, and the streams of     *)
(* every runtime, in such collections.                                     *)
(*                                                                         *)
(* Every operation runs under lock (_items), except for two things that do *)
(* not: the timeout or cancellation callback that completes a call's       *)
(* TaskCompletionSource, and everything Dispose does after it set          *)
(* _disposed.  The loops of Add and RunOrQueueHandler are therefore split  *)
(* where those two can interfere: between reading Task.IsCompleted         *)
(* together with the handler's answer, and TrySetResult.                   *)
(*                                                                         *)
(* A call is identified with its caller: an item with the one Add that     *)
(* brings it, a waiter with the one Handle or HandleAsync it makes.        *)
(***************************************************************************)
EXTENDS SequencesExt

CONSTANTS Items,     \* the objects added to the collection
          Waiters,   \* calls of Handle and HandleAsync
          Clearers,  \* calls of ClearItems
          Disposers, \* calls of Dispose
          Answers,   \* Answers[w]: what the handler of w may say of an item
          Nobody,    \* nobody holds the lock
          NoItem     \* a call that has no item

\* A handler returns "stop" and removeItem, or throws.
Verdicts == {"take",     \* true,  removeItem: DefaultHandler
             "peek",     \* true,  not removeItem
             "discard",  \* false, removeItem: the handler disposed the item
             "skip",     \* false, not removeItem
             "throw"}    \* an exception

Callers == Items \cup Waiters \cup Clearers \cup Disposers

ASSUME CallersAssumption ==
    /\ Items \cap (Waiters \cup Clearers \cup Disposers) = {}
    /\ Waiters \cap (Clearers \cup Disposers) = {}
    /\ Clearers \cap Disposers = {}
    /\ Nobody \notin Callers
    /\ NoItem \notin Items

ASSUME AnswersAssumption == Answers \in [Waiters -> (SUBSET Verdicts) \ {{}}]

VARIABLES
    items,     \* _items
    handlers,  \* _handlers, each handler as the waiter it belongs to
    disposed,  \* _disposed
    lock,      \* the holder of lock (_items)
    i,         \* the loop index of the lock's holder, from 1
    j,         \* the loop index of Dispose, from 1
    answer,    \* the answer TryHandler got and has not acted upon yet
    pc,        \* where each call is
    task,      \* the state of each waiter's TaskCompletionSource
    result,    \* the item a waiter's task completed with
    took,      \* history: the item a waiter's handler accepted and removed
    released   \* the items that Dispose() was called on

list == <<items, handlers>>
loop == <<lock, i, answer>>
tasks == <<task, result, took>>
vars == <<items, handlers, disposed, lock, i, answer, j, pc, task, result,
          took, released>>

Init ==
    /\ items = <<>>
    /\ handlers = <<>>
    /\ disposed = FALSE
    /\ lock = Nobody
    /\ i = 0
    /\ answer = "none"
    /\ j = 0
    /\ pc = [c \in Callers |-> "idle"]
    /\ task = [w \in Waiters |-> "pending"]
    /\ result = [w \in Waiters |-> NoItem]
    /\ took = [w \in Waiters |-> NoItem]
    /\ released = {}

-----------------------------------------------------------------------------
(* TryHandler *)

\* TryHandler returns true: the handler is finished.  "completed" is the
\* early return for a task that something else completed before.
Stops(a) == a \in {"take", "peek", "throw", "completed"}

\* TryHandler sets removeItem.
Removes(a) == a \in {"take", "discard"}

\* IsCompleted is read and the handler is called.
AskHandler(w) ==
    IF task[w] # "pending"
    THEN answer' = "completed"
    ELSE answer' \in Answers[w]

\* What the answer does to a task that is pending.
Outcome(a) ==
    CASE a \in {"take", "peek"} -> "result"
      [] a = "throw" -> "faulted"
      [] OTHER -> "pending"

\* A mutant of ActOnAnswer: the task completes with default(T).
ActOnAnswerNoResult(w, x) ==
    /\ task' = IF task[w] = "pending"
               THEN [task EXCEPT ![w] = Outcome(answer)]
               ELSE task
    /\ took' = IF answer = "take" THEN [took EXCEPT ![w] = x] ELSE took
    /\ released' = IF answer = "discard" THEN released \cup {x} ELSE released
    /\ answer' = "none"
    /\ UNCHANGED result

\* A timeout may have completed the task since: TrySetResult and
\* TrySetException then have no effect.
ActOnAnswer(w, x) ==
    /\ task' = IF task[w] = "pending"
               THEN [task EXCEPT ![w] = Outcome(answer)]
               ELSE task
    /\ result' = IF task[w] = "pending" /\ answer \in {"take", "peek"}
                 THEN [result EXCEPT ![w] = x]
                 ELSE result
    /\ took' = IF answer = "take" THEN [took EXCEPT ![w] = x] ELSE took
    /\ released' = IF answer = "discard" THEN released \cup {x} ELSE released
    /\ answer' = "none"

-----------------------------------------------------------------------------
(* Entering and leaving lock (_items) *)

Acquire(c, next) ==
    /\ lock' = c
    /\ i' = 1
    /\ pc' = [pc EXCEPT ![c] = next]

Release(c, next) ==
    /\ lock' = Nobody
    /\ i' = 0
    /\ pc' = [pc EXCEPT ![c] = next]

\* VerifyNotDisposed throws ObjectDisposedException out of the call.
Rejected(c) ==
    /\ disposed
    /\ pc' = [pc EXCEPT ![c] = "rejected"]
    /\ UNCHANGED <<list, disposed, loop, j, tasks, released>>

-----------------------------------------------------------------------------
(* Add(item) *)

AddBegin(x) ==
    /\ pc[x] = "idle"
    /\ lock = Nobody
    /\ \/ Rejected(x)
       \/ /\ ~disposed
          /\ Acquire(x, "offer")
          /\ UNCHANGED <<list, disposed, answer, j, tasks, released>>

AddAsk(x) ==
    /\ pc[x] = "offer"
    /\ i <= Len(handlers)
    /\ AskHandler(handlers[i])
    /\ pc' = [pc EXCEPT ![x] = "act"]
    /\ UNCHANGED <<list, disposed, lock, i, j, tasks, released>>

\* The queued handler acts on the new item.

AddAct(x) ==
    /\ pc[x] = "act"
    /\ ActOnAnswer(handlers[i], x)
    /\ handlers' = IF Stops(answer) THEN RemoveAt(handlers, i) ELSE handlers
    /\ IF Removes(answer)
       THEN Release(x, "done")
       ELSE /\ i' = IF Stops(answer) THEN i ELSE i + 1
            /\ pc' = [pc EXCEPT ![x] = "offer"]
            /\ UNCHANGED lock
    /\ UNCHANGED <<items, disposed, j>>

\* A mutant of AddStore: the last handler is not asked.
AddStoreEarly(x) ==
    /\ pc[x] = "offer"
    /\ i >= Len(handlers)
    /\ items' = Append(items, x)
    /\ Release(x, "done")
    /\ UNCHANGED <<handlers, disposed, answer, j, tasks, released>>

\* No handler has taken the item.

AddStore(x) ==
    /\ pc[x] = "offer"
    /\ i > Len(handlers)
    /\ items' = Append(items, x)
    /\ Release(x, "done")
    /\ UNCHANGED <<handlers, disposed, answer, j, tasks, released>>

-----------------------------------------------------------------------------
(* Handle(handler, timeout) and HandleAsync(handler, token) *)

\* The TaskCompletionSource exists and its callback is registered.
HandleBegin(w) ==
    /\ pc[w] = "idle"
    /\ pc' = [pc EXCEPT ![w] = "registered"]
    /\ UNCHANGED <<list, disposed, loop, j, tasks, released>>

\* The callback of the timeout or of the token, on a thread of its own and
\* without the lock.
Expire(w) ==
    /\ pc[w] \notin {"idle", "rejected"}
    /\ task[w] = "pending"
    /\ task' = [task EXCEPT ![w] = "expired"]
    /\ UNCHANGED <<list, disposed, loop, j, pc, result, took, released>>

RunHandler(w) ==
    /\ pc[w] = "registered"
    /\ lock = Nobody
    /\ \/ Rejected(w)
       \/ /\ ~disposed
          /\ Acquire(w, "offer")
          /\ UNCHANGED <<list, disposed, answer, j, tasks, released>>

RunAsk(w) ==
    /\ pc[w] = "offer"
    /\ i <= Len(items)
    /\ AskHandler(w)
    /\ pc' = [pc EXCEPT ![w] = "act"]
    /\ UNCHANGED <<list, disposed, lock, i, j, tasks, released>>

RunAct(w) ==
    /\ pc[w] = "act"
    /\ ActOnAnswer(w, items[i])
    /\ items' = IF Removes(answer) THEN RemoveAt(items, i) ELSE items
    /\ IF Stops(answer)
       THEN Release(w, "waiting")
       ELSE /\ i' = IF Removes(answer) THEN i ELSE i + 1
            /\ pc' = [pc EXCEPT ![w] = "offer"]
            /\ UNCHANGED lock
    /\ UNCHANGED <<handlers, disposed, j>>

\* A mutant of QueueHandler: the handler goes to the front.
QueueHandlerFirst(w) ==
    /\ pc[w] = "offer"
    /\ i > Len(items)
    /\ handlers' = <<w>> \o handlers
    /\ Release(w, "waiting")
    /\ UNCHANGED <<items, disposed, answer, j, tasks, released>>

\* The handler accepted no item.

QueueHandler(w) ==
    /\ pc[w] = "offer"
    /\ i > Len(items)
    /\ handlers' = Append(handlers, w)
    /\ Release(w, "waiting")
    /\ UNCHANGED <<items, disposed, answer, j, tasks, released>>

\* Task.Result, or the await, returns or throws.
HandleReturn(w) ==
    /\ pc[w] = "waiting"
    /\ task[w] # "pending"
    /\ pc' = [pc EXCEPT ![w] = "done"]
    /\ UNCHANGED <<list, disposed, loop, j, tasks, released>>

-----------------------------------------------------------------------------
(* ClearItems() and Dispose() *)

RemoveAndDisposeItems ==
    /\ released' = released \cup Range(items)
    /\ items' = <<>>

ClearItems(c) ==
    /\ pc[c] = "idle"
    /\ lock = Nobody
    /\ \/ Rejected(c)
       \/ /\ ~disposed
          /\ RemoveAndDisposeItems
          /\ pc' = [pc EXCEPT ![c] = "done"]
          /\ UNCHANGED <<handlers, disposed, loop, j, tasks>>

\* A mutant of DisposeBegin: the flag is set without the lock.
DisposeBeginUnlocked(d) ==
    /\ pc[d] = "idle"
    /\ disposed' = TRUE
    /\ pc' = [pc EXCEPT ![d] = IF disposed THEN "done" ELSE "clear"]
    /\ UNCHANGED <<list, loop, j, tasks, released>>

\* The only part of Dispose under the lock.  A second call returns at once,
\* whether or not the first has finished.
DisposeBegin(d) ==
    /\ pc[d] = "idle"
    /\ lock = Nobody
    /\ disposed' = TRUE
    /\ pc' = [pc EXCEPT ![d] = IF disposed THEN "done" ELSE "clear"]
    /\ UNCHANGED <<list, loop, j, tasks, released>>

DisposeItems(d) ==
    /\ pc[d] = "clear"
    /\ RemoveAndDisposeItems
    /\ j' = 1
    /\ pc' = [pc EXCEPT ![d] = "fail"]
    /\ UNCHANGED <<handlers, disposed, loop, tasks>>

\* A mutant of FailHandler: the loop stays at a task that it cannot fail.
FailHandlerStays(d) ==
    /\ pc[d] = "fail"
    /\ j <= Len(handlers)
    /\ IF task[handlers[j]] = "pending"
       THEN /\ task' = [task EXCEPT ![handlers[j]] = "disposed"]
            /\ j' = j + 1
       ELSE UNCHANGED <<task, j>>
    /\ UNCHANGED <<list, disposed, loop, pc, result, took, released>>

\* TrySetException(ObjectDisposedException) on the next queued handler.
FailHandler(d) ==
    /\ pc[d] = "fail"
    /\ j <= Len(handlers)
    /\ task' = IF task[handlers[j]] = "pending"
               THEN [task EXCEPT ![handlers[j]] = "disposed"]
               ELSE task
    /\ j' = j + 1
    /\ UNCHANGED <<list, disposed, loop, pc, result, took, released>>

\* _handlers.Clear()

DisposeEnd(d) ==
    /\ pc[d] = "fail"
    /\ j > Len(handlers)
    /\ handlers' = <<>>
    /\ j' = 0
    /\ pc' = [pc EXCEPT ![d] = "done"]
    /\ UNCHANGED <<items, disposed, loop, tasks, released>>

-----------------------------------------------------------------------------

\* The steps of a call that has started, up to its return: the thread runs.
AddStep(x) == AddAsk(x) \/ AddAct(x) \/ AddStore(x)
HandleStep(w) ==
    RunHandler(w) \/ RunAsk(w) \/ RunAct(w) \/ QueueHandler(w) \/ HandleReturn(w)
DisposeStep(d) == DisposeItems(d) \/ FailHandler(d) \/ DisposeEnd(d)

\* Every call has returned.
Finished ==
    /\ \A c \in Callers : pc[c] \in {"done", "rejected"}
    /\ UNCHANGED vars

Next ==
    \/ \E x \in Items : AddBegin(x) \/ AddStep(x)
    \/ \E w \in Waiters : HandleBegin(w) \/ Expire(w) \/ HandleStep(w)
    \/ \E c \in Clearers : ClearItems(c)
    \/ \E d \in Disposers : DisposeBegin(d) \/ DisposeStep(d)
    \/ Finished

\* A thread inside an operation keeps running.  Nobody is obliged to start an
\* operation, and no timeout or cancellation is obliged to happen.
Fairness ==
    /\ \A x \in Items : WF_vars(AddStep(x))
    /\ \A w \in Waiters : WF_vars(HandleStep(w))
    /\ \A d \in Disposers : WF_vars(DisposeStep(d))

Spec == Init /\ [][Next]_vars /\ Fairness

-----------------------------------------------------------------------------
(* Properties *)

Offering == {"offer", "act"}
Cleaning == {d \in Disposers : pc[d] \in {"clear", "fail"}}

\* A call in its loop holds the lock, and its index stays within the list.
IndexOK ==
    /\ \A x \in Items : pc[x] \in Offering =>
          /\ lock = x
          /\ i \in 1..Len(handlers) + (IF pc[x] = "act" THEN 0 ELSE 1)
    /\ \A w \in Waiters : pc[w] \in Offering =>
          /\ lock = w
          /\ i \in 1..Len(items) + (IF pc[w] = "act" THEN 0 ELSE 1)

\* The variables have their types, and the loop index of the lock's holder
\* (i of lines 106 and 193) stays within the list that it walks.
TypeOK ==
    /\ items \in Seq(Items)
    /\ handlers \in Seq(Waiters)
    /\ disposed \in BOOLEAN
    /\ lock \in Items \cup Waiters \cup {Nobody}
    /\ i \in Nat
    /\ j \in Nat
    /\ answer \in Verdicts \cup {"none", "completed"}
    /\ pc \in [Callers -> {"idle", "registered", "offer", "act", "waiting",
                           "clear", "fail", "done", "rejected"}]
    /\ task \in [Waiters -> {"pending", "result", "expired", "faulted",
                             "disposed"}]
    /\ result \in [Waiters -> Items \cup {NoItem}]
    /\ took \in [Waiters -> Items \cup {NoItem}]
    /\ released \in SUBSET Items
    /\ IndexOK

\* Dispose clears both lists without holding the lock (lines 82-88), yet no
\* operation is inside the lock while it does: whoever passed
\* VerifyNotDisposed left the lock before _disposed was set.
DisposeIsExclusive == disposed => lock = Nobody

\* A call whose task is still pending, and that is not itself walking the
\* items, has its handler in the list, where Add and Dispose find it.
NoForgottenWaiter ==
    \A w \in Waiters :
        pc[w] = "waiting" /\ task[w] = "pending" => w \in Range(handlers)

\* No item is stored while a handler that never skips an item is queued and
\* pending: an item and a handler that wants it never pass each other.
NoMissedHandOff ==
    \A w \in Range(handlers) :
        task[w] = "pending" /\ "skip" \notin Answers[w] => items = <<>>

\* An item that was added is stored, disposed, or removed by the handler of
\* one waiter, and in only one of these places.
Where(x) ==
    (IF x \in Range(items) THEN {"stored"} ELSE {})
      \cup (IF x \in released THEN {"released"} ELSE {})
      \cup {w \in Waiters : took[w] = x}

ItemInOnePlace ==
    \A x \in Items :
        IF pc[x] = "done"
        THEN \E p \in {"stored", "released"} \cup Waiters : Where(x) = {p}
        ELSE Where(x) = {}

\* An item that the handler of w removed is the result of w, unless the
\* timeout or the token of w completed the task first.  No other event, the
\* disposal of the collection included, separates an item from its taker.
LostOnlyByExpiry ==
    \A w \in Waiters :
        took[w] # NoItem =>
            \/ task[w] = "result" /\ result[w] = took[w]
            \/ task[w] = "expired"

\* Once Dispose has run, nothing is stored, nothing is queued, and no call is
\* left waiting.
DisposedIsEmpty ==
    disposed /\ Cleaning = {} =>
        /\ items = <<>>
        /\ handlers = <<>>
        /\ \A w \in Waiters : pc[w] = "waiting" => task[w] # "pending"

\* No task completes with an item once _disposed is set.
NoDeliveryAfterDispose ==
    [][disposed => \A w \in Waiters :
                       task'[w] = "result" => task[w] = "result"]_vars

Before(h, v, w) == \E p, q \in 1..Len(h) : p < q /\ h[p] = v /\ h[q] = w

\* Handlers are served in the order in which they were queued: while a call
\* that takes any item is queued, nobody gets in front of it in the list, and
\* only who is in front of it gets an item.
NoOvertaking ==
    [][\A v, w \in Waiters :
         /\ v \in Range(handlers)
         /\ Answers[v] = {"take"}
         /\ task[v] = "pending" /\ task'[v] = "pending"
         => /\ Before(handlers', w, v) => Before(handlers, w, v)
            /\ task[w] # "result" /\ task'[w] = "result" => Before(handlers, w, v)
      ]_vars

\* All calls that are pending when the collection is disposed end, without
\* the help of a timeout.
DisposeReleasesWaiters ==
    \A w \in Waiters :
        disposed /\ pc[w] \in {"registered", "waiting"}
            ~> pc[w] \in {"done", "rejected"}

\* The loops stay inside the lists they walk, nobody is inside the lock while
\* Dispose works outside it, and Dispose leaves nothing and nobody behind.
DisposeIsSafe == TypeOK /\ DisposeIsExclusive /\ DisposedIsEmpty

\* A pending call is in the list of handlers, and no item is stored while one
\* that takes any item waits there.
NobodyIsMissed == NoForgottenWaiter /\ NoMissedHandOff

\* An item that was added is in one place, and only a call that expires while an
\* item is handed to it separates the two.
ItemsAreConserved == ItemInOnePlace /\ LostOnlyByExpiry
=============================================================================
