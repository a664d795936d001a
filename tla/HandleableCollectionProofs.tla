--------------------- MODULE HandleableCollectionProofs ---------------------
(***************************************************************************)
(* Proofs about HandleableCollection, for any set of items and of calls    *)
(* and for handlers of any kind.                                           *)
(***************************************************************************)
EXTENDS HandleableCollection, SequenceTheorems, TLAPS

(***************************************************************************)
(* The inductive invariant.                                                *)
(***************************************************************************)

\* The answer between IsCompleted and TrySetResult is one that the handler
\* of w gave while w had no item; only a timeout can have completed the task
\* of w since then.
AnswerFrom(w) ==
    \/ answer = "completed" /\ task[w] # "pending"
    \/ /\ answer \in Answers[w]
       /\ took[w] = NoItem
       /\ task[w] \in {"pending", "expired"}

\* The holder of the lock is inside its loop, with an answer of the handler
\* that it asked.
LockInv ==
    /\ \A c \in Items \cup Waiters : lock = c => pc[c] \in Offering
    /\ \A x \in Items : pc[x] = "act" => AnswerFrom(handlers[i])
    /\ \A w \in Waiters : pc[w] = "act" => AnswerFrom(w)

\* One Dispose does the work, after _disposed is set; the handlers it has
\* passed are completed, and when it ends the lists are empty.
DisposeInv ==
    /\ DisposeIsExclusive
    /\ \A d \in Cleaning : disposed
    /\ \A d, e \in Cleaning : d = e
    /\ \A d \in Disposers : pc[d] = "fail" =>
          /\ items = <<>> /\ j >= 1
          /\ \A p \in 1..Len(handlers) : p < j => task[handlers[p]] # "pending"
    /\ disposed /\ Cleaning = {} => items = <<>> /\ handlers = <<>>

\* The loops move past an item, or past a handler, only when the handler
\* skips it.
SkipInv ==
    /\ \A x \in Items : pc[x] \in Offering =>
          \A p \in 1..Len(handlers) :
              p < i => "skip" \in Answers[handlers[p]]
    /\ \A w \in Waiters : pc[w] \in Offering /\ i > 1 => "skip" \in Answers[w]

\* The items that were added are partitioned into the stored ones, the
\* disposed ones, and those that a handler removed.
Taken == {x \in Items : \E w \in Waiters : took[w] = x}

ItemInv ==
    /\ \A p, q \in 1..Len(items) : items[p] = items[q] => p = q
    /\ \A x \in Items :
          pc[x] = "done" <=> x \in Range(items) \cup released \cup Taken
    /\ Range(items) \cap released = {}
    /\ Range(items) \cap Taken = {}
    /\ released \cap Taken = {}
    /\ \A v, w \in Waiters : took[v] = took[w] /\ took[v] # NoItem => v = w

Inv ==
    /\ TypeOK
    /\ LockInv
    /\ DisposeInv
    /\ NoForgottenWaiter
    /\ SkipInv
    /\ NoMissedHandOff
    /\ ItemInv
    /\ LostOnlyByExpiry

-----------------------------------------------------------------------------
(* Lists: what RemoveAt and Append do to the elements of a list. *)

\* List.RemoveAt(k) moves the elements behind position k one place forward.
LEMMA RemoveAtProperties ==
    ASSUME NEW S, NEW s \in Seq(S), NEW k \in 1..Len(s)
    PROVE  /\ RemoveAt(s, k) \in Seq(S)
           /\ Len(RemoveAt(s, k)) = Len(s) - 1
           /\ \A p \in 1..(Len(s) - 1) :
                 RemoveAt(s, k)[p] = IF p < k THEN s[p] ELSE s[p + 1]
<1> DEFINE a == SubSeq(s, 1, k - 1)
           b == SubSeq(s, k + 1, Len(s))
<1>1. Len(s) \in Nat
  BY LenProperties
<1>2. /\ a \in Seq(S)
      /\ Len(a) = k - 1
      /\ \A p \in 1..(k - 1) : a[p] = s[p]
  <2>1. \A p \in 1..(k - 1) : s[p] \in S
    BY <1>1, ElementOfSeq
  <2> QED
    BY <1>1, <2>1, SubSeqProperties
<1>3. /\ b \in Seq(S)
      /\ Len(b) = Len(s) - k
      /\ \A p \in 1..(Len(s) - k) : b[p] = s[k + p]
  <2>1. \A p \in (k + 1)..Len(s) : s[p] \in S
    BY <1>1, ElementOfSeq
  <2> QED
    BY <1>1, <2>1, SubSeqProperties
<1>4. RemoveAt(s, k) = a \o b
  BY DEF RemoveAt
<1> HIDE DEF a, b
<1>5. /\ a \o b \in Seq(S)
      /\ Len(a \o b) = Len(a) + Len(b)
      /\ \A p \in 1..(Len(a) + Len(b)) :
            (a \o b)[p] = IF p <= Len(a) THEN a[p] ELSE b[p - Len(a)]
  BY <1>2, <1>3, ConcatProperties
<1>6. Len(a) + Len(b) = Len(s) - 1
  BY <1>1, <1>2, <1>3
<1>7. ASSUME NEW p \in 1..(Len(s) - 1)
      PROVE  (a \o b)[p] = IF p < k THEN s[p] ELSE s[p + 1]
  <2>1. (a \o b)[p] = IF p <= k - 1 THEN a[p] ELSE b[p - (k - 1)]
    BY <1>1, <1>2, <1>5, <1>6
  <2>2. CASE p < k
    BY <1>1, <1>2, <2>1, <2>2
  <2>3. CASE p >= k
    <3>1. b[p - (k - 1)] = s[p + 1]
      <4>1. p - (k - 1) \in 1..(Len(s) - k) /\ k + (p - (k - 1)) = p + 1
        BY <1>1, <2>3
      <4> QED
        BY <1>3, <4>1
    <3> QED
      BY <1>1, <2>1, <2>3, <3>1
  <2>4. p < k \/ p >= k
    BY <1>1
  <2> QED
    BY <2>2, <2>3, <2>4
<1> QED
  BY <1>4, <1>5, <1>6, <1>7

\* Removing one element keeps every other one.
LEMMA RemoveAtRange ==
    ASSUME NEW S, NEW s \in Seq(S), NEW k \in 1..Len(s)
    PROVE  /\ Range(RemoveAt(s, k)) \subseteq Range(s)
           /\ \A e \in Range(s) : e # s[k] => e \in Range(RemoveAt(s, k))
<1> DEFINE r == RemoveAt(s, k)
<1>1. /\ r \in Seq(S)
      /\ Len(r) = Len(s) - 1
      /\ \A p \in 1..(Len(s) - 1) : r[p] = IF p < k THEN s[p] ELSE s[p + 1]
  BY RemoveAtProperties
<1>2. /\ DOMAIN r = 1..(Len(s) - 1)
      /\ DOMAIN s = 1..Len(s)
      /\ Len(s) \in Nat
  BY <1>1, LenProperties
<1> HIDE DEF r
<1>3. ASSUME NEW p \in 1..(Len(s) - 1)
      PROVE  r[p] \in Range(s)
  <2>1. p \in 1..Len(s) /\ p + 1 \in 1..Len(s)
    BY <1>2
  <2>2. r[p] = s[p] \/ r[p] = s[p + 1]
    BY <1>1
  <2> QED
    BY <1>2, <2>1, <2>2 DEF Range
<1>4. ASSUME NEW p \in 1..Len(s), s[p] # s[k]
      PROVE  s[p] \in Range(r)
  <2>1. CASE p < k
    <3>1. p \in 1..(Len(s) - 1) /\ r[p] = s[p]
      BY <1>1, <1>2, <2>1
    <3> QED
      BY <3>1, <1>2 DEF Range
  <2>2. CASE p > k
    <3>1. (p - 1) \in 1..(Len(s) - 1) /\ r[p - 1] = s[p]
      BY <1>1, <1>2, <2>2
    <3> QED
      BY <3>1, <1>2 DEF Range
  <2> QED
    BY <1>2, <1>4, <2>1, <2>2
<1>5. Range(r) \subseteq Range(s)
  BY <1>2, <1>3 DEF Range
<1>6. \A e \in Range(s) : e # s[k] => e \in Range(r)
  BY <1>2, <1>4 DEF Range
<1> QED
  BY <1>5, <1>6 DEF r

\* In a list without duplicates the removed element is gone.
LEMMA RemoveAtInjective ==
    ASSUME NEW S, NEW s \in Seq(S), NEW k \in 1..Len(s),
           \A p, q \in 1..Len(s) : s[p] = s[q] => p = q
    PROVE  /\ \A p, q \in 1..Len(RemoveAt(s, k)) :
                 RemoveAt(s, k)[p] = RemoveAt(s, k)[q] => p = q
           /\ Range(RemoveAt(s, k)) = Range(s) \ {s[k]}
<1> DEFINE r == RemoveAt(s, k)
<1>1. /\ r \in Seq(S)
      /\ Len(r) = Len(s) - 1
      /\ \A p \in 1..(Len(s) - 1) : r[p] = IF p < k THEN s[p] ELSE s[p + 1]
  BY RemoveAtProperties
<1>2. /\ DOMAIN r = 1..(Len(s) - 1)
      /\ Len(s) \in Nat
  BY <1>1, LenProperties
<1>3. /\ Range(r) \subseteq Range(s)
      /\ \A e \in Range(s) : e # s[k] => e \in Range(r)
  BY RemoveAtRange
<1> HIDE DEF r
<1>4. \A p \in 1..(Len(s) - 1) : r[p] # s[k]
  BY <1>1, <1>2
<1>5. s[k] \notin Range(r)
  BY <1>2, <1>4 DEF Range
<1>6. \A p, q \in 1..Len(r) : r[p] = r[q] => p = q
  BY <1>1, <1>2
<1> QED
  BY <1>3, <1>5, <1>6 DEF r

\* List.Add puts the element at the end.
LEMMA AppendRange ==
    ASSUME NEW S, NEW s \in Seq(S), NEW e \in S
    PROVE  /\ Append(s, e) \in Seq(S)
           /\ Len(Append(s, e)) = Len(s) + 1
           /\ \A p \in 1..Len(s) : Append(s, e)[p] = s[p]
           /\ Append(s, e)[Len(s) + 1] = e
           /\ Range(Append(s, e)) = Range(s) \cup {e}
<1> DEFINE r == Append(s, e)
<1>1. /\ r \in Seq(S)
      /\ Len(r) = Len(s) + 1
      /\ \A p \in 1..Len(s) : r[p] = s[p]
      /\ r[Len(s) + 1] = e
  BY AppendProperties
<1>2. DOMAIN r = 1..(Len(s) + 1) /\ DOMAIN s = 1..Len(s) /\ Len(s) \in Nat
  BY <1>1, LenProperties
<1> HIDE DEF r
<1>3. Range(r) = Range(s) \cup {e}
  BY <1>1, <1>2 DEF Range
<1> QED
  BY <1>1, <1>3 DEF r

-----------------------------------------------------------------------------
(* Init and the steps. *)

USE DEF Offering

\* Nothing is in an empty list.
LEMMA EmptyRange == Range(<<>>) = {}
BY EmptySeq DEF Range

\* When nobody holds the lock nobody is inside a loop; when c does, only c is.
LEMMA LockHolder ==
    ASSUME TypeOK
    PROVE  \A c \in Items \cup Waiters : pc[c] \in Offering => lock = c
BY DEF TypeOK, IndexOK

\* The constructor leaves both lists empty.
LEMMA InitInv == Init => Inv
<1> SUFFICES ASSUME Init PROVE Inv
  OBVIOUS
<1> USE CallersAssumption DEF Init, Callers
<1>1. TypeOK
  BY EmptySeq DEF TypeOK, IndexOK
<1>2. LockInv /\ SkipInv
  BY DEF LockInv, SkipInv
<1>3. DisposeInv
  BY DEF DisposeInv, DisposeIsExclusive, Cleaning
<1>4. Range(items) = {} /\ Range(handlers) = {} /\ Len(items) = 0
  BY EmptySeq, EmptyRange
<1>5. NoForgottenWaiter /\ NoMissedHandOff /\ LostOnlyByExpiry
  BY <1>4 DEF NoForgottenWaiter, NoMissedHandOff, LostOnlyByExpiry
<1>6. ItemInv
  BY <1>4 DEF ItemInv, Taken
<1> QED
  BY <1>1, <1>2, <1>3, <1>5, <1>6 DEF Inv

\* VerifyNotDisposed, then the loop of Add starts at the first handler.
LEMMA AddBeginInv ==
    ASSUME Inv, NEW x \in Items, AddBegin(x)
    PROVE  Inv'
<1> USE CallersAssumption, AnswersAssumption DEF Inv, TypeOK, Callers, AddBegin, Acquire, Rejected, list, loop, tasks
<1>a. \A c \in Items \cup Waiters : pc[c] \notin Offering
  BY LockHolder
<1>1. TypeOK'
  BY <1>a DEF IndexOK
<1>2. LockInv'
  BY <1>a DEF LockInv, AnswerFrom
<1>3. DisposeInv'
  BY DEF DisposeInv, DisposeIsExclusive, Cleaning
<1>4. NoForgottenWaiter'
  BY DEF NoForgottenWaiter
<1>5. SkipInv'
  BY DEF SkipInv
<1>6. NoMissedHandOff'
  BY DEF NoMissedHandOff
<1>7. ItemInv'
  BY DEF ItemInv, Taken
<1>8. LostOnlyByExpiry'
  BY DEF LostOnlyByExpiry
<1> QED
  BY <1>1, <1>2, <1>3, <1>4, <1>5, <1>6, <1>7, <1>8 DEF Inv

\* Add asks the handler at its index.
LEMMA AddAskInv ==
    ASSUME Inv, NEW x \in Items, AddAsk(x)
    PROVE  Inv'
<1> USE CallersAssumption, AnswersAssumption DEF Inv, TypeOK, Callers, AddAsk, AskHandler, list, loop, tasks
<1>a. handlers[i] \in Waiters
  BY ElementOfSeq DEF IndexOK
<1>b. \A c \in Items \cup Waiters : pc[c] \in Offering => c = x
  BY LockHolder
<1>c. task[handlers[i]] = "pending" => took[handlers[i]] = NoItem
  BY <1>a DEF LostOnlyByExpiry
<1>1. TypeOK'
  BY <1>a DEF IndexOK
<1>2. LockInv'
  BY <1>a, <1>b, <1>c DEF LockInv, AnswerFrom
<1>3. DisposeInv'
  BY DEF DisposeInv, DisposeIsExclusive, Cleaning
<1>4. NoForgottenWaiter'
  BY DEF NoForgottenWaiter
<1>5. SkipInv'
  BY DEF SkipInv
<1>6. NoMissedHandOff'
  BY DEF NoMissedHandOff
<1>7. ItemInv'
  BY DEF ItemInv, Taken
<1>8. LostOnlyByExpiry'
  BY DEF LostOnlyByExpiry
<1> QED
  BY <1>1, <1>2, <1>3, <1>4, <1>5, <1>6, <1>7, <1>8 DEF Inv

\* Add stores an item that no handler removed.
LEMMA AddStoreInv ==
    ASSUME Inv, NEW x \in Items, AddStore(x)
    PROVE  Inv'
<1> USE CallersAssumption, AnswersAssumption DEF Inv, TypeOK, Callers, AddStore, Release, list, loop, tasks
<1>a. /\ items' \in Seq(Items) /\ Len(items') = Len(items) + 1
      /\ \A p \in 1..Len(items) : items'[p] = items[p]
      /\ items'[Len(items) + 1] = x
      /\ Range(items') = Range(items) \cup {x}
  BY AppendRange
<1>b. Len(items) \in Nat /\ Len(handlers) \in Nat
  BY LenProperties
<1>c. x \notin Range(items) \cup released \cup Taken
  BY DEF ItemInv
<1>d. \A p \in 1..Len(items) : items[p] # x
  BY <1>c, LenProperties DEF Range
<1>e. Taken' = Taken
  BY DEF Taken
<1>f. \A v \in Range(handlers) : "skip" \in Answers[v]
  <2>1. \A p \in 1..Len(handlers) : "skip" \in Answers[handlers[p]]
    BY <1>b DEF SkipInv, IndexOK
  <2>2. DOMAIN handlers = 1..Len(handlers)
    BY LenProperties
  <2> QED
    BY <2>1, <2>2 DEF Range
<1>g. \A c \in Items \cup Waiters : pc[c] \in Offering => c = x
  BY LockHolder
<1>h. ~disposed /\ Cleaning = {} /\ Cleaning' = {}
  BY <1>g, LockHolder DEF DisposeInv, DisposeIsExclusive, Cleaning
<1>1. TypeOK'
  BY <1>a DEF IndexOK
<1>2. LockInv'
  BY <1>g DEF LockInv, AnswerFrom
<1>3. DisposeInv'
  BY <1>h DEF DisposeInv, DisposeIsExclusive, Cleaning
<1>4. NoForgottenWaiter'
  BY DEF NoForgottenWaiter
<1>5. SkipInv'
  BY DEF SkipInv
<1>6. NoMissedHandOff'
  BY <1>f DEF NoMissedHandOff
<1>7. ItemInv'
  BY <1>a, <1>b, <1>c, <1>d, <1>e DEF ItemInv, Taken
<1>8. LostOnlyByExpiry'
  BY DEF LostOnlyByExpiry
<1> QED
  BY <1>1, <1>2, <1>3, <1>4, <1>5, <1>6, <1>7, <1>8 DEF Inv

\* A call registers its callback.
LEMMA HandleBeginInv ==
    ASSUME Inv, NEW w \in Waiters, HandleBegin(w)
    PROVE  Inv'
<1> USE CallersAssumption, AnswersAssumption DEF Inv, TypeOK, Callers, HandleBegin, list, loop, tasks
<1>1. TypeOK'
  BY DEF IndexOK
<1>2. LockInv'
  BY DEF LockInv, AnswerFrom
<1>3. DisposeInv'
  BY DEF DisposeInv, DisposeIsExclusive, Cleaning
<1>4. NoForgottenWaiter'
  BY DEF NoForgottenWaiter
<1>5. SkipInv'
  BY DEF SkipInv
<1>6. NoMissedHandOff'
  BY DEF NoMissedHandOff
<1>7. ItemInv'
  BY DEF ItemInv, Taken
<1>8. LostOnlyByExpiry'
  BY DEF LostOnlyByExpiry
<1> QED
  BY <1>1, <1>2, <1>3, <1>4, <1>5, <1>6, <1>7, <1>8 DEF Inv

\* A timeout or a cancellation completes a task at any moment.
LEMMA ExpireInv ==
    ASSUME Inv, NEW w \in Waiters, Expire(w)
    PROVE  Inv'
<1> USE CallersAssumption, AnswersAssumption DEF Inv, TypeOK, Callers, Expire, list, loop, tasks
<1>1. TypeOK'
  BY DEF IndexOK
<1>2. LockInv'
  BY DEF LockInv, AnswerFrom
<1>3. DisposeInv'
  BY DEF DisposeInv, DisposeIsExclusive, Cleaning
<1>4. NoForgottenWaiter'
  BY DEF NoForgottenWaiter
<1>5. SkipInv'
  BY DEF SkipInv
<1>6. NoMissedHandOff'
  BY DEF NoMissedHandOff
<1>7. ItemInv'
  BY DEF ItemInv, Taken
<1>8. LostOnlyByExpiry'
  BY DEF LostOnlyByExpiry
<1> QED
  BY <1>1, <1>2, <1>3, <1>4, <1>5, <1>6, <1>7, <1>8 DEF Inv

\* VerifyNotDisposed, then the loop over the items starts.
LEMMA RunHandlerInv ==
    ASSUME Inv, NEW w \in Waiters, RunHandler(w)
    PROVE  Inv'
<1> USE CallersAssumption, AnswersAssumption DEF Inv, TypeOK, Callers, RunHandler, Acquire, Rejected, list, loop, tasks
<1>a. \A c \in Items \cup Waiters : pc[c] \notin Offering
  BY LockHolder
<1>1. TypeOK'
  BY <1>a DEF IndexOK
<1>2. LockInv'
  BY <1>a DEF LockInv, AnswerFrom
<1>3. DisposeInv'
  BY DEF DisposeInv, DisposeIsExclusive, Cleaning
<1>4. NoForgottenWaiter'
  BY DEF NoForgottenWaiter
<1>5. SkipInv'
  <2>1. \A x \in Items : pc'[x] \notin Offering
    BY <1>a DEF Offering
  <2>2. \A v \in Waiters : pc'[v] \in Offering => v = w /\ i' = 1
    BY <1>a DEF Offering
  <2>3. \A v \in Waiters : pc'[v] \in Offering => ~(i' > 1)
    BY <2>2
  <2> QED
    BY <2>1, <2>3, Zenon DEF SkipInv
<1>6. NoMissedHandOff'
  BY DEF NoMissedHandOff
<1>7. ItemInv'
  BY DEF ItemInv, Taken
<1>8. LostOnlyByExpiry'
  BY DEF LostOnlyByExpiry
<1> QED
  BY <1>1, <1>2, <1>3, <1>4, <1>5, <1>6, <1>7, <1>8 DEF Inv

\* RunOrQueueHandler asks its handler about the item at its index.
LEMMA RunAskInv ==
    ASSUME Inv, NEW w \in Waiters, RunAsk(w)
    PROVE  Inv'
<1> USE CallersAssumption, AnswersAssumption DEF Inv, TypeOK, Callers, RunAsk, AskHandler, list, loop, tasks
<1>b. \A c \in Items \cup Waiters : pc[c] \in Offering => c = w
  BY LockHolder
<1>c. task[w] = "pending" => took[w] = NoItem
  BY DEF LostOnlyByExpiry
<1>1. TypeOK'
  BY DEF IndexOK
<1>2. LockInv'
  BY <1>b, <1>c DEF LockInv, AnswerFrom
<1>3. DisposeInv'
  BY DEF DisposeInv, DisposeIsExclusive, Cleaning
<1>4. NoForgottenWaiter'
  BY DEF NoForgottenWaiter
<1>5. SkipInv'
  BY DEF SkipInv
<1>6. NoMissedHandOff'
  BY DEF NoMissedHandOff
<1>7. ItemInv'
  BY DEF ItemInv, Taken
<1>8. LostOnlyByExpiry'
  BY DEF LostOnlyByExpiry
<1> QED
  BY <1>1, <1>2, <1>3, <1>4, <1>5, <1>6, <1>7, <1>8 DEF Inv

\* A handler that stopped at no item is queued.
LEMMA QueueHandlerInv ==
    ASSUME Inv, NEW w \in Waiters, QueueHandler(w)
    PROVE  Inv'
<1> USE CallersAssumption, AnswersAssumption DEF Inv, TypeOK, Callers, QueueHandler, Release, list, loop, tasks
<1>a. /\ handlers' \in Seq(Waiters) /\ Len(handlers') = Len(handlers) + 1
      /\ \A p \in 1..Len(handlers) : handlers'[p] = handlers[p]
      /\ Range(handlers') = Range(handlers) \cup {w}
  BY AppendRange
<1>b. Len(items) \in Nat /\ Len(handlers) \in Nat
  BY LenProperties
<1>c. "skip" \notin Answers[w] => items = <<>>
  BY <1>b, EmptySeq DEF SkipInv, IndexOK
<1>g. \A c \in Items \cup Waiters : pc[c] \in Offering => c = w
  BY LockHolder
<1>h. ~disposed /\ Cleaning = {} /\ Cleaning' = {}
  BY <1>g, LockHolder DEF DisposeInv, DisposeIsExclusive, Cleaning
<1>1. TypeOK'
  BY <1>a DEF IndexOK
<1>2. LockInv'
  BY <1>g DEF LockInv, AnswerFrom
<1>3. DisposeInv'
  BY <1>h DEF DisposeInv, DisposeIsExclusive, Cleaning
<1>4. NoForgottenWaiter'
  BY <1>a DEF NoForgottenWaiter
<1>5. SkipInv'
  BY DEF SkipInv
<1>6. NoMissedHandOff'
  BY <1>a, <1>c DEF NoMissedHandOff
<1>7. ItemInv'
  BY DEF ItemInv, Taken
<1>8. LostOnlyByExpiry'
  BY DEF LostOnlyByExpiry
<1> QED
  BY <1>1, <1>2, <1>3, <1>4, <1>5, <1>6, <1>7, <1>8 DEF Inv

\* A call returns when its task is completed.
LEMMA HandleReturnInv ==
    ASSUME Inv, NEW w \in Waiters, HandleReturn(w)
    PROVE  Inv'
<1> USE CallersAssumption, AnswersAssumption DEF Inv, TypeOK, Callers, HandleReturn, list, loop, tasks
<1>1. TypeOK'
  BY DEF IndexOK
<1>2. LockInv'
  BY DEF LockInv, AnswerFrom
<1>3. DisposeInv'
  BY DEF DisposeInv, DisposeIsExclusive, Cleaning
<1>4. NoForgottenWaiter'
  BY DEF NoForgottenWaiter
<1>5. SkipInv'
  BY DEF SkipInv
<1>6. NoMissedHandOff'
  BY DEF NoMissedHandOff
<1>7. ItemInv'
  BY DEF ItemInv, Taken
<1>8. LostOnlyByExpiry'
  BY DEF LostOnlyByExpiry
<1> QED
  BY <1>1, <1>2, <1>3, <1>4, <1>5, <1>6, <1>7, <1>8 DEF Inv

\* ClearItems disposes what is stored.
LEMMA ClearItemsInv ==
    ASSUME Inv, NEW c \in Clearers, ClearItems(c)
    PROVE  Inv'
<1> USE CallersAssumption, AnswersAssumption DEF Inv, TypeOK, Callers, ClearItems, RemoveAndDisposeItems, Rejected, list, loop, tasks
<1>a. \A a \in Items \cup Waiters : pc[a] \notin Offering
  BY LockHolder
<1>b. Range(items) \in SUBSET Items
  BY RangeOfSeq
<1>c. items' \in Seq(Items) /\ released' \in SUBSET Items
  <2>1. CASE items' = items /\ released' = released
    BY <2>1
  <2>2. CASE items' = <<>> /\ released' = released \cup Range(items)
    BY <1>b, <2>2, EmptySeq
  <2> QED
    BY <2>1, <2>2
<1>1. TypeOK'
  BY <1>a, <1>c DEF IndexOK
<1>2. LockInv'
  BY <1>a DEF LockInv, AnswerFrom
<1>3. DisposeInv'
  BY DEF DisposeInv, DisposeIsExclusive, Cleaning
<1>4. NoForgottenWaiter'
  BY DEF NoForgottenWaiter
<1>5. SkipInv'
  BY DEF SkipInv
<1>6. NoMissedHandOff'
  BY DEF NoMissedHandOff
<1>7. ItemInv'
  BY EmptyRange, EmptySeq, RangeOfSeq DEF ItemInv, Taken
<1>8. LostOnlyByExpiry'
  BY DEF LostOnlyByExpiry
<1> QED
  BY <1>1, <1>2, <1>3, <1>4, <1>5, <1>6, <1>7, <1>8 DEF Inv

\* Dispose sets _disposed once nobody is inside the lock.
LEMMA DisposeBeginInv ==
    ASSUME Inv, NEW d \in Disposers, DisposeBegin(d)
    PROVE  Inv'
<1> USE CallersAssumption, AnswersAssumption DEF Inv, TypeOK, Callers, DisposeBegin, list, loop, tasks
<1>a. \A c \in Items \cup Waiters : pc[c] \notin Offering
  BY LockHolder
<1>1. TypeOK'
  BY DEF IndexOK
<1>2. LockInv'
  BY DEF LockInv, AnswerFrom
<1>3. DisposeInv'
  BY DEF DisposeInv, DisposeIsExclusive, Cleaning
<1>4. NoForgottenWaiter'
  BY DEF NoForgottenWaiter
<1>5. SkipInv'
  BY DEF SkipInv
<1>6. NoMissedHandOff'
  BY DEF NoMissedHandOff
<1>7. ItemInv'
  BY DEF ItemInv, Taken
<1>8. LostOnlyByExpiry'
  BY DEF LostOnlyByExpiry
<1> QED
  BY <1>1, <1>2, <1>3, <1>4, <1>5, <1>6, <1>7, <1>8 DEF Inv

\* Dispose disposes the items without the lock.
LEMMA DisposeItemsInv ==
    ASSUME Inv, NEW d \in Disposers, DisposeItems(d)
    PROVE  Inv'
<1> USE CallersAssumption, AnswersAssumption DEF Inv, TypeOK, Callers, DisposeItems, RemoveAndDisposeItems, list, loop, tasks
<1>a. lock = Nobody /\ disposed /\ Cleaning = {d}
  BY DEF DisposeInv, DisposeIsExclusive, Cleaning
<1>b. \A c \in Items \cup Waiters : pc[c] \notin Offering
  BY <1>a, LockHolder
<1>1. TypeOK'
  BY <1>b, EmptySeq, RangeOfSeq DEF IndexOK
<1>2. LockInv'
  BY DEF LockInv, AnswerFrom
<1>3. DisposeInv'
  BY <1>a DEF DisposeInv, DisposeIsExclusive, Cleaning
<1>4. NoForgottenWaiter'
  BY DEF NoForgottenWaiter
<1>5. SkipInv'
  BY DEF SkipInv
<1>6. NoMissedHandOff'
  BY DEF NoMissedHandOff
<1>7. ItemInv'
  BY EmptyRange, EmptySeq, RangeOfSeq DEF ItemInv, Taken
<1>8. LostOnlyByExpiry'
  BY DEF LostOnlyByExpiry
<1> QED
  BY <1>1, <1>2, <1>3, <1>4, <1>5, <1>6, <1>7, <1>8 DEF Inv

\* Dispose completes the next handler.
LEMMA FailHandlerInv ==
    ASSUME Inv, NEW d \in Disposers, FailHandler(d)
    PROVE  Inv'
<1> USE CallersAssumption, AnswersAssumption DEF Inv, TypeOK, Callers, FailHandler, list, loop, tasks
<1>a. lock = Nobody /\ disposed /\ Cleaning = {d}
  BY DEF DisposeInv, DisposeIsExclusive, Cleaning
<1>b. \A c \in Items \cup Waiters : pc[c] \notin Offering
  BY <1>a, LockHolder
<1>c. handlers[j] \in Waiters
  BY ElementOfSeq DEF DisposeInv
<1>1. TypeOK'
  BY <1>b, <1>c DEF IndexOK
<1>2. LockInv'
  BY <1>a, <1>b DEF LockInv, AnswerFrom
<1>3. DisposeInv'
  BY DEF DisposeInv, DisposeIsExclusive, Cleaning
<1>4. NoForgottenWaiter'
  BY DEF NoForgottenWaiter
<1>5. SkipInv'
  BY DEF SkipInv
<1>6. NoMissedHandOff'
  BY DEF NoMissedHandOff
<1>7. ItemInv'
  BY DEF ItemInv, Taken
<1>8. LostOnlyByExpiry'
  BY DEF LostOnlyByExpiry
<1> QED
  BY <1>1, <1>2, <1>3, <1>4, <1>5, <1>6, <1>7, <1>8 DEF Inv

\* Dispose empties the list of handlers.
LEMMA DisposeEndInv ==
    ASSUME Inv, NEW d \in Disposers, DisposeEnd(d)
    PROVE  Inv'
<1> USE CallersAssumption, AnswersAssumption DEF Inv, TypeOK, Callers, DisposeEnd, list, loop, tasks
<1>a. lock = Nobody /\ disposed /\ Cleaning = {d}
  BY DEF DisposeInv, DisposeIsExclusive, Cleaning
<1>b. \A c \in Items \cup Waiters : pc[c] \notin Offering
  BY <1>a, LockHolder
<1>c. \A w \in Range(handlers) : task[w] # "pending"
  <2>1. DOMAIN handlers = 1..Len(handlers) /\ Len(handlers) \in Nat
    BY LenProperties
  <2>2. \A p \in 1..Len(handlers) : p < j => task[handlers[p]] # "pending"
    BY DEF DisposeInv
  <2> QED
    BY <2>1, <2>2 DEF Range
<1>1. TypeOK'
  BY <1>b, EmptySeq DEF IndexOK
<1>2. LockInv'
  BY <1>a, <1>b DEF LockInv, AnswerFrom
<1>3. DisposeInv'
  BY DEF DisposeInv, DisposeIsExclusive, Cleaning
<1>4. NoForgottenWaiter'
  BY <1>c DEF NoForgottenWaiter
<1>5. SkipInv'
  BY DEF SkipInv
<1>6. NoMissedHandOff'
  BY EmptyRange DEF NoMissedHandOff
<1>7. ItemInv'
  BY DEF ItemInv, Taken
<1>8. LostOnlyByExpiry'
  BY DEF LostOnlyByExpiry
<1> QED
  BY <1>1, <1>2, <1>3, <1>4, <1>5, <1>6, <1>7, <1>8 DEF Inv

\* TrySetResult and TrySetException change nothing but the task they are
\* called on, and complete it if it was not; an item that the handler removed
\* goes to a call that had none.
LEMMA ActOnAnswerEffect ==
    ASSUME TypeOK, LostOnlyByExpiry, NEW w \in Waiters, NEW x \in Items,
           AnswerFrom(w), ActOnAnswer(w, x)
    PROVE  /\ task' \in [Waiters -> {"pending", "result", "expired", "faulted",
                                     "disposed"}]
           /\ result' \in [Waiters -> Items \cup {NoItem}]
           /\ took' \in [Waiters -> Items \cup {NoItem}]
           /\ released' = IF answer = "discard" THEN released \cup {x}
                                                ELSE released
           /\ answer' = "none"
           /\ \A v \in Waiters : v # w => task'[v] = task[v] /\ took'[v] = took[v]
           /\ Stops(answer) => task'[w] # "pending"
           /\ task[w] # "pending" => task'[w] # "pending"
           /\ answer = "take" => took[w] = NoItem /\ took'[w] = x
           /\ answer # "take" => took' = took
           /\ answer \in {"take", "peek", "throw", "discard", "skip", "completed"}
           /\ answer = "skip" => "skip" \in Answers[w]
           /\ LostOnlyByExpiry'
<1> USE AnswersAssumption DEF TypeOK, AnswerFrom, ActOnAnswer, Outcome, Verdicts
<1>1. /\ task' \in [Waiters -> {"pending", "result", "expired", "faulted",
                                "disposed"}]
      /\ result' \in [Waiters -> Items \cup {NoItem}]
      /\ took' \in [Waiters -> Items \cup {NoItem}]
  OBVIOUS
<1>2. \A v \in Waiters : v # w =>
        task'[v] = task[v] /\ took'[v] = took[v] /\ result'[v] = result[v]
  OBVIOUS
<1>3. answer \in {"take", "peek", "throw", "discard", "skip", "completed"}
  OBVIOUS
<1>4. /\ Stops(answer) => task'[w] # "pending"
      /\ task[w] # "pending" => task'[w] # "pending"
  BY <1>3 DEF Stops
<1>5. /\ answer = "take" => took[w] = NoItem /\ took'[w] = x
      /\ answer # "take" => took' = took
  OBVIOUS
<1>6. LostOnlyByExpiry'
  <2>1. ASSUME took'[w] # NoItem
        PROVE  \/ task'[w] = "result" /\ result'[w] = took'[w]
               \/ task'[w] = "expired"
    <3>1. CASE answer = "take"
      <4>1. took'[w] = x /\ task[w] \in {"pending", "expired"}
        BY <1>5, <3>1
      <4>2. task[w] = "pending" => task'[w] = "result" /\ result'[w] = x
        BY <3>1
      <4>3. task[w] # "pending" => task' = task
        OBVIOUS
      <4> QED
        BY <4>1, <4>2, <4>3
    <3>2. CASE answer # "take"
      BY <1>5, <2>1, <3>2 DEF LostOnlyByExpiry
    <3> QED
      BY <3>1, <3>2
  <2> QED
    BY <1>2, <2>1 DEF LostOnlyByExpiry
<1> QED
  BY <1>1, <1>2, <1>3, <1>4, <1>5, <1>6

\* Add acts on the answer of the handler at its index.
LEMMA AddActInv ==
    ASSUME Inv, NEW x \in Items, AddAct(x)
    PROVE  Inv'
<1> USE CallersAssumption, AnswersAssumption DEF Callers
<1> DEFINE w == handlers[i]
<1>1. /\ lock = x /\ i \in 1..Len(handlers) /\ Len(handlers) \in Nat
      /\ DOMAIN handlers = 1..Len(handlers)
  BY LenProperties DEF Inv, TypeOK, IndexOK, AddAct
<1>2. w \in Waiters
  BY <1>1, ElementOfSeq DEF Inv, TypeOK
<1>3. ~disposed /\ Cleaning = {}
  BY <1>1 DEF Inv, DisposeInv, DisposeIsExclusive
<1>4. \A c \in Items \cup Waiters : pc[c] \in Offering => c = x
  BY <1>1, LockHolder DEF Inv
<1>5. AnswerFrom(w) /\ ActOnAnswer(w, x)
  BY DEF Inv, LockInv, AddAct
<1> HIDE DEF w
<1>6. /\ task' \in [Waiters -> {"pending", "result", "expired", "faulted",
                                "disposed"}]
      /\ result' \in [Waiters -> Items \cup {NoItem}]
      /\ took' \in [Waiters -> Items \cup {NoItem}]
      /\ released' = IF answer = "discard" THEN released \cup {x} ELSE released
      /\ answer' = "none"
      /\ \A v \in Waiters : v # w => task'[v] = task[v] /\ took'[v] = took[v]
      /\ Stops(answer) => task'[w] # "pending"
      /\ task[w] # "pending" => task'[w] # "pending"
      /\ answer = "take" => took[w] = NoItem /\ took'[w] = x
      /\ answer # "take" => took' = took
      /\ answer \in {"take", "peek", "throw", "discard", "skip", "completed"}
      /\ answer = "skip" => "skip" \in Answers[w]
      /\ LostOnlyByExpiry'
  BY <1>2, <1>5, ActOnAnswerEffect DEF Inv
<1>7. /\ handlers' \in Seq(Waiters)
      /\ Stops(answer) =>
           /\ Len(handlers') = Len(handlers) - 1
           /\ \A p \in 1..(Len(handlers) - 1) :
                handlers'[p] = IF p < i THEN handlers[p] ELSE handlers[p + 1]
      /\ ~Stops(answer) => handlers' = handlers
      /\ Range(handlers') \subseteq Range(handlers)
      /\ \A v \in Range(handlers) :
            v \in Range(handlers') \/ (Stops(answer) /\ v = w)
  <2>1. CASE Stops(answer)
    <3>1. handlers \in Seq(Waiters) /\ handlers' = RemoveAt(handlers, i)
      BY <2>1 DEF Inv, TypeOK, AddAct
    <3>2. /\ handlers' \in Seq(Waiters)
          /\ Len(handlers') = Len(handlers) - 1
          /\ \A p \in 1..(Len(handlers) - 1) :
                handlers'[p] = IF p < i THEN handlers[p] ELSE handlers[p + 1]
      BY <1>1, <3>1, RemoveAtProperties, ZenonT(40)
    <3>3. /\ Range(handlers') \subseteq Range(handlers)
          /\ \A v \in Range(handlers) : v # w => v \in Range(handlers')
      BY <1>1, <3>1, RemoveAtRange DEF w
    <3> QED
      BY <2>1, <3>2, <3>3 DEF Stops
  <2>2. CASE ~Stops(answer)
    <3>1. handlers \in Seq(Waiters) /\ handlers' = handlers
      BY <2>2 DEF Inv, TypeOK, AddAct
    <3> QED
      BY <2>2, <3>1 DEF Stops
  <2> QED
    BY <2>1, <2>2
<1>8. /\ items' = items /\ disposed' = disposed /\ j' = j
      /\ Removes(answer) => lock' = Nobody /\ i' = 0
                            /\ pc' = [pc EXCEPT ![x] = "done"]
      /\ ~Removes(answer) => lock' = lock
                             /\ i' = (IF Stops(answer) THEN i ELSE i + 1)
                             /\ pc' = [pc EXCEPT ![x] = "offer"]
  BY DEF AddAct, Release
<1>9. pc' \in [Callers -> {"idle", "registered", "offer", "act", "waiting",
                           "clear", "fail", "done", "rejected"}]
  BY <1>8 DEF Inv, TypeOK
<1>10. \A c \in Callers : c # x => pc'[c] = pc[c]
  BY <1>8 DEF Inv, TypeOK
<1>11. pc'[x] = IF Removes(answer) THEN "done" ELSE "offer"
  BY <1>8 DEF Inv, TypeOK
<1>12. \A c \in Items \cup Waiters : pc'[c] \in Offering => c = x
  BY <1>4, <1>10
<1>13. TypeOK'
  <2>1. ASSUME ~Removes(answer)
        PROVE  i' \in 1..(Len(handlers') + 1) /\ lock' = x
    <3>1. CASE Stops(answer)
      <4>1. i' = i /\ Len(handlers') = Len(handlers) - 1 /\ lock' = x
        BY <1>1, <1>7, <1>8, <2>1, <3>1
      <4> QED
        BY <1>1, <4>1
    <3>2. CASE ~Stops(answer)
      <4>1. i' = i + 1 /\ Len(handlers') = Len(handlers) /\ lock' = x
        BY <1>1, <1>7, <1>8, <2>1, <3>2
      <4> QED
        BY <1>1, <4>1
    <3> QED
      BY <3>1, <3>2
  <2>2. IndexOK'
    BY <1>11, <1>12, <2>1 DEF IndexOK
  <2>3. released' \in SUBSET Items /\ i' \in Nat
    BY <1>1, <1>6, <1>8 DEF Inv, TypeOK
  <2> QED
    BY <1>1, <1>6, <1>7, <1>8, <1>9, <2>2, <2>3, ZenonT(40) DEF TypeOK, Inv
<1>14. LockInv'
  BY <1>1, <1>8, <1>11, <1>12 DEF LockInv
<1>15. DisposeInv'
  <2>1. Cleaning' = {}
    BY <1>3, <1>10 DEF Cleaning
  <2> QED
    BY <1>3, <1>8, <2>1 DEF DisposeInv, DisposeIsExclusive, Cleaning
<1>16. NoForgottenWaiter'
  <2> SUFFICES ASSUME NEW v \in Waiters, pc'[v] = "waiting",
                      task'[v] = "pending"
               PROVE  v \in Range(handlers')
    BY DEF NoForgottenWaiter
  <2>1. pc[v] = "waiting" /\ task[v] = "pending"
    BY <1>2, <1>6, <1>10
  <2> QED
    BY <1>6, <1>7, <2>1 DEF Inv, NoForgottenWaiter
<1>17. SkipInv'
  <2>1. ASSUME ~Removes(answer), NEW p \in 1..Len(handlers'), p < i'
        PROVE  "skip" \in Answers[handlers'[p]]
    <3>1. CASE Stops(answer)
      BY <1>1, <1>7, <1>8, <2>1, <3>1 DEF Inv, SkipInv, AddAct
    <3>2. CASE ~Stops(answer)
      <4>1. answer = "skip" /\ handlers' = handlers /\ i' = i + 1
        BY <1>6, <1>7, <1>8, <2>1, <3>2 DEF Stops, Removes
      <4>2. p < i \/ p = i
        BY <1>1, <2>1, <4>1
      <4> QED
        BY <1>1, <1>6, <2>1, <4>1, <4>2 DEF Inv, SkipInv, AddAct, w
    <3> QED
      BY <3>1, <3>2
  <2> QED
    BY <1>11, <1>12, <2>1 DEF SkipInv
<1>18. NoMissedHandOff'
  BY <1>2, <1>6, <1>7, <1>8, RangeOfSeq DEF Inv, TypeOK, NoMissedHandOff
<1>19. ItemInv'
  <2>1. x \notin Range(items) \cup released \cup Taken
    BY DEF Inv, ItemInv, AddAct
  <2>2. Taken' = IF answer = "take" THEN Taken \cup {x} ELSE Taken
    BY <1>2, <1>6 DEF Taken, Inv, TypeOK
  <2>3. \A u, v \in Waiters : took'[u] = took'[v] /\ took'[u] # NoItem => u = v
    BY <1>2, <1>6, <2>1 DEF Inv, ItemInv, Taken
  <2> QED
    BY <1>6, <1>8, <1>10, <1>11, <2>1, <2>2, <2>3
       DEF Inv, ItemInv, Removes
<1> QED
  BY <1>6, <1>13, <1>14, <1>15, <1>16, <1>17, <1>18, <1>19 DEF Inv

\* RunOrQueueHandler acts on the answer of its handler.
LEMMA RunActInv ==
    ASSUME Inv, NEW w \in Waiters, RunAct(w)
    PROVE  Inv'
<1> USE CallersAssumption, AnswersAssumption DEF Callers
<1> DEFINE x == items[i]
<1>1. /\ lock = w /\ i \in 1..Len(items) /\ Len(items) \in Nat
      /\ DOMAIN items = 1..Len(items)
  BY LenProperties DEF Inv, TypeOK, IndexOK, RunAct
<1>2. x \in Items /\ x \in Range(items)
  BY <1>1, ElementOfSeq DEF Inv, TypeOK, Range
<1>3. ~disposed /\ Cleaning = {}
  BY <1>1 DEF Inv, DisposeInv, DisposeIsExclusive
<1>4. \A c \in Items \cup Waiters : pc[c] \in Offering => c = w
  BY <1>1, LockHolder DEF Inv
<1>5. AnswerFrom(w) /\ ActOnAnswer(w, x)
  BY DEF Inv, LockInv, RunAct
<1> HIDE DEF x
<1>6. /\ task' \in [Waiters -> {"pending", "result", "expired", "faulted",
                                "disposed"}]
      /\ result' \in [Waiters -> Items \cup {NoItem}]
      /\ took' \in [Waiters -> Items \cup {NoItem}]
      /\ released' = IF answer = "discard" THEN released \cup {x} ELSE released
      /\ answer' = "none"
      /\ \A v \in Waiters : v # w => task'[v] = task[v] /\ took'[v] = took[v]
      /\ Stops(answer) => task'[w] # "pending"
      /\ task[w] # "pending" => task'[w] # "pending"
      /\ answer = "take" => took[w] = NoItem /\ took'[w] = x
      /\ answer # "take" => took' = took
      /\ answer \in {"take", "peek", "throw", "discard", "skip", "completed"}
      /\ answer = "skip" => "skip" \in Answers[w]
      /\ LostOnlyByExpiry'
  BY <1>2, <1>5, ActOnAnswerEffect DEF Inv
<1>7. /\ items' \in Seq(Items)
      /\ Removes(answer) => /\ Len(items') = Len(items) - 1
                            /\ Range(items') = Range(items) \ {x}
      /\ ~Removes(answer) => items' = items
      /\ \A p, q \in 1..Len(items') : items'[p] = items'[q] => p = q
      /\ items = <<>> => items' = <<>>
  <2>1. items # <<>>
    BY <1>1, EmptySeq
  <2>2. CASE Removes(answer)
    <3>1. /\ items \in Seq(Items) /\ items' = RemoveAt(items, i)
          /\ \A p, q \in 1..Len(items) : items[p] = items[q] => p = q
      BY <2>2 DEF Inv, TypeOK, ItemInv, RunAct
    <3>2. items' \in Seq(Items) /\ Len(items') = Len(items) - 1
      BY <1>1, <3>1, RemoveAtProperties
    <3>3. /\ Range(items') = Range(items) \ {x}
          /\ \A p, q \in 1..Len(items') : items'[p] = items'[q] => p = q
      BY <1>1, <3>1, RemoveAtInjective DEF x
    <3> QED
      BY <2>1, <2>2, <3>2, <3>3
  <2>3. CASE ~Removes(answer)
    BY <2>1, <2>3 DEF Inv, TypeOK, ItemInv, RunAct
  <2> QED
    BY <2>2, <2>3 DEF Removes
<1>8. /\ handlers' = handlers /\ disposed' = disposed /\ j' = j
      /\ Stops(answer) => lock' = Nobody /\ i' = 0
                          /\ pc' = [pc EXCEPT ![w] = "waiting"]
      /\ ~Stops(answer) => lock' = lock
                           /\ i' = (IF Removes(answer) THEN i ELSE i + 1)
                           /\ pc' = [pc EXCEPT ![w] = "offer"]
  BY DEF RunAct, Release
<1>9. pc' \in [Callers -> {"idle", "registered", "offer", "act", "waiting",
                           "clear", "fail", "done", "rejected"}]
  BY <1>8 DEF Inv, TypeOK
<1>10. \A c \in Callers : c # w => pc'[c] = pc[c]
  BY <1>8 DEF Inv, TypeOK
<1>11. pc'[w] = IF Stops(answer) THEN "waiting" ELSE "offer"
  BY <1>8 DEF Inv, TypeOK
<1>12. \A c \in Items \cup Waiters : pc'[c] \in Offering => c = w
  BY <1>4, <1>10
<1>13. TypeOK'
  <2>1. ASSUME ~Stops(answer)
        PROVE  i' \in 1..(Len(items') + 1) /\ lock' = w
    <3>1. CASE Removes(answer)
      <4>1. i' = i /\ Len(items') = Len(items) - 1 /\ lock' = w
        BY <1>1, <1>7, <1>8, <2>1, <3>1
      <4> QED
        BY <1>1, <4>1
    <3>2. CASE ~Removes(answer)
      <4>1. i' = i + 1 /\ Len(items') = Len(items) /\ lock' = w
        BY <1>1, <1>7, <1>8, <2>1, <3>2
      <4> QED
        BY <1>1, <4>1
    <3> QED
      BY <3>1, <3>2
  <2>2. IndexOK'
    BY <1>11, <1>12, <2>1 DEF IndexOK
  <2>3. released' \in SUBSET Items /\ i' \in Nat
    BY <1>1, <1>2, <1>6, <1>8 DEF Inv, TypeOK
  <2>4. /\ handlers' \in Seq(Waiters) /\ disposed' \in BOOLEAN /\ j' \in Nat
        /\ lock' \in Items \cup Waiters \cup {Nobody}
    BY <1>1, <1>8 DEF Inv, TypeOK
  <2> QED
    BY <1>6, <1>7, <1>9, <2>2, <2>3, <2>4 DEF TypeOK
<1>14. LockInv'
  BY <1>1, <1>8, <1>11, <1>12 DEF LockInv
<1>15. DisposeInv'
  <2>1. Cleaning' = {}
    BY <1>3, <1>10 DEF Cleaning
  <2> QED
    BY <1>3, <1>8, <2>1 DEF DisposeInv, DisposeIsExclusive, Cleaning
<1>16. NoForgottenWaiter'
  BY <1>6, <1>8, <1>10, <1>11 DEF Inv, NoForgottenWaiter
<1>17. SkipInv'
  <2>1. ASSUME ~Stops(answer), i' > 1
        PROVE  "skip" \in Answers[w]
    BY <1>1, <1>6, <1>8, <2>1 DEF Inv, SkipInv, RunAct, Stops, Removes
  <2> QED
    BY <1>11, <1>12, <2>1 DEF SkipInv
<1>18. NoMissedHandOff'
  BY <1>6, <1>7, <1>8, RangeOfSeq DEF Inv, TypeOK, NoMissedHandOff
<1>19. ItemInv'
  <2>1. x \notin released \cup Taken /\ pc[x] = "done"
    BY <1>2 DEF Inv, ItemInv
  <2>2. Taken' = IF answer = "take" THEN Taken \cup {x} ELSE Taken
    BY <1>2, <1>6 DEF Taken, Inv, TypeOK
  <2>3. \A u, v \in Waiters : took'[u] = took'[v] /\ took'[u] # NoItem => u = v
    BY <1>2, <1>6, <2>1 DEF Inv, ItemInv, Taken
  <2> QED
    BY <1>2, <1>6, <1>7, <1>10, <2>1, <2>2, <2>3
       DEF Inv, ItemInv, Removes
<1> QED
  BY <1>6, <1>13, <1>14, <1>15, <1>16, <1>17, <1>18, <1>19 DEF Inv

-----------------------------------------------------------------------------
(* The theorems. *)

\* Every step of the collection preserves the invariant.
LEMMA NextInv == Inv /\ [Next]_vars => Inv'
<1> SUFFICES ASSUME Inv, [Next]_vars PROVE Inv'
  OBVIOUS
<1>1. ASSUME NEW x \in Items, AddBegin(x) \/ AddStep(x)
      PROVE  Inv'
  BY <1>1, AddBeginInv, AddAskInv, AddActInv, AddStoreInv DEF AddStep
<1>2. ASSUME NEW w \in Waiters, HandleBegin(w) \/ Expire(w) \/ HandleStep(w)
      PROVE  Inv'
  BY <1>2, HandleBeginInv, ExpireInv, RunHandlerInv, RunAskInv, RunActInv,
     QueueHandlerInv, HandleReturnInv DEF HandleStep
<1>3. ASSUME NEW c \in Clearers, ClearItems(c)
      PROVE  Inv'
  BY <1>3, ClearItemsInv
<1>4. ASSUME NEW d \in Disposers, DisposeBegin(d) \/ DisposeStep(d)
      PROVE  Inv'
  BY <1>4, DisposeBeginInv, DisposeItemsInv, FailHandlerInv, DisposeEndInv
     DEF DisposeStep
<1>5. CASE UNCHANGED vars
  BY <1>5 DEF vars, Inv, TypeOK, IndexOK, LockInv, AnswerFrom, DisposeInv,
     DisposeIsExclusive, Cleaning, NoForgottenWaiter, SkipInv,
     NoMissedHandOff, ItemInv, Taken, LostOnlyByExpiry
<1> QED
  BY <1>1, <1>2, <1>3, <1>4, <1>5 DEF Next, Finished

\* The invariant holds in every state of the collection.
LEMMA Invariance == Spec => []Inv
BY InitInv, NextInv, PTL DEF Spec

\* The collection keeps its types, and its loops their indices, however the
\* calls interleave.
THEOREM TypeCorrect == Spec => []TypeOK
<1>1. Inv => TypeOK
  BY DEF Inv
<1> QED
  BY <1>1, Invariance, PTL

\* Dispose works on the lists alone although it does not hold the lock.
THEOREM DisposeExclusive == Spec => []DisposeIsExclusive
<1>1. Inv => DisposeIsExclusive
  BY DEF Inv, DisposeInv
<1> QED
  BY <1>1, Invariance, PTL

\* A pending call is always where Add and Dispose will find it.
THEOREM NobodyForgotten == Spec => []NoForgottenWaiter
<1>1. Inv => NoForgottenWaiter
  BY DEF Inv
<1> QED
  BY <1>1, Invariance, PTL

\* An item and a handler that wants it are never both left in the lists.
THEOREM HandOff == Spec => []NoMissedHandOff
<1>1. Inv => NoMissedHandOff
  BY DEF Inv
<1> QED
  BY <1>1, Invariance, PTL

\* Every item added is stored, disposed or taken, once.
THEOREM ItemsConserved == Spec => []ItemInOnePlace
<1>1. Inv => ItemInOnePlace
  <2> SUFFICES ASSUME Inv, NEW x \in Items
               PROVE  IF pc[x] = "done"
                      THEN \E p \in {"stored", "released"} \cup Waiters :
                              Where(x) = {p}
                      ELSE Where(x) = {}
    BY DEF ItemInOnePlace
  <2>1. CASE pc[x] # "done"
    BY <2>1 DEF Inv, ItemInv, Taken, Where
  <2>2. CASE x \in Range(items)
    BY <2>2 DEF Inv, ItemInv, Taken, Where
  <2>3. CASE x \in released
    BY <2>3 DEF Inv, ItemInv, Taken, Where
  <2>4. CASE x \in Taken
    <3>1. PICK w \in Waiters : took[w] = x
      BY <2>4 DEF Taken
    <3>2. {v \in Waiters : took[v] = x} = {w}
      BY <3>1, CallersAssumption DEF Inv, ItemInv
    <3> QED
      BY <2>4, <3>1, <3>2 DEF Inv, ItemInv, Where
  <2> QED
    BY <2>1, <2>2, <2>3, <2>4 DEF Inv, ItemInv
<1> QED
  BY <1>1, Invariance, PTL

\* Only a timeout or a cancellation separates an item from its taker.
THEOREM LossIsExpiry == Spec => []LostOnlyByExpiry
<1>1. Inv => LostOnlyByExpiry
  BY DEF Inv
<1> QED
  BY <1>1, Invariance, PTL

\* After Dispose nothing is stored or queued and no call is left waiting.
THEOREM DisposeCompletes == Spec => []DisposedIsEmpty
<1>1. Inv => DisposedIsEmpty
  BY EmptyRange DEF Inv, DisposeInv, NoForgottenWaiter, DisposedIsEmpty
<1> QED
  BY <1>1, Invariance, PTL

\* Once _disposed is set no handler is between its answer and TrySetResult, so
\* no step completes a task with an item.
THEOREM NoLateDelivery == Spec => NoDeliveryAfterDispose
<1> DEFINE Late == \A w \in Waiters : task'[w] = "result" => task[w] = "result"
<1>1. Inv /\ [Next]_vars => (disposed => Late)
  <2> SUFFICES ASSUME Inv, [Next]_vars, disposed PROVE Late
    OBVIOUS
  <2> USE DEF Inv, TypeOK
  <2>1. \A c \in Items \cup Waiters : pc[c] \notin Offering
    BY CallersAssumption, LockHolder DEF DisposeInv, DisposeIsExclusive, Callers
  <2>2. CASE task' = task
    BY <2>2
  <2>3. ASSUME NEW w \in Waiters, Expire(w) PROVE Late
    BY <2>3 DEF Expire
  <2>4. ASSUME NEW d \in Disposers, FailHandler(d) PROVE Late
    <3>1. handlers[j] \in Waiters
      <4>1. j >= 1
        BY <2>4 DEF FailHandler, DisposeInv
      <4> QED
        BY <2>4, <4>1, ElementOfSeq, LenProperties DEF FailHandler
    <3> QED
      BY <2>4, <3>1 DEF FailHandler
  <2>5. ASSUME NEW x \in Items, AddBegin(x) \/ AddStep(x) PROVE task' = task
    BY <2>1, <2>5 DEF AddBegin, AddStep, AddAsk, AddAct, AddStore, Rejected,
       tasks, Offering
  <2>6. ASSUME NEW w \in Waiters, HandleBegin(w) \/ HandleStep(w)
        PROVE  task' = task
    BY <2>1, <2>6 DEF HandleBegin, HandleStep, RunHandler, RunAsk, RunAct,
       QueueHandler, HandleReturn, Rejected, tasks, Offering
  <2>7. ASSUME NEW c \in Clearers, ClearItems(c) PROVE task' = task
    BY <2>7 DEF ClearItems, Rejected, tasks
  <2>8. ASSUME NEW d \in Disposers,
               DisposeBegin(d) \/ DisposeItems(d) \/ DisposeEnd(d)
        PROVE  task' = task
    BY <2>8 DEF DisposeBegin, DisposeItems, DisposeEnd, tasks
  <2>9. CASE UNCHANGED vars
    BY <2>9 DEF vars
  <2> QED
    BY <2>2, <2>3, <2>4, <2>5, <2>6, <2>7, <2>8, <2>9
    DEF Next, Finished, DisposeStep
<1> QED
  BY <1>1, Invariance, PTL DEF Spec, NoDeliveryAfterDispose

\* Dispose is safe for any number of callers, although it works outside the lock.
THEOREM DisposeSafe == Spec => []DisposeIsSafe
BY TypeCorrect, DisposeExclusive, DisposeCompletes, PTL DEF DisposeIsSafe

\* No call and no item is overlooked, for any number of them.
THEOREM NobodyMissed == Spec => []NobodyIsMissed
BY NobodyForgotten, HandOff, PTL DEF NobodyIsMissed

\* Items are neither lost nor duplicated, but for a call that expires.
THEOREM Conservation == Spec => []ItemsAreConserved
BY ItemsConserved, LossIsExpiry, PTL DEF ItemsAreConserved
-----------------------------------------------------------------------------
(* The order of the handlers. *)

\* A handler is in the list only after its call has left the loop: nobody queues
\* a handler twice.
QueuedInv == \A w \in Range(handlers) : pc[w] \in {"waiting", "done"}

\* List.RemoveAt keeps the order of the elements that stay.
LEMMA RemoveAtOrder ==
    ASSUME NEW S, NEW s \in Seq(S), NEW k \in 1..Len(s), NEW v, NEW w,
           Before(RemoveAt(s, k), w, v)
    PROVE  Before(s, w, v)
<1> DEFINE r == RemoveAt(s, k)
           Old(p) == IF p < k THEN p ELSE p + 1
<1>1. Len(s) \in Nat
  BY LenProperties
<1>2. /\ Len(r) = Len(s) - 1
      /\ \A p \in 1..(Len(s) - 1) : r[p] = IF p < k THEN s[p] ELSE s[p + 1]
  BY RemoveAtProperties, ZenonT(40)
<1>3. PICK p, q \in 1..Len(r) : p < q /\ r[p] = w /\ r[q] = v
  BY DEF Before
<1> HIDE DEF r
<1>4. p \in 1..(Len(s) - 1) /\ q \in 1..(Len(s) - 1) /\ k \in Nat
  BY <1>1, <1>2
<1>5. Old(p) \in 1..Len(s) /\ Old(q) \in 1..Len(s) /\ Old(p) < Old(q)
  BY <1>1, <1>3, <1>4
<1>6. s[Old(p)] = r[p] /\ s[Old(q)] = r[q]
  BY <1>2, <1>4
<1> HIDE DEF Old
<1> QED
  BY <1>3, <1>5, <1>6 DEF Before

\* List.Add puts nobody in front of an element that is another one.
LEMMA AppendOrder ==
    ASSUME NEW S, NEW s \in Seq(S), NEW e \in S, NEW v, NEW w, v # e,
           Before(Append(s, e), w, v)
    PROVE  Before(s, w, v)
<1> DEFINE r == Append(s, e)
<1>1. /\ Len(s) \in Nat /\ Len(r) = Len(s) + 1
      /\ \A p \in 1..Len(s) : r[p] = s[p]
      /\ r[Len(s) + 1] = e
  BY AppendRange, LenProperties
<1>2. PICK p, q \in 1..Len(r) : p < q /\ r[p] = w /\ r[q] = v
  BY DEF Before
<1> HIDE DEF r
<1>3. p \in 1..Len(s) /\ q \in 1..Len(s)
  BY <1>1, <1>2
<1> QED
  BY <1>1, <1>2, <1>3 DEF Before

\* A step of the collection keeps the list, removes one handler, appends the one
\* of a call inside its loop, or clears the list when it is disposed.
LEMMA HandlersEffect ==
    ASSUME Inv, [Next]_vars
    PROVE  \/ handlers' = handlers
           \/ \E k \in 1..Len(handlers) : handlers' = RemoveAt(handlers, k)
           \/ \E w \in Waiters : pc[w] = "offer" /\ pc'[w] = "waiting"
                                 /\ handlers' = Append(handlers, w)
           \/ handlers' = <<>>
<1> DEFINE Goal ==
           \/ handlers' = handlers
           \/ \E k \in 1..Len(handlers) : handlers' = RemoveAt(handlers, k)
           \/ \E w \in Waiters : pc[w] = "offer" /\ pc'[w] = "waiting"
                                 /\ handlers' = Append(handlers, w)
           \/ handlers' = <<>>
<1>1. ASSUME NEW x \in Items, AddAct(x) PROVE Goal
  BY <1>1 DEF AddAct, Inv, TypeOK, IndexOK
<1>2. ASSUME NEW w \in Waiters, QueueHandler(w) PROVE Goal
  <2>1. pc'[w] = "waiting"
    BY <1>2 DEF QueueHandler, Release, Inv, TypeOK, Callers
  <2> QED
    BY <1>2, <2>1 DEF QueueHandler
<1>3. ASSUME NEW d \in Disposers, DisposeEnd(d) PROVE Goal
  BY <1>3 DEF DisposeEnd
<1>4. ASSUME NEW x \in Items, AddBegin(x) \/ AddAsk(x) \/ AddStore(x)
      PROVE  handlers' = handlers
  BY <1>4 DEF AddBegin, AddAsk, AddStore, Rejected, list
<1>5. ASSUME NEW w \in Waiters,
             \/ HandleBegin(w) \/ Expire(w) \/ RunHandler(w) \/ RunAsk(w)
             \/ RunAct(w) \/ HandleReturn(w)
      PROVE  handlers' = handlers
  BY <1>5 DEF HandleBegin, Expire, RunHandler, RunAsk, RunAct, HandleReturn,
     Rejected, list
<1>6. ASSUME NEW c \in Clearers, ClearItems(c) PROVE handlers' = handlers
  BY <1>6 DEF ClearItems, Rejected, list
<1>7. ASSUME NEW d \in Disposers,
             DisposeBegin(d) \/ DisposeItems(d) \/ FailHandler(d)
      PROVE  handlers' = handlers
  BY <1>7 DEF DisposeBegin, DisposeItems, FailHandler, list
<1>8. ASSUME UNCHANGED vars PROVE handlers' = handlers
  BY <1>8 DEF vars
<1> HIDE DEF Goal
<1>9. handlers' = handlers => Goal
  BY DEF Goal
<1>10. ASSUME NEW x \in Items, AddBegin(x) \/ AddStep(x) PROVE Goal
  BY <1>1, <1>4, <1>9, <1>10 DEF AddStep
<1>11. ASSUME NEW v \in Waiters, HandleBegin(v) \/ Expire(v) \/ HandleStep(v)
       PROVE  Goal
  BY <1>2, <1>5, <1>9, <1>11 DEF HandleStep
<1>12. ASSUME NEW d \in Disposers, DisposeBegin(d) \/ DisposeStep(d) PROVE Goal
  BY <1>3, <1>7, <1>9, <1>12 DEF DisposeStep
<1>13. Goal
  BY <1>6, <1>8, <1>9, <1>10, <1>11, <1>12 DEF Next, Finished
<1> QED
  BY <1>13 DEF Goal

\* A call that has left the loop is not in it again.
LEMMA LeftForGood ==
    ASSUME Inv, [Next]_vars, NEW w \in Waiters, pc[w] \in {"waiting", "done"}
    PROVE  pc'[w] \in {"waiting", "done"}
<1> USE CallersAssumption DEF Inv, TypeOK, Callers
<1> DEFINE Goal == pc'[w] \in {"waiting", "done"}
<1>1. ASSUME NEW x \in Items, AddBegin(x) \/ AddStep(x) PROVE pc'[w] = pc[w]
  BY <1>1 DEF AddBegin, AddStep, AddAsk, AddAct, AddStore, Rejected, Acquire,
     Release
<1>2. ASSUME NEW v \in Waiters, HandleBegin(v) \/ Expire(v) \/ HandleStep(v)
      PROVE  Goal
  BY <1>2 DEF HandleBegin, Expire, HandleStep, RunHandler, RunAsk, RunAct,
     QueueHandler, HandleReturn, Rejected, Acquire, Release
<1>3. ASSUME NEW c \in Clearers, ClearItems(c) PROVE pc'[w] = pc[w]
  BY <1>3 DEF ClearItems, Rejected
<1>4. ASSUME NEW d \in Disposers, DisposeBegin(d) \/ DisposeStep(d)
      PROVE  pc'[w] = pc[w]
  BY <1>4 DEF DisposeBegin, DisposeStep, DisposeItems, FailHandler, DisposeEnd
<1>5. CASE UNCHANGED vars
  BY <1>5 DEF vars
<1> QED
  BY <1>1, <1>2, <1>3, <1>4, <1>5 DEF Next, Finished

\* Every step preserves it.
LEMMA QueuedNext == Inv /\ QueuedInv /\ [Next]_vars => QueuedInv'
<1> SUFFICES ASSUME Inv, QueuedInv, [Next]_vars PROVE QueuedInv'
  OBVIOUS
<1>1. handlers \in Seq(Waiters)
  BY DEF Inv, TypeOK
<1>2. \A w \in Range(handlers) : w \in Waiters
  BY <1>1, ElementOfSeq, LenProperties DEF Range
<1>3. \A w \in Range(handlers) : pc'[w] \in {"waiting", "done"}
  BY <1>2, LeftForGood DEF QueuedInv
<1>4. \A w \in Range(handlers') : w \in Range(handlers) \/ pc'[w] = "waiting"
  <2>1. CASE handlers' = handlers
    BY <2>1
  <2>2. ASSUME NEW k \in 1..Len(handlers), handlers' = RemoveAt(handlers, k)
        PROVE  Range(handlers') \subseteq Range(handlers)
    BY <1>1, <2>2, RemoveAtRange
  <2>3. ASSUME NEW w \in Waiters, pc'[w] = "waiting",
               handlers' = Append(handlers, w)
        PROVE  Range(handlers') = Range(handlers) \cup {w} /\ pc'[w] = "waiting"
    BY <1>1, <2>3, AppendRange
  <2>4. CASE handlers' = <<>>
    BY <2>4, EmptyRange
  <2> QED
    BY <2>1, <2>2, <2>3, <2>4, HandlersEffect
<1> QED
  BY <1>3, <1>4 DEF QueuedInv

\* A queued handler's call is past its loop, in every state.
LEMMA QueuedInvariance == Spec => []QueuedInv
<1>1. Init => QueuedInv
  BY EmptyRange DEF Init, QueuedInv
<1> QED
  BY <1>1, QueuedNext, Invariance, PTL DEF Spec

\* A step that completes a task with an item is the act of an Add on the handler
\* at its index, or of a call on the items, which there are.
LEMMA ResultEffect ==
    ASSUME Inv, [Next]_vars, NEW w \in Waiters,
           task[w] # "result", task'[w] = "result"
    PROVE  \/ items # <<>>
           \/ \E x \in Items : pc[x] = "act" /\ w = handlers[i]
<1> USE DEF Inv, TypeOK
<1> DEFINE Goal == \/ items # <<>>
                   \/ \E x \in Items : pc[x] = "act" /\ w = handlers[i]
<1>1. ASSUME NEW x \in Items, AddAct(x) PROVE Goal
  <2>1. pc[x] = "act"
    BY <1>1 DEF AddAct
  <2>2. w # handlers[i] => task'[w] = task[w]
    BY <1>1 DEF AddAct, ActOnAnswer
  <2> QED
    BY <2>1, <2>2
<1>2. ASSUME NEW v \in Waiters, RunAct(v) PROVE Goal
  <2>1. i \in 1..Len(items)
    BY <1>2 DEF RunAct, IndexOK
  <2> QED
    BY <2>1, EmptySeq
<1>3. ASSUME NEW v \in Waiters, Expire(v) PROVE FALSE
  BY <1>3 DEF Expire
<1>4. ASSUME NEW d \in Disposers, FailHandler(d) PROVE FALSE
  <2>1. handlers[j] \in Waiters
    <3>1. j >= 1
      BY <1>4 DEF FailHandler, DisposeInv
    <3> QED
      BY <1>4, <3>1, ElementOfSeq, LenProperties DEF FailHandler
  <2> QED
    BY <1>4, <2>1 DEF FailHandler
<1>5. ASSUME NEW x \in Items, AddBegin(x) \/ AddAsk(x) \/ AddStore(x) PROVE FALSE
  BY <1>5 DEF AddBegin, AddAsk, AddStore, Rejected, tasks
<1>6. ASSUME NEW v \in Waiters,
             \/ HandleBegin(v) \/ RunHandler(v) \/ RunAsk(v) \/ QueueHandler(v)
             \/ HandleReturn(v)
      PROVE  FALSE
  BY <1>6 DEF HandleBegin, RunHandler, RunAsk, QueueHandler, HandleReturn,
     Rejected, tasks
<1>7. ASSUME NEW c \in Clearers, ClearItems(c) PROVE FALSE
  BY <1>7 DEF ClearItems, Rejected, tasks
<1>8. ASSUME NEW d \in Disposers,
             DisposeBegin(d) \/ DisposeItems(d) \/ DisposeEnd(d)
      PROVE  FALSE
  BY <1>8 DEF DisposeBegin, DisposeItems, DisposeEnd, tasks
<1>9. ASSUME UNCHANGED vars PROVE FALSE
  BY <1>9 DEF vars
<1> HIDE DEF Goal
<1>10. ASSUME NEW x \in Items, AddBegin(x) \/ AddStep(x) PROVE Goal
  BY <1>1, <1>5, <1>10 DEF AddStep
<1>11. ASSUME NEW v \in Waiters, HandleBegin(v) \/ Expire(v) \/ HandleStep(v)
       PROVE  Goal
  BY <1>2, <1>3, <1>6, <1>11 DEF HandleStep
<1>12. ASSUME NEW d \in Disposers, DisposeBegin(d) \/ DisposeStep(d) PROVE Goal
  BY <1>4, <1>8, <1>12 DEF DisposeStep
<1>13. Goal
  BY <1>7, <1>9, <1>10, <1>11, <1>12 DEF Next, Finished
<1> QED
  BY <1>13 DEF Goal

\* Handlers that take any item are served in the order in which they were queued:
\* nobody is put in front of one of them in _handlers, and neither an Add nor a
\* call that walks the items serves a call that is not in front of it.
THEOREM ServedInOrder == Spec => NoOvertaking
<1> DEFINE InOrder ==
       \A v, w \in Waiters :
         /\ v \in Range(handlers)
         /\ Answers[v] = {"take"}
         /\ task[v] = "pending" /\ task'[v] = "pending"
         => /\ Before(handlers', w, v) => Before(handlers, w, v)
            /\ task[w] # "result" /\ task'[w] = "result" => Before(handlers, w, v)
<1>1. Inv /\ QueuedInv /\ [Next]_vars => InOrder
  <2> SUFFICES ASSUME Inv, QueuedInv, [Next]_vars,
                      NEW v \in Waiters, NEW w \in Waiters,
                      v \in Range(handlers), Answers[v] = {"take"},
                      task[v] = "pending", task'[v] = "pending"
               PROVE  /\ Before(handlers', w, v) => Before(handlers, w, v)
                      /\ task[w] # "result" /\ task'[w] = "result" =>
                            Before(handlers, w, v)
    OBVIOUS
  <2>1. handlers \in Seq(Waiters) /\ Len(handlers) \in Nat
    BY LenProperties DEF Inv, TypeOK
  <2>2. ASSUME Before(handlers', w, v) PROVE Before(handlers, w, v)
    <3>1. CASE handlers' = handlers
      BY <2>2, <3>1
    <3>2. ASSUME NEW k \in 1..Len(handlers), handlers' = RemoveAt(handlers, k)
          PROVE  Before(handlers, w, v)
      <4>1. Before(RemoveAt(handlers, k), w, v)
        BY <2>2, <3>2
      <4> QED
        BY <2>1, <4>1, RemoveAtOrder
    <3>3. ASSUME NEW u \in Waiters, pc[u] = "offer",
                 handlers' = Append(handlers, u)
          PROVE  Before(handlers, w, v)
      <4>1. v # u
        BY <3>3 DEF QueuedInv
      <4>2. Before(Append(handlers, u), w, v)
        BY <2>2, <3>3
      <4> QED
        BY <2>1, <4>1, <4>2, AppendOrder
    <3>4. CASE handlers' = <<>>
      <4>1. Len(handlers') = 0
        BY <3>4, EmptySeq
      <4> QED
        BY <2>2, <4>1 DEF Before
    <3> QED
      BY <3>1, <3>2, <3>3, <3>4, HandlersEffect
  <2>3. ASSUME task[w] # "result", task'[w] = "result"
        PROVE  Before(handlers, w, v)
    <3>1. items = <<>>
      BY DEF Inv, NoMissedHandOff
    <3>2. PICK x \in Items : pc[x] = "act" /\ w = handlers[i]
      BY <2>3, <3>1, ResultEffect
    <3>3. i \in 1..Len(handlers)
      BY <3>2 DEF Inv, TypeOK, IndexOK
    <3>4. PICK p \in 1..Len(handlers) : handlers[p] = v
      BY <2>1, LenProperties DEF Range
    <3>5. ~(p < i)
      BY <3>2, <3>4 DEF Inv, SkipInv
    <3>6. p # i
      BY <2>3, <3>2, <3>4
    <3>7. i < p
      BY <2>1, <3>3, <3>4, <3>5, <3>6
    <3> QED
      BY <3>2, <3>3, <3>4, <3>7 DEF Before
  <2> QED
    BY <2>2, <2>3
<1> QED
  BY <1>1, Invariance, QueuedInvariance, PTL DEF Spec, NoOvertaking
=============================================================================
