------------------------- MODULE SynchManagerProofs -------------------------
(***************************************************************************)
(* Proofs about SynchManager, for any numbers of threads and processes:    *)
(* every registered wait is found by whoever signals its object, and is    *)
(* woken once.                                                             *)
(***************************************************************************)
EXTENDS SynchManager, TLAPS, FiniteSetTheorems, WellFoundedInduction

(***************************************************************************)
(* The types.                                                              *)
(***************************************************************************)

Actors == Threads \cup {Worker}

WorkerType ==
    [at : {"poll", "scan", "scanned", "acquire", "acquireList", "signal", "defer",
           "done"},
     timeout : {"infinite", "short"}, count : Nat, shuttingDown : BOOLEAN]

ThreadTypes ==
    /\ pc \in [Threads -> Labels]
    /\ obj \in [Threads -> Objects \cup {None}]
    /\ tmo \in [Threads -> {None, "finite", "infinite"}]
    /\ ret \in [Threads -> {None, "signaled", "timeout", "failed", "exit"}]
    /\ waitState \in [Threads -> {"active", "waiting"}]
    /\ pred \in [Threads -> BOOLEAN]

PendingTypes == pending \in [Actors -> Seq(Threads)]

ObjectTypes ==
    /\ signaled \in [Objects -> BOOLEAN]
    /\ queue \in [Objects -> Seq(Threads)]
    /\ refs \in [Objects -> Int]

SystemTypes ==
    /\ lock \in Threads \cup {Worker, None}
    /\ monLock \in {Worker, None}
    /\ alive \subseteq Processes
    /\ monitored \subseteq Processes /\ exited \subseteq Processes
    /\ monCount \in Nat
    /\ pipe \in Seq({"nop", "shutdown"}) /\ Len(pipe) <= PipeSize
    /\ pipeOpen \in BOOLEAN
    /\ worker \in WorkerType
    /\ shutdown \in {"no", "wake", "told", "error"}

(***************************************************************************)
(* The inductive invariant.                                                *)
(***************************************************************************)

\* No element is in s twice.
Distinct(s) == \A i, j \in DOMAIN s : s[i] = s[j] => i = j

\* The lists of pending signalings, together, have t.
InPending(t) == \E a \in Actors : InSeq(t, pending[a])

\* The section of a wait for a process, which holds the synch lock.
Registering == {"register", "notify", "enqueue"}

\* Who holds the locks is in the sections that they protect.
LockInv ==
    /\ \A t \in Threads : lock = t <=> pc[t] \in Registering
    /\ lock = Worker <=> worker.at \in {"acquireList", "signal"}
    /\ monLock = Worker <=> worker.at \in {"scanned", "signal"}

\* A thread that registers does so for a process that was not signaled, and
\* since then cannot have been; a wait that has its result is on its way out.
CallInv ==
    \A t \in Threads :
        /\ pc[t] \in Registering => obj[t] \in Processes /\ ~signaled[obj[t]]
        /\ Waiting(t) \/ pc[t] = "unregister" => obj[t] \in Objects
        /\ ret[t] # None => pc[t] \in {"return", "defer", "ended"}
        /\ ret[t] = "signaled" => obj[t] \in Objects /\ signaled[obj[t]]

\* A thread is registered at most once, and where it waits.
QueueInv == QueuesMatchWaits /\ \A o \in Objects : Distinct(queue[o])

\* A thread that waits has been chosen exactly if its object is signaled.
SignalInv ==
    \A t \in Threads :
        /\ waitState[t] = "waiting" => pc[t] \in {"blocked", "timedOut"}
        /\ Waiting(t) => (waitState[t] = "active" <=> signaled[obj[t]])

\* A thread that was chosen is in one list of pending signalings, once, or its
\* predicate is set; and who goes to signal others has somebody to signal.
PendingInv ==
    /\ \A t \in Threads :
          /\ pred[t] \/ InPending(t) <=> Waiting(t) /\ waitState[t] = "active"
          /\ ~(pred[t] /\ InPending(t))
          /\ pc[t] = "defer" => pending[t] # <<>>
    /\ \A a \in Actors : Distinct(pending[a])
    /\ \A a, b \in Actors, t \in Threads :
          InSeq(t, pending[a]) /\ InSeq(t, pending[b]) => a = b

\* The references of an object's synch data.
One(o, S) == IF o \in S THEN 1 ELSE 0

RefInv ==
    \A o \in Objects :
        refs[o] = 1 + Len(queue[o]) + One(o, monitored) + One(o, exited)

\* The count is never less than the processes in the list, and what has exited
\* is taken care of before the worker polls or looks again.
CountInv ==
    /\ Cardinality(monitored) <= monCount
    /\ worker.at \in {"poll", "scan", "defer", "done"} => exited = {}

\* Who waits for a process, or is about to, has it in one of the lists.
WatchInv ==
    shutdown = "no" =>
        \A t \in Threads :
            /\ Waiting(t) /\ waitState[t] = "waiting" /\ obj[t] \in Processes =>
                  obj[t] \in monitored \cup exited
            /\ pc[t] \in {"notify", "enqueue"} => obj[t] \in monitored \cup exited

\* The worker that polls, or will, without a timeout has nothing to look at or
\* is about to be told.
LookInv ==
    /\ monitored # {}
    /\ \/ worker.at = "poll" /\ worker.timeout = "infinite"
       \/ /\ worker.at \in {"scanned", "acquire", "acquireList", "signal", "defer"}
          /\ worker.count = 0
    => \/ pipe # <<>> \/ ~pipeOpen
       \/ \E t \in Threads : pc[t] = "notify"

Inv ==
    /\ ThreadTypes /\ PendingTypes /\ ObjectTypes /\ SystemTypes
    /\ LockInv /\ CallInv /\ QueueInv /\ SignalInv /\ PendingInv
    /\ RefInv /\ CountInv /\ WatchInv /\ LookInv

-----------------------------------------------------------------------------
(* Lists                                                                   *)

\* Every set of numbers with an element has a least one.
LEMMA LeastNumber ==
    ASSUME NEW S \in SUBSET Nat, S # {}
    PROVE  \E m \in S : \A k \in S : m <= k
<1>1. PICK m \in S : \A k \in S : ~(<<k, m>> \in OpToRel(<, Nat))
  BY NatLessThanWellFounded, WFMin
<1>2. \A k \in S : ~(k < m)
  BY <1>1 DEF OpToRel
<1> QED
  BY <1>2

\* What Among builds, from the first n elements of s.
IsKept(f, s, T, n) ==
    f = [i \in 0..n |->
            IF i = 0 THEN <<>>
            ELSE IF s[i] \in T THEN Append(f[i - 1], s[i]) ELSE f[i - 1]]

LEMMA KeptExists ==
    ASSUME NEW s, NEW T, NEW n \in Nat
    PROVE  \E f : IsKept(f, s, T, n)
<1> DEFINE Bad == {k \in Nat : ~ \E f : IsKept(f, s, T, k)}
<1> SUFFICES ASSUME Bad # {} PROVE FALSE
  OBVIOUS
<1>1. PICK m \in Bad : \A k \in Bad : m <= k
  BY LeastNumber
<1>2. m # 0
  <2> DEFINE g == [i \in 0..0 |-> <<>>]
  <2>1. IsKept(g, s, T, 0)
    BY DEF IsKept
  <2> QED
    BY <2>1
<1>3. PICK f : IsKept(f, s, T, m - 1)
  BY <1>1, <1>2
<1> DEFINE g == [i \in 0..m |->
                    IF i = m
                    THEN IF s[m] \in T THEN Append(f[m - 1], s[m]) ELSE f[m - 1]
                    ELSE f[i]]
<1>4. \A i \in 0..(m - 1) : g[i] = f[i]
  BY <1>1, <1>2
<1>5. IsKept(g, s, T, m)
  <2>1. ASSUME NEW i \in 0..m
        PROVE  g[i] = IF i = 0 THEN <<>>
                      ELSE IF s[i] \in T THEN Append(g[i - 1], s[i]) ELSE g[i - 1]
    <3>1. CASE i = m
      BY <1>1, <1>2, <1>4, <3>1
    <3>2. CASE i # m
      <4>1. i \in 0..(m - 1) /\ g[i] = f[i] /\ (i # 0 => g[i - 1] = f[i - 1])
        BY <1>1, <1>4, <3>2
      <4>2. f[i] = IF i = 0 THEN <<>>
                   ELSE IF s[i] \in T THEN Append(f[i - 1], s[i]) ELSE f[i - 1]
        BY <1>3, <4>1 DEF IsKept
      <4> QED
        BY <4>1, <4>2
    <3> QED
      BY <3>1, <3>2
  <2> HIDE DEF g
  <2>2. g = [i \in 0..m |-> g[i]]
    BY DEF g
  <2> QED
    BY <2>1, <2>2 DEF IsKept
<1> QED
  BY <1>1, <1>5

LEMMA AmongKept ==
    ASSUME NEW S, NEW s \in Seq(S), NEW T
    PROVE  \E f : IsKept(f, s, T, Len(s)) /\ Among(s, T) = f[Len(s)]
<1>0. Len(s) \in Nat
  OBVIOUS
<1>1. PICK f : IsKept(f, s, T, Len(s))
  BY <1>0, KeptExists
<1> DEFINE g == CHOOSE h : IsKept(h, s, T, Len(s))
<1>2. IsKept(g, s, T, Len(s))
  BY <1>1, Zenon
<1>3. Among(s, T) = g[Len(s)]
  BY DEF Among, IsKept
<1> QED
  BY <1>2, <1>3

\* What is in the list that Among returns.
AmongOf(r, s, T, S, n) ==
    /\ r \in Seq(S) /\ Len(r) <= n
    /\ \A i \in 1..Len(r) : \E j \in 1..n : s[j] \in T /\ s[j] = r[i]
    /\ \A j \in 1..n : s[j] \in T => \E i \in 1..Len(r) : r[i] = s[j]
    /\ Distinct(s) => \A i, j \in 1..Len(r) : r[i] = r[j] => i = j

LEMMA AmongStep ==
    ASSUME NEW S, NEW s \in Seq(S), NEW T, NEW n \in 1..Len(s), NEW r,
           AmongOf(r, s, T, S, n - 1)
    PROVE  AmongOf(IF s[n] \in T THEN Append(r, s[n]) ELSE r, s, T, S, n)
<1>1. CASE s[n] \notin T
  <2>1. \A j \in 1..n : s[j] \in T => j \in 1..(n - 1)
    BY <1>1
  <2>2. AmongOf(r, s, T, S, n)
    BY <2>1 DEF AmongOf
  <2> QED
    BY <1>1, <2>2
<1>2. CASE s[n] \in T
  <2> DEFINE q == Append(r, s[n])
  <2>1. /\ q \in Seq(S) /\ Len(q) = Len(r) + 1 /\ q[Len(q)] = s[n]
        /\ \A i \in 1..Len(r) : q[i] = r[i]
        /\ Len(r) \in Nat /\ s[n] \in S
    BY DEF AmongOf
  <2> HIDE DEF q
  <2>2. \A i \in 1..Len(q) : \E j \in 1..n : s[j] \in T /\ s[j] = q[i]
    <3> SUFFICES ASSUME NEW i \in 1..Len(q)
                 PROVE  \E j \in 1..n : s[j] \in T /\ s[j] = q[i]
      OBVIOUS
    <3>1. CASE i = Len(q)
      BY <1>2, <2>1, <3>1
    <3>2. CASE i \in 1..Len(r)
      BY <2>1, <3>2 DEF AmongOf
    <3> QED
      BY <2>1, <3>1, <3>2
  <2>3. \A j \in 1..n : s[j] \in T => \E i \in 1..Len(q) : q[i] = s[j]
    <3> SUFFICES ASSUME NEW j \in 1..n, s[j] \in T
                 PROVE  \E i \in 1..Len(q) : q[i] = s[j]
      OBVIOUS
    <3>1. CASE j = n
      BY <2>1, <3>1
    <3>2. CASE j \in 1..(n - 1)
      <4>1. PICK i \in 1..Len(r) : r[i] = s[j]
        BY <3>2 DEF AmongOf
      <4> QED
        BY <2>1, <4>1
    <3> QED
      BY <3>1, <3>2
  <2>4. ASSUME Distinct(s), NEW i \in 1..Len(q), NEW j \in 1..Len(q), q[i] = q[j]
        PROVE  i = j
    <3>1. \A k \in 1..Len(r) : r[k] # s[n]
      <4> SUFFICES ASSUME NEW k \in 1..Len(r), r[k] = s[n] PROVE FALSE
        OBVIOUS
      <4>1. PICK l \in 1..(n - 1) : s[l] = r[k]
        BY DEF AmongOf
      <4>2. l \in DOMAIN s /\ n \in DOMAIN s /\ s[l] = s[n] /\ l # n
        BY <4>1
      <4> QED
        BY <2>4, <4>2 DEF Distinct
    <3>2. CASE i \in 1..Len(r) /\ j \in 1..Len(r)
      <4>1. r[i] = r[j]
        BY <2>1, <2>4, <3>2
      <4> QED
        BY <2>4, <3>2, <4>1 DEF AmongOf
    <3>3. CASE i = Len(q) \/ j = Len(q)
      <4>1. q[i] = s[n] /\ q[j] = s[n]
        BY <2>1, <2>4, <3>3
      <4>2. \A k \in 1..Len(r) : q[k] # s[n]
        BY <2>1, <3>1
      <4> QED
        BY <2>1, <4>1, <4>2
    <3> QED
      BY <2>1, <3>2, <3>3
  <2>5. AmongOf(q, s, T, S, n)
    <3>1. Len(q) <= n
      BY <2>1 DEF AmongOf
    <3> QED
      BY <2>1, <2>2, <2>3, <2>4, <3>1 DEF AmongOf
  <2> QED
    BY <1>2, <2>5 DEF q
<1> QED
  BY <1>1, <1>2

LEMMA AmongProperties ==
    ASSUME NEW S, NEW s \in Seq(S), NEW T
    PROVE  AmongOf(Among(s, T), s, T, S, Len(s))
<1>1. PICK f : IsKept(f, s, T, Len(s)) /\ Among(s, T) = f[Len(s)]
  BY AmongKept
<1> DEFINE Bad == {k \in 0..Len(s) : ~AmongOf(f[k], s, T, S, k)}
<1>2. Bad = {}
  <2> SUFFICES ASSUME Bad # {} PROVE FALSE
    OBVIOUS
  <2>0. Bad \in SUBSET Nat
    OBVIOUS
  <2>1. PICK m \in Bad : \A k \in Bad : m <= k
    BY <2>0, LeastNumber
  <2>2. f[m] = IF m = 0 THEN <<>>
               ELSE IF s[m] \in T THEN Append(f[m - 1], s[m]) ELSE f[m - 1]
    BY <1>1, <2>1 DEF IsKept
  <2>3. CASE m = 0
    <3>1. f[m] = <<>>
      BY <2>2, <2>3
    <3>2. AmongOf(<<>>, s, T, S, 0)
      BY DEF AmongOf
    <3> QED
      BY <2>1, <2>3, <3>1, <3>2
  <2>4. CASE m # 0
    <3>1. m \in 1..Len(s) /\ m - 1 \in 0..Len(s) /\ m - 1 \notin Bad
      BY <2>1, <2>4
    <3>2. AmongOf(f[m - 1], s, T, S, m - 1)
      BY <3>1
    <3>3. AmongOf(f[m], s, T, S, m)
      BY <2>2, <2>4, <3>1, <3>2, AmongStep
    <3> QED
      BY <2>1, <3>3
  <2> QED
    BY <2>3, <2>4
<1>3. Len(s) \in 0..Len(s)
  OBVIOUS
<1> QED
  BY <1>1, <1>2, <1>3

\* The same in terms of membership.
LEMMA AmongIn ==
    ASSUME NEW S, NEW s \in Seq(S), NEW T
    PROVE  /\ Among(s, T) \in Seq(S)
           /\ \A t : InSeq(t, Among(s, T)) <=> InSeq(t, s) /\ t \in T
           /\ Distinct(s) => Distinct(Among(s, T))
<1> DEFINE r == Among(s, T)
<1>1. AmongOf(r, s, T, S, Len(s))
  BY AmongProperties
<1> HIDE DEF r
<1>2. r \in Seq(S) /\ DOMAIN r = 1..Len(r) /\ DOMAIN s = 1..Len(s)
  BY <1>1 DEF AmongOf
<1>3. \A t : InSeq(t, r) <=> InSeq(t, s) /\ t \in T
  <2>1. ASSUME NEW t, InSeq(t, r) PROVE InSeq(t, s) /\ t \in T
    <3>1. PICK i \in 1..Len(r) : r[i] = t
      BY <1>2, <2>1 DEF InSeq
    <3>2. PICK j \in 1..Len(s) : s[j] \in T /\ s[j] = t
      BY <1>1, <3>1 DEF AmongOf
    <3> QED
      BY <1>2, <3>2 DEF InSeq
  <2>2. ASSUME NEW t \in T, InSeq(t, s) PROVE InSeq(t, r)
    <3>1. PICK j \in 1..Len(s) : s[j] = t
      BY <1>2, <2>2 DEF InSeq
    <3>2. PICK i \in 1..Len(r) : r[i] = t
      BY <1>1, <3>1 DEF AmongOf
    <3> QED
      BY <1>2, <3>2 DEF InSeq
  <2> QED
    BY <2>1, <2>2
<1>4. Distinct(s) => Distinct(r)
  BY <1>1, <1>2, Zenon DEF AmongOf, Distinct
<1> QED
  BY <1>2, <1>3, <1>4 DEF r

Elements(s) == {s[i] : i \in DOMAIN s}

LEMMA DistinctCount ==
    ASSUME NEW S, NEW s \in Seq(S), Distinct(s)
    PROVE  IsFiniteSet(Elements(s)) /\ Cardinality(Elements(s)) = Len(s)
<1>0. Len(s) \in Nat
  OBVIOUS
<1>1. IsFiniteSet(1..Len(s)) /\ Cardinality(1..Len(s)) = Len(s)
  BY <1>0, FS_Interval
<1>2. DOMAIN s = 1..Len(s) /\ s \in [1..Len(s) -> Elements(s)]
  BY DEF Elements
<1>3. \A i, j \in 1..Len(s) : s[i] = s[j] => i = j
  BY <1>2 DEF Distinct
<1>4. \A t \in Elements(s) : \E i \in 1..Len(s) : s[i] = t
  BY <1>2 DEF Elements
<1>5. s \in Bijection(1..Len(s), Elements(s))
  BY <1>2, <1>3, <1>4, Zenon DEF Bijection, Injection, Surjection, IsInjective
<1> QED
  BY <1>1, <1>5, FS_Bijection DEF ExistsBijection

\* A list and what remains of it without some of its elements.
LEMMA AmongLen ==
    ASSUME NEW S, NEW s \in Seq(S), Distinct(s), NEW T
    PROVE  Len(Among(s, T)) = Len(s) - Cardinality(Elements(s) \ T)
<1>1. IsFiniteSet(Elements(s)) /\ Cardinality(Elements(s)) = Len(s)
  BY DistinctCount
<1>2. Among(s, T) \in Seq(S) /\ Distinct(Among(s, T))
  BY AmongIn
<1>3. Elements(Among(s, T)) = Elements(s) \cap T
  <2>1. \A t, r : t \in Elements(r) <=> InSeq(t, r)
    BY DEF Elements, InSeq
  <2> QED
    BY <2>1, AmongIn
<1>4. Cardinality(Elements(s) \cap T) = Len(Among(s, T))
  BY <1>2, <1>3, DistinctCount
<1>5. Cardinality(Elements(s) \ T)
         = Cardinality(Elements(s)) - Cardinality(Elements(s) \cap T)
  BY <1>1, FS_Difference
<1> QED
  BY <1>1, <1>2, <1>4, <1>5

\* Every element that a list of distinct threads has is in it once: what its
\* tail, a longer list and the two ends of a concatenation have.
LEMMA AppendIn ==
    ASSUME NEW S, NEW s \in Seq(S), NEW x \in S
    PROVE  /\ Append(s, x) \in Seq(S) /\ Len(Append(s, x)) = Len(s) + 1
           /\ \A t : InSeq(t, Append(s, x)) <=> InSeq(t, s) \/ t = x
           /\ Distinct(s) /\ ~InSeq(x, s) => Distinct(Append(s, x))
<1> DEFINE q == Append(s, x)
<1>1. /\ q \in Seq(S) /\ Len(q) = Len(s) + 1 /\ q[Len(s) + 1] = x
      /\ \A i \in 1..Len(s) : q[i] = s[i]
      /\ DOMAIN q = 1..(Len(s) + 1) /\ DOMAIN s = 1..Len(s) /\ Len(s) \in Nat
  OBVIOUS
<1> HIDE DEF q
<1>2. \A t : InSeq(t, q) <=> InSeq(t, s) \/ t = x
  BY <1>1 DEF InSeq
<1>3. Distinct(s) /\ ~InSeq(x, s) => Distinct(q)
  BY <1>1 DEF Distinct, InSeq
<1> QED
  BY <1>1, <1>2, <1>3 DEF q

LEMMA ConcatIn ==
    ASSUME NEW S, NEW r \in Seq(S), NEW s \in Seq(S)
    PROVE  /\ r \o s \in Seq(S)
           /\ \A t : InSeq(t, r \o s) <=> InSeq(t, r) \/ InSeq(t, s)
           /\ Distinct(r) /\ Distinct(s) /\ (\A t \in S : ~(InSeq(t, r) /\ InSeq(t, s)))
                 => Distinct(r \o s)
<1> DEFINE q == r \o s
<1>1. /\ q \in Seq(S) /\ DOMAIN q = 1..(Len(r) + Len(s))
      /\ \A i \in 1..Len(r) : q[i] = r[i] /\ r[i] \in S
      /\ \A i \in 1..Len(s) : q[i + Len(r)] = s[i] /\ s[i] \in S
      /\ DOMAIN r = 1..Len(r) /\ DOMAIN s = 1..Len(s)
      /\ Len(r) \in Nat /\ Len(s) \in Nat
  OBVIOUS
<1> HIDE DEF q
<1>2. \A i \in DOMAIN q : \/ i \in DOMAIN r /\ q[i] = r[i] /\ r[i] \in S
                          \/ /\ i - Len(r) \in DOMAIN s /\ i \notin DOMAIN r
                             /\ q[i] = s[i - Len(r)] /\ q[i] \in S
  <2> SUFFICES ASSUME NEW i \in DOMAIN q, i \notin DOMAIN r
               PROVE  /\ i - Len(r) \in DOMAIN s
                      /\ q[i] = s[i - Len(r)] /\ q[i] \in S
    BY <1>1
  <2>1. i - Len(r) \in 1..Len(s) /\ (i - Len(r)) + Len(r) = i
    BY <1>1
  <2>2. q[(i - Len(r)) + Len(r)] = s[i - Len(r)]
    BY <1>1, <2>1
  <2> QED
    BY <1>1, <2>1, <2>2
<1>3. \A t : InSeq(t, q) <=> InSeq(t, r) \/ InSeq(t, s)
  <2>1. ASSUME NEW t, InSeq(t, q) PROVE InSeq(t, r) \/ InSeq(t, s)
    BY <1>2, <2>1 DEF InSeq
  <2>2. ASSUME NEW t, InSeq(t, r) PROVE InSeq(t, q)
    BY <1>1, <2>2 DEF InSeq
  <2>3. ASSUME NEW t, InSeq(t, s) PROVE InSeq(t, q)
    <3>1. PICK i \in 1..Len(s) : s[i] = t
      BY <1>1, <2>3 DEF InSeq
    <3>2. i + Len(r) \in DOMAIN q /\ q[i + Len(r)] = t
      BY <1>1, <3>1
    <3> QED
      BY <3>2 DEF InSeq
  <2> QED
    BY <2>1, <2>2, <2>3
<1>4. ASSUME Distinct(r), Distinct(s), \A t \in S : ~(InSeq(t, r) /\ InSeq(t, s))
      PROVE  Distinct(q)
  <2> SUFFICES ASSUME NEW i \in DOMAIN q, NEW j \in DOMAIN q, q[i] = q[j]
               PROVE  i = j
    BY DEF Distinct
  <2>1. CASE i \in DOMAIN r /\ j \in DOMAIN r
    BY <1>1, <1>4, <2>1 DEF Distinct
  <2>2. CASE i \notin DOMAIN r /\ j \notin DOMAIN r
    <3>1. /\ i - Len(r) \in DOMAIN s /\ j - Len(r) \in DOMAIN s
          /\ s[i - Len(r)] = s[j - Len(r)]
      BY <1>2, <2>2
    <3>2. i - Len(r) = j - Len(r)
      BY <1>4, <3>1 DEF Distinct
    <3> QED
      BY <1>1, <3>2
  <2>3. CASE i \in DOMAIN r /\ j \notin DOMAIN r
    <3>1. InSeq(q[i], r) /\ InSeq(q[j], s) /\ q[i] \in S
      BY <1>2, <2>3 DEF InSeq
    <3> QED
      BY <1>4, <3>1
  <2>4. CASE j \in DOMAIN r /\ i \notin DOMAIN r
    <3>1. InSeq(q[j], r) /\ InSeq(q[i], s) /\ q[i] \in S
      BY <1>2, <2>4 DEF InSeq
    <3> QED
      BY <1>4, <3>1
  <2> QED
    BY <2>1, <2>2, <2>3, <2>4
<1> QED
  BY <1>1, <1>3, <1>4 DEF q

LEMMA TailIn ==
    ASSUME NEW S, NEW s \in Seq(S), s # <<>>, Distinct(s)
    PROVE  /\ Head(s) \in S /\ Tail(s) \in Seq(S) /\ InSeq(Head(s), s)
           /\ \A t : InSeq(t, Tail(s)) <=> InSeq(t, s) /\ t # Head(s)
           /\ Distinct(Tail(s)) /\ (Len(s) > 1 => Tail(s) # <<>>)
<1> DEFINE q == Tail(s)
<1>1. /\ q \in Seq(S) /\ Len(q) = Len(s) - 1 /\ Head(s) = s[1] /\ Head(s) \in S
      /\ \A i \in 1..(Len(s) - 1) : q[i] = s[i + 1]
      /\ DOMAIN q = 1..(Len(s) - 1) /\ DOMAIN s = 1..Len(s)
      /\ Len(s) \in Nat /\ Len(s) > 0
  OBVIOUS
<1> HIDE DEF q
<1>2. Distinct(q)
  <2> SUFFICES ASSUME NEW i \in DOMAIN q, NEW j \in DOMAIN q, q[i] = q[j]
               PROVE  i = j
    BY DEF Distinct
  <2>1. i + 1 \in DOMAIN s /\ j + 1 \in DOMAIN s /\ s[i + 1] = s[j + 1]
    BY <1>1
  <2>2. i + 1 = j + 1
    BY <2>1 DEF Distinct
  <2> QED
    BY <1>1, <2>2
<1>3. ASSUME NEW t, InSeq(t, q) PROVE InSeq(t, s) /\ t # Head(s)
  <2>1. PICK i \in DOMAIN q : q[i] = t
    BY <1>3 DEF InSeq
  <2>2. i + 1 \in DOMAIN s /\ s[i + 1] = t /\ i + 1 # 1 /\ 1 \in DOMAIN s
    BY <1>1, <2>1
  <2> QED
    BY <1>1, <2>2 DEF InSeq, Distinct
<1>4. ASSUME NEW t, InSeq(t, s), t # Head(s) PROVE InSeq(t, q)
  <2>1. PICK i \in DOMAIN s : s[i] = t
    BY <1>4 DEF InSeq
  <2>2. i - 1 \in 1..(Len(s) - 1) /\ (i - 1) + 1 = i
    BY <1>1, <1>4, <2>1
  <2>3. q[i - 1] = s[(i - 1) + 1]
    BY <1>1, <2>2
  <2> QED
    BY <1>1, <2>1, <2>2, <2>3 DEF InSeq
<1>5. InSeq(Head(s), s)
  BY <1>1 DEF InSeq
<1>6. Len(s) > 1 => q # <<>>
  BY <1>1
<1> QED
  BY <1>1, <1>2, <1>3, <1>4, <1>5, <1>6 DEF q

-----------------------------------------------------------------------------
(* What the shared parts of the actions do                                 *)

\* SignalObject, in terms of who is in which list.
Signals(o, by, nodes) ==
    /\ signaled' \in [Objects -> BOOLEAN]
    /\ \A p \in Objects : signaled'[p] <=> signaled[p] \/ p = o
    /\ waitState' \in [Threads -> {"active", "waiting"}]
    /\ \A t \in Threads :
          waitState'[t] = IF t \in Awakened(o) THEN "active" ELSE waitState[t]
    /\ queue' \in [Objects -> Seq(Threads)]
    /\ \A p \in Objects : p # o => queue'[p] = queue[p] /\ refs'[p] = refs[p]
    /\ \A t \in Threads :
          InSeq(t, queue'[o]) <=> InSeq(t, queue[o]) /\ t \notin Awakened(o)
    /\ Distinct(queue'[o])
    /\ refs' \in [Objects -> Int]
    /\ refs'[o] - Len(queue'[o]) = refs[o] - Len(queue[o]) - nodes
    /\ pending' \in [Actors -> Seq(Threads)]
    /\ \A a \in Actors : a # by => pending'[a] = pending[a]
    /\ \A t \in Threads :
          InSeq(t, pending'[by]) <=> InSeq(t, pending[by]) \/ t \in Awakened(o)
    /\ Distinct(pending'[by])
    /\ Awakened(o) # {} => pending'[by] # <<>>

LEMMA SignalEffect ==
    ASSUME Inv, NEW o \in Objects, NEW by \in Actors, NEW nodes \in Nat,
           SignalObject(o, by, nodes)
    PROVE  Signals(o, by, nodes)
<1> DEFINE woken == Awakened(o)
           rest == Among(queue[o], Threads \ woken)
           new == Among(queue[o], woken)
<1>1. /\ queue \in [Objects -> Seq(Threads)] /\ queue[o] \in Seq(Threads)
      /\ Distinct(queue[o])
      /\ refs \in [Objects -> Int] /\ signaled \in [Objects -> BOOLEAN]
      /\ pending \in [Actors -> Seq(Threads)] /\ pending[by] \in Seq(Threads)
      /\ Distinct(pending[by]) /\ waitState \in [Threads -> {"active", "waiting"}]
  BY DEF Inv, ObjectTypes, QueueInv, PendingTypes, PendingInv, ThreadTypes
<1>2. \A t \in woken : /\ t \in Threads /\ InSeq(t, queue[o])
                       /\ waitState[t] = "waiting"
  BY DEF Awakened
<1>3. Awakened(o) = woken /\ woken \in SUBSET Threads
  BY <1>2
<1>4. /\ signaled' = [signaled EXCEPT ![o] = TRUE]
      /\ waitState' = [t \in Threads |->
                          IF t \in woken THEN "active" ELSE waitState[t]]
      /\ queue' = [queue EXCEPT ![o] = rest]
      /\ refs' = [refs EXCEPT ![o] = @ - Cardinality(woken) - nodes]
      /\ pending' = [pending EXCEPT ![by] = @ \o new]
  BY DEF SignalObject
<1>5. /\ rest \in Seq(Threads) /\ Distinct(rest)
      /\ \A t : InSeq(t, rest) <=> InSeq(t, queue[o]) /\ t \in Threads \ woken
  BY <1>1, AmongIn
<1>6. /\ new \in Seq(Threads) /\ Distinct(new)
      /\ \A t : InSeq(t, new) <=> InSeq(t, queue[o]) /\ t \in woken
  BY <1>1, AmongIn
<1>7. IsFiniteSet(woken) /\ Cardinality(woken) \in Nat
  BY <1>3, SMAssumption, FS_Subset, FS_CardinalityType
<1>8. Len(rest) = Len(queue[o]) - Cardinality(woken)
  <2>1. Elements(queue[o]) \ (Threads \ woken) = woken
    BY <1>1, <1>2 DEF Elements, InSeq
  <2> HIDE DEF woken
  <2> QED
    BY <1>1, <2>1, AmongLen
<1> HIDE DEF woken, rest, new
<1>9. /\ signaled' \in [Objects -> BOOLEAN]
      /\ \A p \in Objects : signaled'[p] <=> signaled[p] \/ p = o
  BY <1>1, <1>4, Zenon
<1>10. /\ waitState' \in [Threads -> {"active", "waiting"}]
       /\ \A t \in Threads :
             waitState'[t] = IF t \in woken THEN "active" ELSE waitState[t]
  BY <1>1, <1>4
<1>11. /\ queue' \in [Objects -> Seq(Threads)] /\ queue'[o] = rest
       /\ \A p \in Objects : p # o => queue'[p] = queue[p]
  BY <1>1, <1>4, <1>5
<1>12. /\ refs' \in [Objects -> Int] /\ refs[o] \in Int
       /\ refs'[o] = refs[o] - Cardinality(woken) - nodes
       /\ \A p \in Objects : p # o => refs'[p] = refs[p]
  BY <1>1, <1>4, <1>7
<1>13. refs'[o] - Len(queue'[o]) = refs[o] - Len(queue[o]) - nodes
  <2>1. Len(queue[o]) \in Nat
    BY <1>1
  <2>2. Len(queue'[o]) = Len(queue[o]) - Cardinality(woken)
    BY <1>8, <1>11
  <2> QED
    BY <1>7, <1>12, <2>1, <2>2
<1>14. /\ pending[by] \o new \in Seq(Threads)
       /\ \A t : InSeq(t, pending[by] \o new) <=> InSeq(t, pending[by]) \/ InSeq(t, new)
       /\ Distinct(pending[by] \o new)
  <2>1. \A t \in Threads : ~(InSeq(t, pending[by]) /\ InSeq(t, new))
    BY <1>2, <1>6 DEF Inv, PendingInv, InPending
  <2> QED
    BY <1>1, <1>6, <2>1, ConcatIn
<1>15. /\ pending' \in [Actors -> Seq(Threads)] /\ pending'[by] = pending[by] \o new
       /\ \A a \in Actors : a # by => pending'[a] = pending[a]
  BY <1>1, <1>4, <1>14
<1>16. \A t \in Threads : InSeq(t, pending'[by]) <=> InSeq(t, pending[by]) \/ t \in woken
  BY <1>2, <1>6, <1>14, <1>15
<1>17. woken # {} => pending'[by] # <<>>
  <2>1. \A t : ~InSeq(t, <<>>)
    BY DEF InSeq
  <2> QED
    BY <1>2, <1>16, <2>1
<1>18. \A t \in Threads : InSeq(t, queue'[o]) <=> InSeq(t, queue[o]) /\ t \notin woken
  BY <1>5, <1>11
<1>19. Distinct(queue'[o]) /\ Distinct(pending'[by])
  BY <1>5, <1>11, <1>14, <1>15
<1> QED
  BY <1>3, <1>9, <1>10, <1>11, <1>12, <1>13, <1>15, <1>16, <1>17, <1>18, <1>19
     DEF Signals

\* Who is in a section of its own stays there; who calls is on its way out.
Leaves ==
    \A u \in Threads :
        \/ pc'[u] = pc[u] /\ obj'[u] = obj[u]
        \/ /\ pc[u] = "idle" /\ pc'[u] \in {"return", "defer", "ended"}
           /\ pc'[u] = "defer" => pending'[u] # <<>>

\* A signal is seen by everybody who waits, and by nobody else.
LEMMA SignalKeeps ==
    ASSUME Inv, NEW o \in Objects, NEW by \in Actors, NEW nodes \in Nat,
           Signals(o, by, nodes), Leaves, pred' = pred
    PROVE  QueueInv' /\ SignalInv' /\ PendingInv'
<1>1. \A t \in Threads : t \in Awakened(o) <=>
          Waiting(t) /\ waitState[t] = "waiting" /\ obj[t] = o
  BY DEF Inv, QueueInv, SignalInv, QueuesMatchWaits, Awakened, Waiting
<1>2. \A t \in Threads : /\ Waiting(t)' <=> Waiting(t)
                         /\ pc'[t] = "unregister" <=> pc[t] = "unregister"
                         /\ Waiting(t) \/ pc[t] = "unregister" => obj'[t] = obj[t]
  BY DEF Leaves, Waiting
<1>3. QueueInv'
  <2>1. ASSUME NEW t \in Threads, NEW p \in Objects
        PROVE  InSeq(t, queue'[p]) <=>
                  /\ obj'[t] = p
                  /\ \/ Waiting(t)' /\ waitState'[t] = "waiting"
                     \/ pc'[t] = "unregister"
    <3>1. InSeq(t, queue[p]) <=>
                  /\ obj[t] = p
                  /\ \/ Waiting(t) /\ waitState[t] = "waiting"
                     \/ pc[t] = "unregister"
      BY DEF Inv, QueueInv, QueuesMatchWaits
    <3>2. Waiting(t) => pc[t] # "unregister"
      BY DEF Waiting
    <3>3. CASE p = o
      BY <1>1, <1>2, <3>1, <3>2, <3>3 DEF Signals
    <3>4. CASE p # o
      BY <1>1, <1>2, <3>1, <3>4 DEF Signals
    <3> QED
      BY <3>3, <3>4
  <2>2. \A p \in Objects : Distinct(queue'[p])
    BY DEF Signals, Inv, QueueInv
  <2> QED
    BY <2>1, <2>2 DEF QueueInv, QueuesMatchWaits
<1>4. SignalInv'
  <2> SUFFICES ASSUME NEW t \in Threads
               PROVE  /\ waitState'[t] = "waiting" => pc'[t] \in {"blocked", "timedOut"}
                      /\ Waiting(t)' => (waitState'[t] = "active" <=> signaled'[obj'[t]])
    BY DEF SignalInv
  <2>1. /\ waitState[t] = "waiting" => pc[t] \in {"blocked", "timedOut"}
        /\ Waiting(t) => (waitState[t] = "active" <=> signaled[obj[t]])
        /\ Waiting(t) => obj[t] \in Objects
        /\ waitState[t] \in {"active", "waiting"}
    BY DEF Inv, SignalInv, CallInv, ThreadTypes
  <2>2. waitState'[t] = "waiting" => pc'[t] \in {"blocked", "timedOut"}
    BY <2>1 DEF Signals, Leaves
  <2>3. Waiting(t)' => (waitState'[t] = "active" <=> signaled'[obj'[t]])
    BY <1>1, <1>2, <2>1 DEF Signals
  <2> QED
    BY <2>2, <2>3
<1>5. PendingInv'
  <2>1. \A t \in Threads : InPending(t)' <=> InPending(t) \/ t \in Awakened(o)
    BY DEF Signals, InPending
  <2>2. ASSUME NEW t \in Threads
        PROVE  /\ pred'[t] \/ InPending(t)' <=> Waiting(t)' /\ waitState'[t] = "active"
               /\ ~(pred'[t] /\ InPending(t)')
               /\ pc'[t] = "defer" => pending'[t] # <<>>
    <3>1. /\ pred[t] \/ InPending(t) <=> Waiting(t) /\ waitState[t] = "active"
          /\ ~(pred[t] /\ InPending(t))
          /\ pc[t] = "defer" => pending[t] # <<>>
      BY DEF Inv, PendingInv
    <3>2. waitState'[t] = IF t \in Awakened(o) THEN "active" ELSE waitState[t]
      BY DEF Signals
    <3>3. pc'[t] = "defer" => pending'[t] # <<>>
      <4>1. CASE pc[t] = "defer" /\ t = by
        <5>1. pending[by] # <<>> /\ pending[by] \in Seq(Threads)
          BY <3>1, <4>1 DEF Inv, PendingTypes
        <5>2. Head(pending[by]) \in Threads /\ InSeq(Head(pending[by]), pending[by])
          BY <5>1, TailIn DEF Inv, PendingInv
        <5>3. InSeq(Head(pending[by]), pending'[by])
          BY <5>2 DEF Signals
        <5>4. \A x : ~InSeq(x, <<>>)
          BY DEF InSeq
        <5> QED
          BY <4>1, <5>3, <5>4
      <4>2. CASE pc[t] = "defer" /\ t # by
        BY <3>1, <4>2 DEF Signals, Actors
      <4>3. CASE pc[t] # "defer"
        BY <4>3 DEF Leaves
      <4> QED
        BY <4>1, <4>2, <4>3
    <3>4. t \in Awakened(o) => /\ Waiting(t)' /\ waitState'[t] = "active"
                               /\ ~pred[t] /\ ~InPending(t)
      BY <1>1, <1>2, <3>1, <3>2
    <3> QED
      BY <1>2, <2>1, <3>1, <3>2, <3>3, <3>4
  <2>3. \A a \in Actors : Distinct(pending'[a])
    BY DEF Signals, Inv, PendingInv
  <2>4. ASSUME NEW a \in Actors, NEW b \in Actors, NEW t \in Threads,
               InSeq(t, pending'[a]), InSeq(t, pending'[b])
        PROVE  a = b
    <3>1. CASE t \in Awakened(o)
      <4>1. ~InPending(t)
        BY <1>1, <3>1 DEF Inv, PendingInv
      <4>2. \A c \in Actors : InSeq(t, pending'[c]) => c = by
        BY <4>1 DEF Signals, InPending
      <4> QED
        BY <2>4, <4>2
    <3>2. CASE t \notin Awakened(o)
      BY <2>4, <3>2 DEF Signals, Inv, PendingInv
    <3> QED
      BY <3>1, <3>2
  <2> QED
    BY <2>2, <2>3, <2>4 DEF PendingInv
<1> QED
  BY <1>3, <1>4, <1>5

\* No thread is the worker, or nobody.
LEMMA NotThreads == None \notin Threads /\ Worker \notin Threads /\ None # Worker
BY SMAssumption DEF Objects, None, Worker

\* The first of the pending signalings of by is done.
LEMMA DeferredKeeps ==
    ASSUME Inv, NEW by \in Actors, pending[by] # <<>>, RunDeferredSignaling(by),
           UNCHANGED waitState,
           \A u \in Threads :
              \/ u # by /\ pc'[u] = pc[u]
              \/ /\ u = by /\ pc[u] = "defer"
                 /\ pc'[u] \in {"defer", "ended", "return"}
                 /\ pc'[u] = "defer" => Len(pending[u]) > 1
    PROVE  /\ pred' \in [Threads -> BOOLEAN] /\ PendingTypes' /\ PendingInv'
<1> DEFINE h == Head(pending[by])
<1>1. /\ pending \in [Actors -> Seq(Threads)] /\ pending[by] \in Seq(Threads)
      /\ Distinct(pending[by]) /\ pred \in [Threads -> BOOLEAN]
  BY DEF Inv, PendingTypes, PendingInv, ThreadTypes
<1>2. /\ h \in Threads /\ Tail(pending[by]) \in Seq(Threads) /\ InSeq(h, pending[by])
      /\ \A t : InSeq(t, Tail(pending[by])) <=> InSeq(t, pending[by]) /\ t # h
      /\ Distinct(Tail(pending[by]))
      /\ Len(pending[by]) > 1 => Tail(pending[by]) # <<>>
  BY <1>1, TailIn
<1>3. /\ pred' = [pred EXCEPT ![h] = TRUE]
      /\ pending' = [pending EXCEPT ![by] = Tail(@)]
  BY DEF RunDeferredSignaling
<1> HIDE DEF h
<1>4. /\ pred' \in [Threads -> BOOLEAN]
      /\ \A t \in Threads : pred'[t] <=> pred[t] \/ t = h
  BY <1>1, <1>2, <1>3, Zenon
<1>5. /\ pending' \in [Actors -> Seq(Threads)] /\ pending'[by] = Tail(pending[by])
      /\ \A a \in Actors : a # by => pending'[a] = pending[a]
  BY <1>1, <1>2, <1>3
<1>a. \A t \in Threads, a \in Actors :
          InSeq(t, pending'[a]) <=> InSeq(t, pending[a]) /\ t # h
  <2>1. \A a \in Actors : InSeq(h, pending[a]) => a = by
    BY <1>2 DEF Inv, PendingInv
  <2> QED
    BY <1>2, <1>5, <2>1
<1>6. \A t \in Threads : InPending(t)' <=> InPending(t) /\ t # h
  BY <1>a DEF InPending
<1>7. InPending(h)
  BY <1>2 DEF InPending
<1>8. ASSUME NEW t \in Threads
      PROVE  /\ pred'[t] \/ InPending(t)' <=> Waiting(t)' /\ waitState'[t] = "active"
             /\ ~(pred'[t] /\ InPending(t)')
             /\ pc'[t] = "defer" => pending'[t] # <<>>
  <2>1. /\ pred[t] \/ InPending(t) <=> Waiting(t) /\ waitState[t] = "active"
        /\ ~(pred[t] /\ InPending(t))
        /\ pc[t] = "defer" => pending[t] # <<>>
    BY DEF Inv, PendingInv
  <2>2. Waiting(t)' <=> Waiting(t)
    BY DEF Waiting
  <2>3. pc'[t] = "defer" => pending'[t] # <<>>
    BY <1>2, <1>5, <2>1 DEF Actors
  <2> QED
    BY <1>4, <1>6, <1>7, <2>1, <2>2, <2>3
<1>9. /\ \A a \in Actors : Distinct(pending'[a])
      /\ \A a, b \in Actors, t \in Threads :
            InSeq(t, pending'[a]) /\ InSeq(t, pending'[b]) => a = b
  <2>1. \A a \in Actors : Distinct(pending[a])
    BY DEF Inv, PendingInv
  <2>2. \A a \in Actors : Distinct(pending'[a])
    BY <1>2, <1>5, <2>1
  <2>3. \A a, b \in Actors, t \in Threads :
            InSeq(t, pending'[a]) /\ InSeq(t, pending'[b]) => a = b
    BY <1>a DEF Inv, PendingInv
  <2> QED
    BY <2>2, <2>3
<1> QED
  BY <1>4, <1>5, <1>8, <1>9 DEF PendingTypes, PendingInv

\* A wait is registered.
LEMMA EnqueueKeeps ==
    ASSUME Inv, NEW t \in Threads, NEW o \in Objects, pc[t] \in {"idle", "enqueue"},
           ~signaled[o], Enqueue(t, o), Goes(t, "blocked"),
           obj' \in [Threads -> Objects \cup {None}], obj'[t] = o,
           \A u \in Threads : u # t => obj'[u] = obj[u],
           UNCHANGED <<pred, pending, signaled, monitored, exited>>
    PROVE  /\ waitState' \in [Threads -> {"active", "waiting"}]
           /\ \A u \in Threads : u # t => waitState'[u] = waitState[u]
           /\ ObjectTypes' /\ QueueInv' /\ SignalInv' /\ PendingInv' /\ RefInv'
<1>1. /\ queue \in [Objects -> Seq(Threads)] /\ queue[o] \in Seq(Threads)
      /\ Distinct(queue[o]) /\ refs \in [Objects -> Int] /\ refs[o] \in Int
      /\ waitState \in [Threads -> {"active", "waiting"}]
      /\ pc \in [Threads -> Labels]
  BY DEF Inv, ObjectTypes, QueueInv, ThreadTypes
<1>2. ~InSeq(t, queue[o]) /\ waitState[t] = "active" /\ ~Waiting(t)
  BY <1>1 DEF Inv, QueueInv, QueuesMatchWaits, SignalInv, Waiting
<1>3. /\ waitState' \in [Threads -> {"active", "waiting"}]
      /\ waitState'[t] = "waiting"
      /\ \A u \in Threads : u # t => waitState'[u] = waitState[u]
      /\ pc'[t] = "blocked" /\ \A u \in Threads : u # t => pc'[u] = pc[u]
  BY <1>1 DEF Enqueue, Goes
<1>4. /\ queue' \in [Objects -> Seq(Threads)] /\ queue'[o] = Append(queue[o], t)
      /\ \A p \in Objects : p # o => queue'[p] = queue[p]
      /\ refs' \in [Objects -> Int] /\ refs'[o] = refs[o] + 1
      /\ \A p \in Objects : p # o => refs'[p] = refs[p]
  BY <1>1 DEF Enqueue
<1>5. /\ \A u : InSeq(u, queue'[o]) <=> InSeq(u, queue[o]) \/ u = t
      /\ Len(queue'[o]) = Len(queue[o]) + 1 /\ Distinct(queue'[o])
      /\ Len(queue[o]) \in Nat
  BY <1>1, <1>2, <1>4, AppendIn
<1>6. ObjectTypes'
  BY <1>4 DEF Inv, ObjectTypes
<1>7. /\ Waiting(t)' /\ pc'[t] # "unregister"
      /\ \A u \in Threads : u # t => (Waiting(u)' <=> Waiting(u))
  BY <1>3 DEF Waiting
<1>8. QueueInv'
  <2>1. ASSUME NEW u \in Threads, NEW p \in Objects
        PROVE  InSeq(u, queue'[p]) <=>
                  /\ obj'[u] = p
                  /\ \/ Waiting(u)' /\ waitState'[u] = "waiting"
                     \/ pc'[u] = "unregister"
    <3>1. InSeq(u, queue[p]) <=>
                  /\ obj[u] = p
                  /\ \/ Waiting(u) /\ waitState[u] = "waiting"
                     \/ pc[u] = "unregister"
      BY DEF Inv, QueueInv, QueuesMatchWaits
    <3>2. CASE u = t
      BY <1>2, <1>3, <1>4, <1>5, <1>7, <3>1, <3>2
    <3>3. CASE u # t
      BY <1>3, <1>4, <1>5, <1>7, <3>1, <3>3
    <3> QED
      BY <3>2, <3>3
  <2>2. \A p \in Objects : Distinct(queue'[p])
    BY <1>4, <1>5 DEF Inv, QueueInv
  <2> QED
    BY <2>1, <2>2 DEF QueueInv, QueuesMatchWaits
<1>9. SignalInv'
  BY <1>3, <1>7 DEF Inv, SignalInv
<1>10. PendingInv'
  <2>1. /\ \A u \in Threads : InPending(u)' <=> InPending(u)
        /\ \A u \in Threads : u # t =>
              (Waiting(u)' /\ waitState'[u] = "active" <=>
               Waiting(u) /\ waitState[u] = "active")
        /\ ~(Waiting(t)' /\ waitState'[t] = "active")
        /\ ~(Waiting(t) /\ waitState[t] = "active")
    BY <1>2, <1>3, <1>7 DEF InPending
  <2>2. \A u \in Threads : pc'[u] = "defer" => pending'[u] # <<>>
    BY <1>3 DEF Inv, PendingInv
  <2> QED
    BY <2>1, <2>2 DEF Inv, PendingInv
<1>11. RefInv'
  <2> SUFFICES ASSUME NEW p \in Objects
               PROVE  refs'[p] = 1 + Len(queue'[p]) + One(p, monitored)
                                   + One(p, exited)
    BY DEF RefInv, One
  <2>1. One(p, monitored) \in Nat /\ One(p, exited) \in Nat
    BY DEF One
  <2>2. refs[p] = 1 + Len(queue[p]) + One(p, monitored) + One(p, exited)
    BY DEF Inv, RefInv
  <2>3. CASE p = o
    <3>1. refs'[p] = refs[p] + 1 /\ Len(queue'[p]) = Len(queue[p]) + 1
      BY <1>4, <1>5, <2>3
    <3>2. Len(queue[p]) \in Nat
      BY <1>5, <2>3
    <3> QED
      BY <2>1, <2>2, <3>1, <3>2
  <2>4. CASE p # o
    BY <1>4, <2>2, <2>4
  <2> QED
    BY <2>3, <2>4
<1> QED
  BY <1>3, <1>6, <1>8, <1>9, <1>10, <1>11

LEMMA OneCount ==
    ASSUME NEW o, NEW S
    PROVE  Cardinality({o} \cap S) = One(o, S)
<1>1. CASE o \in S
  <2>1. {o} \cap S = {o}
    BY <1>1
  <2> QED
    BY <1>1, <2>1, FS_Singleton DEF One
<1>2. CASE o \notin S
  <2>1. {o} \cap S = {}
    BY <1>2
  <2> QED
    BY <1>2, <2>1, FS_EmptySet DEF One
<1> QED
  BY <1>1, <1>2

\* Whom a signal chooses.
LEMMA AwakenedWait ==
    ASSUME Inv, NEW o \in Objects, NEW t \in Threads
    PROVE  t \in Awakened(o) <=> Waiting(t) /\ waitState[t] = "waiting" /\ obj[t] = o
BY DEF Inv, QueueInv, SignalInv, QueuesMatchWaits, Awakened, Waiting

\* The references that a signal gives up.
LEMMA SignalRefs ==
    ASSUME Inv, NEW o \in Objects, NEW by \in Actors, NEW nodes \in Nat,
           Signals(o, by, nodes), UNCHANGED monitored,
           One(o, exited') = One(o, exited) - nodes,
           \A p \in Objects : p # o => (p \in exited' <=> p \in exited)
    PROVE  RefInv'
<1> SUFFICES ASSUME NEW p \in Objects
             PROVE  refs'[p] = 1 + Len(queue'[p]) + One(p, monitored)
                                 + One(p, exited')
  BY DEF RefInv, One
<1>1. refs[p] = 1 + Len(queue[p]) + One(p, monitored) + One(p, exited)
  BY DEF Inv, RefInv
<1>2. /\ Len(queue[p]) \in Nat /\ refs[p] \in Int
      /\ One(p, monitored) \in Nat /\ One(p, exited) \in Nat
  BY DEF Inv, ObjectTypes, One
<1>3. CASE p = o
  <2>1. /\ refs'[p] - Len(queue'[p]) = refs[p] - Len(queue[p]) - nodes
        /\ refs'[p] \in Int /\ queue'[p] \in Seq(Threads)
    BY <1>3 DEF Signals
  <2>2. Len(queue'[p]) \in Nat /\ One(p, exited') = One(p, exited) - nodes
    BY <1>3, <2>1
  <2> DEFINE r == refs[p]
             l == Len(queue[p])
             m == One(p, monitored)
             e == One(p, exited)
             rr == refs'[p]
             ll == Len(queue'[p])
             ee == One(p, exited')
  <2>3. /\ r \in Int /\ l \in Int /\ m \in Int /\ e \in Int /\ rr \in Int
        /\ ll \in Int /\ r = 1 + l + m + e /\ rr - ll = r - l - nodes
        /\ ee = e - nodes
    BY <1>1, <1>2, <2>1, <2>2
  <2> HIDE DEF r, l, m, e, rr, ll, ee
  <2>4. rr = 1 + ll + m + ee
    BY <2>3
  <2> QED
    BY <2>4 DEF rr, ll, m, ee
<1>4. CASE p # o
  <2>1. /\ refs'[p] = refs[p] /\ queue'[p] = queue[p]
        /\ One(p, exited') = One(p, exited)
    BY <1>4 DEF Signals, One
  <2> QED
    BY <1>1, <2>1
<1> QED
  BY <1>3, <1>4

-----------------------------------------------------------------------------
(* The actions                                                             *)

\* A wait finds its object signaled.
LEMMA WaitSucceedsInv ==
    ASSUME Inv, NEW t \in Threads, NEW o \in Objects, WaitSucceeds(t, o)
    PROVE  Inv'
<1>u. UNCHANGED <<lock, monLock, waitState, pred, pending, signaled, queue,
                  refs, alive, monitored, monCount, exited, pipe, pipeOpen,
                  worker, shutdown>>
  BY DEF WaitSucceeds, Begins, Goes, Returns, calls, native, objects,
     monitoring, threads
<1>g. pc[t] = "idle" /\ lock = None /\ signaled[o]
  BY DEF WaitSucceeds, Begins, Goes, Returns
<1>t. /\ pc \in [Threads -> Labels]
      /\ ret \in [Threads -> {None, "signaled", "timeout", "failed", "exit"}]
      /\ obj \in [Threads -> Objects \cup {None}]
      /\ tmo \in [Threads -> {None, "finite", "infinite"}]
  BY DEF Inv, ThreadTypes
<1>m. /\ pc'[t] = "return" /\ ret'[t] = "signaled" /\ obj'[t] = o /\ tmo'[t] = None
      /\ \A u \in Threads : u # t => pc'[u] = pc[u] /\ ret'[u] = ret[u] /\ obj'[u] = obj[u] /\ tmo'[u] = tmo[u]
      /\ pc' \in [Threads -> Labels]
      /\ ret' \in [Threads -> {None, "signaled", "timeout", "failed", "exit"}]
      /\ obj' \in [Threads -> Objects \cup {None}]
      /\ tmo' \in [Threads -> {None, "finite", "infinite"}]
  BY <1>t, <1>g DEF Labels, WaitSucceeds, Begins, Goes, Returns
<1>1. PendingTypes' /\ ObjectTypes' /\ SystemTypes' /\ RefInv' /\ CountInv'
  BY <1>u DEF Inv, PendingTypes, ObjectTypes, SystemTypes, RefInv, CountInv
<1>2. ThreadTypes'
  BY <1>u, <1>g, <1>t, <1>m DEF Inv, ThreadTypes, Labels
<1>3. LockInv'
  BY NotThreads, <1>u, <1>g, <1>t, <1>m DEF Inv, LockInv, Registering
<1>4. CallInv'
  BY <1>u, <1>g, <1>t, <1>m DEF Inv, CallInv, Registering, Waiting, None
<1>5. QueueInv'
  BY <1>u, <1>g, <1>t, <1>m DEF Inv, QueueInv, QueuesMatchWaits, Waiting
<1>6. SignalInv'
  BY <1>u, <1>g, <1>t, <1>m DEF Inv, SignalInv, Waiting
<1>7. PendingInv'
  BY <1>u, <1>g, <1>t, <1>m DEF Inv, PendingInv, InPending, Waiting
<1>8. WatchInv'
  BY <1>u, <1>g, <1>t, <1>m DEF Inv, WatchInv, Waiting
<1>9. LookInv'
  BY <1>u, <1>g, <1>t, <1>m DEF Inv, LookInv
<1> QED
  BY <1>1, <1>2, <1>3, <1>4, <1>5, <1>6, <1>7, <1>8, <1>9 DEF Inv

\* A wait fails, or has no time.
LEMMA WaitFailsInv ==
    ASSUME Inv, NEW t \in Threads, NEW o \in Objects,
           NEW result \in {"timeout", "failed"}, WaitFails(t, o, result)
    PROVE  Inv'
<1>u. UNCHANGED <<lock, monLock, waitState, pred, pending, signaled, queue,
                  refs, alive, monitored, monCount, exited, pipe, pipeOpen,
                  worker, shutdown>>
  BY DEF WaitFails, Begins, Goes, Returns, calls, native, objects, monitoring,
     threads
<1>g. pc[t] = "idle" /\ lock = None
  BY DEF WaitFails, Begins, Goes, Returns
<1>t. /\ pc \in [Threads -> Labels]
      /\ ret \in [Threads -> {None, "signaled", "timeout", "failed", "exit"}]
      /\ obj \in [Threads -> Objects \cup {None}]
      /\ tmo \in [Threads -> {None, "finite", "infinite"}]
  BY DEF Inv, ThreadTypes
<1>m. /\ pc'[t] = "return" /\ ret'[t] = result /\ obj'[t] = None /\ tmo'[t] = None
      /\ \A u \in Threads : u # t => pc'[u] = pc[u] /\ ret'[u] = ret[u] /\ obj'[u] = obj[u] /\ tmo'[u] = tmo[u]
      /\ pc' \in [Threads -> Labels]
      /\ ret' \in [Threads -> {None, "signaled", "timeout", "failed", "exit"}]
      /\ obj' \in [Threads -> Objects \cup {None}]
      /\ tmo' \in [Threads -> {None, "finite", "infinite"}]
  BY <1>t, <1>g DEF Labels, WaitFails, Begins, Goes, Returns
<1>1. PendingTypes' /\ ObjectTypes' /\ SystemTypes' /\ RefInv' /\ CountInv'
  BY <1>u DEF Inv, PendingTypes, ObjectTypes, SystemTypes, RefInv, CountInv
<1>2. ThreadTypes'
  BY <1>u, <1>g, <1>t, <1>m DEF Inv, ThreadTypes, Labels
<1>3. LockInv'
  BY NotThreads, <1>u, <1>g, <1>t, <1>m DEF Inv, LockInv, Registering
<1>4. CallInv'
  BY <1>u, <1>g, <1>t, <1>m DEF Inv, CallInv, Registering, Waiting, None
<1>5. QueueInv'
  BY <1>u, <1>g, <1>t, <1>m DEF Inv, QueueInv, QueuesMatchWaits, Waiting
<1>6. SignalInv'
  BY <1>u, <1>g, <1>t, <1>m DEF Inv, SignalInv, Waiting
<1>7. PendingInv'
  BY <1>u, <1>g, <1>t, <1>m DEF Inv, PendingInv, InPending, Waiting
<1>8. WatchInv'
  BY <1>u, <1>g, <1>t, <1>m DEF Inv, WatchInv, Waiting
<1>9. LookInv'
  BY <1>u, <1>g, <1>t, <1>m DEF Inv, LookInv
<1> QED
  BY <1>1, <1>2, <1>3, <1>4, <1>5, <1>6, <1>7, <1>8, <1>9 DEF Inv

\* A wait for a process begins.
LEMMA WaitForProcessInv ==
    ASSUME Inv, NEW t \in Threads, NEW o \in Objects,
           NEW timeout \in {"finite", "infinite"}, WaitForProcess(t, o, timeout)
    PROVE  Inv'
<1>u. UNCHANGED <<monLock, ret, waitState, pred, pending, signaled, queue, refs,
                  alive, monitored, monCount, exited, pipe, pipeOpen, worker,
                  shutdown>>
  BY DEF WaitForProcess, Begins, Goes, CanWait, calls, native, objects,
     monitoring, threads
<1>g. /\ pc[t] = "idle" /\ lock = None /\ o \in Processes /\ ~signaled[o]
      /\ lock' = t
  BY DEF WaitForProcess, Begins, Goes, CanWait
<1>t. /\ pc \in [Threads -> Labels]
      /\ obj \in [Threads -> Objects \cup {None}]
      /\ tmo \in [Threads -> {None, "finite", "infinite"}]
  BY DEF Inv, ThreadTypes
<1>m. /\ pc'[t] = "register" /\ obj'[t] = o /\ tmo'[t] = timeout
      /\ \A u \in Threads : u # t => pc'[u] = pc[u] /\ obj'[u] = obj[u] /\ tmo'[u] = tmo[u]
      /\ pc' \in [Threads -> Labels]
      /\ obj' \in [Threads -> Objects \cup {None}]
      /\ tmo' \in [Threads -> {None, "finite", "infinite"}]
  BY <1>t, <1>g DEF Labels, WaitForProcess, Begins, Goes, CanWait
<1>1. PendingTypes' /\ ObjectTypes' /\ RefInv' /\ CountInv'
  BY <1>u DEF Inv, PendingTypes, ObjectTypes, RefInv, CountInv
<1>2. ThreadTypes'
  BY <1>u, <1>g, <1>t, <1>m DEF Inv, ThreadTypes, Labels
<1>3. SystemTypes'
  BY <1>u, <1>g, <1>t, <1>m DEF Inv, SystemTypes, WorkerType
<1>4. LockInv'
  BY NotThreads, <1>u, <1>g, <1>t, <1>m DEF Inv, LockInv, Registering
<1>5. CallInv'
  BY <1>u, <1>g, <1>t, <1>m DEF Inv, CallInv, Registering, Waiting, None
<1>6. QueueInv'
  BY <1>u, <1>g, <1>t, <1>m DEF Inv, QueueInv, QueuesMatchWaits, Waiting
<1>7. SignalInv'
  BY <1>u, <1>g, <1>t, <1>m DEF Inv, SignalInv, Waiting
<1>8. PendingInv'
  BY <1>u, <1>g, <1>t, <1>m DEF Inv, PendingInv, InPending, Waiting
<1>9. WatchInv'
  BY <1>u, <1>g, <1>t, <1>m DEF Inv, WatchInv, Waiting
<1>10. LookInv'
  BY <1>u, <1>g, <1>t, <1>m DEF Inv, LookInv
<1> QED
  BY <1>1, <1>2, <1>3, <1>4, <1>5, <1>6, <1>7, <1>8, <1>9, <1>10 DEF Inv

\* A wait for a thread begins.
LEMMA WaitForThreadInv ==
    ASSUME Inv, NEW t \in Threads, NEW o \in Objects,
           NEW timeout \in {"finite", "infinite"}, WaitForThread(t, o, timeout)
    PROVE  Inv'
<1>u. UNCHANGED <<lock, monLock, ret, pred, pending, signaled, alive, monitored,
                  monCount, exited, pipe, pipeOpen, worker, shutdown>>
  BY DEF WaitForThread, Begins, Goes, CanWait, calls, native, objects,
     monitoring, threads
<1>g. pc[t] = "idle" /\ lock = None /\ o \in Threads /\ ~signaled[o]
  BY DEF WaitForThread, Begins, Goes, CanWait
<1>t. /\ pc \in [Threads -> Labels]
      /\ obj \in [Threads -> Objects \cup {None}]
      /\ tmo \in [Threads -> {None, "finite", "infinite"}]
  BY DEF Inv, ThreadTypes
<1>m. /\ pc'[t] = "blocked" /\ obj'[t] = o /\ tmo'[t] = timeout
      /\ \A u \in Threads : u # t => pc'[u] = pc[u] /\ obj'[u] = obj[u] /\ tmo'[u] = tmo[u]
      /\ pc' \in [Threads -> Labels]
      /\ obj' \in [Threads -> Objects \cup {None}]
      /\ tmo' \in [Threads -> {None, "finite", "infinite"}]
  BY <1>t, <1>g DEF Labels, WaitForThread, Begins, Goes, CanWait
<1>q. /\ waitState' \in [Threads -> {"active", "waiting"}]
      /\ \A u \in Threads : u # t => waitState'[u] = waitState[u]
      /\ ObjectTypes' /\ QueueInv' /\ SignalInv' /\ PendingInv' /\ RefInv'
  BY <1>u, <1>g, <1>m, EnqueueKeeps DEF WaitForThread
<1>1. PendingTypes' /\ SystemTypes' /\ CountInv'
  BY <1>u DEF Inv, PendingTypes, SystemTypes, CountInv
<1>2. ThreadTypes'
  BY <1>u, <1>g, <1>q, <1>t, <1>m DEF Inv, ThreadTypes, Labels
<1>3. ObjectTypes'
  BY <1>q
<1>4. LockInv'
  BY NotThreads, <1>u, <1>g, <1>q, <1>t, <1>m DEF Inv, LockInv, Registering
<1>5. CallInv'
  BY <1>u, <1>g, <1>q, <1>t, <1>m DEF Inv, CallInv, Registering, Waiting, None
<1>6. QueueInv'
  BY <1>q
<1>7. SignalInv'
  BY <1>q
<1>8. PendingInv'
  BY <1>q
<1>9. RefInv'
  BY <1>q
<1>10. WatchInv'
  BY <1>u, <1>g, <1>q, <1>t, <1>m, SMAssumption DEF Inv, WatchInv, Waiting
<1>11. LookInv'
  BY <1>u, <1>g, <1>q, <1>t, <1>m DEF Inv, LookInv
<1> QED
  BY <1>1, <1>2, <1>3, <1>4, <1>5, <1>6, <1>7, <1>8, <1>9, <1>10, <1>11 DEF Inv

\* The wait for a process is registered.
LEMMA RegisterWaitingThreadInv ==
    ASSUME Inv, NEW t \in Threads, RegisterWaitingThread(t)
    PROVE  Inv'
<1>u. UNCHANGED <<monLock, obj, tmo, ret, pred, pending, signaled, alive,
                  monitored, monCount, exited, pipe, pipeOpen, worker,
                  shutdown>>
  BY DEF RegisterWaitingThread, Goes, calls, native, objects, monitoring,
     threads
<1>g. pc[t] = "enqueue" /\ lock' = None
  BY DEF RegisterWaitingThread, Goes
<1>t. /\ pc \in [Threads -> Labels]
  BY DEF Inv, ThreadTypes
<1>m. /\ pc'[t] = "blocked"
      /\ \A u \in Threads : u # t => pc'[u] = pc[u]
      /\ pc' \in [Threads -> Labels]
  BY <1>t, <1>g DEF Labels, RegisterWaitingThread, Goes
<1>o. obj[t] \in Processes /\ ~signaled[obj[t]] /\ obj[t] \in Objects /\ lock = t
  BY <1>g DEF Inv, CallInv, LockInv, Registering, Objects
<1>q. /\ waitState' \in [Threads -> {"active", "waiting"}]
      /\ \A u \in Threads : u # t => waitState'[u] = waitState[u]
      /\ ObjectTypes' /\ QueueInv' /\ SignalInv' /\ PendingInv' /\ RefInv'
  <2>1. obj' \in [Threads -> Objects \cup {None}] /\ obj' = obj
    BY <1>u DEF Inv, ThreadTypes
  <2> QED
    BY <1>u, <1>g, <1>o, <2>1, EnqueueKeeps DEF RegisterWaitingThread
<1>1. PendingTypes' /\ CountInv'
  BY <1>u DEF Inv, PendingTypes, CountInv
<1>2. ThreadTypes'
  BY <1>u, <1>g, <1>o, <1>q, <1>t, <1>m DEF Inv, ThreadTypes, Labels
<1>3. ObjectTypes'
  BY <1>q
<1>4. SystemTypes'
  BY <1>u, <1>g, <1>o, <1>q, <1>t, <1>m DEF Inv, SystemTypes, WorkerType
<1>5. LockInv'
  BY NotThreads, <1>u, <1>g, <1>o, <1>q, <1>t, <1>m DEF Inv, LockInv,
     Registering
<1>6. CallInv'
  BY <1>u, <1>g, <1>o, <1>q, <1>t, <1>m DEF Inv, CallInv, Registering, Waiting,
     None
<1>7. QueueInv'
  BY <1>q
<1>8. SignalInv'
  BY <1>q
<1>9. PendingInv'
  BY <1>q
<1>10. RefInv'
  BY <1>q
<1>11. WatchInv'
  BY <1>u, <1>g, <1>o, <1>q, <1>t, <1>m DEF Inv, WatchInv, Waiting
<1>12. LookInv'
  BY <1>u, <1>g, <1>o, <1>q, <1>t, <1>m DEF Inv, LookInv
<1> QED
  BY <1>1, <1>2, <1>3, <1>4, <1>5, <1>6, <1>7, <1>8, <1>9, <1>10, <1>11, <1>12
     DEF Inv

\* The process is monitored already.
LEMMA RegisterKnownInv ==
    ASSUME Inv, NEW t \in Threads, pc[t] = "register", obj[t] \in monitored,
           Goes(t, "enqueue"), UNCHANGED <<lock, monLock, obj, tmo, ret, waitState, pred, pending,
                      signaled, queue, refs, alive, monitored,
                      monCount, exited, pipe, pipeOpen, worker,
                      shutdown>>
    PROVE  Inv'
<1>u. UNCHANGED <<lock, monLock, obj, tmo, ret, waitState, pred, pending,
                  signaled, queue, refs, alive, monitored, monCount, exited,
                  pipe, pipeOpen, worker, shutdown>>
  BY DEF Goes, calls, native, objects, monitoring, threads
<1>t. /\ pc \in [Threads -> Labels]
  BY DEF Inv, ThreadTypes
<1>m. /\ pc'[t] = "enqueue"
      /\ \A u \in Threads : u # t => pc'[u] = pc[u]
      /\ pc' \in [Threads -> Labels]
  BY <1>t DEF Labels, Goes
<1>1. PendingTypes' /\ ObjectTypes' /\ SystemTypes' /\ RefInv' /\ CountInv'
  BY <1>u DEF Inv, PendingTypes, ObjectTypes, SystemTypes, RefInv, CountInv
<1>2. ThreadTypes'
  BY <1>u, <1>t, <1>m DEF Inv, ThreadTypes, Labels
<1>3. LockInv'
  BY NotThreads, <1>u, <1>t, <1>m DEF Inv, LockInv, Registering
<1>4. CallInv'
  BY <1>u, <1>t, <1>m DEF Inv, CallInv, Registering, Waiting, None
<1>5. QueueInv'
  BY <1>u, <1>t, <1>m DEF Inv, QueueInv, QueuesMatchWaits, Waiting
<1>6. SignalInv'
  BY <1>u, <1>t, <1>m DEF Inv, SignalInv, Waiting
<1>7. PendingInv'
  BY <1>u, <1>t, <1>m DEF Inv, PendingInv, InPending, Waiting
<1>8. WatchInv'
  BY <1>u, <1>t, <1>m DEF Inv, WatchInv, Waiting
<1>9. LookInv'
  BY <1>u, <1>t, <1>m DEF Inv, LookInv
<1> QED
  BY <1>1, <1>2, <1>3, <1>4, <1>5, <1>6, <1>7, <1>8, <1>9 DEF Inv

\* The process is put into the list.
LEMMA RegisterNewInv ==
    ASSUME Inv, NEW t \in Threads, pc[t] = "register", obj[t] \in Processes,
           obj[t] \notin monitored, monitored' = monitored \cup {obj[t]},
           monCount' = monCount + 1, refs' = [refs EXCEPT ![obj[t]] = @ + 1],
           Goes(t, "notify"),
           UNCHANGED <<lock, monLock, obj, tmo, ret, waitState, pred, pending,
                      signaled, queue, alive, exited, pipe, pipeOpen,
                      worker, shutdown>>
    PROVE  Inv'
<1>u. UNCHANGED <<lock, monLock, obj, tmo, ret, waitState, pred, pending,
                  signaled, queue, alive, exited, pipe, pipeOpen, worker,
                  shutdown>>
  BY DEF Goes, calls, native, objects, monitoring, threads
<1>t. /\ pc \in [Threads -> Labels]
  BY DEF Inv, ThreadTypes
<1>m. /\ pc'[t] = "notify"
      /\ \A u \in Threads : u # t => pc'[u] = pc[u]
      /\ pc' \in [Threads -> Labels]
  BY <1>t DEF Labels, Goes
<1>1. PendingTypes'
  BY <1>u DEF Inv, PendingTypes
<1>2. ThreadTypes'
  BY <1>u, <1>t, <1>m DEF Inv, ThreadTypes, Labels
<1>3. ObjectTypes'
  BY <1>u DEF Inv, ObjectTypes, Objects
<1>4. SystemTypes'
  BY <1>u, <1>t, <1>m DEF Inv, SystemTypes, WorkerType
<1>5. LockInv'
  BY NotThreads, <1>u, <1>t, <1>m DEF Inv, LockInv, Registering
<1>6. CallInv'
  BY <1>u, <1>t, <1>m DEF Inv, CallInv, Registering, Waiting, None
<1>7. QueueInv'
  BY <1>u, <1>t, <1>m DEF Inv, QueueInv, QueuesMatchWaits, Waiting
<1>8. SignalInv'
  BY <1>u, <1>t, <1>m DEF Inv, SignalInv, Waiting
<1>9. PendingInv'
  BY <1>u, <1>t, <1>m DEF Inv, PendingInv, InPending, Waiting
<1>10. RefInv'
  <2> SUFFICES ASSUME NEW o \in Objects
               PROVE  refs'[o] = 1 + Len(queue[o]) + One(o, monitored')
                                   + One(o, exited)
    BY <1>u DEF RefInv, One
  <2>1. refs[o] = 1 + Len(queue[o]) + One(o, monitored) + One(o, exited)
    BY DEF Inv, RefInv
  <2>2. Len(queue[o]) \in Nat /\ One(o, exited) \in Nat
    BY DEF Inv, ObjectTypes, One
  <2>3. CASE o = obj[t]
    <3>1. refs'[o] = refs[o] + 1 /\ One(o, monitored') = 1 /\ One(o, monitored) = 0
      BY <2>3 DEF Inv, ObjectTypes, One
    <3> QED
      BY <2>1, <2>2, <3>1
  <2>4. CASE o # obj[t]
    <3>1. refs'[o] = refs[o] /\ One(o, monitored') = One(o, monitored)
      BY <2>4 DEF Inv, ObjectTypes, One
    <3> QED
      BY <2>1, <3>1
  <2> QED
    BY <2>3, <2>4
<1>11. CountInv'
  <2>1. IsFiniteSet(monitored) /\ Cardinality(monitored) \in Nat
    BY SMAssumption, FS_Subset, FS_CardinalityType DEF Inv, SystemTypes
  <2>2. Cardinality(monitored') = Cardinality(monitored) + 1
    BY <2>1, FS_AddElement
  <2> QED
    BY <1>u, <2>1, <2>2 DEF Inv, CountInv, SystemTypes
<1>12. WatchInv'
  BY <1>u, <1>t, <1>m DEF Inv, WatchInv, Waiting
<1>13. LookInv'
  BY <1>u, <1>t, <1>m DEF Inv, LookInv
<1> QED
  BY <1>1, <1>2, <1>3, <1>4, <1>5, <1>6, <1>7, <1>8, <1>9, <1>10, <1>11, <1>12,
     <1>13 DEF Inv

\* The worker is told of a new process.
LEMMA WakeUpInv ==
    ASSUME Inv, NEW t \in Threads, pc[t] = "notify", CanWrite, pipe' = Append(pipe, "nop"),
           Goes(t, "enqueue"),
           UNCHANGED <<lock, monLock, obj, tmo, ret, waitState, pred, pending,
                      signaled, queue, refs, alive, monitored,
                      monCount, exited, pipeOpen, worker, shutdown>>
    PROVE  Inv'
<1>u. UNCHANGED <<lock, monLock, obj, tmo, ret, waitState, pred, pending,
                  signaled, queue, refs, alive, monitored, monCount, exited,
                  pipeOpen, worker, shutdown>>
  BY DEF Goes, calls, native, objects, monitoring, threads
<1>t. /\ pc \in [Threads -> Labels]
  BY DEF Inv, ThreadTypes
<1>m. /\ pc'[t] = "enqueue"
      /\ \A u \in Threads : u # t => pc'[u] = pc[u]
      /\ pc' \in [Threads -> Labels]
  BY <1>t DEF Labels, Goes
<1>p. /\ pipe' \in Seq({"nop", "shutdown"}) /\ Len(pipe') <= PipeSize
      /\ pipe' # <<>>
  BY SMAssumption DEF Inv, SystemTypes, CanWrite
<1>1. PendingTypes' /\ ObjectTypes' /\ RefInv' /\ CountInv'
  BY <1>u DEF Inv, PendingTypes, ObjectTypes, RefInv, CountInv
<1>2. ThreadTypes'
  BY <1>u, <1>p, <1>t, <1>m DEF Inv, ThreadTypes, Labels
<1>3. SystemTypes'
  BY <1>u, <1>p, <1>t, <1>m DEF Inv, SystemTypes, WorkerType
<1>4. LockInv'
  BY NotThreads, <1>u, <1>p, <1>t, <1>m DEF Inv, LockInv, Registering
<1>5. CallInv'
  BY <1>u, <1>p, <1>t, <1>m DEF Inv, CallInv, Registering, Waiting, None
<1>6. QueueInv'
  BY <1>u, <1>p, <1>t, <1>m DEF Inv, QueueInv, QueuesMatchWaits, Waiting
<1>7. SignalInv'
  BY <1>u, <1>p, <1>t, <1>m DEF Inv, SignalInv, Waiting
<1>8. PendingInv'
  BY <1>u, <1>p, <1>t, <1>m DEF Inv, PendingInv, InPending, Waiting
<1>9. WatchInv'
  BY <1>u, <1>p, <1>t, <1>m DEF Inv, WatchInv, Waiting
<1>10. LookInv'
  BY <1>u, <1>p, <1>t, <1>m DEF Inv, LookInv
<1> QED
  BY <1>1, <1>2, <1>3, <1>4, <1>5, <1>6, <1>7, <1>8, <1>9, <1>10 DEF Inv

\* The pipe is full, or closed.
LEMMA WakeUpFailsInv ==
    ASSUME Inv, NEW t \in Threads, pc[t] = "notify", ~CanWrite, lock' = None,
           Goes(t, "return"), Returns(t, "failed", None),
           UNCHANGED <<monLock, waitState, pred, pending, signaled, queue, refs,
                      alive, monitored, monCount, exited, pipe,
                      pipeOpen, worker, shutdown>>
    PROVE  Inv'
<1>u. UNCHANGED <<monLock, waitState, pred, pending, signaled, queue, refs,
                  alive, monitored, monCount, exited, pipe, pipeOpen, worker,
                  shutdown>>
  BY DEF Goes, Returns, calls, native, objects, monitoring, threads
<1>t. /\ pc \in [Threads -> Labels]
      /\ ret \in [Threads -> {None, "signaled", "timeout", "failed", "exit"}]
      /\ obj \in [Threads -> Objects \cup {None}]
      /\ tmo \in [Threads -> {None, "finite", "infinite"}]
  BY DEF Inv, ThreadTypes
<1>m. /\ pc'[t] = "return" /\ ret'[t] = "failed" /\ obj'[t] = None /\ tmo'[t] = None
      /\ \A u \in Threads : u # t => pc'[u] = pc[u] /\ ret'[u] = ret[u] /\ obj'[u] = obj[u] /\ tmo'[u] = tmo[u]
      /\ pc' \in [Threads -> Labels]
      /\ ret' \in [Threads -> {None, "signaled", "timeout", "failed", "exit"}]
      /\ obj' \in [Threads -> Objects \cup {None}]
      /\ tmo' \in [Threads -> {None, "finite", "infinite"}]
  BY <1>t DEF Labels, Goes, Returns
<1>p. pipe # <<>> \/ ~pipeOpen
  BY SMAssumption DEF CanWrite
<1>o. lock = t
  BY DEF Inv, LockInv, Registering
<1>1. PendingTypes' /\ ObjectTypes' /\ RefInv' /\ CountInv'
  BY <1>u DEF Inv, PendingTypes, ObjectTypes, RefInv, CountInv
<1>2. ThreadTypes'
  BY <1>u, <1>p, <1>o, <1>t, <1>m DEF Inv, ThreadTypes, Labels
<1>3. SystemTypes'
  BY <1>u, <1>p, <1>o, <1>t, <1>m DEF Inv, SystemTypes, WorkerType
<1>4. LockInv'
  BY NotThreads, <1>u, <1>p, <1>o, <1>t, <1>m DEF Inv, LockInv, Registering
<1>5. CallInv'
  BY <1>u, <1>p, <1>o, <1>t, <1>m DEF Inv, CallInv, Registering, Waiting, None
<1>6. QueueInv'
  BY <1>u, <1>p, <1>o, <1>t, <1>m DEF Inv, QueueInv, QueuesMatchWaits, Waiting
<1>7. SignalInv'
  BY <1>u, <1>p, <1>o, <1>t, <1>m DEF Inv, SignalInv, Waiting
<1>8. PendingInv'
  BY <1>u, <1>p, <1>o, <1>t, <1>m DEF Inv, PendingInv, InPending, Waiting
<1>9. WatchInv'
  BY <1>u, <1>p, <1>o, <1>t, <1>m DEF Inv, WatchInv, Waiting
<1>10. LookInv'
  BY <1>u, <1>p, <1>o, <1>t, <1>m DEF Inv, LookInv
<1> QED
  BY <1>1, <1>2, <1>3, <1>4, <1>5, <1>6, <1>7, <1>8, <1>9, <1>10 DEF Inv

\* A thread wakes one of those that it chose.
LEMMA SignalDeferredInv ==
    ASSUME Inv, NEW t \in Threads, SignalDeferred(t)
    PROVE  Inv'
<1>u. UNCHANGED <<lock, monLock, obj, tmo, ret, waitState, signaled, queue,
                  refs, alive, monitored, monCount, exited, pipe, pipeOpen,
                  worker, shutdown>>
  BY DEF SignalDeferred, Goes, calls, native, objects, monitoring, threads
<1>g. pc[t] = "defer" /\ RunDeferredSignaling(t)
  BY DEF SignalDeferred, Goes
<1>t. pc \in [Threads -> Labels] /\ t \in Actors /\ pending[t] # <<>>
  BY <1>g DEF Inv, ThreadTypes, PendingInv, Actors
<1>m. /\ pc' \in [Threads -> Labels]
      /\ pc'[t] \in {"defer", "ended", "return"}
      /\ pc'[t] = "defer" => Len(pending[t]) > 1
      /\ \A u \in Threads : u # t => pc'[u] = pc[u]
  BY <1>t DEF SignalDeferred, Goes, Labels
<1>d. pred' \in [Threads -> BOOLEAN] /\ PendingTypes' /\ PendingInv'
  BY <1>u, <1>g, <1>t, <1>m, DeferredKeeps
<1>1. ObjectTypes' /\ SystemTypes' /\ RefInv' /\ CountInv'
  BY <1>u DEF Inv, ObjectTypes, SystemTypes, RefInv, CountInv
<1>2. ThreadTypes'
  BY <1>u, <1>g, <1>t, <1>m, <1>d DEF Inv, ThreadTypes, Labels
<1>3. PendingTypes'
  BY <1>d
<1>4. LockInv'
  BY NotThreads, <1>u, <1>g, <1>t, <1>m, <1>d DEF Inv, LockInv, Registering
<1>5. CallInv'
  BY <1>u, <1>g, <1>t, <1>m, <1>d DEF Inv, CallInv, Registering, Waiting, None
<1>6. QueueInv'
  BY <1>u, <1>g, <1>t, <1>m, <1>d DEF Inv, QueueInv, QueuesMatchWaits, Waiting
<1>7. SignalInv'
  BY <1>u, <1>g, <1>t, <1>m, <1>d DEF Inv, SignalInv, Waiting
<1>8. PendingInv'
  BY <1>d
<1>9. WatchInv'
  BY <1>u, <1>g, <1>t, <1>m, <1>d DEF Inv, WatchInv, Waiting
<1>10. LookInv'
  BY <1>u, <1>g, <1>t, <1>m, <1>d DEF Inv, LookInv
<1> QED
  BY <1>1, <1>2, <1>3, <1>4, <1>5, <1>6, <1>7, <1>8, <1>9, <1>10 DEF Inv

\* There is no memory to monitor the process.
LEMMA RegisterFailsInv ==
    ASSUME Inv, NEW t \in Threads, RegisterFails(t)
    PROVE  Inv'
<1>u. UNCHANGED <<monLock, waitState, pred, pending, signaled, queue, refs,
                  alive, monitored, monCount, exited, pipe, pipeOpen, worker,
                  shutdown>>
  BY DEF RegisterFails, Goes, Returns, calls, native, objects, monitoring,
     threads
<1>g. pc[t] = "register" /\ lock' = None
  BY DEF RegisterFails, Goes, Returns
<1>t. /\ pc \in [Threads -> Labels]
      /\ ret \in [Threads -> {None, "signaled", "timeout", "failed", "exit"}]
      /\ obj \in [Threads -> Objects \cup {None}]
      /\ tmo \in [Threads -> {None, "finite", "infinite"}]
  BY DEF Inv, ThreadTypes
<1>m. /\ pc'[t] = "return" /\ ret'[t] = "failed" /\ obj'[t] = None /\ tmo'[t] = None
      /\ \A u \in Threads : u # t => pc'[u] = pc[u] /\ ret'[u] = ret[u] /\ obj'[u] = obj[u] /\ tmo'[u] = tmo[u]
      /\ pc' \in [Threads -> Labels]
      /\ ret' \in [Threads -> {None, "signaled", "timeout", "failed", "exit"}]
      /\ obj' \in [Threads -> Objects \cup {None}]
      /\ tmo' \in [Threads -> {None, "finite", "infinite"}]
  BY <1>t, <1>g DEF Labels, RegisterFails, Goes, Returns
<1>o. lock = t
  BY <1>g DEF Inv, LockInv, Registering
<1>1. PendingTypes' /\ ObjectTypes' /\ RefInv' /\ CountInv'
  BY <1>u DEF Inv, PendingTypes, ObjectTypes, RefInv, CountInv
<1>2. ThreadTypes'
  BY <1>u, <1>g, <1>o, <1>t, <1>m DEF Inv, ThreadTypes, Labels
<1>3. SystemTypes'
  BY <1>u, <1>g, <1>o, <1>t, <1>m DEF Inv, SystemTypes, WorkerType
<1>4. LockInv'
  BY NotThreads, <1>u, <1>g, <1>o, <1>t, <1>m DEF Inv, LockInv, Registering
<1>5. CallInv'
  BY <1>u, <1>g, <1>o, <1>t, <1>m DEF Inv, CallInv, Registering, Waiting, None
<1>6. QueueInv'
  BY <1>u, <1>g, <1>o, <1>t, <1>m DEF Inv, QueueInv, QueuesMatchWaits, Waiting
<1>7. SignalInv'
  BY <1>u, <1>g, <1>o, <1>t, <1>m DEF Inv, SignalInv, Waiting
<1>8. PendingInv'
  BY <1>u, <1>g, <1>o, <1>t, <1>m DEF Inv, PendingInv, InPending, Waiting
<1>9. WatchInv'
  BY <1>u, <1>g, <1>o, <1>t, <1>m DEF Inv, WatchInv, Waiting
<1>10. LookInv'
  BY <1>u, <1>g, <1>o, <1>t, <1>m DEF Inv, LookInv
<1> QED
  BY <1>1, <1>2, <1>3, <1>4, <1>5, <1>6, <1>7, <1>8, <1>9, <1>10 DEF Inv

\* A thread finds its predicate set.
LEMMA NativeWaitEndsInv ==
    ASSUME Inv, NEW t \in Threads, NativeWaitEnds(t)
    PROVE  Inv'
<1>u. UNCHANGED <<lock, monLock, waitState, pending, signaled, queue, refs,
                  alive, monitored, monCount, exited, pipe, pipeOpen, worker,
                  shutdown>>
  BY DEF NativeWaitEnds, Goes, Returns, calls, native, objects, monitoring,
     threads
<1>g. pc[t] \in {"blocked", "rewait"} /\ pred[t]
  BY DEF NativeWaitEnds, Goes, Returns
<1>t. /\ pc \in [Threads -> Labels]
      /\ ret \in [Threads -> {None, "signaled", "timeout", "failed", "exit"}]
      /\ obj \in [Threads -> Objects \cup {None}]
      /\ tmo \in [Threads -> {None, "finite", "infinite"}]
  BY DEF Inv, ThreadTypes
<1>m. /\ pc'[t] = "return" /\ ret'[t] = "signaled" /\ obj'[t] = obj[t] /\ tmo'[t] = None
      /\ \A u \in Threads : u # t => pc'[u] = pc[u] /\ ret'[u] = ret[u] /\ obj'[u] = obj[u] /\ tmo'[u] = tmo[u]
      /\ pc' \in [Threads -> Labels]
      /\ ret' \in [Threads -> {None, "signaled", "timeout", "failed", "exit"}]
      /\ obj' \in [Threads -> Objects \cup {None}]
      /\ tmo' \in [Threads -> {None, "finite", "infinite"}]
  BY <1>t, <1>g DEF Labels, NativeWaitEnds, Goes, Returns
<1>p. /\ pred' \in [Threads -> BOOLEAN]
      /\ \A u \in Threads : pred'[u] <=> pred[u] /\ u # t
  BY Zenon DEF Inv, ThreadTypes, NativeWaitEnds
<1>w. Waiting(t) /\ waitState[t] = "active" /\ signaled[obj[t]] /\ obj[t] \in Objects
  BY <1>g DEF Inv, PendingInv, SignalInv, CallInv, Waiting
<1>1. PendingTypes' /\ ObjectTypes' /\ SystemTypes' /\ RefInv' /\ CountInv'
  BY <1>u DEF Inv, PendingTypes, ObjectTypes, SystemTypes, RefInv, CountInv
<1>2. ThreadTypes'
  BY <1>u, <1>g, <1>p, <1>w, <1>t, <1>m DEF Inv, ThreadTypes, Labels
<1>3. LockInv'
  BY NotThreads, <1>u, <1>g, <1>p, <1>w, <1>t, <1>m DEF Inv, LockInv,
     Registering
<1>4. CallInv'
  BY <1>u, <1>g, <1>p, <1>w, <1>t, <1>m DEF Inv, CallInv, Registering, Waiting,
     None
<1>5. QueueInv'
  BY <1>u, <1>g, <1>p, <1>w, <1>t, <1>m DEF Inv, QueueInv, QueuesMatchWaits,
     Waiting
<1>6. SignalInv'
  BY <1>u, <1>g, <1>p, <1>w, <1>t, <1>m DEF Inv, SignalInv, Waiting
<1>7. PendingInv'
  BY <1>u, <1>g, <1>p, <1>w, <1>t, <1>m DEF Inv, PendingInv, InPending, Waiting
<1>8. WatchInv'
  BY <1>u, <1>g, <1>p, <1>w, <1>t, <1>m DEF Inv, WatchInv, Waiting
<1>9. LookInv'
  BY <1>u, <1>g, <1>p, <1>w, <1>t, <1>m DEF Inv, LookInv
<1> QED
  BY <1>1, <1>2, <1>3, <1>4, <1>5, <1>6, <1>7, <1>8, <1>9 DEF Inv

\* The time of a wait has passed.
LEMMA NativeWaitTimesOutInv ==
    ASSUME Inv, NEW t \in Threads, NativeWaitTimesOut(t)
    PROVE  Inv'
<1>u. UNCHANGED <<lock, monLock, obj, tmo, ret, waitState, pred, pending,
                  signaled, queue, refs, alive, monitored, monCount, exited,
                  pipe, pipeOpen, worker, shutdown>>
  BY DEF NativeWaitTimesOut, Goes, calls, native, objects, monitoring, threads
<1>g. pc[t] = "blocked"
  BY DEF NativeWaitTimesOut, Goes
<1>t. /\ pc \in [Threads -> Labels]
  BY DEF Inv, ThreadTypes
<1>m. /\ pc'[t] = "timedOut"
      /\ \A u \in Threads : u # t => pc'[u] = pc[u]
      /\ pc' \in [Threads -> Labels]
  BY <1>t, <1>g DEF Labels, NativeWaitTimesOut, Goes
<1>1. PendingTypes' /\ ObjectTypes' /\ SystemTypes' /\ RefInv' /\ CountInv'
  BY <1>u DEF Inv, PendingTypes, ObjectTypes, SystemTypes, RefInv, CountInv
<1>2. ThreadTypes'
  BY <1>u, <1>g, <1>t, <1>m DEF Inv, ThreadTypes, Labels
<1>3. LockInv'
  BY NotThreads, <1>u, <1>g, <1>t, <1>m DEF Inv, LockInv, Registering
<1>4. CallInv'
  BY <1>u, <1>g, <1>t, <1>m DEF Inv, CallInv, Registering, Waiting, None
<1>5. QueueInv'
  BY <1>u, <1>g, <1>t, <1>m DEF Inv, QueueInv, QueuesMatchWaits, Waiting
<1>6. SignalInv'
  BY <1>u, <1>g, <1>t, <1>m DEF Inv, SignalInv, Waiting
<1>7. PendingInv'
  BY <1>u, <1>g, <1>t, <1>m DEF Inv, PendingInv, InPending, Waiting
<1>8. WatchInv'
  BY <1>u, <1>g, <1>t, <1>m DEF Inv, WatchInv, Waiting
<1>9. LookInv'
  BY <1>u, <1>g, <1>t, <1>m DEF Inv, LookInv
<1> QED
  BY <1>1, <1>2, <1>3, <1>4, <1>5, <1>6, <1>7, <1>8, <1>9 DEF Inv

\* The wait that timed out takes itself back, unless it was chosen before.
LEMMA SwitchToActiveInv ==
    ASSUME Inv, NEW t \in Threads, SwitchToActive(t)
    PROVE  Inv'
<1>u. UNCHANGED <<lock, monLock, obj, tmo, ret, pred, pending, signaled, queue,
                  refs, alive, monitored, monCount, exited, pipe, pipeOpen,
                  worker, shutdown>>
  BY DEF SwitchToActive, Goes, calls, native, objects, monitoring, threads
<1>g. pc[t] = "timedOut"
  BY DEF SwitchToActive, Goes
<1>t. /\ waitState \in [Threads -> {"active", "waiting"}]
      /\ pc \in [Threads -> Labels]
  BY DEF Inv, ThreadTypes
<1>m. /\ waitState'[t] = "active" /\ pc'[t] = (IF waitState[t] = "active" THEN "rewait" ELSE "unregister")
      /\ \A u \in Threads : u # t => waitState'[u] = waitState[u] /\ pc'[u] = pc[u]
      /\ waitState' \in [Threads -> {"active", "waiting"}]
      /\ pc' \in [Threads -> Labels]
  BY <1>t, <1>g DEF Labels, SwitchToActive, Goes
<1>1. PendingTypes' /\ ObjectTypes' /\ SystemTypes' /\ RefInv' /\ CountInv'
  BY <1>u DEF Inv, PendingTypes, ObjectTypes, SystemTypes, RefInv, CountInv
<1>2. ThreadTypes'
  BY <1>u, <1>g, <1>t, <1>m DEF Inv, ThreadTypes, Labels
<1>3. LockInv'
  BY NotThreads, <1>u, <1>g, <1>t, <1>m DEF Inv, LockInv, Registering
<1>4. CallInv'
  BY <1>u, <1>g, <1>t, <1>m DEF Inv, CallInv, Registering, Waiting, None
<1>5. QueueInv'
  BY <1>u, <1>g, <1>t, <1>m DEF Inv, QueueInv, QueuesMatchWaits, Waiting
<1>6. SignalInv'
  BY <1>u, <1>g, <1>t, <1>m DEF Inv, SignalInv, Waiting
<1>7. PendingInv'
  BY <1>u, <1>g, <1>t, <1>m DEF Inv, PendingInv, InPending, Waiting
<1>8. WatchInv'
  BY <1>u, <1>g, <1>t, <1>m DEF Inv, WatchInv, Waiting
<1>9. LookInv'
  BY <1>u, <1>g, <1>t, <1>m DEF Inv, LookInv
<1> QED
  BY <1>1, <1>2, <1>3, <1>4, <1>5, <1>6, <1>7, <1>8, <1>9 DEF Inv

\* The wait that timed out leaves the list.
LEMMA UnRegisterWaitInv ==
    ASSUME Inv, NEW t \in Threads, UnRegisterWait(t)
    PROVE  Inv'
<1>u. UNCHANGED <<lock, monLock, waitState, pred, pending, signaled, alive,
                  monitored, monCount, exited, pipe, pipeOpen, worker,
                  shutdown>>
  BY DEF UnRegisterWait, Goes, Returns, calls, native, objects, monitoring,
     threads
<1>g. pc[t] = "unregister" /\ lock = None
  BY DEF UnRegisterWait, Goes, Returns
<1>t. /\ pc \in [Threads -> Labels]
      /\ ret \in [Threads -> {None, "signaled", "timeout", "failed", "exit"}]
      /\ obj \in [Threads -> Objects \cup {None}]
      /\ tmo \in [Threads -> {None, "finite", "infinite"}]
  BY DEF Inv, ThreadTypes
<1>m. /\ pc'[t] = "return" /\ ret'[t] = "timeout" /\ obj'[t] = None /\ tmo'[t] = None
      /\ \A u \in Threads : u # t => pc'[u] = pc[u] /\ ret'[u] = ret[u] /\ obj'[u] = obj[u] /\ tmo'[u] = tmo[u]
      /\ pc' \in [Threads -> Labels]
      /\ ret' \in [Threads -> {None, "signaled", "timeout", "failed", "exit"}]
      /\ obj' \in [Threads -> Objects \cup {None}]
      /\ tmo' \in [Threads -> {None, "finite", "infinite"}]
  BY <1>t, <1>g DEF Labels, UnRegisterWait, Goes, Returns
<1> DEFINE o == obj[t]
<1>o. /\ o \in Objects /\ InSeq(t, queue[o]) /\ queue \in [Objects -> Seq(Threads)]
      /\ queue[o] \in Seq(Threads) /\ Distinct(queue[o]) /\ ~Waiting(t)
      /\ refs \in [Objects -> Int]
  BY <1>g DEF Inv, CallInv, QueueInv, QueuesMatchWaits, ObjectTypes, Waiting
<1>a. /\ Among(queue[o], Threads \ {t}) \in Seq(Threads)
      /\ Distinct(Among(queue[o], Threads \ {t}))
      /\ \A u : InSeq(u, Among(queue[o], Threads \ {t}))
                   <=> InSeq(u, queue[o]) /\ u \in Threads \ {t}
  BY <1>o, AmongIn
<1>l. Len(Among(queue[o], Threads \ {t})) = Len(queue[o]) - 1
  <2>1. Elements(queue[o]) \ (Threads \ {t}) = {t}
    BY <1>o DEF Elements, InSeq
  <2>2. Cardinality({t}) = 1
    BY FS_Singleton
  <2> QED
    BY <1>o, <2>1, <2>2, AmongLen
<1>q. /\ queue' \in [Objects -> Seq(Threads)] /\ Distinct(queue'[o])
      /\ \A u \in Threads : InSeq(u, queue'[o]) <=> InSeq(u, queue[o]) /\ u # t
      /\ Len(queue'[o]) = Len(queue[o]) - 1
      /\ \A p \in Objects : p # o => queue'[p] = queue[p]
  BY <1>o, <1>a, <1>l DEF UnRegisterWait
<1>f. /\ refs' \in [Objects -> Int] /\ refs'[o] = refs[o] - 1
      /\ \A p \in Objects : p # o => refs'[p] = refs[p]
  BY <1>o DEF UnRegisterWait
<1> HIDE DEF o
<1>1. PendingTypes' /\ SystemTypes' /\ CountInv'
  BY <1>u DEF Inv, PendingTypes, SystemTypes, CountInv
<1>2. ThreadTypes'
  BY <1>u, <1>g, <1>t, <1>m DEF Inv, ThreadTypes, Labels
<1>3. ObjectTypes'
  BY <1>u, <1>g, <1>t, <1>m, <1>q, <1>f DEF Inv, ObjectTypes
<1>4. LockInv'
  BY NotThreads, <1>u, <1>g, <1>t, <1>m DEF Inv, LockInv, Registering
<1>5. CallInv'
  BY <1>u, <1>g, <1>t, <1>m DEF Inv, CallInv, Registering, Waiting, None
<1>6. QueueInv'
  <2>1. ASSUME NEW u \in Threads, NEW p \in Objects
        PROVE  InSeq(u, queue'[p]) <=>
                  /\ obj'[u] = p
                  /\ \/ Waiting(u)' /\ waitState'[u] = "waiting"
                     \/ pc'[u] = "unregister"
    <3>1. InSeq(u, queue[p]) <=>
                  /\ obj[u] = p
                  /\ \/ Waiting(u) /\ waitState[u] = "waiting"
                     \/ pc[u] = "unregister"
      BY DEF Inv, QueueInv, QueuesMatchWaits
    <3>2. CASE u = t
      <4>1. ~Waiting(u)' /\ pc'[u] # "unregister"
        BY <1>m, <3>2 DEF Waiting
      <4> QED
        BY <1>q, <1>o, <3>1, <3>2, <4>1 DEF o
    <3>3. CASE u # t
      <4>1. Waiting(u)' <=> Waiting(u)
        BY <1>m, <3>3 DEF Waiting
      <4> QED
        BY <1>u, <1>m, <1>q, <3>1, <3>3, <4>1
    <3> QED
      BY <3>2, <3>3
  <2>2. \A p \in Objects : Distinct(queue'[p])
    BY <1>q DEF Inv, QueueInv
  <2> QED
    BY <2>1, <2>2 DEF QueueInv, QueuesMatchWaits
<1>7. SignalInv'
  BY <1>u, <1>g, <1>t, <1>m DEF Inv, SignalInv, Waiting
<1>8. PendingInv'
  BY <1>u, <1>g, <1>t, <1>m DEF Inv, PendingInv, InPending, Waiting
<1>9. RefInv'
  <2> SUFFICES ASSUME NEW p \in Objects
               PROVE  refs'[p] = 1 + Len(queue'[p]) + One(p, monitored)
                                   + One(p, exited)
    BY <1>u DEF RefInv, One
  <2>1. refs[p] = 1 + Len(queue[p]) + One(p, monitored) + One(p, exited)
    BY DEF Inv, RefInv
  <2>2. /\ Len(queue[p]) \in Nat
        /\ One(p, monitored) \in Nat /\ One(p, exited) \in Nat
    BY DEF Inv, ObjectTypes, One
  <2>3. CASE p = o
    <3>1. refs'[p] = refs[p] - 1 /\ Len(queue'[p]) = Len(queue[p]) - 1
      BY <1>q, <1>f, <2>3
    <3> QED
      BY <2>1, <2>2, <3>1
  <2>4. CASE p # o
    <3>1. refs'[p] = refs[p] /\ queue'[p] = queue[p]
      BY <1>q, <1>f, <2>4
    <3> QED
      BY <2>1, <3>1
  <2> QED
    BY <2>3, <2>4
<1>10. WatchInv'
  BY <1>u, <1>g, <1>t, <1>m DEF Inv, WatchInv, Waiting
<1>11. LookInv'
  BY <1>u, <1>g, <1>t, <1>m DEF Inv, LookInv
<1> QED
  BY <1>1, <1>2, <1>3, <1>4, <1>5, <1>6, <1>7, <1>8, <1>9, <1>10, <1>11 DEF Inv

\* A wait returns.
LEMMA ReturnInv ==
    ASSUME Inv, NEW t \in Threads, Return(t)
    PROVE  Inv'
<1>u. UNCHANGED <<lock, monLock, waitState, pred, pending, signaled, queue,
                  refs, alive, monitored, monCount, exited, pipe, pipeOpen,
                  worker, shutdown>>
  BY DEF Return, Goes, Returns, calls, native, objects, monitoring, threads
<1>g. pc[t] = "return"
  BY DEF Return, Goes, Returns
<1>t. /\ pc \in [Threads -> Labels]
      /\ ret \in [Threads -> {None, "signaled", "timeout", "failed", "exit"}]
      /\ obj \in [Threads -> Objects \cup {None}]
      /\ tmo \in [Threads -> {None, "finite", "infinite"}]
  BY DEF Inv, ThreadTypes
<1>m. /\ pc'[t] = "idle" /\ ret'[t] = None /\ obj'[t] = None /\ tmo'[t] = None
      /\ \A u \in Threads : u # t => pc'[u] = pc[u] /\ ret'[u] = ret[u] /\ obj'[u] = obj[u] /\ tmo'[u] = tmo[u]
      /\ pc' \in [Threads -> Labels]
      /\ ret' \in [Threads -> {None, "signaled", "timeout", "failed", "exit"}]
      /\ obj' \in [Threads -> Objects \cup {None}]
      /\ tmo' \in [Threads -> {None, "finite", "infinite"}]
  BY <1>t, <1>g DEF Labels, Return, Goes, Returns
<1>1. PendingTypes' /\ ObjectTypes' /\ SystemTypes' /\ RefInv' /\ CountInv'
  BY <1>u DEF Inv, PendingTypes, ObjectTypes, SystemTypes, RefInv, CountInv
<1>2. ThreadTypes'
  BY <1>u, <1>g, <1>t, <1>m DEF Inv, ThreadTypes, Labels
<1>3. LockInv'
  BY NotThreads, <1>u, <1>g, <1>t, <1>m DEF Inv, LockInv, Registering
<1>4. CallInv'
  BY <1>u, <1>g, <1>t, <1>m DEF Inv, CallInv, Registering, Waiting, None
<1>5. QueueInv'
  BY <1>u, <1>g, <1>t, <1>m DEF Inv, QueueInv, QueuesMatchWaits, Waiting
<1>6. SignalInv'
  BY <1>u, <1>g, <1>t, <1>m DEF Inv, SignalInv, Waiting
<1>7. PendingInv'
  BY <1>u, <1>g, <1>t, <1>m DEF Inv, PendingInv, InPending, Waiting
<1>8. WatchInv'
  BY <1>u, <1>g, <1>t, <1>m DEF Inv, WatchInv, Waiting
<1>9. LookInv'
  BY <1>u, <1>g, <1>t, <1>m DEF Inv, LookInv
<1> QED
  BY <1>1, <1>2, <1>3, <1>4, <1>5, <1>6, <1>7, <1>8, <1>9 DEF Inv

\* A process exits.
LEMMA ProcessExitsInv ==
    ASSUME Inv, NEW p \in Processes, ProcessExits(p)
    PROVE  Inv'
<1>u. UNCHANGED <<lock, monLock, pc, obj, tmo, ret, waitState, pred, pending,
                  signaled, queue, refs, monitored, monCount, exited, pipe,
                  pipeOpen, worker, shutdown>>
  BY DEF ProcessExits, calls, native, objects, monitoring, threads
<1>g. alive' = alive \ {p}
  BY DEF ProcessExits
<1>1. ThreadTypes' /\ PendingTypes' /\ ObjectTypes' /\ LockInv' /\ CallInv' /\
     QueueInv' /\ SignalInv' /\ PendingInv' /\ RefInv' /\ CountInv' /\ WatchInv'
     /\ LookInv'
  BY <1>u DEF Inv, ThreadTypes, PendingTypes, ObjectTypes, LockInv, CallInv,
     QueueInv, SignalInv, PendingInv, RefInv, CountInv, WatchInv, LookInv,
     Waiting, QueuesMatchWaits, InPending
<1>2. SystemTypes'
  BY <1>u, <1>g DEF Inv, SystemTypes, WorkerType
<1> QED
  BY <1>1, <1>2 DEF Inv

\* A wait finds that its process has exited.
LEMMA WaitFindsExitInv ==
    ASSUME Inv, NEW t \in Threads, NEW o \in Objects, WaitFindsExit(t, o)
    PROVE  Inv'
<1>u. UNCHANGED <<lock, monLock, pred, alive, monitored, monCount, exited, pipe,
                  pipeOpen, worker, shutdown>>
  BY DEF WaitFindsExit, Begins, calls, native, objects, monitoring, threads
<1>g. pc[t] = "idle" /\ lock = None /\ SignalObject(o, t, 0)
  BY DEF WaitFindsExit, Begins
<1>s. Signals(o, t, 0)
  BY <1>g, SignalEffect DEF Actors, Objects
<1>t. /\ pc \in [Threads -> Labels]
      /\ obj \in [Threads -> Objects \cup {None}]
      /\ tmo \in [Threads -> {None, "finite", "infinite"}]
      /\ ret \in [Threads -> {None, "signaled", "timeout", "failed", "exit"}]
  BY DEF Inv, ThreadTypes
<1>m. /\ pc' \in [Threads -> Labels] /\ pc'[t] \in {"return", "defer"}
      /\ pc'[t] = "defer" => Awakened(o) # {}
      /\ obj'[t] = o /\ obj' \in [Threads -> Objects \cup {None}]
      /\ ret'[t] = "signaled"
      /\ ret' \in [Threads -> {None, "signaled", "timeout", "failed", "exit"}]
      /\ tmo' \in [Threads -> {None, "finite", "infinite"}]
      /\ \A u \in Threads : u # t =>
            pc'[u] = pc[u] /\ obj'[u] = obj[u] /\ ret'[u] = ret[u]
  BY <1>t DEF WaitFindsExit, Releases, Goes, Returns, Labels
<1>f. \A u \in Threads : pc[u] \notin Registering /\ pc'[u] \notin Registering
  BY NotThreads, <1>g, <1>m DEF Inv, LockInv, Registering
<1>k. QueueInv' /\ SignalInv' /\ PendingInv'
  <2>1. Leaves
    BY <1>g, <1>s, <1>m DEF Leaves, Signals
  <2> QED
    BY <1>u, <1>s, <2>1, SignalKeeps DEF Actors, Objects
<1>l. RefInv'
  <2>1. One(o, exited') = One(o, exited) - 0
    BY <1>u DEF One
  <2> QED
    BY <1>u, <1>s, <2>1, SignalRefs DEF Actors, Objects
<1>1. SystemTypes' /\ CountInv'
  BY <1>u DEF Inv, SystemTypes, CountInv
<1>2. ThreadTypes'
  BY <1>u, <1>s, <1>m DEF Inv, ThreadTypes, Signals
<1>3. PendingTypes'
  BY <1>s DEF Signals, PendingTypes
<1>4. ObjectTypes'
  BY <1>s DEF Signals, ObjectTypes
<1>5. LockInv'
  BY NotThreads, <1>u, <1>g, <1>s, <1>m, <1>f DEF Inv, LockInv, Registering
<1>6. CallInv'
  <2> SUFFICES ASSUME NEW u \in Threads
               PROVE  /\ Waiting(u)' \/ pc'[u] = "unregister" => obj'[u] \in Objects
                      /\ ret'[u] # None => pc'[u] \in {"return", "defer", "ended"}
                      /\ ret'[u] = "signaled" =>
                            obj'[u] \in Objects /\ signaled'[obj'[u]]
    BY <1>f DEF CallInv
  <2>1. CASE u = t
    BY <1>s, <1>m, <2>1 DEF Signals, Waiting
  <2>2. CASE u # t
    <3>1. pc'[u] = pc[u] /\ obj'[u] = obj[u] /\ ret'[u] = ret[u]
      BY <1>m, <2>2
    <3>2. \A x \in Objects : signaled[x] => signaled'[x]
      BY <1>s DEF Signals
    <3> QED
      BY <3>1, <3>2 DEF Inv, CallInv, Waiting
  <2> QED
    BY <2>1, <2>2
<1>7. QueueInv'
  BY <1>k
<1>8. SignalInv'
  BY <1>k
<1>9. PendingInv'
  BY <1>k
<1>10. RefInv'
  BY <1>l
<1>11. WatchInv'
  BY <1>u, <1>g, <1>s, <1>m, <1>f DEF Inv, WatchInv, Waiting, Signals
<1>12. LookInv'
  BY <1>u, <1>g, <1>s, <1>m, <1>f DEF Inv, LookInv, Registering
<1> QED
  BY <1>1, <1>2, <1>3, <1>4, <1>5, <1>6, <1>7, <1>8, <1>9, <1>10, <1>11, <1>12
     DEF Inv

\* A thread ends.
LEMMA EndInv ==
    ASSUME Inv, NEW t \in Threads, InternalEndCurrentThread(t)
    PROVE  Inv'
<1>u. UNCHANGED <<lock, monLock, pred, alive, monitored, monCount, exited, pipe,
                  pipeOpen, worker, shutdown>>
  BY DEF InternalEndCurrentThread, calls, native, objects, monitoring, threads
<1>g. pc[t] = "idle" /\ lock = None /\ SignalObject(t, t, 0)
  BY DEF InternalEndCurrentThread
<1>s. Signals(t, t, 0)
  BY <1>g, SignalEffect DEF Actors, Objects
<1>t. /\ pc \in [Threads -> Labels]
      /\ obj \in [Threads -> Objects \cup {None}]
      /\ tmo \in [Threads -> {None, "finite", "infinite"}]
      /\ ret \in [Threads -> {None, "signaled", "timeout", "failed", "exit"}]
  BY DEF Inv, ThreadTypes
<1>m. /\ pc' \in [Threads -> Labels] /\ pc'[t] \in {"ended", "defer"}
      /\ pc'[t] = "defer" => Awakened(t) # {}
      /\ obj'[t] = None /\ obj' \in [Threads -> Objects \cup {None}]
      /\ ret'[t] = "exit"
      /\ ret' \in [Threads -> {None, "signaled", "timeout", "failed", "exit"}]
      /\ tmo' \in [Threads -> {None, "finite", "infinite"}]
      /\ \A u \in Threads : u # t =>
            pc'[u] = pc[u] /\ obj'[u] = obj[u] /\ ret'[u] = ret[u]
  BY <1>t DEF InternalEndCurrentThread, Releases, Goes, Returns, Labels
<1>f. \A u \in Threads : pc[u] \notin Registering /\ pc'[u] \notin Registering
  BY NotThreads, <1>g, <1>m DEF Inv, LockInv, Registering
<1>k. QueueInv' /\ SignalInv' /\ PendingInv'
  <2>1. Leaves
    BY <1>g, <1>s, <1>m DEF Leaves, Signals
  <2> QED
    BY <1>u, <1>s, <2>1, SignalKeeps DEF Actors, Objects
<1>l. RefInv'
  <2>1. One(t, exited') = One(t, exited) - 0
    BY <1>u DEF One
  <2> QED
    BY <1>u, <1>s, <2>1, SignalRefs DEF Actors, Objects
<1>1. SystemTypes' /\ CountInv'
  BY <1>u DEF Inv, SystemTypes, CountInv
<1>2. ThreadTypes'
  BY <1>u, <1>s, <1>m DEF Inv, ThreadTypes, Signals
<1>3. PendingTypes'
  BY <1>s DEF Signals, PendingTypes
<1>4. ObjectTypes'
  BY <1>s DEF Signals, ObjectTypes
<1>5. LockInv'
  BY NotThreads, <1>u, <1>g, <1>s, <1>m, <1>f DEF Inv, LockInv, Registering
<1>6. CallInv'
  <2> SUFFICES ASSUME NEW u \in Threads
               PROVE  /\ Waiting(u)' \/ pc'[u] = "unregister" => obj'[u] \in Objects
                      /\ ret'[u] # None => pc'[u] \in {"return", "defer", "ended"}
                      /\ ret'[u] = "signaled" =>
                            obj'[u] \in Objects /\ signaled'[obj'[u]]
    BY <1>f DEF CallInv
  <2>1. CASE u = t
    BY <1>s, <1>m, <2>1 DEF Signals, Waiting
  <2>2. CASE u # t
    <3>1. pc'[u] = pc[u] /\ obj'[u] = obj[u] /\ ret'[u] = ret[u]
      BY <1>m, <2>2
    <3>2. \A x \in Objects : signaled[x] => signaled'[x]
      BY <1>s DEF Signals
    <3> QED
      BY <3>1, <3>2 DEF Inv, CallInv, Waiting
  <2> QED
    BY <2>1, <2>2
<1>7. QueueInv'
  BY <1>k
<1>8. SignalInv'
  BY <1>k
<1>9. PendingInv'
  BY <1>k
<1>10. RefInv'
  BY <1>l
<1>11. WatchInv'
  BY <1>u, <1>g, <1>s, <1>m, <1>f DEF Inv, WatchInv, Waiting, Signals
<1>12. LookInv'
  BY <1>u, <1>g, <1>s, <1>m, <1>f DEF Inv, LookInv, Registering
<1> QED
  BY <1>1, <1>2, <1>3, <1>4, <1>5, <1>6, <1>7, <1>8, <1>9, <1>10, <1>11, <1>12
     DEF Inv

\* The worker signals a process that has exited.
LEMMA SignalExitedInv ==
    ASSUME Inv, NEW p \in Processes, SignalExited(p)
    PROVE  Inv'
<1>u. UNCHANGED <<lock, monLock, pc, obj, tmo, ret, pred, alive, monitored,
                  monCount, pipe, pipeOpen, worker, shutdown>>
  BY DEF SignalExited, calls, native, objects, monitoring, threads
<1>g. /\ worker.at = "signal" /\ p \in exited /\ exited' = exited \ {p}
      /\ SignalObject(p, Worker, 1)
  BY DEF SignalExited
<1>a. p \in Objects /\ Worker \in Actors
  BY DEF Objects, Actors
<1>s. Signals(p, Worker, 1)
  BY <1>g, <1>a, SignalEffect
<1>f. \A u \in Threads : pc[u] \notin Registering
  BY NotThreads, <1>g DEF Inv, LockInv
<1>k. QueueInv' /\ SignalInv' /\ PendingInv'
  <2>1. Leaves
    BY <1>u DEF Leaves
  <2> QED
    BY <1>u, <1>a, <1>s, <2>1, SignalKeeps
<1>l. RefInv'
  <2>1. One(p, exited') = One(p, exited) - 1
    BY <1>g DEF One
  <2>2. \A q \in Objects : q # p => (q \in exited' <=> q \in exited)
    BY <1>g
  <2> QED
    BY <1>u, <1>a, <1>s, <2>1, <2>2, SignalRefs
<1>w. \A u \in Threads : waitState'[u] = "waiting" =>
          /\ waitState[u] = "waiting" /\ ~(Waiting(u) /\ obj[u] = p)
  BY <1>a, <1>s, AwakenedWait DEF Signals
<1>1. LockInv' /\ LookInv'
  BY <1>u DEF Inv, LockInv, LookInv
<1>2. ThreadTypes'
  BY <1>u, <1>s DEF Inv, ThreadTypes, Signals
<1>3. PendingTypes'
  BY <1>s DEF Signals, PendingTypes
<1>4. ObjectTypes'
  BY <1>s DEF Signals, ObjectTypes
<1>5. SystemTypes'
  BY <1>u, <1>g, <1>s, <1>f DEF Inv, SystemTypes, WorkerType
<1>6. CallInv'
  BY <1>u, <1>s, <1>f DEF Inv, CallInv, Waiting, Signals
<1>7. QueueInv'
  BY <1>k
<1>8. SignalInv'
  BY <1>k
<1>9. PendingInv'
  BY <1>k
<1>10. RefInv'
  BY <1>l
<1>11. CountInv'
  BY <1>u, <1>g, <1>s, <1>f DEF Inv, CountInv
<1>12. WatchInv'
  BY <1>u, <1>g, <1>f, <1>w DEF Inv, WatchInv, Waiting, Registering
<1> QED
  BY <1>1, <1>2, <1>3, <1>4, <1>5, <1>6, <1>7, <1>8, <1>9, <1>10, <1>11, <1>12
     DEF Inv

\* The worker reads a command that tells it to look.
LEMMA ReadNopInv ==
    ASSUME Inv, worker.at = "poll", pipe # <<>>, pipe' = Tail(pipe), WorkerNop,
           UNCHANGED <<lock, monLock, pc, obj, tmo, ret, waitState, pred,
                      pending, signaled, queue, refs, alive,
                      monitored, monCount, exited, pipeOpen,
                      shutdown>>
    PROVE  Inv'
<1>u. UNCHANGED <<lock, monLock, pc, obj, tmo, ret, waitState, pred, pending,
                  signaled, queue, refs, alive, monitored, monCount, exited,
                  pipeOpen, shutdown>>
  BY DEF calls, native, objects, monitoring, threads
<1>g. pipe \in Seq({"nop", "shutdown"}) /\ Len(pipe) <= PipeSize
  BY DEF Inv, SystemTypes

<1>w. /\ worker \in WorkerType /\ worker' \in WorkerType
      /\ worker'.at = (IF worker.shuttingDown THEN "done" ELSE "scan")
      /\ worker'.timeout = worker.timeout
      /\ worker'.count = worker.count
  BY <1>g DEF Inv, SystemTypes, WorkerType, WorkerNop, WorkerGoes
<1>1. ThreadTypes' /\ PendingTypes' /\ ObjectTypes' /\ CallInv' /\ QueueInv' /\
     SignalInv' /\ PendingInv' /\ RefInv' /\ WatchInv'
  BY <1>u DEF Inv, ThreadTypes, PendingTypes, ObjectTypes, CallInv, QueueInv,
     SignalInv, PendingInv, RefInv, WatchInv, Waiting, QueuesMatchWaits,
     InPending
<1>2. SystemTypes'
  <2>1. pipe' \in Seq({"nop", "shutdown"}) /\ Len(pipe') <= PipeSize
    BY SMAssumption, <1>g
  <2> QED
    BY <1>u, <1>w, <2>1 DEF Inv, SystemTypes
<1>3. LockInv'
  BY NotThreads, <1>u, <1>w DEF Inv, LockInv, Registering
<1>4. CountInv'
  BY <1>u, <1>w DEF Inv, CountInv
<1>5. LookInv'
  BY <1>u, <1>w DEF Inv, LookInv
<1> QED
  BY <1>1, <1>2, <1>3, <1>4, <1>5 DEF Inv

\* The worker reads the command to end.
LEMMA ReadShutdownInv ==
    ASSUME Inv, worker.at = "poll", pipe # <<>>, pipe' = Tail(pipe), pipeOpen' = FALSE,
           worker' = [worker EXCEPT !.shuttingDown = TRUE, !.timeout = "short"],
           UNCHANGED <<lock, monLock, pc, obj, tmo, ret, waitState, pred,
                      pending, signaled, queue, refs, alive,
                      monitored, monCount, exited, shutdown>>
    PROVE  Inv'
<1>u. UNCHANGED <<lock, monLock, pc, obj, tmo, ret, waitState, pred, pending,
                  signaled, queue, refs, alive, monitored, monCount, exited,
                  shutdown>>
  BY DEF calls, native, objects, monitoring, threads
<1>g. pipe \in Seq({"nop", "shutdown"}) /\ Len(pipe) <= PipeSize
  BY DEF Inv, SystemTypes

<1>w. /\ worker \in WorkerType /\ worker' \in WorkerType
      /\ worker'.at = worker.at
      /\ worker'.timeout = "short"
      /\ worker'.count = worker.count
  BY <1>g DEF Inv, SystemTypes, WorkerType
<1>1. ThreadTypes' /\ PendingTypes' /\ ObjectTypes' /\ CallInv' /\ QueueInv' /\
     SignalInv' /\ PendingInv' /\ RefInv' /\ WatchInv'
  BY <1>u DEF Inv, ThreadTypes, PendingTypes, ObjectTypes, CallInv, QueueInv,
     SignalInv, PendingInv, RefInv, WatchInv, Waiting, QueuesMatchWaits,
     InPending
<1>2. SystemTypes'
  <2>1. pipe' \in Seq({"nop", "shutdown"}) /\ Len(pipe') <= PipeSize
    BY SMAssumption, <1>g
  <2> QED
    BY <1>u, <1>w, <2>1 DEF Inv, SystemTypes
<1>3. LockInv'
  BY NotThreads, <1>u, <1>w DEF Inv, LockInv, Registering
<1>4. CountInv'
  BY <1>u, <1>w DEF Inv, CountInv
<1>5. LookInv'
  BY <1>u, <1>w DEF Inv, LookInv
<1> QED
  BY <1>1, <1>2, <1>3, <1>4, <1>5 DEF Inv

\* A poll of the worker times out.
LEMMA PollTimesOutInv ==
    ASSUME Inv, PollTimesOut
    PROVE  Inv'
<1>u. UNCHANGED <<lock, monLock, pc, obj, tmo, ret, waitState, pred, pending,
                  signaled, queue, refs, alive, monitored, monCount, exited,
                  pipe, pipeOpen, shutdown>>
  BY DEF PollTimesOut, calls, native, objects, monitoring, threads
<1>g. worker.at = "poll"
  BY DEF PollTimesOut
<1>w. /\ worker \in WorkerType /\ worker' \in WorkerType
      /\ worker'.at = (IF worker.shuttingDown THEN "done" ELSE "scan")
      /\ worker'.timeout = worker.timeout
      /\ worker'.count = worker.count
  BY <1>g DEF Inv, SystemTypes, WorkerType, PollTimesOut, WorkerNop, WorkerGoes
<1>1. ThreadTypes' /\ PendingTypes' /\ ObjectTypes' /\ CallInv' /\ QueueInv' /\
     SignalInv' /\ PendingInv' /\ RefInv' /\ WatchInv'
  BY <1>u DEF Inv, ThreadTypes, PendingTypes, ObjectTypes, CallInv, QueueInv,
     SignalInv, PendingInv, RefInv, WatchInv, Waiting, QueuesMatchWaits,
     InPending
<1>2. SystemTypes'
  BY <1>u, <1>w DEF Inv, SystemTypes
<1>3. LockInv'
  BY NotThreads, <1>u, <1>g, <1>w DEF Inv, LockInv, Registering
<1>4. CountInv'
  BY <1>u, <1>g, <1>w DEF Inv, CountInv
<1>5. LookInv'
  BY <1>u, <1>g, <1>w DEF Inv, LookInv
<1> QED
  BY <1>1, <1>2, <1>3, <1>4, <1>5 DEF Inv

\* The worker looks who has exited.
LEMMA ScanInv ==
    ASSUME Inv, ScanProcesses
    PROVE  Inv'
<1>u. UNCHANGED <<lock, pc, obj, tmo, ret, waitState, pred, pending, signaled,
                  queue, refs, alive, pipe, pipeOpen, shutdown>>
  BY DEF ScanProcesses, calls, native, objects, monitoring, threads
<1>g. worker.at = "scan" /\ monLock = None /\ monLock' = Worker
  BY DEF ScanProcesses
<1> DEFINE gone == {p \in monitored : HasProcessExited(p)}
<1>s. /\ monitored' = monitored \ gone /\ exited' = exited \cup gone
      /\ monCount' = monCount - Cardinality(gone)
      /\ worker' = [worker EXCEPT !.at = "scanned",
                                  !.count = monCount - Cardinality(gone)]
  BY DEF ScanProcesses
<1>h. gone \subseteq monitored /\ monitored \subseteq Processes /\ exited = {}
  BY <1>g DEF Inv, SystemTypes, CountInv
<1> HIDE DEF gone
<1>c. /\ IsFiniteSet(monitored) /\ IsFiniteSet(gone) /\ IsFiniteSet(monitored')
      /\ Cardinality(gone) \in Nat /\ Cardinality(monitored) \in Nat
      /\ Cardinality(gone) <= Cardinality(monitored)
      /\ Cardinality(monitored') = Cardinality(monitored) - Cardinality(gone)
  <2>1. IsFiniteSet(monitored) /\ monitored \cap gone = gone
    BY <1>h, SMAssumption, FS_Subset
  <2>2. IsFiniteSet(gone) /\ Cardinality(gone) <= Cardinality(monitored)
    BY <1>h, <2>1, FS_Subset
  <2>3. /\ IsFiniteSet(monitored \ gone)
        /\ Cardinality(monitored \ gone) = Cardinality(monitored) - Cardinality(monitored \cap gone)
    BY <2>1, FS_Difference
  <2> QED
    BY <1>s, <2>1, <2>2, <2>3, FS_CardinalityType
<1>n. monCount \in Nat /\ Cardinality(monitored) <= monCount /\ monCount' \in Nat
  BY <1>s, <1>c DEF Inv, SystemTypes, CountInv

<1>w. /\ worker \in WorkerType /\ worker' \in WorkerType
      /\ worker'.at = "scanned"
      /\ worker'.timeout = worker.timeout
      /\ worker'.count = monCount'
  BY <1>g, <1>s, <1>n DEF Inv, SystemTypes, WorkerType
<1>1. ThreadTypes' /\ PendingTypes' /\ ObjectTypes' /\ CallInv' /\ QueueInv' /\
     SignalInv' /\ PendingInv'
  BY <1>u DEF Inv, ThreadTypes, PendingTypes, ObjectTypes, CallInv, QueueInv,
     SignalInv, PendingInv, Waiting, QueuesMatchWaits, InPending
<1>2. SystemTypes'
  BY <1>u, <1>g, <1>s, <1>h, <1>n, <1>w DEF Inv, SystemTypes
<1>3. LockInv'
  BY NotThreads, <1>u, <1>g, <1>s, <1>h, <1>c, <1>n, <1>w DEF Inv, LockInv,
     Registering
<1>4. RefInv'
  <2>1. \A o \in Objects : One(o, monitored') + One(o, exited') =
                              One(o, monitored) + One(o, exited)
    BY <1>s, <1>h DEF One
  <2> SUFFICES ASSUME NEW o \in Objects
               PROVE  refs[o] = 1 + Len(queue[o]) + One(o, monitored')
                                  + One(o, exited')
    BY <1>u DEF RefInv, One
  <2> DEFINE l == Len(queue[o])
             m == One(o, monitored)
             e == One(o, exited)
             mm == One(o, monitored')
             ee == One(o, exited')
  <2>2. /\ refs[o] = 1 + l + m + e /\ mm + ee = m + e
        /\ l \in Int /\ m \in Int /\ e \in Int /\ mm \in Int /\ ee \in Int
    BY <2>1 DEF Inv, RefInv, ObjectTypes, One
  <2> HIDE DEF l, m, e, mm, ee
  <2>3. refs[o] = 1 + l + mm + ee
    BY <2>2
  <2> QED
    BY <2>3 DEF l, mm, ee
<1>5. CountInv'
  BY <1>s, <1>c, <1>n, <1>w DEF CountInv
<1>6. WatchInv'
  BY <1>u, <1>s DEF Inv, WatchInv, Waiting
<1>7. LookInv'
  <2>1. monCount' = 0 => monitored' = {}
    BY <1>s, <1>c, <1>n, FS_EmptySet
  <2> QED
    BY <1>w, <2>1 DEF LookInv
<1> QED
  BY <1>1, <1>2, <1>3, <1>4, <1>5, <1>6, <1>7 DEF Inv

\* The worker has looked.
LEMMA EndScanInv ==
    ASSUME Inv, EndScan
    PROVE  Inv'
<1>u. UNCHANGED <<lock, pc, obj, tmo, ret, waitState, pred, pending, signaled,
                  queue, refs, alive, monitored, monCount, exited, pipe,
                  pipeOpen, shutdown>>
  BY DEF EndScan, calls, native, objects, monitoring, threads
<1>g. worker.at = "scanned" /\ monLock' = None
  BY DEF EndScan
<1>w. /\ worker \in WorkerType /\ worker' \in WorkerType
      /\ worker'.at = (IF exited = {} THEN "poll" ELSE "acquire")
      /\ worker'.timeout = (IF exited = {} THEN PollTimeout(worker.count) ELSE worker.timeout)
      /\ worker'.count = (IF exited = {} THEN 0 ELSE worker.count)
  BY <1>g DEF Inv, SystemTypes, WorkerType, EndScan, PollTimeout
<1>1. ThreadTypes' /\ PendingTypes' /\ ObjectTypes' /\ CallInv' /\ QueueInv' /\
     SignalInv' /\ PendingInv' /\ RefInv' /\ WatchInv'
  BY <1>u DEF Inv, ThreadTypes, PendingTypes, ObjectTypes, CallInv, QueueInv,
     SignalInv, PendingInv, RefInv, WatchInv, Waiting, QueuesMatchWaits,
     InPending
<1>2. SystemTypes'
  BY <1>u, <1>g, <1>w DEF Inv, SystemTypes
<1>3. LockInv'
  BY NotThreads, <1>u, <1>g, <1>w DEF Inv, LockInv, Registering
<1>4. CountInv'
  BY <1>u, <1>g, <1>w DEF Inv, CountInv
<1>5. LookInv'
  BY <1>u, <1>g, <1>w DEF Inv, LookInv, PollTimeout, SystemTypes, WorkerType
<1> QED
  BY <1>1, <1>2, <1>3, <1>4, <1>5 DEF Inv

\* The worker takes the synch lock.
LEMMA AcquireSynchLockInv ==
    ASSUME Inv, AcquireSynchLock
    PROVE  Inv'
<1>u. UNCHANGED <<monLock, pc, obj, tmo, ret, waitState, pred, pending,
                  signaled, queue, refs, alive, monitored, monCount, exited,
                  pipe, pipeOpen, shutdown>>
  BY DEF AcquireSynchLock, calls, native, objects, monitoring, threads
<1>g. worker.at = "acquire" /\ lock = None /\ lock' = Worker
  BY DEF AcquireSynchLock
<1>w. /\ worker \in WorkerType /\ worker' \in WorkerType
      /\ worker'.at = "acquireList"
      /\ worker'.timeout = worker.timeout
      /\ worker'.count = worker.count
  BY <1>g DEF Inv, SystemTypes, WorkerType, AcquireSynchLock, WorkerGoes
<1>1. ThreadTypes' /\ PendingTypes' /\ ObjectTypes' /\ CallInv' /\ QueueInv' /\
     SignalInv' /\ PendingInv' /\ RefInv' /\ WatchInv'
  BY <1>u DEF Inv, ThreadTypes, PendingTypes, ObjectTypes, CallInv, QueueInv,
     SignalInv, PendingInv, RefInv, WatchInv, Waiting, QueuesMatchWaits,
     InPending
<1>2. SystemTypes'
  BY <1>u, <1>g, <1>w DEF Inv, SystemTypes
<1>3. LockInv'
  BY NotThreads, <1>u, <1>g, <1>w DEF Inv, LockInv, Registering
<1>4. CountInv'
  BY <1>u, <1>g, <1>w DEF Inv, CountInv
<1>5. LookInv'
  BY <1>u, <1>g, <1>w DEF Inv, LookInv
<1> QED
  BY <1>1, <1>2, <1>3, <1>4, <1>5 DEF Inv

\* The worker takes the lock of the list.
LEMMA AcquireMonitoredLockInv ==
    ASSUME Inv, AcquireMonitoredLock
    PROVE  Inv'
<1>u. UNCHANGED <<lock, pc, obj, tmo, ret, waitState, pred, pending, signaled,
                  queue, refs, alive, monitored, monCount, exited, pipe,
                  pipeOpen, shutdown>>
  BY DEF AcquireMonitoredLock, calls, native, objects, monitoring, threads
<1>g. worker.at = "acquireList" /\ monLock' = Worker
  BY DEF AcquireMonitoredLock
<1>w. /\ worker \in WorkerType /\ worker' \in WorkerType
      /\ worker'.at = "signal"
      /\ worker'.timeout = worker.timeout
      /\ worker'.count = worker.count
  BY <1>g DEF Inv, SystemTypes, WorkerType, AcquireMonitoredLock, WorkerGoes
<1>1. ThreadTypes' /\ PendingTypes' /\ ObjectTypes' /\ CallInv' /\ QueueInv' /\
     SignalInv' /\ PendingInv' /\ RefInv' /\ WatchInv'
  BY <1>u DEF Inv, ThreadTypes, PendingTypes, ObjectTypes, CallInv, QueueInv,
     SignalInv, PendingInv, RefInv, WatchInv, Waiting, QueuesMatchWaits,
     InPending
<1>2. SystemTypes'
  BY <1>u, <1>g, <1>w DEF Inv, SystemTypes
<1>3. LockInv'
  BY NotThreads, <1>u, <1>g, <1>w DEF Inv, LockInv, Registering
<1>4. CountInv'
  BY <1>u, <1>g, <1>w DEF Inv, CountInv
<1>5. LookInv'
  BY <1>u, <1>g, <1>w DEF Inv, LookInv
<1> QED
  BY <1>1, <1>2, <1>3, <1>4, <1>5 DEF Inv

\* The worker releases both locks.
LEMMA ReleaseLocksInv ==
    ASSUME Inv, ReleaseLocks
    PROVE  Inv'
<1>u. UNCHANGED <<pc, obj, tmo, ret, waitState, pred, pending, signaled, queue,
                  refs, alive, monitored, monCount, exited, pipe, pipeOpen,
                  shutdown>>
  BY DEF ReleaseLocks, calls, native, objects, monitoring, threads
<1>g. worker.at = "signal" /\ exited = {} /\ monLock' = None /\ lock' = None
  BY DEF ReleaseLocks
<1>w. /\ worker \in WorkerType /\ worker' \in WorkerType
      /\ worker'.at = "defer"
      /\ worker'.timeout = worker.timeout
      /\ worker'.count = worker.count
  BY <1>g DEF Inv, SystemTypes, WorkerType, ReleaseLocks, WorkerGoes

<1>l. lock = Worker
  BY <1>g DEF Inv, LockInv
<1>1. ThreadTypes' /\ PendingTypes' /\ ObjectTypes' /\ CallInv' /\ QueueInv' /\
     SignalInv' /\ PendingInv' /\ RefInv' /\ WatchInv'
  BY <1>u DEF Inv, ThreadTypes, PendingTypes, ObjectTypes, CallInv, QueueInv,
     SignalInv, PendingInv, RefInv, WatchInv, Waiting, QueuesMatchWaits,
     InPending
<1>2. SystemTypes'
  BY <1>u, <1>g, <1>w DEF Inv, SystemTypes
<1>3. LockInv'
  BY NotThreads, <1>u, <1>g, <1>w, <1>l DEF Inv, LockInv, Registering
<1>4. CountInv'
  BY <1>u, <1>g, <1>w, <1>l DEF Inv, CountInv
<1>5. LookInv'
  BY <1>u, <1>g, <1>w, <1>l DEF Inv, LookInv
<1> QED
  BY <1>1, <1>2, <1>3, <1>4, <1>5 DEF Inv

\* The worker wakes one of those that it chose.
LEMMA WorkerSignalsInv ==
    ASSUME Inv, worker.at = "defer", pending[Worker] # <<>>,
           RunDeferredSignaling(Worker),
           UNCHANGED <<lock, monLock, pc, obj, tmo, ret, waitState, signaled,
                      queue, refs, alive, monitored, monCount, exited,
                      pipe, pipeOpen, worker, shutdown>>
    PROVE  Inv'
<1>u. UNCHANGED <<lock, monLock, pc, obj, tmo, ret, waitState, signaled, queue,
                  refs, alive, monitored, monCount, exited, pipe, pipeOpen,
                  worker, shutdown>>
  BY DEF calls, native, objects, monitoring, threads
<1>d. pred' \in [Threads -> BOOLEAN] /\ PendingTypes' /\ PendingInv'
  <2>1. Worker \in Actors /\ \A u \in Threads : u # Worker /\ pc'[u] = pc[u]
    BY NotThreads, <1>u DEF Actors
  <2> QED
    BY <1>u, <2>1, DeferredKeeps
<1>1. ObjectTypes' /\ SystemTypes' /\ LockInv' /\ CallInv' /\ QueueInv' /\
     SignalInv' /\ RefInv' /\ CountInv' /\ WatchInv' /\ LookInv'
  BY <1>u DEF Inv, ObjectTypes, SystemTypes, LockInv, CallInv, QueueInv,
     SignalInv, RefInv, CountInv, WatchInv, LookInv, Waiting, QueuesMatchWaits
<1>2. ThreadTypes'
  BY <1>u, <1>d DEF Inv, ThreadTypes, Labels
<1>3. PendingTypes'
  BY <1>d
<1>4. PendingInv'
  BY <1>d
<1> QED
  BY <1>1, <1>2, <1>3, <1>4 DEF Inv

\* The worker has woken all that it chose, and polls.
LEMMA WorkerPollsInv ==
    ASSUME Inv, worker.at = "defer",
           worker' = [worker EXCEPT !.at = "poll", !.count = 0,
                                   !.timeout = PollTimeout(worker.count)],
           UNCHANGED <<lock, monLock, pc, obj, tmo, ret, waitState, pred,
                      pending, signaled, queue, refs, alive,
                      monitored, monCount, exited, pipe, pipeOpen,
                      shutdown>>
    PROVE  Inv'
<1>u. UNCHANGED <<lock, monLock, pc, obj, tmo, ret, waitState, pred, pending,
                  signaled, queue, refs, alive, monitored, monCount, exited,
                  pipe, pipeOpen, shutdown>>
  BY DEF calls, native, objects, monitoring, threads
<1>w. /\ worker \in WorkerType /\ worker' \in WorkerType
      /\ worker'.at = "poll"
      /\ worker'.timeout = PollTimeout(worker.count)
      /\ worker'.count = 0
  BY DEF Inv, SystemTypes, WorkerType, PollTimeout
<1>1. ThreadTypes' /\ PendingTypes' /\ ObjectTypes' /\ CallInv' /\ QueueInv' /\
     SignalInv' /\ PendingInv' /\ RefInv' /\ WatchInv'
  BY <1>u DEF Inv, ThreadTypes, PendingTypes, ObjectTypes, CallInv, QueueInv,
     SignalInv, PendingInv, RefInv, WatchInv, Waiting, QueuesMatchWaits,
     InPending
<1>2. SystemTypes'
  BY <1>u, <1>w DEF Inv, SystemTypes
<1>3. LockInv'
  BY NotThreads, <1>u, <1>w DEF Inv, LockInv, Registering
<1>4. CountInv'
  BY <1>u, <1>w DEF Inv, CountInv
<1>5. LookInv'
  BY <1>u, <1>w DEF Inv, LookInv, PollTimeout, SystemTypes, WorkerType
<1> QED
  BY <1>1, <1>2, <1>3, <1>4, <1>5 DEF Inv

\* The list is discarded for the shutdown.
LEMMA DiscardInv ==
    ASSUME Inv, DiscardMonitoredProcesses
    PROVE  Inv'
<1>u. UNCHANGED <<lock, monLock, pc, obj, tmo, ret, waitState, pred, pending,
                  signaled, queue, alive, monCount, exited, pipe, pipeOpen,
                  worker>>
  BY DEF DiscardMonitoredProcesses, calls, native, objects, monitoring, threads
<1>g. monitored' = {} /\ shutdown' = "wake"
  BY DEF DiscardMonitoredProcesses
<1>r. refs' = [o \in Objects |-> refs[o] - One(o, monitored)]
  BY OneCount DEF DiscardMonitoredProcesses
<1>f. Cardinality({}) = 0
  BY FS_EmptySet
<1>1. ThreadTypes' /\ PendingTypes' /\ LockInv' /\ CallInv' /\ QueueInv' /\
     SignalInv' /\ PendingInv'
  BY <1>u DEF Inv, ThreadTypes, PendingTypes, LockInv, CallInv, QueueInv,
     SignalInv, PendingInv, Waiting, QueuesMatchWaits, InPending
<1>2. ObjectTypes'
  BY <1>u, <1>r DEF Inv, ObjectTypes, One
<1>3. SystemTypes'
  BY <1>u, <1>g, <1>f DEF Inv, SystemTypes, WorkerType
<1>4. RefInv'
  <2> SUFFICES ASSUME NEW o \in Objects
               PROVE  refs'[o] = 1 + Len(queue[o]) + One(o, {}) + One(o, exited)
    BY <1>u, <1>g DEF RefInv, One
  <2>1. refs[o] = 1 + Len(queue[o]) + One(o, monitored) + One(o, exited)
    BY DEF Inv, RefInv
  <2>2. /\ Len(queue[o]) \in Nat /\ One(o, monitored) \in Nat
        /\ One(o, exited) \in Nat /\ One(o, {}) = 0
    BY DEF Inv, ObjectTypes, One
  <2>3. refs'[o] = refs[o] - One(o, monitored)
    BY <1>r
  <2> QED
    BY <2>1, <2>2, <2>3
<1>5. CountInv'
  BY <1>u, <1>g, <1>f DEF Inv, CountInv, SystemTypes
<1>6. WatchInv'
  BY <1>u, <1>g, <1>f DEF Inv, WatchInv, Waiting
<1>7. LookInv'
  BY <1>u, <1>g, <1>f DEF Inv, LookInv
<1> QED
  BY <1>1, <1>2, <1>3, <1>4, <1>5, <1>6, <1>7 DEF Inv

\* The worker is told to end, if the pipe lets it.
LEMMA PrepareInv ==
    ASSUME Inv, PrepareForShutdown
    PROVE  Inv'
<1>u. UNCHANGED <<lock, monLock, pc, obj, tmo, ret, waitState, pred, pending,
                  signaled, queue, refs, alive, monitored, monCount, exited,
                  pipeOpen, worker>>
  BY DEF PrepareForShutdown, calls, native, objects, monitoring, threads
<1>g. shutdown' \in {"told", "error"}
  BY DEF PrepareForShutdown
<1>p. /\ pipe' \in Seq({"nop", "shutdown"}) /\ Len(pipe') <= PipeSize
      /\ pipe # <<>> => pipe' # <<>>
  BY SMAssumption DEF Inv, SystemTypes, PrepareForShutdown, CanWrite
<1>1. ThreadTypes' /\ PendingTypes' /\ ObjectTypes' /\ LockInv' /\ CallInv' /\
     QueueInv' /\ SignalInv' /\ PendingInv' /\ RefInv' /\ CountInv'
  BY <1>u DEF Inv, ThreadTypes, PendingTypes, ObjectTypes, LockInv, CallInv,
     QueueInv, SignalInv, PendingInv, RefInv, CountInv, Waiting,
     QueuesMatchWaits, InPending
<1>2. SystemTypes'
  BY <1>u, <1>g, <1>p DEF Inv, SystemTypes
<1>3. WatchInv'
  BY <1>u, <1>g, <1>p DEF Inv, WatchInv, Waiting
<1>4. LookInv'
  BY <1>u, <1>g, <1>p DEF Inv, LookInv
<1> QED
  BY <1>1, <1>2, <1>3, <1>4 DEF Inv

-----------------------------------------------------------------------------
(* The theorems                                                            *)

\* Nobody waits in the beginning.
LEMMA InitInv == Init => Inv
<1> SUFFICES ASSUME Init PROVE Inv
  OBVIOUS
<1>1. ThreadTypes
  <2>1. pred \in [Threads -> BOOLEAN]
    BY DEF Init
  <2> QED
    BY <2>1 DEF Init, ThreadTypes, Labels
<1>2. PendingTypes /\ ObjectTypes
  <2>1. signaled \in [Objects -> BOOLEAN]
    BY DEF Init
  <2> QED
    BY <2>1 DEF Init, PendingTypes, ObjectTypes, Actors
<1>3. SystemTypes
  BY SMAssumption DEF Init, SystemTypes, WorkerType
<1>4. LockInv /\ CallInv
  BY NotThreads DEF Init, LockInv, CallInv, Registering, Waiting, None
<1>5. (\A t : ~InSeq(t, <<>>)) /\ Distinct(<<>>)
  BY DEF InSeq, Distinct
<1>6. QueueInv /\ SignalInv
  BY <1>5 DEF Init, QueueInv, QueuesMatchWaits, SignalInv, Waiting
<1>7. PendingInv
  <2>1. \A t \in Threads : ~pred[t] /\ ~InPending(t) /\ ~Waiting(t)
    BY <1>5 DEF Init, InPending, Actors, Waiting
  <2> QED
    BY <1>5, <2>1 DEF Init, PendingInv, Actors
<1>8. RefInv
  BY DEF Init, RefInv, One
<1>9. CountInv /\ WatchInv /\ LookInv
  BY FS_EmptySet DEF Init, CountInv, WatchInv, LookInv, Waiting
<1> QED
  BY <1>1, <1>2, <1>3, <1>4, <1>6, <1>7, <1>8, <1>9 DEF Inv

\* A step that changes nothing.
LEMMA StutterInv == ASSUME Inv, UNCHANGED vars PROVE Inv'
<1>u. UNCHANGED <<lock, monLock, pc, obj, tmo, ret, waitState, pred, pending,
                  signaled, queue, refs, alive, monitored, monCount, exited, pipe,
                  pipeOpen, worker, shutdown>>
  BY DEF vars, calls, native, objects, monitoring
<1>1. /\ ThreadTypes' /\ PendingTypes' /\ ObjectTypes' /\ SystemTypes'
      /\ LockInv' /\ CallInv' /\ QueueInv' /\ SignalInv' /\ PendingInv'
  BY <1>u DEF Inv, ThreadTypes, PendingTypes, ObjectTypes, SystemTypes, LockInv,
     CallInv, QueueInv, QueuesMatchWaits, SignalInv, PendingInv, InPending, Waiting
<1>2. RefInv' /\ CountInv' /\ WatchInv' /\ LookInv'
  BY <1>u DEF Inv, RefInv, One, CountInv, WatchInv, LookInv, Waiting
<1> QED
  BY <1>1, <1>2 DEF Inv

\* A step of a thread that is in a call.
LEMMA StepInv == ASSUME Inv, NEW t \in Threads, Step(t) PROVE Inv'
<1>1. CASE RegisterProcessForMonitoring(t)
  <2>1. /\ pc[t] = "register" /\ obj[t] \in Processes
        /\ UNCHANGED <<lock, monLock, obj, tmo, ret, waitState, pred, pending,
                       signaled, queue, alive, exited, pipe, pipeOpen, worker,
                       shutdown>>
    BY <1>1 DEF RegisterProcessForMonitoring, calls, native
  <2>2. CASE obj[t] \in monitored
    <3>1. Goes(t, "enqueue") /\ UNCHANGED <<monitored, monCount, refs>>
      BY <1>1, <2>2 DEF RegisterProcessForMonitoring
    <3> QED
      BY <2>1, <2>2, <3>1, RegisterKnownInv
  <2>3. CASE obj[t] \notin monitored
    <3>1. /\ monitored' = monitored \cup {obj[t]} /\ monCount' = monCount + 1
          /\ refs' = [refs EXCEPT ![obj[t]] = @ + 1] /\ Goes(t, "notify")
      BY <1>1, <2>3 DEF RegisterProcessForMonitoring
    <3> QED
      BY <2>1, <2>3, <3>1, RegisterNewInv
  <2> QED
    BY <2>2, <2>3
<1>2. CASE WakeUpWorker(t)
  <2>1. /\ pc[t] = "notify"
        /\ UNCHANGED <<monLock, waitState, pred, pending, signaled, queue, refs,
                       alive, monitored, monCount, exited, pipeOpen, worker,
                       shutdown>>
    BY <1>2 DEF WakeUpWorker, native, objects, monitoring
  <2>2. CASE CanWrite
    <3>1. /\ pipe' = Append(pipe, "nop") /\ Goes(t, "enqueue")
          /\ UNCHANGED <<lock, obj, tmo, ret>>
      BY <1>2, <2>2 DEF WakeUpWorker, calls
    <3> QED
      BY <2>1, <2>2, <3>1, WakeUpInv
  <2>3. CASE ~CanWrite
    <3>1. /\ lock' = None /\ Goes(t, "return") /\ Returns(t, "failed", None)
          /\ UNCHANGED pipe
      BY <1>2, <2>3 DEF WakeUpWorker
    <3> QED
      BY <2>1, <2>3, <3>1, WakeUpFailsInv
  <2> QED
    BY <2>2, <2>3
<1> QED
  BY <1>1, <1>2, RegisterFailsInv, RegisterWaitingThreadInv, SignalDeferredInv,
     NativeWaitEndsInv, NativeWaitTimesOutInv, SwitchToActiveInv,
     UnRegisterWaitInv, ReturnInv DEF Step

\* A step of the worker.
LEMMA WorkerInv == ASSUME Inv, WorkerThread PROVE Inv'
<1>1. CASE ReadCmdFromProcessPipe
  <2>1. /\ worker.at = "poll" /\ pipe # <<>> /\ pipe' = Tail(pipe)
        /\ UNCHANGED <<lock, monLock, pc, obj, tmo, ret, waitState, pred, pending,
                       signaled, queue, refs, alive, monitored, monCount, exited,
                       shutdown>>
    BY <1>1 DEF ReadCmdFromProcessPipe, threads, calls, native, objects, monitoring
  <2>2. CASE WorkerNop /\ UNCHANGED pipeOpen
    BY <2>1, <2>2, ReadNopInv
  <2>3. CASE /\ pipeOpen' = FALSE
             /\ worker' = [worker EXCEPT !.shuttingDown = TRUE, !.timeout = "short"]
    BY <2>1, <2>3, ReadShutdownInv
  <2> QED
    BY <1>1, <2>2, <2>3 DEF ReadCmdFromProcessPipe
<1>2. CASE WorkerDefers
  <2>1. /\ worker.at = "defer"
        /\ UNCHANGED <<lock, monLock, pc, obj, tmo, ret, waitState, signaled, queue,
                       refs, alive, monitored, monCount, exited, pipe, pipeOpen,
                       shutdown>>
    BY <1>2 DEF WorkerDefers, threads, calls, objects, monitoring
  <2>2. CASE /\ pending[Worker] # <<>> /\ RunDeferredSignaling(Worker)
             /\ UNCHANGED worker
    BY <2>1, <2>2, WorkerSignalsInv
  <2>3. CASE /\ worker' = [worker EXCEPT !.at = "poll", !.count = 0,
                                         !.timeout = PollTimeout(worker.count)]
             /\ UNCHANGED <<pred, pending>>
    BY <2>1, <2>3, WorkerPollsInv
  <2> QED
    BY <1>2, <2>2, <2>3 DEF WorkerDefers
<1> QED
  BY <1>1, <1>2, PollTimesOutInv, ScanInv, EndScanInv, AcquireSynchLockInv,
     AcquireMonitoredLockInv, SignalExitedInv, ReleaseLocksInv
     DEF WorkerThread, DoMonitorProcesses

\* Every step of the system keeps the invariant.
LEMMA NextInv == ASSUME Inv, [Next]_vars PROVE Inv'
<1>1. ASSUME NEW t \in Threads, WaitForSingleObject(t) PROVE Inv'
  BY <1>1, WaitSucceedsInv, WaitFindsExitInv, WaitFailsInv, WaitForThreadInv,
     WaitForProcessInv DEF WaitForSingleObject
<1>2. CASE \E t \in Threads :
              WaitForSingleObject(t) \/ Step(t) \/ InternalEndCurrentThread(t)
  BY <1>1, <1>2, StepInv, EndInv
<1>3. CASE \E p \in Processes : ProcessExits(p)
  BY <1>3, ProcessExitsInv
<1> QED
  BY <1>2, <1>3, WorkerInv, DiscardInv, PrepareInv, StutterInv DEF Next

LEMMA Invariance == Spec => []Inv
BY InitInv, NextInv, PTL DEF Spec

\* The invariant has what the run checks of the lists.
LEMMA InvSound == ASSUME Inv PROVE QueuesAreSound
<1>2. ReferencesMatch
  BY OneCount DEF Inv, RefInv, ReferencesMatch
<1>3. \A o \in Objects : refs[o] \in Nat
  <2> SUFFICES ASSUME NEW o \in Objects PROVE refs[o] \in Nat
    OBVIOUS
  <2>1. Len(queue[o]) \in Nat /\ One(o, monitored) \in Nat /\ One(o, exited) \in Nat
    BY DEF Inv, ObjectTypes, One
  <2> QED
    BY <2>1 DEF Inv, RefInv
<1>4. TypeOK
  <2>1. /\ lock \in Threads \cup {Worker, None} /\ monLock \in {Worker, None}
        /\ alive \subseteq Processes /\ monitored \subseteq Processes
        /\ exited \subseteq Processes /\ monCount \in Nat
        /\ pipe \in Seq({"nop", "shutdown"}) /\ Len(pipe) <= PipeSize
        /\ pipeOpen \in BOOLEAN /\ worker \in WorkerType
        /\ shutdown \in {"no", "wake", "told", "error"}
    BY DEF Inv, SystemTypes
  <2>2. DOMAIN pending = Threads \cup {Worker}
        /\ \A a \in DOMAIN pending : pending[a] \in Seq(Threads)
    BY DEF Inv, PendingTypes, Actors
  <2>3. signaled \in [Objects -> BOOLEAN] /\ \A o \in Objects : queue[o] \in Seq(Threads)
    BY DEF Inv, ObjectTypes
  <2>4. ThreadTypes
    BY DEF Inv
  <2> QED
    BY <1>3, <2>1, <2>2, <2>3, <2>4, Zenon DEF TypeOK, ThreadTypes, WorkerType
<1>5. QueuesMatchWaits /\ SignaledHasNoWaiter
  <2>1. \A t \in Threads : Waiting(t) => (waitState[t] = "active" <=> signaled[obj[t]])
    BY DEF Inv, SignalInv
  <2> QED
    BY <2>1 DEF Inv, QueueInv, SignaledHasNoWaiter
<1>6. WaitedForIsMonitored /\ WorkerLooksAgain
  BY DEF Inv, WatchInv, LookInv, WaitedForIsMonitored, WorkerLooksAgain
<1> QED
  BY <1>2, <1>4, <1>5, <1>6 DEF QueuesAreSound

\* Whoever waits for an object that is not signaled is in its list, to be found;
\* the references count the lists, and the worker looks at every process that
\* somebody waits for.
THEOREM QueuesSound == Spec => []QueuesAreSound
BY Invariance, InvSound, PTL

\* The wake-ups of a thread are those pending and the set predicate: at most one
\* place in all the lists.
LEMMA WakeupsCount ==
    ASSUME Inv, NEW t \in Threads
    PROVE  Wakeups(t) = IF pred[t] \/ InPending(t) THEN 1 ELSE 0
<1> DEFINE W == {w \in (DOMAIN pending) \X (1..Cardinality(Threads)) :
                    w[2] \in DOMAIN pending[w[1]] /\ pending[w[1]][w[2]] = t}
<1>1. DOMAIN pending = Actors /\ \A a \in Actors : pending[a] \in Seq(Threads)
  BY DEF Inv, PendingTypes
<1>2. Wakeups(t) = Cardinality(W) + (IF pred[t] THEN 1 ELSE 0)
  BY DEF Wakeups
<1>3. CASE ~InPending(t)
  <2>1. W = {}
    BY <1>1, <1>3 DEF InPending, InSeq
  <2>2. Cardinality(W) = 0
    BY <2>1, FS_EmptySet
  <2> HIDE DEF W
  <2> QED
    BY <1>2, <1>3, <2>2
<1>4. CASE InPending(t)
  <2>1. PICK a \in Actors : InSeq(t, pending[a])
    BY <1>4 DEF InPending
  <2>2. PICK i \in DOMAIN pending[a] : pending[a][i] = t
    BY <2>1 DEF InSeq
  <2>3. i \in 1..Cardinality(Threads)
    <3>1. pending[a] \in Seq(Threads) /\ Distinct(pending[a])
      BY <1>1 DEF Inv, PendingInv
    <3>2. Elements(pending[a]) \subseteq Threads
      BY <3>1 DEF Elements
    <3>3. Len(pending[a]) = Cardinality(Elements(pending[a]))
      BY <3>1, DistinctCount
    <3>4. Len(pending[a]) <= Cardinality(Threads) /\ Cardinality(Threads) \in Nat
      BY <3>2, <3>3, SMAssumption, FS_Subset, FS_CardinalityType
    <3>5. i \in 1..Len(pending[a]) /\ Len(pending[a]) \in Nat
      BY <2>2, <3>1
    <3> QED
      BY <3>4, <3>5
  <2>4. <<a, i>> \in W
    BY <1>1, <2>2, <2>3
  <2>5. ASSUME NEW w \in W PROVE w = <<a, i>>
    <3>1. /\ w[1] \in Actors /\ w[2] \in DOMAIN pending[w[1]]
          /\ pending[w[1]][w[2]] = t /\ w = <<w[1], w[2]>>
      BY <1>1
    <3>2. InSeq(t, pending[w[1]])
      BY <3>1 DEF InSeq
    <3>3. w[1] = a
      BY <2>1, <3>1, <3>2 DEF Inv, PendingInv
    <3>4. w[2] = i
      BY <2>2, <3>1, <3>3 DEF Inv, PendingInv, Distinct
    <3> QED
      BY <3>1, <3>3, <3>4
  <2>6. W = {<<a, i>>}
    <3> HIDE DEF W
    <3> QED
      BY <2>4, <2>5
  <2>7. Cardinality(W) = 1
    BY <2>6, FS_Singleton
  <2>8. ~pred[t]
    BY <1>4 DEF Inv, PendingInv
  <2> HIDE DEF W
  <2> QED
    BY <1>2, <1>4, <2>7, <2>8
<1> QED
  BY <1>3, <1>4

\* The invariant has what the run checks of the wake-ups.
LEMMA InvTrue == ASSUME Inv PROVE WakeupsAreTrue
<1>1. WakeupsConserved
  BY WakeupsCount DEF Inv, PendingInv, WakeupsConserved
<1>2. ResultsAreTrue
  BY DEF Inv, CallInv, ResultsAreTrue
<1> QED
  BY <1>1, <1>2 DEF WakeupsAreTrue

\* A thread that was chosen has exactly one wake-up coming and any other has
\* none, and a wait that reports success waited for an object that is signaled.
THEOREM WakeupsTrue == Spec => []WakeupsAreTrue
BY Invariance, InvTrue, PTL
=============================================================================
