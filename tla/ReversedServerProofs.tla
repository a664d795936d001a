------------------------ MODULE ReversedServerProofs ------------------------
(***************************************************************************)
(* Proofs about ReversedServer, for any sets of runtimes, streams, calls   *)
(* and removers.                                                           *)
(***************************************************************************)
EXTENDS ReversedServer, SequenceTheorems, FiniteSetTheorems,
        WellFoundedInduction, TLAPS

(***************************************************************************)
(* The inductive invariant.                                                *)
(***************************************************************************)

\* The accept loop has parsed a stream and refers to a collection.
Filing == {"clear", "add", "announce"}

\* The records of the calls, the collections and the loop.
CallType ==
    [pc : {"idle", "verified", "handle", "waiting", "done", "expired", "rejected"},
     kind : {"accept", "connect", "wait"}, rt : Runtimes \cup {None},
     coll : Collections \cup {None}, got : Streams \cup {None}]

CollType ==
    [items : Seq(Streams), waiters : Seq(Calls), disposed : BOOLEAN]

LoopType ==
    [pc : {"unstarted", "accept", "parse", "clear", "add", "announce", "stopped"},
     stream : Streams \cup {None}, coll : Collections \cup {None}, new : BOOLEAN]

\* A list holds an element once.
Injective(s) == \A p, q \in 1..Len(s) : s[p] = s[q] => p = q

\* The backlog is the connections that were not accepted, and is empty once
\* the transport is closed; every open stream has an owner.
BacklogInv ==
    /\ Injective(backlog)
    /\ \A s \in Streams : st[s] = "backlog" <=> s \in Range(backlog)
    /\ \A s \in Streams : st[s] # "closed" => owner[s] \in Runtimes
    /\ disposal # "idle" => backlog = <<>> /\ transport # "open"

\* The locals of the accept loop: a stream that it alone has until it adds it,
\* and a collection that is emptied before.
LoopInv ==
    /\ loop.pc \in {"unstarted", "accept", "stopped"} => loop.stream = None
    /\ loop.pc \notin Filing => loop.coll = None
    /\ loop.pc \in {"parse"} \cup Filing =>
          loop.stream \in Streams /\ owner[loop.stream] \in Runtimes
    /\ loop.pc \in {"parse", "clear", "add"} => st[loop.stream] = "accepted"
    /\ loop.pc \in Filing => loop.coll \in Collections
    /\ loop.pc = "add" => coll[loop.coll].items = <<>>
    /\ loop.pc = "announce" => loop.new

\* Where a stream is stored: in one collection, and only while it is accepted
\* and not in the hands of the loop.
StoredInv ==
    /\ \A k \in Collections, s \in Streams : s \in Range(coll[k].items) =>
          /\ st[s] = "accepted"
          /\ loop.pc \in {"parse", "clear", "add"} => loop.stream # s
    /\ \A k, l \in Collections, s \in Streams :
          s \in Range(coll[k].items) /\ s \in Range(coll[l].items) => k = l
    /\ \A s \in Streams : st[s] = "accepted" =>
          \/ loop.pc \in {"parse", "clear", "add"} /\ loop.stream = s
          \/ \E k \in Collections : s \in Range(coll[k].items)
    /\ \A k \in Collections : Len(coll[k].items) <= 1

\* Who will dispose a collection, if not the accept loop.
Kept(k) ==
    \/ \E r \in Runtimes : dict[r] = k
    \/ k \in snapshot
    \/ \E m \in Removers : remover[m].coll = k

\* A collection that stores a stream, or that the loop is about to store one
\* in, is kept, and by more than the dictionary once DisposeAsync has copied it.
KeptInv ==
    /\ \A k \in Collections : coll[k].disposed =>
          coll[k].items = <<>> /\ coll[k].waiters = <<>>
    /\ \A k \in Collections : coll[k].items # <<>> => Kept(k)
    /\ loop.pc \in Filing /\ ~coll[loop.coll].disposed => Kept(loop.coll)
    /\ disposal \in {"collections", "flag", "done"} =>
          \A k \in Collections : coll[k].items # <<>> =>
             k \in snapshot \/ \E m \in Removers : remover[m].coll = k

\* The dictionary keeps the collections of two runtimes apart, and the loop
\* files a stream in a collection of its own runtime.
DictInv ==
    /\ \A q, r \in Runtimes : dict[q] = dict[r] /\ dict[q] # None => q = r
    /\ \A r \in Runtimes :
          loop.pc \in Filing /\ dict[r] = loop.coll => r = owner[loop.stream]
    /\ \A r \in Runtimes :
          loop.pc \in {"clear", "add"} /\ owner[loop.stream] = r
             /\ dict[r] # None /\ dict[r] # loop.coll
          => coll[dict[r]].items = <<>>
    /\ \A r \in Runtimes : dict[r] # None =>
          Range(coll[dict[r]].items) \subseteq {latest[r]}

\* The order in which DisposeAsync goes, and the loop before it.
DisposeInv ==
    /\ disposal \in {"values", "collections", "flag", "done"} =>
          loop.pc \in {"unstarted", "stopped"}
    /\ transport = "none" => loop.pc = "unstarted"
    /\ infos.disposed => disposal \in {"values", "collections", "flag", "done"}
    /\ disposal # "collections" => snapshot = {}
    /\ disposed <=> disposal = "done"

\* A call is in the list of the collection it waits for, once, and in no other.
ListInv ==
    /\ \A k \in Collections : Injective(coll[k].waiters)
    /\ Injective(infos.waiters)
    /\ \A k \in Collections, c \in Calls : c \in Range(coll[k].waiters) =>
          call[c].pc = "waiting" /\ call[c].kind # "accept" /\ call[c].coll = k
    /\ \A c \in Calls : c \in Range(infos.waiters) =>
          call[c].pc = "waiting" /\ call[c].kind = "accept"
    /\ \A c \in Calls : call[c].pc = "handle" =>
          call[c].kind # "accept" /\ call[c].coll \in Collections
    /\ \A c \in Calls : call[c].pc = "waiting" /\ call[c].kind # "accept" =>
          call[c].coll \in Collections
    /\ \A c \in Calls : call[c].pc = "verified" => call[c].rt \in Runtimes
    /\ WaitersAreListed

\* A stream is held exactly when one call got it.
HeldInv ==
    /\ \A c \in Calls : call[c].got # None =>
          call[c].pc = "done" /\ st[call[c].got] = "held"
    /\ \A c, d \in Calls : call[c].got = call[d].got /\ call[c].got # None => c = d
    /\ \A s \in Streams : st[s] = "held" => \E c \in Calls : call[c].got = s

\* A remover holds the collection it has to dispose.
RemoverInv ==
    \A m \in Removers : IF remover[m].pc = "dispose"
                        THEN remover[m].coll \in Collections
                        ELSE remover[m].coll = None

\* The announcement that the accept loop is about to make.
Pending(r) ==
    IF loop.pc \in Filing /\ loop.new /\ owner[loop.stream] = r THEN 1 ELSE 0

\* Each announcement is paid for by the collection that it came with.
Paid(r) ==
    /\ announced[r] + Pending(r) <= removed[r] + 1
    /\ disposal \notin {"flag", "done"} /\ dict[r] = None =>
          announced[r] + Pending(r) <= removed[r]

PaidInv == \A r \in Runtimes : Paid(r)

Inv ==
    /\ TypeOK /\ BacklogInv /\ LoopInv /\ StoredInv /\ KeptInv /\ DictInv
    /\ DisposeInv /\ ListInv /\ HeldInv /\ RemoverInv /\ PaidInv

-----------------------------------------------------------------------------
(* Lists                                                                   *)

\* A set of numbers that is not empty has a least one.
LEMMA MinProperties ==
    ASSUME NEW S \in SUBSET Nat, S # {}
    PROVE  Min(S) \in S /\ \A y \in S : Min(S) <= y
<1> DEFINE R == OpToRel(<, Nat)
<1>1. \E x \in S : \A y \in S : ~(<<y, x>> \in R)
  BY NatLessThanWellFounded, WFMin, Zenon
<1>2. \A x, y \in Nat : <<y, x>> \in R <=> y < x
  BY DEF OpToRel
<1> HIDE DEF R
<1>3. PICK x \in S : \A y \in S : ~(<<y, x>> \in R)
  BY <1>1
<1>4. ASSUME NEW y \in S PROVE x <= y
  <2>1. ~(y < x) /\ x \in Nat /\ y \in Nat
    BY <1>2, <1>3
  <2> QED
    BY <2>1
<1> QED
  BY <1>4 DEF Min

\* What is in a list, and that nothing is in an empty one.
LEMMA RangeProperties ==
    ASSUME NEW S, NEW s \in Seq(S)
    PROVE  /\ Len(s) \in Nat
           /\ \A e : e \in Range(s) <=> \E p \in 1..Len(s) : s[p] = e
           /\ Range(s) \subseteq S
           /\ s = <<>> <=> Range(s) = {}
<1>1. Len(s) \in Nat /\ DOMAIN s = 1..Len(s) /\ s \in [1..Len(s) -> S]
  BY LenProperties
<1>2. \A e : e \in Range(s) <=> \E p \in 1..Len(s) : s[p] = e
  BY <1>1 DEF Range
<1>3. Range(s) \subseteq S
  BY <1>1 DEF Range
<1>4. s = <<>> <=> Len(s) = 0
  BY EmptySeq
<1>5. Range(s) = {} <=> Len(s) = 0
  BY <1>1, <1>2
<1> QED
  BY <1>1, <1>2, <1>3, <1>4, <1>5

LEMMA EmptyList == Range(<<>>) = {} /\ Len(<<>>) = 0 /\ \A S : <<>> \in Seq(S)
BY EmptySeq DEF Range

\* List.Add.
LEMMA AppendList ==
    ASSUME NEW S, NEW s \in Seq(S), NEW e \in S
    PROVE  /\ Append(s, e) \in Seq(S)
           /\ Len(Append(s, e)) = Len(s) + 1
           /\ Range(Append(s, e)) = Range(s) \cup {e}
           /\ Append(s, e) # <<>>
           /\ Injective(s) /\ e \notin Range(s) => Injective(Append(s, e))
<1> DEFINE r == Append(s, e)
<1>1. /\ r \in Seq(S)
      /\ Len(r) = Len(s) + 1
      /\ \A p \in 1..Len(s) : r[p] = s[p]
      /\ r[Len(s) + 1] = e
  BY AppendProperties
<1>2. Len(s) \in Nat /\ \A x : x \in Range(s) <=> \E p \in 1..Len(s) : s[p] = x
  BY RangeProperties
<1> HIDE DEF r
<1>3. \A x : x \in Range(r) <=> \E p \in 1..Len(r) : r[p] = x
  BY <1>1, RangeProperties
<1>4. Range(r) = Range(s) \cup {e}
  BY <1>1, <1>2, <1>3
<1>5. ASSUME Injective(s), e \notin Range(s) PROVE Injective(r)
  BY <1>1, <1>2, <1>5 DEF Injective
<1>6. r # <<>>
  BY <1>1, <1>2, EmptyList
<1> QED
  BY <1>1, <1>4, <1>5, <1>6 DEF r

\* The end of a list, from position a + 1 on.
LEMMA SuffixOfList ==
    ASSUME NEW S, NEW s \in Seq(S), NEW a \in 0..Len(s), Injective(s)
    PROVE  /\ SubSeq(s, a + 1, Len(s)) \in Seq(S)
           /\ Range(SubSeq(s, a + 1, Len(s))) = Range(s) \ {s[p] : p \in 1..a}
           /\ Injective(SubSeq(s, a + 1, Len(s)))
<1> DEFINE r == SubSeq(s, a + 1, Len(s))
<1>1. Len(s) \in Nat /\ \A x : x \in Range(s) <=> \E p \in 1..Len(s) : s[p] = x
  BY RangeProperties
<1>2. \A p \in (a + 1)..Len(s) : s[p] \in S
  BY <1>1, ElementOfSeq
<1>3. /\ r \in Seq(S)
      /\ Len(r) = Len(s) - a
      /\ \A p \in 1..(Len(s) - a) : r[p] = s[p + a]
  BY <1>1, <1>2, SubSeqProperties
<1> HIDE DEF r
<1>4. \A x : x \in Range(r) <=> \E p \in 1..Len(r) : r[p] = x
  BY <1>3, RangeProperties
<1>5. ASSUME NEW x PROVE x \in Range(r) <=> \E p \in (a + 1)..Len(s) : s[p] = x
  <2>1. ASSUME NEW p \in (a + 1)..Len(s) PROVE r[p - a] = s[p] /\ p - a \in 1..Len(r)
    BY <1>1, <1>3
  <2>2. ASSUME NEW p \in 1..Len(r) PROVE r[p] = s[p + a] /\ p + a \in (a + 1)..Len(s)
    BY <1>1, <1>3
  <2>3. ASSUME NEW p \in (a + 1)..Len(s), s[p] = x PROVE x \in Range(r)
    BY <1>4, <2>1, <2>3
  <2>4. ASSUME x \in Range(r) PROVE \E p \in (a + 1)..Len(s) : s[p] = x
    BY <1>4, <2>2, <2>4
  <2> QED
    BY <2>3, <2>4
<1>6. Range(r) = Range(s) \ {s[p] : p \in 1..a}
  <2>1. ASSUME NEW x PROVE x \in Range(r) <=> x \in Range(s) \ {s[p] : p \in 1..a}
    BY <1>1, <1>5 DEF Injective
  <2> QED
    BY <2>1
<1>7. Injective(r)
  <2> SUFFICES ASSUME NEW p \in 1..Len(r), NEW q \in 1..Len(r), r[p] = r[q]
               PROVE  p = q
    BY DEF Injective
  <2>1. s[p + a] = s[q + a] /\ p + a \in 1..Len(s) /\ q + a \in 1..Len(s)
    BY <1>1, <1>3
  <2>2. p + a = q + a
    BY <2>1 DEF Injective
  <2> QED
    BY <1>1, <1>3, <2>2
<1> QED
  BY <1>3, <1>6, <1>7 DEF r

\* The list without its first element.
LEMMA TailOfList ==
    ASSUME NEW S, NEW s \in Seq(S), s # <<>>
    PROVE  /\ Head(s) \in S /\ Head(s) \in Range(s)
           /\ Tail(s) \in Seq(S) /\ Len(Tail(s)) = Len(s) - 1
           /\ Injective(s) => /\ Range(Tail(s)) = Range(s) \ {Head(s)}
                              /\ Injective(Tail(s))
<1>1. /\ Head(s) \in S
      /\ Tail(s) \in Seq(S)
      /\ Len(Tail(s)) = Len(s) - 1
      /\ \A i \in 1..Len(Tail(s)) : Tail(s)[i] = s[i + 1]
  BY HeadTailProperties
<1>2. Head(s) = s[1]
  OBVIOUS
<1>3. /\ Len(s) \in Nat /\ Len(s) # 0
      /\ \A x : x \in Range(s) <=> \E p \in 1..Len(s) : s[p] = x
  BY RangeProperties, EmptySeq
<1>4. ASSUME Injective(s)
      PROVE Range(Tail(s)) = Range(s) \ {Head(s)} /\ Injective(Tail(s))
  <2>1. \A x : x \in Range(Tail(s)) <=> \E p \in 1..Len(Tail(s)) : Tail(s)[p] = x
    BY <1>1, RangeProperties
  <2>2. ASSUME NEW x \in Range(s), x # Head(s) PROVE x \in Range(Tail(s))
    <3>1. PICK p \in 1..Len(s) : s[p] = x
      BY <1>3
    <3>2. p - 1 \in 1..Len(Tail(s)) /\ Tail(s)[p - 1] = x
      BY <1>1, <1>2, <1>3, <2>2, <3>1
    <3> QED
      BY <2>1, <3>2
  <2>3. ASSUME NEW x \in Range(Tail(s)) PROVE x \in Range(s) /\ x # Head(s)
    <3>1. PICK p \in 1..Len(Tail(s)) : Tail(s)[p] = x
      BY <2>1
    <3>2. s[p + 1] = x /\ p + 1 \in 1..Len(s) /\ 1 \in 1..Len(s) /\ p + 1 # 1
      BY <1>1, <1>3, <3>1
    <3> QED
      BY <1>2, <1>3, <1>4, <3>2 DEF Injective
  <2>4. Injective(Tail(s))
    <3> SUFFICES ASSUME NEW p \in 1..Len(Tail(s)), NEW q \in 1..Len(Tail(s)),
                        Tail(s)[p] = Tail(s)[q]
                 PROVE  p = q
      BY DEF Injective
    <3>1. s[p + 1] = s[q + 1] /\ p + 1 \in 1..Len(s) /\ q + 1 \in 1..Len(s)
      BY <1>1, <1>3
    <3>2. p + 1 = q + 1
      BY <1>4, <3>1 DEF Injective
    <3> QED
      BY <1>1, <1>3, <3>2
  <2> QED
    BY <2>2, <2>3, <2>4
<1>5. Head(s) \in Range(s)
  BY <1>2, <1>3
<1> QED
  BY <1>1, <1>4, <1>5

\* A list without one of its elements.
LEMMA RemoveFromList ==
    ASSUME NEW S, NEW s \in Seq(S), NEW e, Injective(s)
    PROVE  /\ RemoveFirst(s, e) \in Seq(S)
           /\ Range(RemoveFirst(s, e)) = Range(s) \ {e}
           /\ Injective(RemoveFirst(s, e))
<1>1. Len(s) \in Nat /\ \A x : x \in Range(s) <=> \E p \in 1..Len(s) : s[p] = x
  BY RangeProperties
<1>2. CASE ~(\E p \in 1..Len(s) : s[p] = e)
  BY <1>1, <1>2 DEF RemoveFirst
<1>3. CASE \E p \in 1..Len(s) : s[p] = e
  <2>1. PICK k \in 1..Len(s) : s[k] = e /\ RemoveFirst(s, e) = RemoveAt(s, k)
    <3> DEFINE I == {p \in 1..Len(s) : s[p] = e}
    <3>1. I \in SUBSET Nat /\ I # {}
      BY <1>1, <1>3
    <3>2. RemoveFirst(s, e) = RemoveAt(s, Min(I))
      BY <1>3, <3>1 DEF RemoveFirst, SelectInSeq
    <3>3. Min(I) \in I
      BY <3>1, MinProperties
    <3> QED
      BY <3>2, <3>3
  <2> DEFINE a == SubSeq(s, 1, k - 1)
             b == SubSeq(s, k + 1, Len(s))
             r == a \o b
  <2>2. \A p \in 1..Len(s) : s[p] \in S
    BY <1>1, ElementOfSeq
  <2>3. /\ a \in Seq(S) /\ Len(a) = k - 1
        /\ \A p \in 1..(k - 1) : a[p] = s[p]
    <3>1. \A p \in 1..(k - 1) : s[p] \in S
      BY <1>1, <2>2
    <3> QED
      BY <1>1, <3>1, SubSeqProperties
  <2>4. /\ b \in Seq(S) /\ Len(b) = Len(s) - k
        /\ \A p \in 1..(Len(s) - k) : b[p] = s[k + p]
    <3>1. \A p \in (k + 1)..Len(s) : s[p] \in S
      BY <1>1, <2>2
    <3> QED
      BY <1>1, <3>1, SubSeqProperties
  <2>5. RemoveFirst(s, e) = r
    BY <2>1 DEF RemoveAt
  <2> HIDE DEF a, b
  <2>6. /\ r \in Seq(S)
        /\ Len(r) = Len(a) + Len(b)
        /\ \A p \in 1..(Len(a) + Len(b)) :
              r[p] = IF p <= Len(a) THEN a[p] ELSE b[p - Len(a)]
    BY <2>3, <2>4, ConcatProperties
  <2> HIDE DEF r
  <2>7. Len(r) = Len(s) - 1
    BY <1>1, <2>3, <2>4, <2>6
  <2>8. ASSUME NEW p \in 1..Len(r) PROVE r[p] = IF p < k THEN s[p] ELSE s[p + 1]
    <3>1. CASE p < k
      BY <1>1, <2>3, <2>6, <3>1
    <3>2. CASE p >= k
      <4>1. r[p] = b[p - (k - 1)]
        BY <1>1, <2>3, <2>6, <3>2
      <4>2. p - (k - 1) \in 1..(Len(s) - k) /\ k + (p - (k - 1)) = p + 1
        BY <1>1, <2>7, <3>2
      <4>3. b[p - (k - 1)] = s[k + (p - (k - 1))]
        BY <2>4, <4>2
      <4> QED
        BY <1>1, <2>7, <3>2, <4>1, <4>2, <4>3
    <3> QED
      BY <1>1, <2>7, <3>1, <3>2
  <2>9. \A x : x \in Range(r) <=> \E p \in 1..Len(r) : r[p] = x
    BY <2>6, RangeProperties
  <2>10. ASSUME NEW x \in Range(s), x # e PROVE x \in Range(r)
    <3>1. PICK p \in 1..Len(s) : s[p] = x
      BY <1>1
    <3>2. CASE p < k
      <4>1. p \in 1..Len(r) /\ r[p] = x
        BY <1>1, <2>7, <2>8, <3>1, <3>2
      <4> QED
        BY <2>9, <4>1
    <3>3. CASE p > k
      <4>1. p - 1 \in 1..Len(r) /\ r[p - 1] = x
        BY <1>1, <2>7, <2>8, <3>1, <3>3
      <4> QED
        BY <2>9, <4>1
    <3>4. p # k
      BY <2>1, <2>10, <3>1
    <3> QED
      BY <1>1, <3>2, <3>3, <3>4
  <2>11. ASSUME NEW x \in Range(r) PROVE x \in Range(s) /\ x # e
    <3>1. PICK p \in 1..Len(r) : r[p] = x
      BY <2>9
    <3>2. \E q \in 1..Len(s) : q # k /\ s[q] = x
      BY <1>1, <2>7, <2>8, <3>1
    <3> QED
      BY <1>1, <2>1, <3>2 DEF Injective
  <2>12. Injective(r)
    BY <1>1, <2>7, <2>8 DEF Injective
  <2>13. Range(r) = Range(s) \ {e}
    BY <2>10, <2>11
  <2> QED
    BY <2>5, <2>6, <2>12, <2>13
<1> QED
  BY <1>2, <1>3

\* A list of at most one stream.
LEMMA ShortList ==
    ASSUME NEW S, NEW s \in Seq(S), Len(s) <= 1
    PROVE  /\ Injective(s)
           /\ s # <<>> => Range(s) = {Head(s)} /\ Tail(s) = <<>>
           /\ SubSeq(s, 1, Len(s)) = s
<1>1. Len(s) \in Nat /\ \A x : x \in Range(s) <=> \E p \in 1..Len(s) : s[p] = x
  BY RangeProperties
<1>2. Injective(s)
  BY <1>1 DEF Injective
<1>3. ASSUME s # <<>> PROVE Range(s) = {Head(s)} /\ Tail(s) = <<>>
  <2>1. Len(s) = 1
    BY <1>1, <1>3, EmptySeq
  <2>2. Head(s) = s[1]
    OBVIOUS
  <2>3. Tail(s) \in Seq(S) /\ Len(Tail(s)) = 0
    BY <1>3, <2>1, TailOfList
  <2>4. Range(s) = {Head(s)}
    BY <1>1, <2>1, <2>2
  <2> QED
    BY <2>3, <2>4, EmptySeq
<1>4. SubSeq(s, 1, Len(s)) = s
  BY SubSeqFull
<1> QED
  BY <1>2, <1>3, <1>4

-----------------------------------------------------------------------------
(* The steps *)

\* A runtime connects on a closed stream that nobody refers to.
LEMMA RuntimeConnectInv ==
    ASSUME Inv, NEW r \in Runtimes, RuntimeConnect(r)
    PROVE  Inv'
<1>a. PICK s \in Streams :
         /\ st[s] = "closed" /\ loop.stream # s /\ transport = "open"
         /\ conn' = [conn EXCEPT ![r] = s]
         /\ owner' = [owner EXCEPT ![s] = r]
         /\ alive' = [alive EXCEPT ![s] = TRUE]
         /\ st' = [st EXCEPT ![s] = "backlog"]
         /\ backlog' = Append(backlog, s)
         /\ UNCHANGED <<loop, dict, coll, latest>>
  BY DEF RuntimeConnect, history
<1>b. /\ backlog' \in Seq(Streams)
      /\ Range(backlog') = Range(backlog) \cup {s}
      /\ Injective(backlog) /\ s \notin Range(backlog) => Injective(backlog')
  BY <1>a, AppendList DEF Inv, TypeOK
<1>1. TypeOK'
  BY <1>a, <1>b DEF Inv, TypeOK, RuntimeConnect, world, closing, history
<1>2. BacklogInv'
  BY <1>a, <1>b DEF Inv, BacklogInv, TypeOK, RuntimeConnect, world, closing,
     history
<1>3. LoopInv'
  BY <1>a, <1>b DEF Inv, LoopInv, Filing, TypeOK, RuntimeConnect, world,
     closing, history
<1>4. StoredInv'
  BY <1>a, <1>b DEF Inv, StoredInv, TypeOK, LoopInv, Filing, RuntimeConnect,
     world, closing, history
<1>5. KeptInv'
  BY DEF Inv, KeptInv, Kept, Filing, RuntimeConnect, world, closing, history
<1>6. DictInv'
  <2>1. loop.pc \in Filing => owner'[loop.stream] = owner[loop.stream]
    BY <1>a DEF Inv, TypeOK, LoopInv, Filing
  <2> QED
    BY <1>a, <2>1 DEF Inv, DictInv, Filing
<1>7. DisposeInv'
  BY DEF Inv, DisposeInv, RuntimeConnect, world, closing, history
<1>8. ListInv'
  BY DEF Inv, ListInv, WaitersAreListed, RuntimeConnect, world, closing,
     history
<1>9. HeldInv'
  BY <1>a, <1>b DEF Inv, HeldInv, TypeOK, RuntimeConnect, world, closing,
     history
<1>10. RemoverInv'
  BY DEF Inv, RemoverInv, RuntimeConnect, world, closing, history
<1>11. PaidInv'
  BY <1>a, <1>b DEF Inv, PaidInv, Paid, Pending, Filing, TypeOK, LoopInv,
     RuntimeConnect, world, closing, history
<1> QED
  BY <1>1, <1>2, <1>3, <1>4, <1>5, <1>6, <1>7, <1>8, <1>9, <1>10, <1>11 DEF
     Inv

\* The server has used or closed the connection of a runtime.
LEMMA RuntimeMovesOnInv ==
    ASSUME Inv, NEW r \in Runtimes, RuntimeMovesOn(r)
    PROVE  Inv'
<1>1. TypeOK'
  BY DEF Inv, TypeOK, RuntimeMovesOn, world, closing, history
<1>2. BacklogInv'
  BY DEF Inv, BacklogInv, RuntimeMovesOn, world, closing, history
<1>3. LoopInv'
  BY DEF Inv, LoopInv, Filing, RuntimeMovesOn, world, closing, history
<1>4. StoredInv'
  BY DEF Inv, StoredInv, RuntimeMovesOn, world, closing, history
<1>5. KeptInv'
  BY DEF Inv, KeptInv, Kept, Filing, RuntimeMovesOn, world, closing, history
<1>6. DictInv'
  BY DEF Inv, DictInv, Filing, RuntimeMovesOn, world, closing, history
<1>7. DisposeInv'
  BY DEF Inv, DisposeInv, RuntimeMovesOn, world, closing, history
<1>8. ListInv'
  BY DEF Inv, ListInv, WaitersAreListed, RuntimeMovesOn, world, closing,
     history
<1>9. HeldInv'
  BY DEF Inv, HeldInv, RuntimeMovesOn, world, closing, history
<1>10. RemoverInv'
  BY DEF Inv, RemoverInv, RuntimeMovesOn, world, closing, history
<1>11. PaidInv'
  BY DEF Inv, PaidInv, Paid, Pending, Filing, RuntimeMovesOn, world, closing,
     history
<1> QED
  BY <1>1, <1>2, <1>3, <1>4, <1>5, <1>6, <1>7, <1>8, <1>9, <1>10, <1>11 DEF
     Inv

\* A runtime loses its connection: the server does not notice yet.
LEMMA RuntimeDropsInv ==
    ASSUME Inv, NEW r \in Runtimes, RuntimeDrops(r)
    PROVE  Inv'
<1>1. TypeOK'
  BY SMTT(20) DEF Inv, TypeOK, RuntimeDrops, world, closing, history
<1>2. BacklogInv'
  BY DEF Inv, BacklogInv, RuntimeDrops, world, closing, history
<1>3. LoopInv'
  BY DEF Inv, LoopInv, Filing, RuntimeDrops, world, closing, history
<1>4. StoredInv'
  BY DEF Inv, StoredInv, RuntimeDrops, world, closing, history
<1>5. KeptInv'
  BY DEF Inv, KeptInv, Kept, Filing, RuntimeDrops, world, closing, history
<1>6. DictInv'
  BY DEF Inv, DictInv, Filing, RuntimeDrops, world, closing, history
<1>7. DisposeInv'
  BY DEF Inv, DisposeInv, RuntimeDrops, world, closing, history
<1>8. ListInv'
  BY DEF Inv, ListInv, WaitersAreListed, RuntimeDrops, world, closing,
     history
<1>9. HeldInv'
  BY DEF Inv, HeldInv, RuntimeDrops, world, closing, history
<1>10. RemoverInv'
  BY DEF Inv, RemoverInv, RuntimeDrops, world, closing, history
<1>11. PaidInv'
  BY DEF Inv, PaidInv, Paid, Pending, Filing, RuntimeDrops, world, closing,
     history
<1> QED
  BY <1>1, <1>2, <1>3, <1>4, <1>5, <1>6, <1>7, <1>8, <1>9, <1>10, <1>11 DEF
     Inv

\* Start opens the transport and starts the accept loop.
LEMMA StartInv ==
    ASSUME Inv, Start
    PROVE  Inv'
<1>a. /\ loop.pc = "unstarted" /\ loop'.pc = "accept"
      /\ UNCHANGED <<st, coll, dict, owner, latest>>
  BY DEF Start, AtAccept, Inv, DisposeInv, world, history
<1>1. TypeOK'
  BY DEF Inv, TypeOK, Start, AtAccept, world, closing, history
<1>2. BacklogInv'
  BY DEF Inv, BacklogInv, TypeOK, Start, AtAccept, world, closing, history
<1>3. LoopInv'
  BY DEF Inv, LoopInv, Filing, TypeOK, Start, AtAccept, world, closing,
     history
<1>4. StoredInv'
  BY <1>a DEF Inv, StoredInv
<1>5. KeptInv'
  BY DEF Inv, KeptInv, Kept, Filing, TypeOK, LoopInv, Start, AtAccept, world,
     closing, history
<1>6. DictInv'
  BY <1>a DEF Inv, DictInv, Filing
<1>7. DisposeInv'
  BY DEF Inv, DisposeInv, TypeOK, Start, AtAccept, world, closing, history
<1>8. ListInv'
  BY DEF Inv, ListInv, WaitersAreListed, Start, world, closing, history
<1>9. HeldInv'
  BY DEF Inv, HeldInv, Start, world, closing, history
<1>10. RemoverInv'
  BY DEF Inv, RemoverInv, Start, world, closing, history
<1>11. PaidInv'
  BY DEF Inv, PaidInv, Paid, Pending, Filing, TypeOK, LoopInv, Start,
     AtAccept, world, closing, history
<1> QED
  BY <1>1, <1>2, <1>3, <1>4, <1>5, <1>6, <1>7, <1>8, <1>9, <1>10, <1>11 DEF
     Inv

\* The accept loop sees the cancellation.
LEMMA AcceptStopInv ==
    ASSUME Inv, AcceptStop
    PROVE  Inv'
<1>t. /\ call \in [Calls -> CallType] /\ coll \in [Collections -> CollType]
      /\ loop \in LoopType /\ dict \in [Runtimes -> Collections \cup {None}]
  BY DEF Inv, TypeOK, CallType, CollType, LoopType

<1>a. loop.pc = "accept" /\ loop'.pc = "stopped" /\ UNCHANGED <<dict, coll, latest, owner>>
  BY <1>t DEF AcceptStop, LoopType, world, history
<1>1. TypeOK'
  BY DEF Inv, TypeOK, AcceptStop, world, closing, history
<1>2. BacklogInv'
  BY DEF Inv, BacklogInv, AcceptStop, world, closing, history
<1>3. LoopInv'
  BY DEF Inv, LoopInv, Filing, TypeOK, AcceptStop, world, closing, history
<1>4. StoredInv'
  BY DEF Inv, StoredInv, TypeOK, LoopInv, Filing, AcceptStop, world, closing,
     history
<1>5. KeptInv'
  BY DEF Inv, KeptInv, Kept, Filing, TypeOK, LoopInv, AcceptStop, world,
     closing, history
<1>6. DictInv'
  BY <1>a DEF Inv, DictInv, Filing
<1>7. DisposeInv'
  BY DEF Inv, DisposeInv, TypeOK, AcceptStop, world, closing, history
<1>8. ListInv'
  BY DEF Inv, ListInv, WaitersAreListed, AcceptStop, world, closing, history
<1>9. HeldInv'
  BY DEF Inv, HeldInv, AcceptStop, world, closing, history
<1>10. RemoverInv'
  BY DEF Inv, RemoverInv, AcceptStop, world, closing, history
<1>11. PaidInv'
  BY DEF Inv, PaidInv, Paid, Pending, Filing, TypeOK, LoopInv, AcceptStop,
     world, closing, history
<1> QED
  BY <1>1, <1>2, <1>3, <1>4, <1>5, <1>6, <1>7, <1>8, <1>9, <1>10, <1>11 DEF
     Inv

\* DisposeAsync cancels _disposalSource.
LEMMA CancelInv ==
    ASSUME Inv, Cancel
    PROVE  Inv'
<1>1. TypeOK'
  BY DEF Inv, TypeOK, Cancel, world, closing, history
<1>2. BacklogInv'
  BY DEF Inv, BacklogInv, TypeOK, Cancel, world, closing, history
<1>3. LoopInv'
  BY DEF Inv, LoopInv, Filing, Cancel, world, closing, history
<1>4. StoredInv'
  BY DEF Inv, StoredInv, Cancel, world, closing, history
<1>5. KeptInv'
  BY DEF Inv, KeptInv, Kept, Filing, TypeOK, LoopInv, Cancel, world, closing,
     history
<1>6. DictInv'
  BY DEF Inv, DictInv, Filing, Cancel, world, closing, history
<1>7. DisposeInv'
  BY DEF Inv, DisposeInv, TypeOK, Cancel, world, closing, history
<1>8. ListInv'
  BY DEF Inv, ListInv, WaitersAreListed, Cancel, world, closing, history
<1>9. HeldInv'
  BY DEF Inv, HeldInv, Cancel, world, closing, history
<1>10. RemoverInv'
  BY DEF Inv, RemoverInv, Cancel, world, closing, history
<1>11. PaidInv'
  BY DEF Inv, PaidInv, Paid, Pending, Filing, TypeOK, LoopInv, Cancel, world,
     closing, history
<1> QED
  BY <1>1, <1>2, <1>3, <1>4, <1>5, <1>6, <1>7, <1>8, <1>9, <1>10, <1>11 DEF
     Inv

\* DisposeAsync sets _disposed last.
LEMMA SetDisposedInv ==
    ASSUME Inv, SetDisposed
    PROVE  Inv'
<1>1. TypeOK'
  BY DEF Inv, TypeOK, SetDisposed, world, closing, history
<1>2. BacklogInv'
  BY DEF Inv, BacklogInv, TypeOK, SetDisposed, world, closing, history
<1>3. LoopInv'
  BY DEF Inv, LoopInv, Filing, SetDisposed, world, closing, history
<1>4. StoredInv'
  BY DEF Inv, StoredInv, SetDisposed, world, closing, history
<1>5. KeptInv'
  BY DEF Inv, KeptInv, Kept, Filing, TypeOK, LoopInv, SetDisposed, world,
     closing, history
<1>6. DictInv'
  BY DEF Inv, DictInv, Filing, SetDisposed, world, closing, history
<1>7. DisposeInv'
  BY DEF Inv, DisposeInv, TypeOK, SetDisposed, world, closing, history
<1>8. ListInv'
  BY DEF Inv, ListInv, WaitersAreListed, SetDisposed, world, closing, history
<1>9. HeldInv'
  BY DEF Inv, HeldInv, SetDisposed, world, closing, history
<1>10. RemoverInv'
  BY DEF Inv, RemoverInv, SetDisposed, world, closing, history
<1>11. PaidInv'
  BY DEF Inv, PaidInv, Paid, Pending, Filing, TypeOK, LoopInv, SetDisposed,
     world, closing, history
<1> QED
  BY <1>1, <1>2, <1>3, <1>4, <1>5, <1>6, <1>7, <1>8, <1>9, <1>10, <1>11 DEF
     Inv

\* A call verifies the server, or throws.
LEMMA CallBeginInv ==
    ASSUME Inv, NEW c \in Calls, CallBegin(c)
    PROVE  Inv'
<1>t. /\ call \in [Calls -> CallType] /\ coll \in [Collections -> CollType]
      /\ loop \in LoopType /\ dict \in [Runtimes -> Collections \cup {None}]
  BY DEF Inv, TypeOK, CallType, CollType, LoopType

<1>a. PICK p \in {"rejected", "verified"}, kind \in {"accept", "connect", "wait"},
           r \in Runtimes :
         call' = [call EXCEPT ![c].pc = p, ![c].kind = kind, ![c].rt = r]
  BY DEF CallBegin
<1>b. call[c].pc = "idle" /\ UNCHANGED <<coll, infos, st>>
  BY DEF CallBegin
<1>c. \A d \in Calls : d # c => call'[d] = call[d]
  BY <1>a, <1>t
<1>d. call'[c] = [call[c] EXCEPT !.pc = p, !.kind = kind, !.rt = r]
  BY <1>a, <1>t DEF CallType
<1>e. [call[c] EXCEPT !.pc = p, !.kind = kind, !.rt = r] \in CallType
  BY <1>t DEF CallType
<1>f. call' \in [Calls -> CallType]
  BY <1>a, <1>c, <1>d, <1>e, <1>t
<1>g. /\ call'[c].pc = p /\ call'[c].rt = r /\ call'[c].coll = call[c].coll
      /\ call'[c].got = call[c].got
  BY <1>d, <1>t DEF CallType
<1> HIDE DEF CallType
<1>1. TypeOK'
  <2>1. UNCHANGED <<world, st, backlog, transport, loop, dict, coll, infos, remover,
                    closing, history>>
    BY DEF CallBegin
  <2> QED
    BY <1>f, <2>1 DEF Inv, TypeOK, CallType, world, closing, history
<1>2. BacklogInv'
  BY DEF Inv, BacklogInv, CallBegin, world, closing, history
<1>3. LoopInv'
  BY DEF Inv, LoopInv, Filing, CallBegin, world, closing, history
<1>4. StoredInv'
  BY DEF Inv, StoredInv, CallBegin, world, closing, history
<1>5. KeptInv'
  BY DEF Inv, KeptInv, Kept, Filing, CallBegin, world, closing, history
<1>6. DictInv'
  BY DEF Inv, DictInv, Filing, CallBegin, world, closing, history
<1>7. DisposeInv'
  BY DEF Inv, DisposeInv, CallBegin, world, closing, history
<1>8. ListInv'
  BY <1>b, <1>c, <1>g DEF Inv, ListInv, WaitersAreListed
<1>9. HeldInv'
  BY <1>b, <1>c, <1>g DEF Inv, HeldInv
<1>10. RemoverInv'
  BY DEF Inv, RemoverInv, CallBegin, world, closing, history
<1>11. PaidInv'
  BY DEF Inv, PaidInv, Paid, Pending, Filing, CallBegin, world, closing,
     history
<1> QED
  BY <1>1, <1>2, <1>3, <1>4, <1>5, <1>6, <1>7, <1>8, <1>9, <1>10, <1>11 DEF
     Inv

\* Every collection that stores a stream and that no remover holds is in the
\* copy that DisposeAsync takes of the dictionary.
LEMMA TakeValuesInv ==
    ASSUME Inv, TakeValues
    PROVE  Inv'
<1>1. TypeOK'
  <2>1. snapshot' \in SUBSET Collections
    BY DEF Inv, TypeOK, TakeValues, Range
  <2> QED
    BY <2>1 DEF Inv, TypeOK, TakeValues, world, history
<1>2. BacklogInv'
  BY DEF Inv, BacklogInv, TypeOK, TakeValues, world, closing, history
<1>3. LoopInv'
  BY DEF Inv, LoopInv, Filing, TakeValues, world, closing, history
<1>4. StoredInv'
  BY DEF Inv, StoredInv, TakeValues, world, closing, history
<1>5. KeptInv'
  <2>1. /\ snapshot = {} /\ loop.pc \notin Filing
        /\ \A k \in Collections : (\E r \in Runtimes : dict[r] = k) => k \in snapshot'
    BY NoneAssumption DEF Inv, TypeOK, DisposeInv, TakeValues, Range, Filing
  <2> QED
    BY <2>1 DEF Inv, KeptInv, Kept, TakeValues
<1>6. DictInv'
  BY DEF Inv, DictInv, Filing, TakeValues, world, closing, history
<1>7. DisposeInv'
  BY DEF Inv, DisposeInv, TypeOK, TakeValues, world, closing, history
<1>8. ListInv'
  BY DEF Inv, ListInv, WaitersAreListed, TakeValues, world, closing, history
<1>9. HeldInv'
  BY DEF Inv, HeldInv, TakeValues, world, closing, history
<1>10. RemoverInv'
  BY DEF Inv, RemoverInv, TakeValues, world, closing, history
<1>11. PaidInv'
  BY DEF Inv, PaidInv, Paid, Pending, Filing, TypeOK, LoopInv, TakeValues,
     world, closing, history
<1> QED
  BY <1>1, <1>2, <1>3, <1>4, <1>5, <1>6, <1>7, <1>8, <1>9, <1>10, <1>11 DEF
     Inv

\* When the copy is used up, only removers hold collections with streams.
LEMMA ClearDictionaryInv ==
    ASSUME Inv, ClearDictionary
    PROVE  Inv'
<1>1. TypeOK'
  BY DEF Inv, TypeOK, ClearDictionary, world, closing, history
<1>2. BacklogInv'
  BY DEF Inv, BacklogInv, TypeOK, ClearDictionary, world, closing, history
<1>3. LoopInv'
  BY DEF Inv, LoopInv, Filing, ClearDictionary, world, closing, history
<1>4. StoredInv'
  BY DEF Inv, StoredInv, ClearDictionary, world, closing, history
<1>5. KeptInv'
  BY DEF Inv, KeptInv, Kept, Filing, TypeOK, LoopInv, ClearDictionary,
     DisposeInv, world, closing, history
<1>6. DictInv'
  BY DEF Inv, DictInv, Filing, TypeOK, LoopInv, ClearDictionary, DisposeInv,
     world, closing, history
<1>7. DisposeInv'
  BY DEF Inv, DisposeInv, TypeOK, ClearDictionary, world, closing, history
<1>8. ListInv'
  BY DEF Inv, ListInv, WaitersAreListed, ClearDictionary, world, closing,
     history
<1>9. HeldInv'
  BY DEF Inv, HeldInv, ClearDictionary, world, closing, history
<1>10. RemoverInv'
  BY DEF Inv, RemoverInv, ClearDictionary, world, closing, history
<1>11. PaidInv'
  BY DEF Inv, PaidInv, Paid, Pending, Filing, TypeOK, LoopInv,
     ClearDictionary, world, closing, history
<1> QED
  BY <1>1, <1>2, <1>3, <1>4, <1>5, <1>6, <1>7, <1>8, <1>9, <1>10, <1>11 DEF
     Inv

\* Connections that were not accepted are reset; none comes in any more.
LEMMA DisposeTransportInv ==
    ASSUME Inv, DisposeTransport
    PROVE  Inv'
<1>a. /\ \A s \in Streams : st'[s] = IF st[s] = "backlog" THEN "closed" ELSE st[s]
      /\ backlog' = <<>> /\ disposal = "idle" /\ disposal' = "cancel"
      /\ transport' # "open" /\ UNCHANGED <<owner, loop, coll, call>>
  BY DEF Inv, TypeOK, BacklogInv, DisposeTransport, Close, world
<1>1. TypeOK'
  BY DEF Inv, TypeOK, DisposeTransport, Close, world, closing, history
<1>2. BacklogInv'
  <2>1. Injective(backlog') /\ Range(backlog') = {}
    BY <1>a, EmptyList DEF Injective
  <2> QED
    BY <1>a, <2>1 DEF Inv, TypeOK, BacklogInv
<1>3. LoopInv'
  BY <1>a DEF Inv, LoopInv, Filing, TypeOK
<1>4. StoredInv'
  <2>1. \A s \in Streams : st'[s] = "accepted" <=> st[s] = "accepted"
    BY <1>a
  <2>2. coll' = coll /\ loop' = loop
    BY <1>a
  <2> QED
    BY <2>1, <2>2 DEF Inv, StoredInv
<1>5. KeptInv'
  BY DEF Inv, KeptInv, Kept, Filing, TypeOK, LoopInv, DisposeTransport,
     Close, world, closing, history
<1>6. DictInv'
  BY DEF Inv, DictInv, Filing, DisposeTransport, world, closing, history
<1>7. DisposeInv'
  BY DEF Inv, DisposeInv, TypeOK, DisposeTransport, Close, world, closing,
     history
<1>8. ListInv'
  BY DEF Inv, ListInv, WaitersAreListed, DisposeTransport, world, closing,
     history
<1>9. HeldInv'
  <2>1. \A s \in Streams : st'[s] = "held" <=> st[s] = "held"
    BY <1>a
  <2>2. call' = call /\ \A c \in Calls : call[c].got # None => call[c].got \in Streams
    BY <1>a DEF Inv, TypeOK
  <2> QED
    BY <2>1, <2>2 DEF Inv, HeldInv
<1>10. RemoverInv'
  BY DEF Inv, RemoverInv, DisposeTransport, world, closing, history
<1>11. PaidInv'
  BY DEF Inv, PaidInv, Paid, Pending, Filing, TypeOK, LoopInv,
     DisposeTransport, Close, world, closing, history
<1> QED
  BY <1>1, <1>2, <1>3, <1>4, <1>5, <1>6, <1>7, <1>8, <1>9, <1>10, <1>11 DEF
     Inv

\* The loop disposes the stream that it alone has.
LEMMA ParseFailsInv ==
    ASSUME Inv, ParseFails
    PROVE  Inv'
<1>a. /\ loop'.pc = "accept" /\ UNCHANGED <<dict, coll, owner, latest>>
  BY DEF ParseFails, AtAccept, world, history
<1>1. TypeOK'
  BY DEF Inv, TypeOK, ParseFails, Close, AtAccept, world, closing, history
<1>2. BacklogInv'
  BY DEF Inv, BacklogInv, TypeOK, ParseFails, Close, AtAccept, LoopInv,
     Filing, world, closing, history
<1>3. LoopInv'
  BY DEF Inv, LoopInv, Filing, TypeOK, ParseFails, Close, AtAccept, world,
     closing, history
<1>4. StoredInv'
  BY DEF Inv, StoredInv, TypeOK, LoopInv, Filing, ParseFails, Close,
     AtAccept, world, closing, history
<1>5. KeptInv'
  BY DEF Inv, KeptInv, Kept, Filing, TypeOK, LoopInv, ParseFails, Close,
     AtAccept, world, closing, history
<1>6. DictInv'
  BY <1>a DEF Inv, DictInv, Filing
<1>7. DisposeInv'
  BY DEF Inv, DisposeInv, TypeOK, ParseFails, Close, AtAccept, world,
     closing, history
<1>8. ListInv'
  BY DEF Inv, ListInv, WaitersAreListed, ParseFails, world, closing, history
<1>9. HeldInv'
  BY DEF Inv, HeldInv, TypeOK, ParseFails, Close, AtAccept, LoopInv, Filing,
     world, closing, history
<1>10. RemoverInv'
  BY DEF Inv, RemoverInv, ParseFails, world, closing, history
<1>11. PaidInv'
  BY DEF Inv, PaidInv, Paid, Pending, Filing, TypeOK, LoopInv, ParseFails,
     Close, AtAccept, world, closing, history
<1> QED
  BY <1>1, <1>2, <1>3, <1>4, <1>5, <1>6, <1>7, <1>8, <1>9, <1>10, <1>11 DEF
     Inv

\* The oldest connection passes from the backlog into the hands of the loop.
LEMMA AcceptStreamInv ==
    ASSUME Inv, AcceptStream
    PROVE  Inv'
<1>t. /\ call \in [Calls -> CallType] /\ coll \in [Collections -> CollType]
      /\ loop \in LoopType /\ dict \in [Runtimes -> Collections \cup {None}]
  BY DEF Inv, TypeOK, CallType, CollType, LoopType

<1>a. /\ backlog # <<>> /\ loop.pc = "accept"
      /\ loop' = [loop EXCEPT !.pc = "parse", !.stream = Head(backlog)]
      /\ backlog' = Tail(backlog)
      /\ st' = [st EXCEPT ![Head(backlog)] = "accepted"]
      /\ disposal = "idle"
  BY DEF AcceptStream, Inv, BacklogInv
<1>b. /\ Head(backlog) \in Streams /\ Head(backlog) \in Range(backlog)
      /\ Tail(backlog) \in Seq(Streams)
      /\ Range(backlog') = Range(backlog) \ {Head(backlog)}
      /\ Injective(backlog')
  BY <1>a, TailOfList DEF Inv, TypeOK, BacklogInv
<1>c. /\ loop'.pc = "parse" /\ loop'.stream = Head(backlog) /\ loop'.coll = loop.coll
      /\ loop' \in LoopType
  BY <1>a, <1>b, <1>t DEF LoopType
<1>d. /\ st[Head(backlog)] = "backlog" /\ owner[Head(backlog)] \in Runtimes
      /\ loop.coll = None
  BY <1>a, <1>b DEF Inv, BacklogInv, LoopInv, Filing
<1>e. UNCHANGED <<owner, alive, conn, transport, dict, coll, infos, call, remover,
                  closing, history>>
  BY DEF AcceptStream, world
<1>1. TypeOK'
  BY <1>a, <1>b, <1>c, <1>e DEF Inv, TypeOK, LoopType, closing, history
<1>2. BacklogInv'
  BY <1>a, <1>b, <1>c, <1>d, <1>e DEF Inv, TypeOK, BacklogInv, closing
<1>3. LoopInv'
  BY <1>a, <1>b, <1>c, <1>d, <1>e DEF Inv, TypeOK, LoopInv, Filing
<1>4. StoredInv'
  BY <1>a, <1>b, <1>c, <1>d, <1>e DEF Inv, TypeOK, StoredInv
<1>5. KeptInv'
  BY <1>c, <1>e DEF Inv, KeptInv, Kept, Filing, closing
<1>6. DictInv'
  BY <1>c, <1>e DEF Inv, DictInv, Filing, history
<1>7. DisposeInv'
  BY <1>a, <1>c, <1>e DEF Inv, DisposeInv, closing
<1>8. ListInv'
  BY DEF Inv, ListInv, WaitersAreListed, AcceptStream, world, closing,
     history
<1>9. HeldInv'
  BY <1>a, <1>b, <1>d, <1>e DEF Inv, TypeOK, HeldInv
<1>10. RemoverInv'
  BY DEF Inv, RemoverInv, AcceptStream, world, closing, history
<1>11. PaidInv'
  BY <1>a, <1>c, <1>e DEF Inv, TypeOK, PaidInv, Paid, Pending, Filing, closing, history
<1> QED
  BY <1>1, <1>2, <1>3, <1>4, <1>5, <1>6, <1>7, <1>8, <1>9, <1>10, <1>11 DEF
     Inv

\* RemoveConnection was faster: the loop disposes the stream it holds.
LEMMA CollectionWasDisposedInv ==
    ASSUME Inv, CollectionWasDisposed
    PROVE  Inv'
<1>t. /\ call \in [Calls -> CallType] /\ coll \in [Collections -> CollType]
      /\ loop \in LoopType /\ dict \in [Runtimes -> Collections \cup {None}]
  BY DEF Inv, TypeOK, CallType, CollType, LoopType

<1>a. /\ loop'.pc = "accept" /\ UNCHANGED <<owner, dict, coll, latest, announced, removed, disposal>>
  BY DEF CollectionWasDisposed, AtAccept, world, closing, history
<1>1. TypeOK'
  BY DEF Inv, TypeOK, CollectionWasDisposed, Close, AtAccept, world, closing,
     history
<1>2. BacklogInv'
  BY DEF Inv, BacklogInv, TypeOK, CollectionWasDisposed, Close, AtAccept,
     LoopInv, Filing, world, closing, history
<1>3. LoopInv'
  BY DEF Inv, LoopInv, Filing, TypeOK, CollectionWasDisposed, Close,
     AtAccept, world, closing, history
<1>4. StoredInv'
  BY DEF Inv, StoredInv, TypeOK, LoopInv, Filing, CollectionWasDisposed,
     Close, AtAccept, world, closing, history
<1>5. KeptInv'
  BY DEF Inv, KeptInv, Kept, Filing, TypeOK, LoopInv, CollectionWasDisposed,
     Close, AtAccept, world, closing, history
<1>6. DictInv'
  BY <1>a DEF Inv, DictInv, Filing
<1>7. DisposeInv'
  BY DEF Inv, DisposeInv, TypeOK, CollectionWasDisposed, Close, AtAccept,
     world, closing, history
<1>8. ListInv'
  BY DEF Inv, ListInv, WaitersAreListed, CollectionWasDisposed, world,
     closing, history
<1>9. HeldInv'
  BY DEF Inv, HeldInv, TypeOK, CollectionWasDisposed, Close, AtAccept,
     LoopInv, Filing, world, closing, history
<1>10. RemoverInv'
  BY DEF Inv, RemoverInv, CollectionWasDisposed, world, closing, history
<1>11. PaidInv'
  <2>1. ASSUME NEW r \in Runtimes PROVE Paid(r)'
    <3>1. Pending(r)' = 0 /\ Pending(r) \in {0, 1}
      BY <1>a DEF Pending, Filing
    <3> QED
      BY <1>a, <3>1 DEF Inv, TypeOK, PaidInv, Paid
  <2> QED
    BY <2>1 DEF PaidInv
<1> QED
  BY <1>1, <1>2, <1>3, <1>4, <1>5, <1>6, <1>7, <1>8, <1>9, <1>10, <1>11 DEF
     Inv

\* The loop disposes the older streams of the runtime.
LEMMA ClearItemsInv ==
    ASSUME Inv, ClearItems
    PROVE  Inv'
<1>t. /\ call \in [Calls -> CallType] /\ coll \in [Collections -> CollType]
      /\ loop \in LoopType /\ dict \in [Runtimes -> Collections \cup {None}]
  BY DEF Inv, TypeOK, CallType, CollType, LoopType

<1> DEFINE k == loop.coll
           old == Range(coll[k].items)
<1>a. /\ loop.pc = "clear" /\ k \in Collections
      /\ loop' = [loop EXCEPT !.pc = "add"]
      /\ coll' = [coll EXCEPT ![k].items = <<>>]
      /\ \A s \in Streams : st'[s] = IF s \in old THEN "closed" ELSE st[s]
  BY DEF ClearItems, Close, Inv, LoopInv, Filing
<1>b. /\ loop'.pc = "add" /\ loop'.stream = loop.stream /\ loop'.coll = loop.coll
      /\ loop'.new = loop.new /\ loop' \in LoopType
  BY <1>a, <1>t DEF LoopType
<1>c. /\ coll' \in [Collections -> CollType]
      /\ coll'[k].items = <<>> /\ coll'[k].waiters = coll[k].waiters
      /\ coll'[k].disposed = coll[k].disposed
      /\ \A l \in Collections : l # k => coll'[l] = coll[l]
  BY <1>a, <1>t, EmptyList DEF CollType
<1>d. Range(coll'[k].items) = {} /\ Len(coll'[k].items) = 0
  BY <1>c, EmptyList
<1>e. UNCHANGED <<world, backlog, transport, dict, infos, call, remover, closing, history>>
  BY DEF ClearItems
<1>f. \A s \in Streams : s \in old => st[s] = "accepted" /\ s # loop.stream
  BY <1>a DEF Inv, StoredInv
<1>g. /\ st' \in [Streams -> {"backlog", "accepted", "held", "lost", "closed"}]
      /\ loop.stream \in Streams /\ st[loop.stream] = "accepted"
      /\ owner[loop.stream] \in Runtimes
  BY <1>a DEF ClearItems, Close, Inv, TypeOK, LoopInv, Filing
<1> HIDE DEF k, old
<1>1. TypeOK'
  BY <1>b, <1>c, <1>e, <1>g DEF Inv, TypeOK, LoopType, CollType, world, closing, history
<1>2. BacklogInv'
  BY <1>a, <1>e, <1>f, <1>g DEF Inv, TypeOK, BacklogInv, world, closing
<1>3. LoopInv'
  BY <1>a, <1>b, <1>c, <1>e, <1>f, <1>g DEF Inv, LoopInv, Filing, world, k
<1>4. StoredInv'
  <2>1. /\ k = loop.coll /\ \A s : s \in old <=> s \in Range(coll[k].items)
    BY DEF k, old
  <2> QED
    BY <1>a, <1>b, <1>c, <1>d, <1>e, <1>f, <2>1 DEF Inv, StoredInv
<1>5. KeptInv'
  BY <1>a, <1>b, <1>c, <1>e DEF Inv, KeptInv, Kept, Filing, closing, k
<1>6. DictInv'
  <2>1. \A l \in Collections : coll'[l].items = coll[l].items \/ coll'[l].items = <<>>
    BY <1>c
  <2>2. \A l \in Collections : Range(coll'[l].items) \subseteq Range(coll[l].items)
    BY <1>c, <1>d
  <2>3. UNCHANGED <<dict, owner, latest>> /\ loop'.coll = loop.coll /\ loop'.stream = loop.stream
    BY <1>b, <1>e DEF world, history
  <2>4. loop.pc \in Filing /\ loop.pc \in {"clear", "add"}
    BY <1>a DEF Filing
  <2>5. \A r \in Runtimes : owner[loop.stream] = r /\ dict[r] # None /\ dict[r] # loop.coll
           => coll'[dict[r]].items = <<>>
    BY <1>t, <2>1, <2>4 DEF Inv, DictInv
  <2>6. ASSUME NEW r \in Runtimes, dict[r] # None
        PROVE  Range(coll'[dict[r]].items) \subseteq {latest[r]}
    <3>1. dict[r] \in Collections
      BY <1>t, <2>6
    <3>2. Range(coll[dict[r]].items) \subseteq {latest[r]}
      BY <2>6 DEF Inv, DictInv
    <3> QED
      BY <2>2, <3>1, <3>2
  <2>7. /\ \A q, r \in Runtimes : dict[q] = dict[r] /\ dict[q] # None => q = r
        /\ \A r \in Runtimes : dict[r] = loop.coll => r = owner[loop.stream]
    BY <2>4 DEF Inv, DictInv
  <2> QED
    BY <2>3, <2>5, <2>6, <2>7 DEF DictInv
<1>7. DisposeInv'
  BY <1>a, <1>b, <1>e DEF Inv, DisposeInv, closing
<1>8. ListInv'
  <2>1. \A l \in Collections : /\ coll'[l].waiters = coll[l].waiters
                               /\ coll'[l].disposed = coll[l].disposed
    BY <1>c
  <2> QED
    BY <1>e, <2>1 DEF Inv, ListInv, WaitersAreListed
<1>9. HeldInv'
  BY <1>a, <1>e, <1>f, NoneAssumption DEF Inv, TypeOK, HeldInv
<1>10. RemoverInv'
  BY DEF Inv, RemoverInv, ClearItems, world, closing, history
<1>11. PaidInv'
  <2>1. \A r \in Runtimes : Pending(r)' = Pending(r)
    BY <1>a, <1>b, <1>e DEF Pending, Filing, world
  <2> QED
    BY <1>e, <2>1 DEF Inv, PaidInv, Paid, closing, history
<1> QED
  BY <1>1, <1>2, <1>3, <1>4, <1>5, <1>6, <1>7, <1>8, <1>9, <1>10, <1>11 DEF
     Inv

\* GetOrAdd puts the collection of the runtime in the dictionary.  A new one is an
\* object that nobody refers to, so that it was empty before, too.
LEMMA GetOrAddEffect ==
    ASSUME Inv, NEW r \in Runtimes, NEW k \in Collections, GetOrAdd(r, k)
    PROVE  /\ dict' = [dict EXCEPT ![r] = k]
           /\ coll' \in [Collections -> CollType]
           /\ \A l \in Collections : /\ coll'[l].items = coll[l].items
                                     /\ coll'[l].waiters = coll[l].waiters
                                     /\ coll'[l].disposed => coll[l].disposed
                                     /\ l # k => coll'[l] = coll[l]
           /\ \/ dict[r] = k /\ coll' = coll
              \/ dict[r] = None /\ Unreferenced(k)
<1>t. coll \in [Collections -> CollType] /\ dict \in [Runtimes -> Collections \cup {None}]
  BY DEF Inv, TypeOK, CollType
<1>1. CASE dict[r] # None
  BY <1>1, <1>t DEF GetOrAdd
<1>2. CASE dict[r] = None
  <2>1. /\ Unreferenced(k)
        /\ dict' = [dict EXCEPT ![r] = k]
        /\ coll' = [coll EXCEPT ![k] = Empty]
    BY <1>2 DEF GetOrAdd
  <2>2. coll[k].items = <<>>
    BY <2>1 DEF Inv, KeptInv, Kept, Unreferenced
  <2>3. coll[k].waiters = <<>>
    <3>1. coll[k].waiters \in Seq(Calls)
      BY <1>t DEF CollType
    <3>2. Range(coll[k].waiters) = {}
      BY <2>1, <3>1, RangeProperties DEF Inv, ListInv, Unreferenced
    <3> QED
      BY <3>1, <3>2, RangeProperties
  <2>4. Empty \in CollType /\ Empty.items = <<>> /\ Empty.waiters = <<>> /\ ~Empty.disposed
    BY EmptyList DEF Empty, CollType
  <2> QED
    BY <1>2, <1>t, <2>1, <2>2, <2>3, <2>4
<1> QED
  BY <1>1, <1>2

\* The loop finds or creates a collection; a new one owes an announcement.
LEMMA FindCollectionInv ==
    ASSUME Inv, FindCollection
    PROVE  Inv'
<1>t. /\ call \in [Calls -> CallType] /\ coll \in [Collections -> CollType]
      /\ loop \in LoopType /\ dict \in [Runtimes -> Collections \cup {None}]
  BY DEF Inv, TypeOK, CallType, CollType, LoopType

<1> DEFINE r == owner[loop.stream]
<1>r. r \in Runtimes /\ loop.pc = "parse" /\ loop.stream \in Streams
  BY DEF FindCollection, Inv, LoopInv, Filing
<1>a. PICK k \in Collections :
         /\ GetOrAdd(r, k)
         /\ loop' = [loop EXCEPT !.pc = "clear", !.coll = k, !.new = dict[r] = None]
  BY DEF FindCollection
<1>b. /\ loop'.pc = "clear" /\ loop'.stream = loop.stream /\ loop'.coll = k
      /\ loop'.new = (dict[r] = None) /\ loop' \in LoopType
  BY <1>a, <1>t DEF LoopType
<1> HIDE DEF r

<1>c. /\ dict' = [dict EXCEPT ![r] = k]
      /\ coll' \in [Collections -> CollType]
      /\ \A l \in Collections : /\ coll'[l].items = coll[l].items
                                /\ coll'[l].waiters = coll[l].waiters
                                /\ coll'[l].disposed => coll[l].disposed
                                /\ l # k => coll'[l] = coll[l]
      /\ \/ dict[r] = k /\ coll' = coll
         \/ dict[r] = None /\ Unreferenced(k)
  BY <1>a, <1>r, GetOrAddEffect

<1>d. UNCHANGED <<world, st, backlog, transport, infos, call, remover, closing, history>>
  BY DEF FindCollection
<1>e. disposal \notin {"values", "collections", "flag", "done"}
  BY <1>r DEF Inv, DisposeInv
<1>f. owner' = owner /\ r = owner[loop.stream]
  BY <1>d DEF world, r
<1>g. dict'[r] = k /\ k # None /\ \A q \in Runtimes : q # r => dict'[q] = dict[q]
  BY <1>c, <1>r, <1>t, NoneAssumption
<1>h. \A q \in Runtimes : dict[q] # None => dict'[q] = dict[q]
  BY <1>c, <1>g
<1>1. TypeOK'
  BY <1>b, <1>c, <1>d, <1>r DEF Inv, TypeOK, CollType, LoopType, world, closing, history
<1>2. BacklogInv'
  BY DEF Inv, BacklogInv, FindCollection, world, closing, history
<1>3. LoopInv'
  BY <1>b, <1>c, <1>d, <1>f, <1>r DEF Inv, LoopInv, Filing
<1>4. StoredInv'
  BY <1>b, <1>c, <1>d, <1>r DEF Inv, StoredInv
<1>5. KeptInv'
  <2>1. \A l \in Collections : Kept(l) => Kept(l)'
    BY <1>d, <1>h, NoneAssumption DEF Kept, closing
  <2>2. Kept(k)'
    BY <1>g, <1>r DEF Kept
  <2>3. \A l \in Collections : coll'[l].disposed => coll'[l].items = <<>> /\ coll'[l].waiters = <<>>
    BY <1>c DEF Inv, KeptInv
  <2> QED
    BY <1>b, <1>c, <1>d, <1>e, <2>1, <2>2, <2>3 DEF Inv, KeptInv, closing
<1>6. DictInv'
  <2>1. \A p, q \in Runtimes : dict'[p] = dict'[q] /\ dict'[p] # None => p = q
    BY <1>c, <1>g DEF Inv, DictInv, Unreferenced
  <2>2. \A q \in Runtimes : dict'[q] = k => q = r
    BY <1>g, <1>r, <2>1
  <2>3. \A q \in Runtimes : dict'[q] # None =>
           dict'[q] = dict[q] \/ (q = r /\ coll'[k].items = <<>>)
    BY <1>c, <1>g DEF Inv, KeptInv, Kept, Unreferenced
  <2>4. ASSUME NEW q \in Runtimes, dict'[q] # None
        PROVE  Range(coll'[dict'[q]].items) \subseteq {latest[q]}
    <3>1. CASE dict'[q] = dict[q]
      <4>1. dict[q] \in Collections /\ dict[q] # None
        BY <1>t, <2>4, <3>1
      <4>2. coll'[dict[q]].items = coll[dict[q]].items
        BY <1>c, <4>1
      <4>3. Range(coll[dict[q]].items) \subseteq {latest[q]}
        BY <4>1 DEF Inv, DictInv
      <4> QED
        BY <3>1, <4>2, <4>3
    <3>2. CASE q = r /\ coll'[k].items = <<>>
      BY <1>g, <3>2, EmptyList
    <3> QED
      BY <2>3, <2>4, <3>1, <3>2
  <2>5. owner'[loop'.stream] = r
    BY <1>b, <1>f
  <2>6. latest' = latest /\ loop'.coll = k
    BY <1>b, <1>d DEF history
  <2> QED
    BY <1>g, <2>1, <2>2, <2>4, <2>5, <2>6 DEF DictInv, Filing
<1>7. DisposeInv'
  BY <1>b, <1>d, <1>e, <1>r DEF Inv, DisposeInv, closing
<1>8. ListInv'
  BY <1>c, <1>d, NoneAssumption DEF Inv, ListInv, WaitersAreListed
<1>9. HeldInv'
  BY DEF Inv, HeldInv, FindCollection, world, closing, history
<1>10. RemoverInv'
  BY DEF Inv, RemoverInv, FindCollection, world, closing, history
<1>11. PaidInv'
  <2>1. ASSUME NEW q \in Runtimes PROVE Paid(q)'
    <3>1. Pending(q) = 0 /\ Pending(q)' = IF q = r /\ dict[r] = None THEN 1 ELSE 0
      BY <1>b, <1>f, <1>r DEF Pending, Filing
    <3> QED
      BY <1>d, <1>e, <1>g, <3>1 DEF Inv, TypeOK, PaidInv, Paid, closing, history
  <2> QED
    BY <2>1 DEF PaidInv
<1> QED
  BY <1>1, <1>2, <1>3, <1>4, <1>5, <1>6, <1>7, <1>8, <1>9, <1>10, <1>11 DEF
     Inv

\* A caller finds or creates a collection; a new one owes nothing, but takes
\* the place of the announcement that the loop would make.
LEMMA GetStreamsInv ==
    ASSUME Inv, NEW c \in Calls, GetStreams(c)
    PROVE  Inv'
<1>t. /\ call \in [Calls -> CallType] /\ coll \in [Collections -> CollType]
      /\ loop \in LoopType /\ dict \in [Runtimes -> Collections \cup {None}]
  BY DEF Inv, TypeOK, CallType, CollType, LoopType

<1> DEFINE r == call[c].rt
<1>r. r \in Runtimes /\ call[c].pc = "verified" /\ call[c].kind # "accept"
  BY DEF GetStreams, Inv, ListInv
<1>a. PICK k \in Collections :
         /\ GetOrAdd(r, k)
         /\ call' = [call EXCEPT ![c].pc = "handle", ![c].coll = k]
  BY DEF GetStreams
<1>b. /\ call' \in [Calls -> CallType]
      /\ \A d \in Calls : d # c => call'[d] = call[d]
      /\ call'[c].pc = "handle" /\ call'[c].kind = call[c].kind
      /\ call'[c].coll = k /\ call'[c].got = call[c].got
  <2>1. call[c] \in CallType /\ \A d \in Calls : d # c => call'[d] = call[d]
    BY <1>a, <1>t
  <2>2. call'[c] = [call[c] EXCEPT !.pc = "handle", !.coll = k]
    BY <1>a, <1>t DEF CallType
  <2>3. /\ call'[c] \in CallType
        /\ call'[c].pc = "handle" /\ call'[c].kind = call[c].kind
        /\ call'[c].coll = k /\ call'[c].got = call[c].got
    BY <2>1, <2>2 DEF CallType
  <2>4. call' = [d \in Calls |-> call'[d]]
    BY <1>a, <1>t
  <2> QED
    BY <1>t, <2>1, <2>3, <2>4
<1> HIDE DEF r

<1>c. /\ dict' = [dict EXCEPT ![r] = k]
      /\ coll' \in [Collections -> CollType]
      /\ \A l \in Collections : /\ coll'[l].items = coll[l].items
                                /\ coll'[l].waiters = coll[l].waiters
                                /\ coll'[l].disposed => coll[l].disposed
                                /\ l # k => coll'[l] = coll[l]
      /\ \/ dict[r] = k /\ coll' = coll
         \/ dict[r] = None /\ Unreferenced(k)
  BY <1>a, <1>r, GetOrAddEffect

<1>d. UNCHANGED <<world, st, backlog, transport, loop, infos, remover, closing, history>>
  BY DEF GetStreams
<1>g. dict'[r] = k /\ k # None /\ \A q \in Runtimes : q # r => dict'[q] = dict[q]
  BY <1>c, <1>r, <1>t, NoneAssumption
<1>h. \A q \in Runtimes : dict[q] # None => dict'[q] = dict[q]
  BY <1>c, <1>g
<1>1. TypeOK'
  BY <1>b, <1>c, <1>d, <1>r DEF Inv, TypeOK, CollType, CallType, world, closing, history
<1>2. BacklogInv'
  BY DEF Inv, BacklogInv, GetStreams, world, closing, history
<1>3. LoopInv'
  BY <1>c, <1>d, <1>r DEF Inv, LoopInv, Filing, world
<1>4. StoredInv'
  BY <1>c, <1>d, <1>r DEF Inv, StoredInv
<1>5. KeptInv'
  <2>1. \A l \in Collections : Kept(l) => Kept(l)'
    BY <1>d, <1>h, NoneAssumption DEF Kept, closing
  <2>2. Kept(k)'
    BY <1>g, <1>r DEF Kept
  <2>3. \A l \in Collections : coll'[l].disposed => coll'[l].items = <<>> /\ coll'[l].waiters = <<>>
    BY <1>c DEF Inv, KeptInv
  <2>4. loop.pc \in Filing => loop.coll \in Collections
    BY DEF Inv, LoopInv
  <2> QED
    BY <1>c, <1>d, <2>1, <2>2, <2>3, <2>4 DEF Inv, KeptInv, closing
<1>6. DictInv'
  <2>1. \A p, q \in Runtimes : dict'[p] = dict'[q] /\ dict'[p] # None => p = q
    BY <1>c, <1>g DEF Inv, DictInv, Unreferenced
  <2>3. \A q \in Runtimes : dict'[q] # None =>
           dict'[q] = dict[q] \/ (q = r /\ coll'[k].items = <<>> /\ k # loop.coll)
    BY <1>c, <1>g DEF Inv, KeptInv, Kept, Unreferenced
  <2>4. ASSUME NEW q \in Runtimes, dict'[q] # None
        PROVE  Range(coll'[dict'[q]].items) \subseteq {latest[q]}
    <3>1. CASE dict'[q] = dict[q]
      <4>1. dict[q] \in Collections /\ dict[q] # None
        BY <1>t, <2>4, <3>1
      <4>2. coll'[dict[q]].items = coll[dict[q]].items
        BY <1>c, <4>1
      <4>3. Range(coll[dict[q]].items) \subseteq {latest[q]}
        BY <4>1 DEF Inv, DictInv
      <4> QED
        BY <3>1, <4>2, <4>3
    <3>2. CASE q = r /\ coll'[k].items = <<>>
      BY <1>g, <3>2, EmptyList
    <3> QED
      BY <2>3, <2>4, <3>1, <3>2
  <2>5. \A q \in Runtimes : loop.pc \in Filing /\ dict'[q] = loop.coll => dict[q] = loop.coll
    BY <1>g, <2>3, NoneAssumption DEF Inv, LoopInv
  <2>6. ASSUME NEW q \in Runtimes, loop.pc \in {"clear", "add"}, owner[loop.stream] = q,
               dict'[q] # None, dict'[q] # loop.coll
        PROVE  coll'[dict'[q]].items = <<>>
    BY <1>c, <1>g, <1>t, <2>3, <2>6 DEF Inv, DictInv
  <2>7. UNCHANGED <<latest, owner, loop>>
    BY <1>d DEF history, world
  <2> QED
    BY <2>1, <2>4, <2>5, <2>6, <2>7 DEF Inv, DictInv
<1>7. DisposeInv'
  BY DEF Inv, DisposeInv, GetStreams, world, closing, history
<1>8. ListInv'
  <2>1. call'[c].pc # "waiting" /\ call[c].pc # "waiting"
    BY <1>b, <1>r
  <2> QED
    BY <1>b, <1>c, <1>d, <1>r, <2>1 DEF Inv, ListInv, WaitersAreListed
<1>9. HeldInv'
  BY <1>b, <1>d, <1>r DEF Inv, HeldInv
<1>10. RemoverInv'
  BY DEF Inv, RemoverInv, GetStreams, world, closing, history
<1>11. PaidInv'
  <2>1. ASSUME NEW q \in Runtimes PROVE Paid(q)'
    <3>1. Pending(q)' = Pending(q)
      BY <1>d DEF Pending, world
    <3>2. dict'[q] = None => dict[q] = None
      BY <1>g
    <3> QED
      BY <1>d, <3>1, <3>2 DEF Inv, PaidInv, Paid, closing, history
  <2> QED
    BY <2>1 DEF PaidInv
<1> QED
  BY <1>1, <1>2, <1>3, <1>4, <1>5, <1>6, <1>7, <1>8, <1>9, <1>10, <1>11 DEF
     Inv

\* How a call ends.
LEMMA EndedEffect ==
    ASSUME call \in [Calls -> CallType], NEW c \in Calls,
           NEW pc \in {"done", "expired", "rejected"}, NEW s \in Streams \cup {None}
    PROVE  /\ Ended(c, pc, s) \in CallType
           /\ Ended(c, pc, s).pc = pc /\ Ended(c, pc, s).coll = None
           /\ Ended(c, pc, s).got = s /\ Ended(c, pc, s).kind = call[c].kind
           /\ Ended(c, pc, s).rt = call[c].rt
BY DEF Ended, CallType

LEMMA HandoverEffect ==
    ASSUME call \in [Calls -> CallType], NEW c \in Calls,
           NEW s \in Streams \cup {None}, NEW lost \in BOOLEAN
    PROVE  /\ Handover(c, s, lost) \in CallType
           /\ Handover(c, s, lost).pc = IF lost THEN "expired" ELSE "done"
           /\ Handover(c, s, lost).got = IF lost THEN None ELSE s
           /\ Handover(c, s, lost).kind = call[c].kind
BY EndedEffect DEF Handover

\* Accept takes an announcement, or queues its handler.
LEMMA HandleInfoInv ==
    ASSUME Inv, NEW c \in Calls, HandleInfo(c)
    PROVE  Inv'
<1>t. /\ call \in [Calls -> CallType] /\ coll \in [Collections -> CollType]
      /\ loop \in LoopType /\ dict \in [Runtimes -> Collections \cup {None}]
  BY DEF Inv, TypeOK, CallType, CollType, LoopType

<1>i. infos \in [items : Seq(Runtimes), waiters : Seq(Calls), disposed : BOOLEAN]
  BY DEF Inv, TypeOK
<1>p. call[c].pc = "verified" /\ call[c].kind = "accept" /\ call[c].got = None
  BY DEF HandleInfo, Inv, HeldInv
<1>u. UNCHANGED <<world, st, backlog, transport, loop, dict, coll, remover, closing, history>>
  BY DEF HandleInfo
<1>a. /\ call' \in [Calls -> CallType]
      /\ \A d \in Calls : d # c => call'[d] = call[d]
      /\ call'[c].kind = "accept" /\ call'[c].got = None
      /\ infos' \in [items : Seq(Runtimes), waiters : Seq(Calls), disposed : BOOLEAN]
      /\ infos'.disposed = infos.disposed
      /\ \/ call'[c].pc \in {"rejected", "done", "expired"} /\ infos'.waiters = infos.waiters
         \/ call'[c].pc = "waiting" /\ infos'.waiters = Append(infos.waiters, c)
  <2>1. CASE infos.disposed
    <3>1. call' = [call EXCEPT ![c].pc = "rejected"] /\ infos' = infos
      BY <2>1 DEF HandleInfo
    <3>2. /\ call' \in [Calls -> CallType] /\ call'[c].pc = "rejected"
          /\ call'[c].kind = call[c].kind /\ call'[c].got = call[c].got
          /\ \A d \in Calls : d # c => call'[d] = call[d]
      BY <1>t, <3>1 DEF CallType
    <3> QED
      BY <1>i, <1>p, <3>1, <3>2
  <2>2. CASE ~infos.disposed /\ infos.items = <<>>
    <3>1. Append(infos.waiters, c) \in Seq(Calls)
      BY <1>i, AppendList
    <3>2. /\ infos' = [infos EXCEPT !.waiters = Append(@, c)]
          /\ call' = [call EXCEPT ![c].pc = "waiting"]
      BY <2>2 DEF HandleInfo
    <3>3. /\ call' \in [Calls -> CallType] /\ call'[c].pc = "waiting"
          /\ call'[c].kind = call[c].kind /\ call'[c].got = call[c].got
          /\ \A d \in Calls : d # c => call'[d] = call[d]
      BY <1>t, <3>2 DEF CallType
    <3>4. /\ infos'.waiters = Append(infos.waiters, c) /\ infos'.disposed = infos.disposed
          /\ infos' \in [items : Seq(Runtimes), waiters : Seq(Calls), disposed : BOOLEAN]
      BY <1>i, <3>1, <3>2
    <3> QED
      BY <1>p, <3>3, <3>4
  <2>3. CASE ~infos.disposed /\ infos.items # <<>>
    <3>1. PICK lost \in BOOLEAN :
             /\ infos' = [infos EXCEPT !.items = Tail(@)]
             /\ call' = [call EXCEPT ![c] = Handover(c, None, lost)]
      BY <2>3 DEF HandleInfo
    <3>2. Tail(infos.items) \in Seq(Runtimes)
      BY <1>i, <2>3, TailOfList
    <3>3. infos'.waiters = infos.waiters /\ infos'.disposed = infos.disposed
          /\ infos' \in [items : Seq(Runtimes), waiters : Seq(Calls), disposed : BOOLEAN]
      BY <1>i, <3>1, <3>2
    <3>4. /\ Handover(c, None, lost) \in CallType
          /\ Handover(c, None, lost).pc \in {"expired", "done"}
          /\ Handover(c, None, lost).got = None
          /\ Handover(c, None, lost).kind = call[c].kind
      BY <1>t, HandoverEffect
    <3> QED
      BY <1>p, <1>t, <3>1, <3>3, <3>4
  <2> QED
    BY <2>1, <2>2, <2>3
<1>1. TypeOK'
  BY <1>a, <1>u DEF Inv, TypeOK, CallType, world, closing, history
<1>2. BacklogInv'
  BY DEF Inv, BacklogInv, HandleInfo, world, closing, history
<1>3. LoopInv'
  BY DEF Inv, LoopInv, Filing, HandleInfo, world, closing, history
<1>4. StoredInv'
  BY DEF Inv, StoredInv, HandleInfo, world, closing, history
<1>5. KeptInv'
  BY DEF Inv, KeptInv, Kept, Filing, HandleInfo, world, closing, history
<1>6. DictInv'
  BY DEF Inv, DictInv, Filing, HandleInfo, world, closing, history
<1>7. DisposeInv'
  BY <1>a, <1>u DEF Inv, DisposeInv, closing
<1>8. ListInv'
  <2>1. c \notin Range(infos.waiters)
    BY <1>p DEF Inv, ListInv
  <2>2. Injective(infos.waiters) /\ infos.waiters \in Seq(Calls)
    BY <1>i DEF Inv, ListInv
  <2>3. /\ Injective(Append(infos.waiters, c))
        /\ Range(Append(infos.waiters, c)) = Range(infos.waiters) \cup {c}
    BY <2>1, <2>2, AppendList
  <2>4. /\ Injective(infos'.waiters)
        /\ Range(infos.waiters) \subseteq Range(infos'.waiters)
        /\ Range(infos'.waiters) \subseteq Range(infos.waiters) \cup {c}
        /\ IF call'[c].pc = "waiting" THEN c \in Range(infos'.waiters)
                                      ELSE c \notin Range(infos'.waiters)
    BY <1>a, <2>1, <2>2, <2>3
  <2>5. WaitersAreListed'
    BY <1>a, <1>p, <1>u, <2>4 DEF Inv, ListInv, WaitersAreListed
  <2> QED
    BY <1>a, <1>p, <1>u, <2>4, <2>5 DEF Inv, ListInv
<1>9. HeldInv'
  BY <1>a, <1>p, <1>u, NoneAssumption DEF Inv, HeldInv
<1>10. RemoverInv'
  BY DEF Inv, RemoverInv, HandleInfo, world, closing, history
<1>11. PaidInv'
  BY DEF Inv, PaidInv, Paid, Pending, Filing, HandleInfo, world, closing,
     history
<1> QED
  BY <1>1, <1>2, <1>3, <1>4, <1>5, <1>6, <1>7, <1>8, <1>9, <1>10, <1>11 DEF
     Inv

\* A call that expires leaves the one list it is in.
LEMMA CallExpiresInv ==
    ASSUME Inv, NEW c \in Calls, CallExpires(c)
    PROVE  Inv'
<1>t. /\ call \in [Calls -> CallType] /\ coll \in [Collections -> CollType]
      /\ loop \in LoopType /\ dict \in [Runtimes -> Collections \cup {None}]
  BY DEF Inv, TypeOK, CallType, CollType, LoopType

<1>i. infos \in [items : Seq(Runtimes), waiters : Seq(Calls), disposed : BOOLEAN]
  BY DEF Inv, TypeOK
<1>p. call[c].pc = "waiting" /\ call[c].got = None
  BY DEF CallExpires, Inv, HeldInv
<1>u. UNCHANGED <<world, st, backlog, transport, loop, dict, remover, closing, history>>
  BY DEF CallExpires
<1>a. /\ call' \in [Calls -> CallType]
      /\ \A d \in Calls : d # c => call'[d] = call[d]
      /\ call'[c].pc = "expired" /\ call'[c].got = None
  BY <1>t, EndedEffect DEF CallExpires
<1>b. ASSUME NEW k \in Collections
      PROVE  /\ coll'[k] \in CollType
             /\ coll'[k].items = coll[k].items /\ coll'[k].disposed = coll[k].disposed
             /\ Range(coll'[k].waiters) = Range(coll[k].waiters) \ {c}
             /\ Injective(coll'[k].waiters)
             /\ coll[k].waiters = <<>> => coll'[k].waiters = <<>>
  <2> DEFINE ws == RemoveFirst(coll[k].waiters, c)
  <2>1. coll[k].waiters \in Seq(Calls) /\ Injective(coll[k].waiters)
    BY <1>t DEF CollType, Inv, ListInv
  <2>2. ws \in Seq(Calls) /\ Range(ws) = Range(coll[k].waiters) \ {c} /\ Injective(ws)
    BY <2>1, RemoveFromList
  <2>3. ASSUME coll[k].waiters = <<>> PROVE ws = <<>>
    <3>1. Range(ws) = {}
      BY <2>2, <2>3, EmptyList
    <3> HIDE DEF ws
    <3> QED
      BY <2>2, <3>1, RangeProperties
  <2>4. coll'[k] = [coll[k] EXCEPT !.waiters = ws]
    BY DEF CallExpires
  <2> HIDE DEF ws
  <2> QED
    BY <1>t, <2>2, <2>3, <2>4 DEF CollType
<1>c. coll' \in [Collections -> CollType]
  BY <1>b DEF CallExpires
<1>d. /\ infos' \in [items : Seq(Runtimes), waiters : Seq(Calls), disposed : BOOLEAN]
      /\ infos'.disposed = infos.disposed
      /\ Range(infos'.waiters) = Range(infos.waiters) \ {c}
      /\ Injective(infos'.waiters)
  <2> DEFINE ws == RemoveFirst(infos.waiters, c)
  <2>1. ws \in Seq(Calls) /\ Range(ws) = Range(infos.waiters) \ {c} /\ Injective(ws)
    BY <1>i, RemoveFromList DEF Inv, ListInv
  <2>2. infos' = [infos EXCEPT !.waiters = ws]
    BY DEF CallExpires
  <2> HIDE DEF ws
  <2> QED
    BY <1>i, <2>1, <2>2
<1>l. WaitersAreListed'
  <2> SUFFICES ASSUME NEW d \in Calls, call'[d].pc = "waiting"
               PROVE  IF call'[d].kind = "accept"
                      THEN d \in Range(infos'.waiters)
                      ELSE /\ d \in Range(coll'[call'[d].coll].waiters)
                           /\ ~coll'[call'[d].coll].disposed
    BY DEF WaitersAreListed
  <2>1. d # c /\ call'[d] = call[d] /\ call[d].pc = "waiting"
    BY <1>a
  <2>2. CASE call[d].kind = "accept"
    BY <1>d, <2>1, <2>2 DEF Inv, ListInv, WaitersAreListed
  <2>3. CASE call[d].kind # "accept"
    <3>1. /\ call[d].coll \in Collections
          /\ d \in Range(coll[call[d].coll].waiters) /\ ~coll[call[d].coll].disposed
      BY <2>1, <2>3 DEF Inv, ListInv, WaitersAreListed
    <3>2. /\ d \in Range(coll'[call[d].coll].waiters)
          /\ ~coll'[call[d].coll].disposed
      BY <1>b, <2>1, <3>1
    <3> QED
      BY <2>1, <2>3, <3>2
  <2> QED
    BY <2>1, <2>2, <2>3
<1>1. TypeOK'
  BY <1>a, <1>c, <1>d, <1>u DEF Inv, TypeOK, CallType, CollType, world, closing, history
<1>2. BacklogInv'
  BY DEF Inv, BacklogInv, CallExpires, world, closing, history
<1>3. LoopInv'
  BY <1>b, <1>u DEF Inv, LoopInv, Filing, world
<1>4. StoredInv'
  BY <1>b, <1>u DEF Inv, StoredInv
<1>5. KeptInv'
  BY <1>b, <1>u DEF Inv, LoopInv, KeptInv, Kept, closing
<1>6. DictInv'
  BY <1>b, <1>t, <1>u DEF Inv, DictInv, world, history
<1>7. DisposeInv'
  BY <1>d, <1>u DEF Inv, DisposeInv, closing
<1>8. ListInv'
  <2>1. \A k \in Collections, d \in Calls : d \in Range(coll'[k].waiters) =>
           d # c /\ d \in Range(coll[k].waiters)
    BY <1>b
  <2>2. \A d \in Calls : d \in Range(infos'.waiters) => d # c /\ d \in Range(infos.waiters)
    BY <1>d
  <2>3. \A k \in Collections : Injective(coll'[k].waiters)
    BY <1>b
  <2>4. \A d \in Calls : call'[d].pc \in {"handle", "waiting", "verified"} =>
           call'[d] = call[d]
    BY <1>a
  <2> QED
    BY <1>a, <1>d, <1>l, <2>1, <2>2, <2>3, <2>4 DEF Inv, ListInv
<1>9. HeldInv'
  BY <1>a, <1>p, <1>u DEF Inv, HeldInv
<1>10. RemoverInv'
  BY DEF Inv, RemoverInv, CallExpires, world, closing, history
<1>11. PaidInv'
  BY DEF Inv, PaidInv, Paid, Pending, Filing, CallExpires, world, closing,
     history
<1> QED
  BY <1>1, <1>2, <1>3, <1>4, <1>5, <1>6, <1>7, <1>8, <1>9, <1>10, <1>11 DEF
     Inv

\* The client that got a stream disposes it.
LEMMA ClientClosesInv ==
    ASSUME Inv, NEW c \in Calls, ClientCloses(c)
    PROVE  Inv'
<1>t. /\ call \in [Calls -> CallType] /\ coll \in [Collections -> CollType]
      /\ loop \in LoopType /\ dict \in [Runtimes -> Collections \cup {None}]
  BY DEF Inv, TypeOK, CallType, CollType, LoopType

<1> DEFINE s == call[c].got
<1>p. s \in Streams /\ st[s] = "held" /\ call[c].pc = "done"
  BY <1>t DEF ClientCloses, Inv, HeldInv, CallType
<1>u. UNCHANGED <<world, backlog, transport, loop, dict, coll, infos, remover, closing, history>>
  BY DEF ClientCloses
<1>a. /\ call' \in [Calls -> CallType]
      /\ \A d \in Calls : d # c => call'[d] = call[d]
      /\ call'[c].pc = "done" /\ call'[c].got = None
  BY <1>t, <1>p DEF ClientCloses, CallType
<1>b. /\ st' \in [Streams -> {"backlog", "accepted", "held", "lost", "closed"}]
      /\ st'[s] = "closed" /\ \A t \in Streams : t # s => st'[t] = st[t]
  BY <1>p DEF ClientCloses, Close, Inv, TypeOK
<1> HIDE DEF s
<1>1. TypeOK'
  BY <1>a, <1>b, <1>u DEF Inv, TypeOK, CallType, world, closing, history
<1>2. BacklogInv'
  BY <1>b, <1>p, <1>u DEF Inv, BacklogInv, world, closing
<1>3. LoopInv'
  BY <1>b, <1>p, <1>u DEF Inv, LoopInv, Filing, world
<1>4. StoredInv'
  BY <1>b, <1>p, <1>u DEF Inv, StoredInv
<1>5. KeptInv'
  BY DEF Inv, KeptInv, Kept, Filing, ClientCloses, world, closing, history
<1>6. DictInv'
  BY DEF Inv, DictInv, Filing, ClientCloses, world, closing, history
<1>7. DisposeInv'
  BY DEF Inv, DisposeInv, ClientCloses, world, closing, history
<1>8. ListInv'
  BY <1>a, <1>p, <1>u DEF Inv, ListInv, WaitersAreListed
<1>9. HeldInv'
  <2>1. \A d \in Calls : call'[d].got # None =>
           d # c /\ call[d].got # s /\ call[d].got \in Streams
    BY <1>a, <1>p, <1>t, NoneAssumption DEF Inv, HeldInv, CallType, s
  <2>2. \A d \in Calls : call'[d].got # None => call'[d].pc = "done" /\ st'[call'[d].got] = "held"
    BY <1>a, <1>b, <2>1 DEF Inv, HeldInv
  <2>3. \A t \in Streams : st'[t] = "held" => \E d \in Calls : call'[d].got = t
    BY <1>a, <1>b DEF Inv, HeldInv, s
  <2> QED
    BY <1>a, <2>1, <2>2, <2>3 DEF Inv, HeldInv
<1>10. RemoverInv'
  BY DEF Inv, RemoverInv, ClientCloses, world, closing, history
<1>11. PaidInv'
  BY DEF Inv, PaidInv, Paid, Pending, Filing, ClientCloses, world, closing,
     history
<1> QED
  BY <1>1, <1>2, <1>3, <1>4, <1>5, <1>6, <1>7, <1>8, <1>9, <1>10, <1>11 DEF
     Inv

\* The types, when RemoveConnection changes the dictionary and its own state.
LEMMA RemovalTypes ==
    ASSUME TypeOK,
           dict' \in [Runtimes -> Collections \cup {None}],
           removed' \in [Runtimes -> Nat],
           remover' \in [Removers -> [pc : {"idle", "dispose", "done", "rejected"},
                                      coll : Collections \cup {None}]],
           UNCHANGED <<conn, owner, alive, st, backlog, transport, loop, coll, infos, call,
                       cancelled, disposed, disposal, snapshot, latest, announced>>
    PROVE  TypeOK'
BY DEF TypeOK

\* RemoveConnection takes a collection out of the dictionary: the collection
\* is kept by the remover, and its announcement is paid back.
LEMMA TryRemoveInv ==
    ASSUME Inv, NEW m \in Removers, TryRemove(m)
    PROVE  Inv'
<1>t. /\ call \in [Calls -> CallType] /\ coll \in [Collections -> CollType]
      /\ loop \in LoopType /\ dict \in [Runtimes -> Collections \cup {None}]
  BY DEF Inv, TypeOK, CallType, CollType, LoopType

<1>r. remover \in [Removers -> [pc : {"idle", "dispose", "done", "rejected"},
                               coll : Collections \cup {None}]]
  BY DEF Inv, TypeOK
<1>p. remover[m].pc = "idle" /\ remover[m].coll = None
  BY DEF TryRemove, Inv, RemoverInv
<1>u. UNCHANGED <<world, st, backlog, transport, loop, coll, infos, call, closing,
                  latest, announced>>
  BY DEF TryRemove
<1>a. \/ /\ \E p \in {"rejected", "done"} : remover' = [remover EXCEPT ![m].pc = p]
         /\ dict' = dict /\ removed' = removed
      \/ \E r \in Runtimes :
            /\ dict[r] # None /\ ~disposed
            /\ remover' = [remover EXCEPT ![m].pc = "dispose", ![m].coll = dict[r]]
            /\ dict' = [dict EXCEPT ![r] = None]
            /\ removed' = [removed EXCEPT ![r] = @ + 1]
  BY DEF TryRemove
<1>b. ASSUME NEW p \in {"rejected", "done"}, remover' = [remover EXCEPT ![m].pc = p],
             dict' = dict, removed' = removed
      PROVE  Inv'
  <2>1. /\ remover'[m].pc = p /\ remover'[m].coll = None
        /\ \A n \in Removers : n # m => remover'[n] = remover[n]
        /\ remover' \in [Removers -> [pc : {"idle", "dispose", "done", "rejected"},
                                      coll : Collections \cup {None}]]
    BY <1>b, <1>p, <1>r
  <2>2. TypeOK'
    BY <1>b, <1>u, <2>1 DEF Inv, TypeOK, world, closing
  <2>3. \A n \in Removers : remover'[n].coll = remover[n].coll
    BY <1>p, <2>1
  <2>4. KeptInv'
    BY <1>b, <1>u, <2>3 DEF Inv, KeptInv, Kept, closing
  <2>5. RemoverInv'
    BY <2>1 DEF Inv, RemoverInv
  <2>6. BacklogInv' /\ LoopInv'
    BY <1>u DEF Inv, BacklogInv, LoopInv, Filing, world, closing
  <2>7. StoredInv' /\ DictInv'
    BY <1>b, <1>u DEF Inv, StoredInv, DictInv, Filing, world
  <2>8. DisposeInv' /\ HeldInv'
    BY <1>u DEF Inv, DisposeInv, HeldInv, closing
  <2>9. ListInv'
    BY <1>u DEF Inv, ListInv, WaitersAreListed
  <2>10. PaidInv'
    BY <1>b, <1>u DEF Inv, PaidInv, Paid, Pending, Filing, world, closing
  <2> QED
    BY <2>2, <2>4, <2>5, <2>6, <2>7, <2>8, <2>9, <2>10 DEF Inv
<1> SUFFICES ASSUME NEW r \in Runtimes, dict[r] # None, ~disposed,
                    remover' = [remover EXCEPT ![m].pc = "dispose", ![m].coll = dict[r]],
                    dict' = [dict EXCEPT ![r] = None],
                    removed' = [removed EXCEPT ![r] = @ + 1]
             PROVE  Inv'
  BY <1>a, <1>b
<1>c. /\ remover'[m].pc = "dispose" /\ remover'[m].coll = dict[r]
      /\ dict[r] \in Collections
      /\ \A n \in Removers : n # m => remover'[n] = remover[n]
      /\ remover' \in [Removers -> [pc : {"idle", "dispose", "done", "rejected"},
                                    coll : Collections \cup {None}]]
  BY <1>r, <1>t
<1>d. /\ dict'[r] = None /\ \A q \in Runtimes : q # r => dict'[q] = dict[q]
      /\ dict' \in [Runtimes -> Collections \cup {None}]
  BY <1>t
<1>e. \A q \in Runtimes : dict'[q] # None => dict'[q] = dict[q]
  BY <1>d
<1>f. /\ removed' \in [Runtimes -> Nat] /\ removed'[r] = removed[r] + 1
      /\ \A q \in Runtimes : q # r => removed'[q] = removed[q]
  BY DEF Inv, TypeOK
<1>1. TypeOK'
  <2>1. UNCHANGED <<conn, owner, alive, st, backlog, transport, loop, coll, infos, call,
                    cancelled, disposed, disposal, snapshot, latest, announced>>
    BY <1>u DEF world, closing
  <2>2. TypeOK
    BY DEF Inv
  <2> QED
    BY <1>c, <1>d, <1>f, <2>1, <2>2, RemovalTypes
<1>2. BacklogInv'
  BY DEF Inv, BacklogInv, TryRemove, world, closing, history
<1>3. LoopInv'
  BY DEF Inv, LoopInv, Filing, TryRemove, world, closing, history
<1>4. StoredInv'
  BY DEF Inv, StoredInv, TryRemove, world, closing, history
<1>5. KeptInv'
  <2>1. \A n \in Removers, l \in Collections : remover[n].coll = l => remover'[n].coll = l
    BY <1>c, <1>p, NoneAssumption
  <2>2. \A l \in Collections : Kept(l) => Kept(l)'
    BY <1>c, <1>d, <1>u, <2>1 DEF Kept, closing
  <2>3. loop.pc \in Filing => loop.coll \in Collections
    BY DEF Inv, LoopInv
  <2>4. UNCHANGED <<coll, loop, disposal, snapshot>>
    BY <1>u DEF closing
  <2>5. (\A k \in Collections : coll[k].items # <<>> => Kept(k))'
    BY <2>2, <2>4 DEF Inv, KeptInv
  <2>6. (loop.pc \in Filing /\ ~coll[loop.coll].disposed => Kept(loop.coll))'
    BY <2>2, <2>3, <2>4 DEF Inv, KeptInv
  <2>7. (disposal \in {"collections", "flag", "done"} =>
            \A k \in Collections : coll[k].items # <<>> =>
               k \in snapshot \/ \E n \in Removers : remover[n].coll = k)'
    <3>1. ASSUME disposal \in {"collections", "flag", "done"}, NEW k \in Collections,
                 coll[k].items # <<>>, k \notin snapshot
          PROVE  \E n \in Removers : remover'[n].coll = k
      <4>1. PICK n \in Removers : remover[n].coll = k
        BY <3>1 DEF Inv, KeptInv
      <4> QED
        BY <2>1, <4>1
    <3> QED
      BY <2>4, <3>1
  <2>8. (\A k \in Collections : coll[k].disposed =>
            coll[k].items = <<>> /\ coll[k].waiters = <<>>)'
    BY <2>4 DEF Inv, KeptInv
  <2> QED
    BY <2>5, <2>6, <2>7, <2>8 DEF KeptInv
<1>6. DictInv'
  <2>1. UNCHANGED <<loop, owner, coll, latest>>
    BY <1>u DEF world
  <2>2. \A q \in Runtimes : loop.pc \in Filing /\ dict'[q] = loop.coll => dict[q] = loop.coll
    BY <1>d, NoneAssumption DEF Inv, LoopInv
  <2>3. \A q, v \in Runtimes : dict'[q] = dict'[v] /\ dict'[q] # None => q = v
    BY <1>e DEF Inv, DictInv
  <2>4. \A v \in Runtimes : loop.pc \in Filing /\ dict'[v] = loop.coll => v = owner[loop.stream]
    BY <2>2 DEF Inv, DictInv
  <2>5. \A v \in Runtimes :
           loop.pc \in {"clear", "add"} /\ owner[loop.stream] = v
              /\ dict'[v] # None /\ dict'[v] # loop.coll
           => coll[dict'[v]].items = <<>>
    BY <1>e DEF Inv, DictInv
  <2>6. \A v \in Runtimes : dict'[v] # None => Range(coll[dict'[v]].items) \subseteq {latest[v]}
    BY <1>e DEF Inv, DictInv
  <2> QED
    BY <2>1, <2>3, <2>4, <2>5, <2>6 DEF DictInv
<1>7. DisposeInv'
  BY DEF Inv, DisposeInv, TryRemove, world, closing, history
<1>8. ListInv'
  BY DEF Inv, ListInv, WaitersAreListed, TryRemove, world, closing, history
<1>9. HeldInv'
  BY DEF Inv, HeldInv, TryRemove, world, closing, history
<1>10. RemoverInv'
  BY <1>c DEF Inv, RemoverInv
<1>11. PaidInv'
  <2>1. ASSUME NEW q \in Runtimes PROVE Paid(q)'
    <3>1. Pending(q)' = Pending(q) /\ Pending(q) \in {0, 1}
      BY <1>u DEF Pending, world
    <3>2. CASE q = r
      BY <1>f, <1>u, <3>1, <3>2 DEF Inv, TypeOK, PaidInv, Paid, closing
    <3>3. CASE q # r
      BY <1>d, <1>f, <1>u, <3>1, <3>3 DEF Inv, PaidInv, Paid, closing
    <3> QED
      BY <3>2, <3>3
  <2> QED
    BY <2>1 DEF PaidInv
<1> QED
  BY <1>1, <1>2, <1>3, <1>4, <1>5, <1>6, <1>7, <1>8, <1>9, <1>10, <1>11 DEF
     Inv

\* The types, when a collection, the calls on it and its streams change.
LEMMA HandlingTypes ==
    ASSUME TypeOK,
           coll' \in [Collections -> CollType], call' \in [Calls -> CallType],
           st' \in [Streams -> {"backlog", "accepted", "held", "lost", "closed"}],
           snapshot' \in SUBSET Collections,
           remover' \in [Removers -> [pc : {"idle", "dispose", "done", "rejected"},
                                      coll : Collections \cup {None}]],
           UNCHANGED <<conn, owner, alive, backlog, transport, loop, dict, infos, cancelled,
                       disposed, disposal, latest, announced, removed>>
    PROVE  TypeOK'
BY DEF TypeOK, CallType, CollType

\* What the Dispose of a collection does, and which parts of the invariant it
\* keeps while nothing else changes.
LEMMA DisposeCollectionEffect ==
    ASSUME Inv, NEW k \in Collections, DisposeCollection(k),
           UNCHANGED <<world, backlog, transport, loop, dict, infos, cancelled,
                       disposed, disposal, history>>
    PROVE  /\ call' \in [Calls -> CallType]
           /\ coll' \in [Collections -> CollType]
           /\ st' \in [Streams -> {"backlog", "accepted", "held", "lost", "closed"}]
           /\ coll'[k].disposed /\ coll'[k].items = <<>> /\ coll'[k].waiters = <<>>
           /\ \A l \in Collections : l # k => coll'[l] = coll[l]
           /\ BacklogInv' /\ LoopInv' /\ StoredInv' /\ DictInv' /\ ListInv'
           /\ HeldInv' /\ PaidInv'
<1>t. /\ call \in [Calls -> CallType] /\ coll \in [Collections -> CollType]
      /\ dict \in [Runtimes -> Collections \cup {None}]
  BY DEF Inv, TypeOK, CallType, CollType
<1> DEFINE old == Range(coll[k].items)
           ws == Range(coll[k].waiters)
<1>a. /\ coll' \in [Collections -> CollType]
      /\ coll'[k].disposed /\ coll'[k].items = <<>> /\ coll'[k].waiters = <<>>
      /\ \A l \in Collections : l # k => coll'[l] = coll[l]
  BY <1>t, EmptyList DEF DisposeCollection, Gone, CollType
<1>b. /\ st' \in [Streams -> {"backlog", "accepted", "held", "lost", "closed"}]
      /\ \A s \in Streams : st'[s] = IF s \in old THEN "closed" ELSE st[s]
  BY DEF DisposeCollection, Close, Inv, TypeOK
<1>c. ASSUME NEW c \in Calls, c \notin ws
      PROVE  call'[c] = call[c]
  BY <1>c DEF DisposeCollection
<1>d. ASSUME NEW c \in Calls, c \in ws
      PROVE  /\ call'[c] \in CallType /\ call'[c].pc = "rejected"
             /\ call'[c].got = call[c].got
  <2>1. call'[c] = [call[c] EXCEPT !.pc = "rejected", !.coll = None]
    BY <1>d DEF DisposeCollection
  <2>2. call[c] \in CallType
    BY <1>t
  <2> QED
    BY <2>1, <2>2 DEF CallType
<1>e. call' \in [Calls -> CallType]
  <2>1. \A c \in Calls : call'[c] \in CallType
    BY <1>c, <1>d, <1>t
  <2> HIDE DEF ws
  <2> QED
    BY <2>1 DEF DisposeCollection
<1>f. \A s \in Streams : s \in old => /\ st[s] = "accepted"
                                      /\ loop.pc \in {"parse", "clear", "add"} => loop.stream # s
  BY DEF Inv, StoredInv
<1>g. \A c \in Calls : c \in ws <=> call[c].pc = "waiting" /\ call[c].kind # "accept" /\ call[c].coll = k
  BY DEF Inv, ListInv, WaitersAreListed
<1>h. Range(coll'[k].items) = {} /\ Range(coll'[k].waiters) = {} /\ Len(coll'[k].items) = 0
      /\ Injective(coll'[k].waiters)
  BY <1>a, EmptyList DEF Injective
<1> HIDE DEF old, ws
<1>1. BacklogInv'
  BY <1>b, <1>f DEF Inv, BacklogInv, world
<1>2. LoopInv'
  BY <1>a, <1>b, <1>f DEF Inv, LoopInv, Filing, world
<1>3. StoredInv'
  <2>1. \A s : s \in old <=> s \in Range(coll[k].items)
    BY DEF old
  <2> QED
    BY <1>a, <1>b, <1>f, <1>h, <2>1, SMTT(20) DEF Inv, StoredInv
<1>4. DictInv'
  <2>1. \A l \in Collections : /\ coll'[l].items = coll[l].items \/ coll'[l].items = <<>>
                              /\ Range(coll'[l].items) \subseteq Range(coll[l].items)
    BY <1>a, <1>h
  <2>2. UNCHANGED <<loop, owner, dict, latest>>
    BY DEF world, history
  <2>3. ASSUME NEW r \in Runtimes, dict[r] # None
        PROVE  Range(coll'[dict[r]].items) \subseteq {latest[r]}
    BY <1>t, <2>1, <2>3 DEF Inv, DictInv
  <2>4. ASSUME NEW r \in Runtimes, loop.pc \in {"clear", "add"}, owner[loop.stream] = r,
               dict[r] # None, dict[r] # loop.coll
        PROVE  coll'[dict[r]].items = <<>>
    BY <1>t, <2>1, <2>4 DEF Inv, DictInv
  <2> QED
    BY <2>2, <2>3, <2>4 DEF Inv, DictInv
<1>5. ListInv'
  <2>1. \A c \in Calls : call'[c].pc \in {"waiting", "handle", "verified"} =>
           c \notin ws /\ call'[c] = call[c]
    BY <1>c, <1>d
  <2>2. WaitersAreListed'
    BY <1>a, <1>g, <2>1 DEF Inv, ListInv, WaitersAreListed
  <2>3. \A l \in Collections, c \in Calls : c \in Range(coll'[l].waiters) =>
           l # k /\ c \in Range(coll[l].waiters) /\ c \notin ws
    BY <1>a, <1>g, <1>h DEF Inv, ListInv
  <2>4. \A l \in Collections : Injective(coll'[l].waiters)
    BY <1>a, <1>h DEF Inv, ListInv
  <2>5. \A c \in Calls : c \in Range(infos.waiters) => c \notin ws
    BY <1>g DEF Inv, ListInv
  <2> QED
    BY <1>c, <2>1, <2>2, <2>3, <2>4, <2>5 DEF Inv, ListInv
<1>6. HeldInv'
  <2>1. \A c \in Calls : call'[c].got = call[c].got /\ (call[c].got # None => call'[c] = call[c])
    BY <1>c, <1>d, <1>g DEF Inv, HeldInv
  <2>2. \A s \in Streams : st[s] = "held" <=> st'[s] = "held"
    BY <1>b, <1>f
  <2>3. \A c \in Calls : call[c].got \in Streams \cup {None}
    BY <1>t DEF CallType
  <2> QED
    BY <2>1, <2>2, <2>3 DEF Inv, HeldInv
<1>7. PaidInv'
  BY DEF Inv, PaidInv, Paid, Pending, Filing, world, history
<1> QED
  BY <1>1, <1>2, <1>3, <1>4, <1>5, <1>6, <1>7, <1>a, <1>b, <1>e

\* RemoveConnection disposes the collection that it took.
LEMMA DisposeRemovedInv ==
    ASSUME Inv, NEW m \in Removers, DisposeRemoved(m)
    PROVE  Inv'
<1> DEFINE k == remover[m].coll
<1>a. k \in Collections /\ DisposeCollection(k) /\ remover[m].pc = "dispose"
  BY DEF DisposeRemoved, Inv, RemoverInv
<1>u. UNCHANGED <<world, backlog, transport, loop, dict, infos, cancelled, disposed,
                  disposal, snapshot, history>>
  BY DEF DisposeRemoved, closing
<1>r. remover \in [Removers -> [pc : {"idle", "dispose", "done", "rejected"},
                               coll : Collections \cup {None}]]
  BY DEF Inv, TypeOK
<1>d. /\ remover'[m].pc = "done" /\ remover'[m].coll = None
      /\ \A n \in Removers : n # m => remover'[n] = remover[n]
      /\ remover' \in [Removers -> [pc : {"idle", "dispose", "done", "rejected"},
                                    coll : Collections \cup {None}]]
  BY <1>r DEF DisposeRemoved

<1>b. /\ call' \in [Calls -> CallType]
      /\ coll' \in [Collections -> CollType]
      /\ st' \in [Streams -> {"backlog", "accepted", "held", "lost", "closed"}]
      /\ coll'[k].disposed /\ coll'[k].items = <<>> /\ coll'[k].waiters = <<>>
      /\ \A l \in Collections : l # k => coll'[l] = coll[l]
      /\ BacklogInv' /\ LoopInv' /\ StoredInv' /\ DictInv' /\ ListInv'
      /\ HeldInv' /\ PaidInv'
  BY <1>a, <1>u, DisposeCollectionEffect
<1>c. loop.pc \in Filing => loop.coll \in Collections
  BY DEF Inv, LoopInv
<1>e. \A l \in Collections : l # k =>
         /\ Kept(l) => Kept(l)'
         /\ (\E n \in Removers : remover[n].coll = l) => \E n \in Removers : remover'[n].coll = l
  BY <1>d, <1>u DEF Kept
<1> HIDE DEF k
<1>1. TypeOK'
  <2>1. UNCHANGED <<conn, owner, alive, backlog, transport, loop, dict, infos, cancelled,
                    disposed, disposal, snapshot, latest, announced, removed>>
    BY <1>u DEF world, closing, history
  <2>2. TypeOK /\ snapshot \in SUBSET Collections
    BY DEF Inv, TypeOK
  <2> QED
    BY <1>b, <1>d, <2>1, <2>2, HandlingTypes
<1>2. BacklogInv'
  BY <1>b
<1>3. LoopInv'
  BY <1>b
<1>4. StoredInv'
  BY <1>b
<1>5. KeptInv'
  BY <1>b, <1>c, <1>e, <1>u DEF Inv, KeptInv
<1>6. DictInv'
  BY <1>b
<1>7. DisposeInv'
  BY <1>u DEF Inv, DisposeInv
<1>8. ListInv'
  BY <1>b
<1>9. HeldInv'
  BY <1>b
<1>10. RemoverInv'
  BY <1>d DEF Inv, RemoverInv
<1>11. PaidInv'
  BY <1>b
<1> QED
  BY <1>1, <1>2, <1>3, <1>4, <1>5, <1>6, <1>7, <1>8, <1>9, <1>10, <1>11 DEF
     Inv

\* DisposeAsync disposes a collection of its copy.
LEMMA DisposeNextInv ==
    ASSUME Inv, DisposeNext
    PROVE  Inv'
<1>s. snapshot \in SUBSET Collections
  BY DEF Inv, TypeOK
<1>a. PICK k \in Collections : DisposeCollection(k) /\ snapshot' = snapshot \ {k}
  BY <1>s DEF DisposeNext
<1>u. UNCHANGED <<world, backlog, transport, loop, dict, infos, remover, cancelled,
                  disposed, disposal, history>>
  BY DEF DisposeNext
<1>v. disposal = "collections"
  BY DEF DisposeNext

<1>b. /\ call' \in [Calls -> CallType]
      /\ coll' \in [Collections -> CollType]
      /\ st' \in [Streams -> {"backlog", "accepted", "held", "lost", "closed"}]
      /\ coll'[k].disposed /\ coll'[k].items = <<>> /\ coll'[k].waiters = <<>>
      /\ \A l \in Collections : l # k => coll'[l] = coll[l]
      /\ BacklogInv' /\ LoopInv' /\ StoredInv' /\ DictInv' /\ ListInv'
      /\ HeldInv' /\ PaidInv'
  BY <1>a, <1>u, DisposeCollectionEffect
<1>c. loop.pc \in Filing => loop.coll \in Collections
  BY DEF Inv, LoopInv
<1>e. \A l \in Collections : l # k => (Kept(l) => Kept(l)')
  BY <1>a, <1>u DEF Kept
<1>1. TypeOK'
  <2>1. UNCHANGED <<conn, owner, alive, backlog, transport, loop, dict, infos, remover,
                    cancelled, disposed, disposal, latest, announced, removed>>
    BY <1>u DEF world, history
  <2>2. snapshot' \in SUBSET Collections
    BY <1>a, <1>s
  <2>3. TypeOK
    BY DEF Inv
  <2>4. remover' \in [Removers -> [pc : {"idle", "dispose", "done", "rejected"},
                                   coll : Collections \cup {None}]]
    BY <2>1 DEF Inv, TypeOK
  <2> QED
    BY <1>b, <2>1, <2>2, <2>3, <2>4, HandlingTypes
<1>2. BacklogInv'
  BY <1>b
<1>3. LoopInv'
  BY <1>b
<1>4. StoredInv'
  BY <1>b
<1>5. KeptInv'
  BY <1>a, <1>b, <1>c, <1>e, <1>u DEF Inv, KeptInv
<1>6. DictInv'
  BY <1>b
<1>7. DisposeInv'
  BY <1>u, <1>v DEF Inv, DisposeInv
<1>8. ListInv'
  BY <1>b
<1>9. HeldInv'
  BY <1>b
<1>10. RemoverInv'
  BY <1>u DEF Inv, RemoverInv
<1>11. PaidInv'
  BY <1>b
<1> QED
  BY <1>1, <1>2, <1>3, <1>4, <1>5, <1>6, <1>7, <1>8, <1>9, <1>10, <1>11 DEF
     Inv

\* The loop has ended when _endpointInfos is disposed.
LEMMA DisposeInfosInv ==
    ASSUME Inv, DisposeInfos
    PROVE  Inv'
<1>t. call \in [Calls -> CallType]
  BY DEF Inv, TypeOK, CallType
<1> DEFINE ws == Range(infos.waiters)
<1>u. /\ UNCHANGED <<world, st, backlog, transport, loop, dict, coll, remover, cancelled,
                     disposed, snapshot, history>>
      /\ disposal = "await" /\ disposal' = "values"
      /\ loop.pc \in {"unstarted", "stopped"}
  BY DEF DisposeInfos
<1>a. /\ infos' \in [items : Seq(Runtimes), waiters : Seq(Calls), disposed : BOOLEAN]
      /\ infos'.waiters = <<>>
  BY EmptyList DEF DisposeInfos, Gone
<1>c. ASSUME NEW c \in Calls, c \notin ws
      PROVE  call'[c] = call[c]
  BY <1>c DEF DisposeInfos
<1>d. ASSUME NEW c \in Calls, c \in ws
      PROVE  call'[c] \in CallType /\ call'[c].pc = "rejected" /\ call'[c].got = call[c].got
  <2>1. call'[c] = [call[c] EXCEPT !.pc = "rejected"]
    BY <1>d DEF DisposeInfos
  <2>2. call[c] \in CallType
    BY <1>t
  <2> QED
    BY <2>1, <2>2 DEF CallType
<1>e. call' \in [Calls -> CallType]
  <2>1. \A c \in Calls : call'[c] \in CallType
    BY <1>c, <1>d, <1>t
  <2> HIDE DEF ws
  <2> QED
    BY <2>1 DEF DisposeInfos
<1>g. \A c \in Calls : c \in ws <=> call[c].pc = "waiting" /\ call[c].kind = "accept"
  BY DEF Inv, ListInv, WaitersAreListed
<1>h. Range(infos'.waiters) = {} /\ Injective(infos'.waiters)
  BY <1>a, EmptyList DEF Injective
<1> HIDE DEF ws
<1>1. TypeOK'
  BY <1>a, <1>e, <1>u DEF Inv, TypeOK, CallType, world, history
<1>2. BacklogInv'
  BY <1>u DEF Inv, BacklogInv, world
<1>3. LoopInv'
  BY DEF Inv, LoopInv, Filing, DisposeInfos, world, closing, history
<1>4. StoredInv'
  BY DEF Inv, StoredInv, DisposeInfos, world, closing, history
<1>5. KeptInv'
  BY <1>u DEF Inv, KeptInv, Kept
<1>6. DictInv'
  BY DEF Inv, DictInv, Filing, DisposeInfos, world, closing, history
<1>7. DisposeInv'
  BY <1>u DEF Inv, DisposeInv
<1>8. ListInv'
  <2>1. \A c \in Calls : call'[c].pc \in {"waiting", "handle", "verified"} =>
           c \notin ws /\ call'[c] = call[c]
    BY <1>c, <1>d
  <2>2. WaitersAreListed'
    BY <1>g, <1>u, <2>1 DEF Inv, ListInv, WaitersAreListed
  <2>3. \A l \in Collections, c \in Calls : c \in Range(coll[l].waiters) => c \notin ws
    BY <1>g DEF Inv, ListInv
  <2> QED
    BY <1>c, <1>h, <1>u, <2>1, <2>2, <2>3 DEF Inv, ListInv
<1>9. HeldInv'
  <2>1. \A c \in Calls : call'[c].got = call[c].got /\ (call[c].got # None => call'[c] = call[c])
    BY <1>c, <1>d, <1>g DEF Inv, HeldInv
  <2> QED
    BY <1>u, <2>1 DEF Inv, HeldInv
<1>10. RemoverInv'
  BY DEF Inv, RemoverInv, DisposeInfos, world, closing, history
<1>11. PaidInv'
  <2>1. \A r \in Runtimes : Pending(r)' = Pending(r)
    BY <1>u DEF Pending, world
  <2> QED
    BY <1>u, <2>1 DEF Inv, PaidInv, Paid, history
<1> QED
  BY <1>1, <1>2, <1>3, <1>4, <1>5, <1>6, <1>7, <1>8, <1>9, <1>10, <1>11 DEF
     Inv

\* The loop makes the announcement that it owed.
LEMMA AnnounceInv ==
    ASSUME Inv, Announce
    PROVE  Inv'
<1>t. /\ call \in [Calls -> CallType] /\ coll \in [Collections -> CollType]
      /\ loop \in LoopType /\ dict \in [Runtimes -> Collections \cup {None}]
  BY DEF Inv, TypeOK, CallType, CollType, LoopType

<1>i. infos \in [items : Seq(Runtimes), waiters : Seq(Calls), disposed : BOOLEAN]
  BY DEF Inv, TypeOK
<1> DEFINE r == owner[loop.stream]
<1>r. r \in Runtimes /\ loop.pc = "announce" /\ loop.stream \in Streams
  BY DEF Announce, Inv, LoopInv, Filing
<1>u. /\ UNCHANGED <<world, st, backlog, transport, dict, coll, remover, closing, latest,
                     removed>>
      /\ loop' = AtAccept
      /\ announced' = [announced EXCEPT ![r] = @ + 1]
  BY DEF Announce
<1>l. loop'.pc = "accept" /\ loop'.stream = None /\ loop'.coll = None /\ loop' \in LoopType
  BY <1>u DEF AtAccept, LoopType
<1>a. \/ /\ call' = call
         /\ infos' \in [items : Seq(Runtimes), waiters : Seq(Calls), disposed : BOOLEAN]
         /\ infos'.waiters = infos.waiters /\ infos'.disposed = infos.disposed
      \/ \E w \in Calls :
            /\ w \in Range(infos.waiters)
            /\ call' \in [Calls -> CallType]
            /\ \A d \in Calls : d # w => call'[d] = call[d]
            /\ call'[w].pc \in {"done", "expired"} /\ call'[w].got = None
            /\ infos' \in [items : Seq(Runtimes), waiters : Seq(Calls), disposed : BOOLEAN]
            /\ Range(infos'.waiters) = Range(infos.waiters) \ {w}
            /\ Injective(infos'.waiters) /\ infos'.disposed = infos.disposed
  <2>1. CASE infos.waiters = <<>>
    <3>1. call' = call /\ infos' = [infos EXCEPT !.items = Append(@, r)]
      BY <2>1 DEF Announce
    <3>2. Append(infos.items, r) \in Seq(Runtimes)
      BY <1>i, <1>r, AppendList
    <3> HIDE DEF r
    <3> QED
      BY <1>i, <3>1, <3>2
  <2>2. CASE infos.waiters # <<>>
    <3> DEFINE w == Head(infos.waiters)
               tl == Tail(infos.waiters)
    <3>1. PICK lost \in BOOLEAN :
             /\ infos' = [infos EXCEPT !.waiters = tl]
             /\ call' = [call EXCEPT ![w] = Handover(w, None, lost)]
      BY <2>2 DEF Announce
    <3>2. /\ w \in Calls /\ w \in Range(infos.waiters)
          /\ tl \in Seq(Calls) /\ Range(tl) = Range(infos.waiters) \ {w} /\ Injective(tl)
      BY <1>i, <2>2, TailOfList DEF Inv, ListInv
    <3> HIDE DEF w, tl
    <3>3. /\ Handover(w, None, lost) \in CallType
          /\ Handover(w, None, lost).pc \in {"expired", "done"}
          /\ Handover(w, None, lost).got = None
      <4>1. w \in Calls /\ call \in [Calls -> CallType] /\ None \in Streams \cup {None}
        BY <1>t, <3>2
      <4> QED
        BY <4>1, HandoverEffect
    <3>4. /\ infos' \in [items : Seq(Runtimes), waiters : Seq(Calls), disposed : BOOLEAN]
          /\ infos'.waiters = tl /\ infos'.disposed = infos.disposed
      BY <1>i, <3>1, <3>2
    <3>5. /\ call' \in [Calls -> CallType] /\ call'[w] = Handover(w, None, lost)
          /\ \A d \in Calls : d # w => call'[d] = call[d]
      BY <1>t, <3>1, <3>2, <3>3
    <3> QED
      BY <3>2, <3>3, <3>4, <3>5
  <2> QED
    BY <2>1, <2>2
<1>f. /\ announced' \in [Runtimes -> Nat] /\ announced'[r] = announced[r] + 1
      /\ \A q \in Runtimes : q # r => announced'[q] = announced[q]
  BY <1>r, <1>u DEF Inv, TypeOK
<1>g. infos'.disposed = infos.disposed
  BY <1>a
<1> HIDE DEF r
<1>1. TypeOK'
  <2>1. /\ infos' \in [items : Seq(Runtimes), waiters : Seq(Calls), disposed : BOOLEAN]
        /\ call' \in [Calls -> CallType]
    BY <1>a, <1>t
  <2> QED
    BY <1>f, <1>l, <1>u, <2>1 DEF Inv, TypeOK, CallType, LoopType, world, closing
<1>2. BacklogInv'
  BY DEF Inv, BacklogInv, Announce, world, closing, history
<1>3. LoopInv'
  BY <1>l DEF LoopInv, Filing
<1>4. StoredInv'
  BY <1>l, <1>r, <1>u DEF Inv, StoredInv
<1>5. KeptInv'
  BY <1>l, <1>u DEF Inv, KeptInv, Kept, Filing, closing
<1>6. DictInv'
  BY <1>l, <1>u DEF Inv, DictInv, Filing
<1>7. DisposeInv'
  BY <1>g, <1>l, <1>r, <1>u DEF Inv, DisposeInv, closing
<1>8. ListInv'
  <2>1. CASE call' = call /\ infos'.waiters = infos.waiters
    BY <1>u, <2>1 DEF Inv, ListInv, WaitersAreListed
  <2>2. ASSUME NEW w \in Calls, w \in Range(infos.waiters),
               \A d \in Calls : d # w => call'[d] = call[d],
               call'[w].pc \in {"done", "expired"},
               Range(infos'.waiters) = Range(infos.waiters) \ {w},
               Injective(infos'.waiters)
        PROVE  ListInv'
    <3>1. call[w].pc = "waiting" /\ call[w].kind = "accept"
      BY <2>2 DEF Inv, ListInv
    <3>2. WaitersAreListed'
      BY <1>u, <2>2, <3>1 DEF Inv, ListInv, WaitersAreListed
    <3> QED
      BY <1>u, <2>2, <3>1, <3>2 DEF Inv, ListInv
  <2> QED
    BY <1>a, <2>1, <2>2
<1>9. HeldInv'
  <2>1. ASSUME NEW w \in Calls, w \in Range(infos.waiters),
               \A d \in Calls : d # w => call'[d] = call[d],
               call'[w].got = None
        PROVE  HeldInv'
    <3>1. call[w].got = None
      BY <2>1 DEF Inv, ListInv, HeldInv
    <3> QED
      BY <1>u, <2>1, <3>1, NoneAssumption DEF Inv, HeldInv
  <2>2. CASE call' = call
    BY <1>u, <2>2 DEF Inv, HeldInv
  <2> QED
    BY <1>a, <2>1, <2>2
<1>10. RemoverInv'
  BY DEF Inv, RemoverInv, Announce, world, closing, history
<1>11. PaidInv'
  <2>1. ASSUME NEW q \in Runtimes PROVE Paid(q)'
    <3>1. Pending(q)' = 0 /\ Pending(q) \in {0, 1} /\ (q = r /\ loop.new => Pending(q) = 1)
      BY <1>l, <1>r DEF Pending, Filing, r
    <3>2. loop.new
      BY <1>r DEF Inv, LoopInv
    <3>3. CASE q = r
      BY <1>f, <1>u, <3>1, <3>2, <3>3 DEF Inv, TypeOK, PaidInv, Paid, closing
    <3>4. CASE q # r
      BY <1>f, <1>u, <3>1, <3>4 DEF Inv, TypeOK, PaidInv, Paid, closing
    <3> QED
      BY <3>3, <3>4
  <2> QED
    BY <2>1 DEF PaidInv
<1> QED
  BY <1>1, <1>2, <1>3, <1>4, <1>5, <1>6, <1>7, <1>8, <1>9, <1>10, <1>11 DEF
     Inv

\* A call that has found its collection, k, and has not queued its handler.
LEMMA HandlingCall ==
    ASSUME Inv, NEW c \in Calls, call[c].pc = "handle"
    PROVE  /\ call[c].coll \in Collections /\ call[c].kind \in {"connect", "wait"}
           /\ call[c].got = None
           /\ \A k \in Collections : c \notin Range(coll[k].waiters)
           /\ c \notin Range(infos.waiters)
           /\ \A k \in Collections : /\ coll[k].items \in Seq(Streams)
                                     /\ coll[k].waiters \in Seq(Calls)
                                     /\ Len(coll[k].items) <= 1
<1>1. call \in [Calls -> CallType]
  BY DEF Inv, TypeOK, CallType
<1>2. call[c].kind \in {"accept", "connect", "wait"}
  BY <1>1 DEF CallType
<1> QED
  BY <1>2 DEF Inv, TypeOK, ListInv, HeldInv, StoredInv

\* The call ends and takes nothing.
LEMMA HandleEndsInv ==
    ASSUME Inv, NEW c \in Calls, call[c].pc = "handle",
           call' \in [Calls -> CallType], \A d \in Calls : d # c => call'[d] = call[d],
           call'[c].pc \in {"done", "rejected"}, call'[c].got = None,
           coll' \in [Collections -> CollType],
           \A k \in Collections : /\ coll'[k].items = coll[k].items
                                  /\ coll'[k].waiters = coll[k].waiters
                                  /\ coll'[k].disposed = coll[k].disposed,
           st' = st,
           UNCHANGED <<world, backlog, transport, loop, dict, infos, remover, closing, history>>
    PROVE  Inv'
<1>a. /\ call[c].got = None
      /\ \A k \in Collections : c \notin Range(coll[k].waiters)
      /\ c \notin Range(infos.waiters)
  BY HandlingCall
<1>b. dict \in [Runtimes -> Collections \cup {None}]
  BY DEF Inv, TypeOK
<1>1. TypeOK'
  BY DEF Inv, TypeOK, CallType, CollType, world, closing, history
<1>2. BacklogInv'
  BY DEF Inv, BacklogInv, world, closing
<1>3. LoopInv'
  BY DEF Inv, LoopInv, Filing, world
<1>4. StoredInv'
  BY DEF Inv, StoredInv
<1>5. KeptInv'
  BY DEF Inv, LoopInv, KeptInv, Kept, closing
<1>6. DictInv'
  BY <1>b DEF Inv, DictInv, world, history
<1>7. DisposeInv'
  BY DEF Inv, DisposeInv, closing
<1>8. ListInv'
  <2>1. WaitersAreListed'
    BY DEF Inv, ListInv, WaitersAreListed
  <2> QED
    BY <1>a, <2>1 DEF Inv, ListInv
<1>9. HeldInv'
  BY <1>a DEF Inv, HeldInv
<1>10. RemoverInv'
  BY DEF Inv, RemoverInv
<1>11. PaidInv'
  BY DEF Inv, PaidInv, Paid, Pending, Filing, world, closing, history
<1> QED
  BY <1>1, <1>2, <1>3, <1>4, <1>5, <1>6, <1>7, <1>8, <1>9, <1>10, <1>11 DEF
     Inv

\* Connect takes the stream that is stored.
LEMMA HandleTakesInv ==
    ASSUME Inv, NEW c \in Calls, call[c].pc = "handle",
           NEW k \in Collections,
           NEW s \in Streams, Range(coll[k].items) = {s}, NEW lost \in BOOLEAN,
           coll' \in [Collections -> CollType],
           coll'[k].items = <<>>, coll'[k].waiters = coll[k].waiters,
           coll'[k].disposed = coll[k].disposed,
           \A l \in Collections : l # k => coll'[l] = coll[l],
           call' \in [Calls -> CallType],
           \A d \in Calls : d # c => call'[d] = call[d],
           call'[c].pc \in {"expired", "done"}, ~lost => call'[c].pc = "done",
           call'[c].got = IF lost THEN None ELSE s,
           st' \in [Streams -> {"backlog", "accepted", "held", "lost", "closed"}],
           st'[s] = IF lost THEN "lost" ELSE "held",
           \A t \in Streams : t # s => st'[t] = st[t],
           UNCHANGED <<world, backlog, transport, loop, dict, infos, remover, closing, history>>
    PROVE  Inv'
<1>t. /\ call \in [Calls -> CallType] /\ coll \in [Collections -> CollType]
      /\ loop \in LoopType /\ dict \in [Runtimes -> Collections \cup {None}]
  BY DEF Inv, TypeOK, CallType, CollType, LoopType

<1>a. /\ call[c].got = None
      /\ \A l \in Collections : c \notin Range(coll[l].waiters)
      /\ c \notin Range(infos.waiters)
  BY HandlingCall
<1>g. /\ st[s] = "accepted" /\ owner[s] \in Runtimes
      /\ loop.pc \in {"parse", "clear", "add"} => loop.stream # s
      /\ \A l \in Collections : l # k => s \notin Range(coll[l].items)
  BY DEF Inv, StoredInv, BacklogInv
<1>h. Range(coll'[k].items) = {} /\ Len(coll'[k].items) = 0
  BY EmptyList
<1>1. TypeOK'
  <2>1. UNCHANGED <<conn, owner, alive, backlog, transport, loop, dict, infos, remover,
                    cancelled, disposed, disposal, snapshot, latest, announced, removed>>
    BY DEF world, closing, history
  <2>2. TypeOK
    BY DEF Inv
  <2>3. /\ snapshot' \in SUBSET Collections
        /\ remover' \in [Removers -> [pc : {"idle", "dispose", "done", "rejected"},
                                      coll : Collections \cup {None}]]
    BY <2>1 DEF Inv, TypeOK
  <2> QED
    BY <2>1, <2>2, <2>3, HandlingTypes
<1>2. BacklogInv'
  BY <1>g DEF Inv, BacklogInv, world, closing
<1>3. LoopInv'
  BY <1>g DEF Inv, LoopInv, Filing, world
<1>4. StoredInv'
  BY <1>g, <1>h DEF Inv, StoredInv
<1>5. KeptInv'
  BY DEF Inv, LoopInv, KeptInv, Kept, closing
<1>6. DictInv'
  <2>1. \A l \in Collections : /\ coll'[l].items = coll[l].items \/ coll'[l].items = <<>>
                              /\ Range(coll'[l].items) \subseteq Range(coll[l].items)
    BY <1>h
  <2>2. UNCHANGED <<loop, owner, dict, latest>>
    BY DEF world, history
  <2>3. ASSUME NEW r \in Runtimes, dict[r] # None
        PROVE  Range(coll'[dict[r]].items) \subseteq {latest[r]}
    <3>1. dict[r] \in Collections
      BY <1>t, <2>3
    <3>2. Range(coll[dict[r]].items) \subseteq {latest[r]}
      BY <2>3 DEF Inv, DictInv
    <3> QED
      BY <2>1, <3>1, <3>2
  <2>4. ASSUME NEW r \in Runtimes, loop.pc \in {"clear", "add"}, owner[loop.stream] = r,
               dict[r] # None, dict[r] # loop.coll
        PROVE  coll'[dict[r]].items = <<>>
    BY <1>t, <2>1, <2>4 DEF Inv, DictInv
  <2> QED
    BY <2>2, <2>3, <2>4 DEF Inv, DictInv
<1>7. DisposeInv'
  BY DEF Inv, DisposeInv, closing
<1>8. ListInv'
  <2>1. call'[c].pc \in {"expired", "done"}
    OBVIOUS
  <2>2. \A l \in Collections : coll'[l].waiters = coll[l].waiters /\ coll'[l].disposed = coll[l].disposed
    OBVIOUS
  <2>3. WaitersAreListed'
    BY <2>1, <2>2 DEF Inv, ListInv, WaitersAreListed
  <2> QED
    BY <1>a, <2>1, <2>2, <2>3 DEF Inv, ListInv
<1>9. HeldInv'
  <2>1. call'[c].got = (IF lost THEN None ELSE s) /\ (~lost => call'[c].pc = "done")
    OBVIOUS
  <2>2. \A d \in Calls : d # c => call[d].got # s
    BY <1>g, NoneAssumption DEF Inv, HeldInv
  <2>3. \A d \in Calls : call[d].got \in Streams \cup {None}
    BY <1>t DEF CallType
  <2>4. \A d \in Calls : call'[d].got # None => call'[d].pc = "done" /\ st'[call'[d].got] = "held"
    BY <2>1, <2>2, <2>3 DEF Inv, HeldInv
  <2>5. \A d, e \in Calls : call'[d].got = call'[e].got /\ call'[d].got # None => d = e
    BY <2>1, <2>2 DEF Inv, HeldInv
  <2>6. \A t \in Streams : st'[t] = "held" => \E d \in Calls : call'[d].got = t
    BY <1>a, <2>1, NoneAssumption DEF Inv, HeldInv
  <2> QED
    BY <2>4, <2>5, <2>6 DEF HeldInv
<1>10. RemoverInv'
  BY DEF Inv, RemoverInv
<1>11. PaidInv'
  BY DEF Inv, PaidInv, Paid, Pending, Filing, world, closing, history
<1> QED
  BY <1>1, <1>2, <1>3, <1>4, <1>5, <1>6, <1>7, <1>8, <1>9, <1>10, <1>11 DEF
     Inv

\* The call queues its handler; the dead streams it was offered are disposed.
LEMMA HandleQueuesInv ==
    ASSUME Inv, NEW c \in Calls, call[c].pc = "handle",
           NEW k \in Collections, k = call[c].coll, ~coll[k].disposed,
           NEW ws \in Seq(Calls), Injective(ws), Range(ws) = Range(coll[k].waiters) \cup {c},
           coll' \in [Collections -> CollType],
           coll'[k].items = <<>>, coll'[k].waiters = ws,
           coll'[k].disposed = coll[k].disposed,
           \A l \in Collections : l # k => coll'[l] = coll[l],
           call' \in [Calls -> CallType],
           \A d \in Calls : d # c => call'[d] = call[d],
           call'[c].pc = "waiting", call'[c].kind = call[c].kind,
           call'[c].coll = k, call'[c].got = call[c].got,
           st' \in [Streams -> {"backlog", "accepted", "held", "lost", "closed"}],
           \A s \in Streams : st'[s] = IF s \in Range(coll[k].items)
                                     THEN "closed" ELSE st[s],
           UNCHANGED <<world, backlog, transport, loop, dict, infos, remover, closing, history>>
    PROVE  Inv'
<1>t. /\ call \in [Calls -> CallType] /\ coll \in [Collections -> CollType]
      /\ loop \in LoopType /\ dict \in [Runtimes -> Collections \cup {None}]
  BY DEF Inv, TypeOK, CallType, CollType, LoopType

<1>a. /\ call[c].got = None /\ call[c].kind \in {"connect", "wait"}
      /\ \A l \in Collections : c \notin Range(coll[l].waiters)
      /\ c \notin Range(infos.waiters)
  BY HandlingCall
<1>g. \A s \in Streams : s \in Range(coll[k].items) =>
         /\ st[s] = "accepted"
         /\ loop.pc \in {"parse", "clear", "add"} => loop.stream # s
  BY DEF Inv, StoredInv
<1>h. Range(coll'[k].items) = {} /\ Len(coll'[k].items) = 0
  BY EmptyList
<1>1. TypeOK'
  <2>1. UNCHANGED <<conn, owner, alive, backlog, transport, loop, dict, infos, remover,
                    cancelled, disposed, disposal, snapshot, latest, announced, removed>>
    BY DEF world, closing, history
  <2>2. TypeOK
    BY DEF Inv
  <2>3. /\ snapshot' \in SUBSET Collections
        /\ remover' \in [Removers -> [pc : {"idle", "dispose", "done", "rejected"},
                                      coll : Collections \cup {None}]]
    BY <2>1 DEF Inv, TypeOK
  <2> QED
    BY <2>1, <2>2, <2>3, HandlingTypes
<1>2. BacklogInv'
  BY <1>g DEF Inv, BacklogInv, world, closing
<1>3. LoopInv'
  BY <1>g DEF Inv, LoopInv, Filing, world
<1>4. StoredInv'
  BY <1>g, <1>h DEF Inv, StoredInv
<1>5. KeptInv'
  BY DEF Inv, LoopInv, KeptInv, Kept, closing
<1>6. DictInv'
  <2>1. \A l \in Collections : /\ coll'[l].items = coll[l].items \/ coll'[l].items = <<>>
                              /\ Range(coll'[l].items) \subseteq Range(coll[l].items)
    BY <1>h
  <2>2. UNCHANGED <<loop, owner, dict, latest>>
    BY DEF world, history
  <2>3. ASSUME NEW r \in Runtimes, dict[r] # None
        PROVE  Range(coll'[dict[r]].items) \subseteq {latest[r]}
    <3>1. dict[r] \in Collections
      BY <1>t, <2>3
    <3>2. Range(coll[dict[r]].items) \subseteq {latest[r]}
      BY <2>3 DEF Inv, DictInv
    <3> QED
      BY <2>1, <3>1, <3>2
  <2>4. ASSUME NEW r \in Runtimes, loop.pc \in {"clear", "add"}, owner[loop.stream] = r,
               dict[r] # None, dict[r] # loop.coll
        PROVE  coll'[dict[r]].items = <<>>
    BY <1>t, <2>1, <2>4 DEF Inv, DictInv
  <2> QED
    BY <2>2, <2>3, <2>4 DEF Inv, DictInv
<1>7. DisposeInv'
  BY DEF Inv, DisposeInv, closing
<1>8. ListInv'
  <2>1. \A l \in Collections : /\ coll'[l].disposed = coll[l].disposed
                               /\ Injective(coll'[l].waiters)
                               /\ Range(coll'[l].waiters) =
                                     Range(coll[l].waiters) \cup (IF l = k THEN {c} ELSE {})
    BY DEF Inv, ListInv
  <2>2. WaitersAreListed'
    BY <1>a, <2>1 DEF Inv, ListInv, WaitersAreListed
  <2>3. \A l \in Collections, d \in Calls : d \in Range(coll'[l].waiters) =>
           call'[d].pc = "waiting" /\ call'[d].kind # "accept" /\ call'[d].coll = l
    BY <1>a, <2>1 DEF Inv, ListInv
  <2> QED
    BY <1>a, <2>1, <2>2, <2>3 DEF Inv, ListInv
<1>9. HeldInv'
  <2>1. \A d \in Calls : call'[d].got = call[d].got /\ (call[d].got # None => call'[d] = call[d])
    BY <1>a
  <2>2. \A s \in Streams : st[s] = "held" <=> st'[s] = "held"
    BY <1>g
  <2>3. \A d \in Calls : call[d].got \in Streams \cup {None}
    BY <1>t DEF CallType
  <2> QED
    BY <2>1, <2>2, <2>3 DEF Inv, HeldInv
<1>10. RemoverInv'
  BY DEF Inv, RemoverInv
<1>11. PaidInv'
  BY DEF Inv, PaidInv, Paid, Pending, Filing, world, closing, history
<1> QED
  BY <1>1, <1>2, <1>3, <1>4, <1>5, <1>6, <1>7, <1>8, <1>9, <1>10, <1>11 DEF
     Inv

\* Handle of a stream collection, in each of its four ways.
LEMMA HandleStreamInv ==
    ASSUME Inv, NEW c \in Calls, HandleStream(c)
    PROVE  Inv'
<1>t. call \in [Calls -> CallType] /\ coll \in [Collections -> CollType]
  BY DEF Inv, TypeOK, CallType, CollType
<1> DEFINE k == call[c].coll
           items == coll[k].items
           live == SelectInSeq(items, LAMBDA s : alive[s])
<1>p. call[c].pc = "handle"
  BY DEF HandleStream
<1>a. /\ k \in Collections /\ call[c].kind \in {"connect", "wait"}
      /\ items \in Seq(Streams) /\ Len(items) <= 1
  BY <1>p, HandlingCall
<1>u. UNCHANGED <<world, backlog, transport, loop, dict, infos, remover, closing, history>>
  BY DEF HandleStream
<1>l. live = 0 \/ (live = 1 /\ items # <<>>)
  <2> DEFINE I == {i \in 1..Len(items) : alive[items[i]]}
  <2>1. live = IF I # {} THEN Min(I) ELSE 0
    BY DEF SelectInSeq
  <2>2. Len(items) \in Nat
    BY <1>a, RangeProperties
  <2> HIDE DEF items
  <2>6. \A i \in 1..Len(items) : i = 1 /\ i \in Nat /\ Len(items) = 1
    <3> DEFINE n == Len(items)
    <3>1. n \in Nat /\ n <= 1
      BY <1>a, <2>2
    <3> HIDE DEF n
    <3>2. \A i \in 1..n : i = 1 /\ i \in Nat /\ n = 1
      BY <3>1
    <3> QED
      BY <3>2 DEF n
  <2>3. I \subseteq {1} /\ I \in SUBSET Nat /\ (I # {} => Len(items) = 1)
    BY <2>6
  <2>4. I # {} => Min(I) \in I
    BY <2>3, MinProperties
  <2>5. Len(items) = 1 => items # <<>>
    BY EmptyList
  <2> HIDE DEF I, live
  <2> QED
    BY <2>1, <2>3, <2>4, <2>5
<1>e. ASSUME NEW pc \in {"done", "rejected"}, call' = [call EXCEPT ![c] = Ended(c, pc, None)]
      PROVE  /\ call' \in [Calls -> CallType] /\ \A d \in Calls : d # c => call'[d] = call[d]
             /\ call'[c].pc \in {"done", "rejected"} /\ call'[c].got = None
  <2>1. None \in Streams \cup {None} /\ pc \in {"done", "expired", "rejected"}
    OBVIOUS
  <2>2. Ended(c, pc, None) \in CallType /\ Ended(c, pc, None).pc = pc /\ Ended(c, pc, None).got = None
    BY <1>t, <2>1, EndedEffect
  <2> QED
    BY <1>e, <1>t, <2>2
<1>1. ASSUME call' = [call EXCEPT ![c] = Ended(c, "rejected", None)], UNCHANGED <<coll, st>>
      PROVE  Inv'
  BY <1>1, <1>e, <1>p, <1>t, <1>u, HandleEndsInv
<1>2. ASSUME items # <<>>, coll' = [coll EXCEPT ![k].items = Tail(items)],
             NEW lost \in BOOLEAN, call' = [call EXCEPT ![c] = Handover(c, Head(items), lost)],
             st' = HandedOver(Head(items), lost)
      PROVE  Inv'
  <2> DEFINE s == Head(items)
  <2>1. s \in Streams /\ Range(items) = {s} /\ Tail(items) = <<>>
    BY <1>2, <1>a, ShortList, TailOfList
  <2>2. /\ Handover(c, s, lost) \in CallType
        /\ Handover(c, s, lost).pc \in {"expired", "done"}
        /\ Handover(c, s, lost).got = IF lost THEN None ELSE s
        /\ ~lost => Handover(c, s, lost).pc = "done"
    <3>1. s \in Streams \cup {None} /\ lost \in BOOLEAN
      BY <1>2, <2>1
    <3> HIDE DEF s
    <3> QED
      BY <1>t, <3>1, HandoverEffect
  <2>3. /\ coll' \in [Collections -> CollType]
        /\ coll'[k].items = <<>> /\ coll'[k].waiters = coll[k].waiters
        /\ coll'[k].disposed = coll[k].disposed
        /\ \A l \in Collections : l # k => coll'[l] = coll[l]
    <3>1. coll' = [coll EXCEPT ![k].items = <<>>]
      BY <1>2, <2>1
    <3> HIDE DEF k, items, s
    <3> QED
      BY <1>a, <1>t, <3>1, EmptyList DEF CollType
  <2>4. /\ call' \in [Calls -> CallType] /\ call'[c] = Handover(c, s, lost)
        /\ \A d \in Calls : d # c => call'[d] = call[d]
    BY <1>2, <1>t, <2>2
  <2>5. /\ st' \in [Streams -> {"backlog", "accepted", "held", "lost", "closed"}]
        /\ st'[s] = (IF lost THEN "lost" ELSE "held")
        /\ \A t \in Streams : t # s => st'[t] = st[t]
    BY <1>2, <2>1 DEF HandedOver, Inv, TypeOK
  <2>6. Range(coll[k].items) = {s}
    BY <2>1
  <2> HIDE DEF k, items, s
  <2>7. /\ call'[c].pc \in {"expired", "done"} /\ (~lost => call'[c].pc = "done")
        /\ call'[c].got = IF lost THEN None ELSE s
    BY <2>2, <2>4
  <2>8. lost \in BOOLEAN /\ k \in Collections /\ s \in Streams /\ c \in Calls
    BY <1>2, <1>a, <2>1
  <2> QED
    BY <1>p, <1>u, <2>3, <2>4, <2>5, <2>6, <2>7, <2>8, HandleTakesInv
<1>3. ASSUME live # 0, st' = Close({items[p] : p \in 1..(live - 1)}),
             coll' = [coll EXCEPT ![k].items = SubSeq(@, live, Len(@))],
             call' = [call EXCEPT ![c] = Ended(c, "done", None)]
      PROVE  Inv'
  <2>1. live = 1
    BY <1>3, <1>l
  <2> HIDE DEF live
  <2>2. st' = st
    <3>1. {items[p] : p \in 1..(live - 1)} = {}
      BY <2>1
    <3> QED
      BY <1>3, <3>1 DEF Close, Inv, TypeOK
  <2>3. coll' = [coll EXCEPT ![k].items = items]
    BY <1>3, <1>a, <2>1, ShortList
  <2>4. /\ coll' \in [Collections -> CollType]
        /\ \A l \in Collections : /\ coll'[l].items = coll[l].items
                                  /\ coll'[l].waiters = coll[l].waiters
                                  /\ coll'[l].disposed = coll[l].disposed
    BY <1>a, <1>t, <2>3 DEF CollType
  <2> QED
    BY <1>3, <1>e, <1>p, <1>u, <2>2, <2>4, HandleEndsInv
<1>4. ASSUME ~coll[k].disposed, st' = Close(Range(items)),
             coll' = [coll EXCEPT ![k].items = <<>>, ![k].waiters = Append(@, c)],
             call' = [call EXCEPT ![c].pc = "waiting"]
      PROVE  Inv'
  <2> DEFINE ws == Append(coll[k].waiters, c)
  <2>1. coll[k].waiters \in Seq(Calls) /\ Injective(coll[k].waiters) /\ c \notin Range(coll[k].waiters)
    BY <1>a, <1>p, HandlingCall DEF Inv, ListInv
  <2>2. ws \in Seq(Calls) /\ Range(ws) = Range(coll[k].waiters) \cup {c} /\ Injective(ws)
    BY <2>1, AppendList
  <2>3. coll'[k] = [coll[k] EXCEPT !.items = <<>>, !.waiters = ws]
    <3> HIDE DEF k
    <3> QED
      BY <1>4, <1>a, <1>t DEF CollType
  <2>4. coll[k] \in CollType /\ \A l \in Collections : l # k => coll'[l] = coll[l]
    BY <1>4, <1>a, <1>t
  <2> HIDE DEF ws
  <2>5. /\ coll'[k] \in CollType /\ coll'[k].items = <<>> /\ coll'[k].waiters = ws
        /\ coll'[k].disposed = coll[k].disposed
    <3> HIDE DEF k
    <3> QED
      BY <2>2, <2>3, <2>4, EmptyList DEF CollType
  <2>6. coll' \in [Collections -> CollType]
    <3>1. DOMAIN coll' = Collections /\ coll' = [l \in Collections |-> coll'[l]]
      BY <1>4, <1>t
    <3> QED
      BY <1>t, <2>4, <2>5, <3>1
  <2>7. /\ call' \in [Calls -> CallType] /\ call'[c].pc = "waiting"
        /\ call'[c].kind = call[c].kind /\ call'[c].coll = k /\ call'[c].got = call[c].got
        /\ \A d \in Calls : d # c => call'[d] = call[d]
    BY <1>4, <1>t DEF CallType
  <2>8. /\ st' \in [Streams -> {"backlog", "accepted", "held", "lost", "closed"}]
        /\ \A s \in Streams : st'[s] = IF s \in Range(coll[k].items) THEN "closed" ELSE st[s]
    BY <1>4 DEF Close, Inv, TypeOK
  <2>9. k = call[c].coll /\ ~coll[k].disposed
    BY <1>4
  <2> HIDE DEF k
  <2> QED
    BY <1>a, <1>p, <1>u, <2>2, <2>4, <2>5, <2>6, <2>7, <2>8, <2>9, HandleQueuesInv
<1> QED
  BY <1>1, <1>2, <1>3, <1>4 DEF HandleStream

\* The loop has added a stream, s, to the collection k: it is stored there, or
\* was disposed by a handler, or went to the call w, or was lost to it; the
\* handlers of the calls W are gone from the list.
Added(k, s, res, W, w) ==
    /\ loop.pc = "add" /\ k = loop.coll /\ s = loop.stream /\ ~coll[k].disposed
    /\ coll' \in [Collections -> CollType] /\ coll'[k].disposed = coll[k].disposed
    /\ Range(coll'[k].items) = IF res = "accepted" THEN {s} ELSE {}
    /\ Len(coll'[k].items) <= 1 /\ Injective(coll'[k].waiters)
    /\ Range(coll'[k].waiters) = Range(coll[k].waiters) \ W
    /\ \A l \in Collections : l # k => coll'[l] = coll[l]
    /\ call' \in [Calls -> CallType]
    /\ \A c \in Calls : c \notin W => call'[c] = call[c]
    /\ \A c \in W : /\ call'[c].pc \in {"done", "expired"}
                    /\ call'[c].got = IF res = "held" /\ c = w THEN s ELSE None
    /\ res = "held" => w \in W /\ call'[w].pc = "done"
    /\ st' \in [Streams -> {"backlog", "accepted", "held", "lost", "closed"}]
    /\ st'[s] = res /\ \A t \in Streams : t # s => st'[t] = st[t]
    /\ latest' \in [Runtimes -> Streams \cup {None}] /\ latest'[owner[s]] = s
    /\ \A r \in Runtimes : r # owner[s] => latest'[r] = latest[r]
    /\ loop' \in LoopType
    /\ IF loop.new
       THEN loop'.pc = "announce" /\ loop'.stream = s /\ loop'.coll = k /\ loop'.new
       ELSE loop'.pc = "accept" /\ loop'.stream = None /\ loop'.coll = None
    /\ UNCHANGED <<world, backlog, transport, dict, infos, remover, closing,
                   announced, removed>>

\* The loop has added its stream.
LEMMA AddedStreamInv ==
    ASSUME Inv, NEW k \in Collections, NEW s \in Streams,
           NEW res \in {"accepted", "closed", "lost", "held"},
           NEW W \in SUBSET Range(coll[k].waiters), NEW w \in Calls \cup {None},
           Added(k, s, res, W, w)
    PROVE  Inv'
<1> USE DEF Added
<1>t. /\ call \in [Calls -> CallType] /\ coll \in [Collections -> CollType]
      /\ loop \in LoopType /\ dict \in [Runtimes -> Collections \cup {None}]
  BY DEF Inv, TypeOK, CallType, CollType, LoopType

<1>a. /\ st[s] = "accepted" /\ owner[s] \in Runtimes /\ coll[k].items = <<>>
      /\ \A l \in Collections : s \notin Range(coll[l].items)
  BY DEF Inv, LoopInv, StoredInv, Filing
<1>b. \A c \in W : /\ c \in Calls /\ call[c].pc = "waiting" /\ call[c].kind # "accept"
                   /\ call[c].coll = k /\ call[c].got = None
  <2>1. W \subseteq Calls
    <3>1. coll[k].waiters \in Seq(Calls)
      BY <1>t DEF CollType
    <3> QED
      BY <3>1, RangeProperties
  <2> QED
    BY <2>1 DEF Inv, ListInv, HeldInv
<1>c. /\ disposal \notin {"values", "collections", "flag", "done"}
      /\ transport # "none" /\ Kept(k)
  BY DEF Inv, DisposeInv, KeptInv, Filing
<1>d. UNCHANGED <<owner, dict, infos, remover, disposal, snapshot, disposed>>
  BY DEF world, closing
<1>e. loop'.pc \in {"accept", "announce"} /\ loop'.pc \notin {"clear", "add", "parse"}
  OBVIOUS
<1>f. coll'[k].items # <<>> => res = "accepted"
  <2>1. coll'[k].items \in Seq(Streams)
    BY DEF CollType
  <2> QED
    BY <2>1, RangeProperties
<1>1. TypeOK'
  BY DEF Inv, TypeOK, CallType, CollType, LoopType, world, closing
<1>2. BacklogInv'
  BY <1>a, <1>d DEF Inv, BacklogInv
<1>3. LoopInv'
  BY <1>a, <1>d, <1>e DEF LoopInv, Filing
<1>4. StoredInv'
  <2>1. \A l \in Collections, t \in Streams : t \in Range(coll'[l].items) =>
           \/ l = k /\ t = s /\ res = "accepted"
           \/ l # k /\ t # s /\ t \in Range(coll[l].items)
    BY <1>a
  <2>2. \A l \in Collections : Len(coll'[l].items) <= 1
    BY DEF Inv, StoredInv
  <2>3. \A l \in Collections, t \in Streams : t \in Range(coll'[l].items) => st'[t] = "accepted"
    BY <2>1 DEF Inv, StoredInv
  <2>4. \A l, m \in Collections, t \in Streams :
           t \in Range(coll'[l].items) /\ t \in Range(coll'[m].items) => l = m
    BY <2>1 DEF Inv, StoredInv
  <2>5. ASSUME NEW t \in Streams, st'[t] = "accepted"
        PROVE  \E l \in Collections : t \in Range(coll'[l].items)
    <3>1. CASE t = s
      BY <2>5, <3>1
    <3>2. CASE t # s
      <4>1. PICK l \in Collections : t \in Range(coll[l].items)
        BY <2>5, <3>2 DEF Inv, StoredInv
      <4>2. l # k
        BY <1>a, <4>1, EmptyList
      <4> QED
        BY <4>1, <4>2
    <3> QED
      BY <3>1, <3>2
  <2> QED
    BY <1>e, <2>2, <2>3, <2>4, <2>5 DEF StoredInv
<1>5. KeptInv'
  <2>1. \A l \in Collections : Kept(l)' <=> Kept(l)
    BY <1>d DEF Kept
  <2>2. \A l \in Collections : coll'[l].disposed => coll'[l].items = <<>> /\ coll'[l].waiters = <<>>
    BY DEF Inv, KeptInv
  <2>3. \A l \in Collections : coll'[l].items # <<>> => Kept(l)
    BY <1>c DEF Inv, KeptInv
  <2> QED
    BY <1>c, <1>d, <1>e, <2>1, <2>2, <2>3 DEF KeptInv, Filing
<1>6. DictInv'
  <2>1. \A q, r \in Runtimes : dict[q] = dict[r] /\ dict[q] # None => q = r
    BY DEF Inv, DictInv
  <2>2. \A r \in Runtimes : dict[r] = k => r = owner[s]
    BY DEF Inv, DictInv, Filing
  <2>3. ASSUME NEW r \in Runtimes, dict[r] # None
        PROVE  Range(coll'[dict[r]].items) \subseteq {latest'[r]}
    <3>1. CASE dict[r] = k
      BY <2>2, <3>1
    <3>2. CASE dict[r] # k
      <4>1. dict[r] \in Collections
        BY <1>t, <2>3
      <4>2. coll'[dict[r]].items = coll[dict[r]].items
        BY <3>2, <4>1
      <4>3. Range(coll[dict[r]].items) \subseteq {latest[r]}
        BY <2>3 DEF Inv, DictInv
      <4>4. r = owner[s] => coll[dict[r]].items = <<>>
        BY <2>3, <3>2 DEF Inv, DictInv
      <4> QED
        BY <4>2, <4>3, <4>4, EmptyList
    <3> QED
      BY <3>1, <3>2
  <2>4. \A r \in Runtimes : loop'.pc \in Filing /\ dict[r] = loop'.coll => r = owner[loop'.stream]
    BY <2>2 DEF Filing
  <2>5. dict' = dict /\ owner' = owner /\ ~(loop'.pc \in {"clear", "add"})
    BY <1>d, <1>e
  <2>6. \A q, r \in Runtimes : dict'[q] = dict'[r] /\ dict'[q] # None => q = r
    BY <2>1, <2>5
  <2>7. \A r \in Runtimes : loop'.pc \in Filing /\ dict'[r] = loop'.coll => r = owner'[loop'.stream]
    BY <2>4, <2>5
  <2>8. \A r \in Runtimes : dict'[r] # None => Range(coll'[dict'[r]].items) \subseteq {latest'[r]}
    BY <2>3, <2>5
  <2> QED
    BY <2>5, <2>6, <2>7, <2>8 DEF DictInv
<1>7. DisposeInv'
  BY <1>c, <1>d, <1>e DEF Inv, DisposeInv
<1>8. ListInv'
  <2>1. \A l \in Collections : /\ Injective(coll'[l].waiters)
                               /\ coll'[l].disposed = coll[l].disposed
                               /\ Range(coll'[l].waiters) =
                                     Range(coll[l].waiters) \ (IF l = k THEN W ELSE {})
    BY DEF Inv, ListInv
  <2>2. \A c \in W : call'[c].pc \notin {"waiting", "handle", "verified"}
    OBVIOUS
  <2>3. \A l \in Collections, c \in Calls : c \in Range(coll'[l].waiters) =>
           call'[c].pc = "waiting" /\ call'[c].kind # "accept" /\ call'[c].coll = l
    <3>1. ASSUME NEW l \in Collections, NEW c \in Calls, c \in Range(coll'[l].waiters)
          PROVE  c \in Range(coll[l].waiters) /\ c \notin W
      <4>1. c \in Range(coll[l].waiters) /\ (l = k => c \notin W)
        BY <2>1, <3>1
      <4>2. call[c].coll = l
        BY <4>1 DEF Inv, ListInv
      <4> QED
        BY <1>b, <4>1, <4>2
    <3>2. \A l \in Collections, c \in Calls : c \in Range(coll[l].waiters) =>
             call[c].pc = "waiting" /\ call[c].kind # "accept" /\ call[c].coll = l
      BY DEF Inv, ListInv
    <3> QED
      BY <3>1, <3>2
  <2>4. \A c \in Calls : c \in Range(infos.waiters) => c \notin W
    BY <1>b DEF Inv, ListInv
  <2>5. WaitersAreListed'
    <3>1. ASSUME NEW c \in Calls, call'[c].pc = "waiting"
          PROVE  IF call'[c].kind = "accept" THEN c \in Range(infos.waiters)
                 ELSE /\ c \in Range(coll'[call'[c].coll].waiters)
                      /\ ~coll'[call'[c].coll].disposed
      <4>1. c \notin W /\ call'[c] = call[c]
        BY <2>2, <3>1
      <4>2. call[c].kind # "accept" => call[c].coll \in Collections
        BY <3>1, <4>1 DEF Inv, ListInv
      <4>3. IF call[c].kind = "accept" THEN c \in Range(infos.waiters)
            ELSE c \in Range(coll[call[c].coll].waiters) /\ ~coll[call[c].coll].disposed
        BY <3>1, <4>1 DEF Inv, ListInv, WaitersAreListed
      <4> QED
        BY <2>1, <4>1, <4>2, <4>3
    <3> QED
      BY <1>d, <3>1 DEF WaitersAreListed
  <2>6. \A c \in Calls : call'[c].pc \in {"waiting", "handle", "verified"} => call'[c] = call[c]
    BY <2>2
  <2>7. \A c \in Calls : c \in Range(infos.waiters) => call'[c].pc = "waiting" /\ call'[c].kind = "accept"
    BY <2>4 DEF Inv, ListInv
  <2>8. /\ \A c \in Calls : call'[c].pc = "handle" =>
              call'[c].kind # "accept" /\ call'[c].coll \in Collections
        /\ \A c \in Calls : call'[c].pc = "waiting" /\ call'[c].kind # "accept" =>
              call'[c].coll \in Collections
        /\ \A c \in Calls : call'[c].pc = "verified" => call'[c].rt \in Runtimes
    BY <2>6 DEF Inv, ListInv
  <2>9. Injective(infos.waiters)
    BY DEF Inv, ListInv
  <2> QED
    BY <1>d, <2>1, <2>3, <2>5, <2>7, <2>8, <2>9 DEF ListInv
<1>9. HeldInv'
  <2>1. \A c \in Calls : call[c].got # s /\ call[c].got \in Streams \cup {None}
    BY <1>a, <1>t, NoneAssumption DEF CallType, Inv, HeldInv
  <2>2. \A c \in Calls : \/ call'[c] = call[c]
                         \/ call'[c].got = None /\ call[c].got = None
                         \/ call'[c].got = s /\ res = "held" /\ c = w /\ call'[c].pc = "done"
    BY <1>b
  <2>3. s # None
    BY NoneAssumption
  <2>4. \A c \in Calls : call'[c].got # None => call'[c].pc = "done" /\ st'[call'[c].got] = "held"
    BY <2>1, <2>2 DEF Inv, HeldInv
  <2>5. \A c, d \in Calls : call'[c].got = call'[d].got /\ call'[c].got # None => c = d
    BY <2>1, <2>2 DEF Inv, HeldInv
  <2>6. ASSUME NEW t \in Streams, st'[t] = "held" PROVE \E c \in Calls : call'[c].got = t
    <3>1. CASE t = s
      BY <1>b, <2>6, <3>1
    <3>2. CASE t # s
      <4>1. PICK c \in Calls : call[c].got = t
        BY <2>6, <3>2 DEF Inv, HeldInv
      <4>2. t # None
        BY NoneAssumption
      <4> QED
        BY <1>b, <4>1, <4>2
    <3> QED
      BY <3>1, <3>2
  <2> QED
    BY <2>4, <2>5, <2>6 DEF HeldInv
<1>10. RemoverInv'
  BY <1>d DEF Inv, RemoverInv
<1>11. PaidInv'
  <2>1. \A r \in Runtimes : Pending(r)' = Pending(r)
    BY <1>d DEF Pending, Filing
  <2> QED
    BY <1>d, <2>1 DEF Inv, PaidInv, Paid
<1> QED
  BY <1>1, <1>2, <1>3, <1>4, <1>5, <1>6, <1>7, <1>8, <1>9, <1>10, <1>11 DEF
     Inv

\* Add to an empty list.
LEMMA OneItem ==
    ASSUME NEW S, NEW e \in S
    PROVE  /\ Append(<<>>, e) \in Seq(S) /\ Len(Append(<<>>, e)) = 1
           /\ Range(Append(<<>>, e)) = {e}
<1>1. Append(<<>>, e) = <<e>> /\ <<e>> \in Seq(S) /\ Len(<<e>>) = 1
  OBVIOUS
<1>2. Range(<<e>>) = {e}
  BY DEF Range
<1> QED
  BY <1>1, <1>2

\* The accept loop adds its stream: a handler disposes it, no handler takes it,
\* or the first one that takes streams gets it.
LEMMA AddStreamInv ==
    ASSUME Inv, AddStream
    PROVE  Inv'
<1>t. /\ call \in [Calls -> CallType] /\ coll \in [Collections -> CollType]
      /\ loop \in LoopType
      /\ st \in [Streams -> {"backlog", "accepted", "held", "lost", "closed"}]
      /\ latest \in [Runtimes -> Streams \cup {None}]
  BY DEF Inv, TypeOK, CallType, CollType, LoopType
<1> DEFINE k == loop.coll
           s == loop.stream
           ws == coll[k].waiters
           n == Len(ws)
           takers == Takers(ws)
           asked == IF takers = {} THEN n ELSE Min(takers)
           waits == {ws[p] : p \in (1..asked) \ takers}
<1>a. /\ loop.pc = "add" /\ ~coll[k].disposed /\ AddTo(k, s)
      /\ latest' = [latest EXCEPT ![owner[s]] = s]
      /\ loop' = IF loop.new THEN [loop EXCEPT !.pc = "announce"] ELSE AtAccept
  BY DEF AddStream
<1>u. UNCHANGED <<world, backlog, transport, dict, infos, remover, closing, announced, removed>>
  BY DEF AddStream
<1>b. /\ k \in Collections /\ s \in Streams /\ owner[s] \in Runtimes
      /\ st[s] = "accepted" /\ coll[k].items = <<>>
  BY <1>a DEF Inv, LoopInv, Filing
<1>c. /\ latest' \in [Runtimes -> Streams \cup {None}] /\ latest'[owner[s]] = s
      /\ \A r \in Runtimes : r # owner[s] => latest'[r] = latest[r]
  <2> HIDE DEF s
  <2> QED
    BY <1>a, <1>b, <1>t
<1>d. /\ loop' \in LoopType
      /\ IF loop.new
         THEN loop'.pc = "announce" /\ loop'.stream = s /\ loop'.coll = k /\ loop'.new
         ELSE loop'.pc = "accept" /\ loop'.stream = None /\ loop'.coll = None
  BY <1>a, <1>t DEF LoopType, AtAccept
<1>w. ws \in Seq(Calls) /\ Injective(ws)
  BY <1>b, <1>t DEF CollType, Inv, ListInv
<1>n. n \in Nat /\ \A p \in 1..n : ws[p] \in Calls /\ ws[p] \in Range(ws)
  BY <1>w, RangeProperties, ElementOfSeq
<1>1. ASSUME st' = Close({s}), UNCHANGED <<coll, call>>
      PROVE  Inv'
  <2>1. /\ st' \in [Streams -> {"backlog", "accepted", "held", "lost", "closed"}]
        /\ st'[s] = "closed" /\ \A t \in Streams : t # s => st'[t] = st[t]
    BY <1>1, <1>b, <1>t DEF Close
  <2>2. /\ Range(coll'[k].items) = {} /\ Len(coll'[k].items) <= 1
        /\ Injective(coll'[k].waiters)
        /\ Range(coll'[k].waiters) = Range(coll[k].waiters) \ {}
        /\ coll' \in [Collections -> CollType] /\ coll'[k].disposed = coll[k].disposed
        /\ \A l \in Collections : l # k => coll'[l] = coll[l]
    BY <1>1, <1>b, <1>t, <1>w, EmptyList
  <2> DEFINE res == "closed"
             W == {}
             w == None
  <2>3. /\ call' \in [Calls -> CallType] /\ W \in SUBSET Range(coll[k].waiters)
        /\ \A c \in Calls : c \notin W => call'[c] = call[c]
        /\ \A c \in W : /\ call'[c].pc \in {"done", "expired"}
                        /\ call'[c].got = IF res = "held" /\ c = w THEN s ELSE None
        /\ res = "held" => w \in W /\ call'[w].pc = "done"
    BY <1>1, <1>t
  <2>4. /\ res \in {"accepted", "closed", "lost", "held"} /\ st'[s] = res
        /\ k = loop.coll /\ s = loop.stream /\ w \in Calls \cup {None}
    BY <2>1
  <2>5. /\ Range(coll'[k].items) = IF res = "accepted" THEN {s} ELSE {}
        /\ Range(coll'[k].waiters) = Range(coll[k].waiters) \ W
    BY <2>2
  <2>6. loop.pc = "add" /\ ~coll[k].disposed /\ k \in Collections /\ s \in Streams
    BY <1>a, <1>b
  <2> HIDE DEF k, s, res, W, w
  <2>7. Added(k, s, res, W, w)
    BY <1>c, <1>d, <1>u, <2>1, <2>2, <2>3, <2>4, <2>5, <2>6 DEF Added
  <2> QED
    BY <2>3, <2>4, <2>6, <2>7, AddedStreamInv
<1>q. asked \in 0..n /\ (takers # {} => asked \in 1..n /\ asked \in takers)
      /\ takers \subseteq 1..n
  <2>1. takers \subseteq 1..n
    BY DEF Takers
  <2>2. takers # {} => Min(takers) \in takers
    <3>1. takers \in SUBSET Nat
      BY <1>n, <2>1
    <3> QED
      BY <3>1, MinProperties
  <2>3. n \in Nat
    BY <1>n
  <2> HIDE DEF takers, n
  <2>4. CASE takers = {}
    BY <2>3, <2>4
  <2>5. CASE takers # {}
    <3>1. asked \in takers /\ asked \in 1..n
      BY <2>1, <2>2, <2>5
    <3> HIDE DEF asked
    <3> QED
      BY <2>1, <2>3, <2>5, <3>1
  <2> QED
    BY <2>4, <2>5
<1>2. ASSUME NEW lost \in BOOLEAN, takers = {} => ~lost,
             call' = [c \in Calls |->
                        CASE c \in waits -> Ended(c, "done", None)
                          [] takers # {} /\ c = ws[asked] -> Handover(c, s, lost)
                          [] OTHER -> call[c]],
             st' = IF takers = {} THEN st ELSE HandedOver(s, lost),
             coll' = [coll EXCEPT
                        ![k].waiters = SubSeq(ws, asked + 1, Len(ws)),
                        ![k].items = IF takers = {} THEN Append(@, s) ELSE @]
      PROVE  Inv'
  <2> DEFINE res == IF takers = {} THEN "accepted" ELSE IF lost THEN "lost" ELSE "held"
             W == {ws[p] : p \in 1..asked}
             nw == SubSeq(ws, asked + 1, Len(ws))
             ni == IF takers = {} THEN Append(coll[k].items, s) ELSE coll[k].items
             w == IF takers = {} THEN None ELSE ws[asked]
  <2>1. nw \in Seq(Calls) /\ Range(nw) = Range(ws) \ W /\ Injective(nw)
    BY <1>q, <1>w, SuffixOfList
  <2>2. /\ ni \in Seq(Streams) /\ Len(ni) <= 1
        /\ Range(ni) = IF takers = {} THEN {s} ELSE {}
    <3> HIDE DEF takers, s, k
    <3>1. <<>> \in Seq(Streams) /\ Range(<<>>) = {} /\ Len(<<>>) = 0 /\ s \in Streams
      BY <1>b, EmptyList
    <3>2. /\ Append(<<>>, s) \in Seq(Streams) /\ Len(Append(<<>>, s)) = 1
          /\ Range(Append(<<>>, s)) = {s}
      BY <3>1, OneItem
    <3>3. CASE takers = {}
      BY <1>b, <3>2, <3>3
    <3>4. CASE takers # {}
      <4>1. ni = <<>>
        BY <1>b, <3>4
      <4> HIDE DEF ni
      <4> QED
        BY <3>1, <3>4, <4>1
    <3> QED
      BY <3>3, <3>4
  <2>3. W \subseteq Range(ws) /\ W \subseteq Calls
    BY <1>n, <1>q
  <2>4. /\ \A c \in Calls : c \in W => c \in waits \/ (takers # {} /\ c = w)
        /\ takers # {} => w \in W /\ w \notin waits /\ w \in Calls
        /\ waits \subseteq W /\ (takers = {} => w = None)
    <3>1. ASSUME NEW p \in 1..asked, p \in takers PROVE p = asked
      <4>1. takers # {} /\ takers \in SUBSET Nat /\ asked = Min(takers)
        BY <1>q, <1>n, <3>1
      <4>2. asked <= p
        BY <3>1, <4>1, MinProperties
      <4>3. asked \in Nat
        BY <1>n, <1>q
      <4> HIDE DEF asked
      <4> QED
        BY <4>2, <4>3
    <3>2. \A p \in 1..asked : p \in 1..n
      <4> HIDE DEF asked, n
      <4> QED
        BY <1>q, <1>n
    <3>3. \A p, q \in 1..asked : ws[p] = ws[q] => p = q
      BY <1>w, <3>2 DEF Injective
    <3>4. takers # {} => asked \in 1..asked
      <4> HIDE DEF asked
      <4> QED
        BY <1>q, <1>n
    <3> HIDE DEF asked, takers, ws
    <3>5. \A c \in Calls : c \in W => c \in waits \/ (takers # {} /\ c = w)
      BY <3>1
    <3>6. takers # {} => w \in W /\ w \notin waits /\ w \in Calls
      BY <1>q, <2>3, <3>3, <3>4
    <3> QED
      BY <3>5, <3>6
  <2>5. \A c \in Calls :
           /\ Ended(c, "done", None) \in CallType /\ Ended(c, "done", None).pc = "done"
           /\ Ended(c, "done", None).got = None
           /\ Handover(c, s, lost) \in CallType
           /\ Handover(c, s, lost).pc = IF lost THEN "expired" ELSE "done"
           /\ Handover(c, s, lost).got = IF lost THEN None ELSE s
    <3>1. s \in Streams \cup {None} /\ None \in Streams \cup {None} /\ lost \in BOOLEAN
      BY <1>2, <1>b
    <3> HIDE DEF s
    <3> QED
      BY <1>t, <3>1, EndedEffect, HandoverEffect
  <2>6. /\ res \in {"accepted", "closed", "lost", "held"}
        /\ res = "accepted" <=> takers = {}
        /\ res = "held" <=> takers # {} /\ ~lost
    BY <1>2
  <2>7. /\ st' \in [Streams -> {"backlog", "accepted", "held", "lost", "closed"}]
        /\ st'[s] = res /\ \A t \in Streams : t # s => st'[t] = st[t]
    <3> HIDE DEF takers, s
    <3> QED
      BY <1>2, <1>b, <1>t DEF HandedOver
  <2>8. \A c \in Calls : call'[c] = IF c \in waits THEN Ended(c, "done", None)
                                    ELSE IF takers # {} /\ c = w THEN Handover(c, s, lost)
                                    ELSE call[c]
    <3>1. w \in waits => ~(takers # {})
      BY <2>4
    <3> HIDE DEF takers, s, waits, ws, asked
    <3> QED
      BY <1>2, <3>1
  <2>9. /\ DOMAIN call' = Calls /\ call' = [c \in Calls |-> call'[c]]
    <3> HIDE DEF takers, s, waits, ws, asked
    <3> QED
      BY <1>2
  <2>10. coll'[k] = [coll[k] EXCEPT !.waiters = nw, !.items = ni]
    <3> HIDE DEF takers, s, k, asked, ws
    <3> QED
      BY <1>2, <1>b, <1>t DEF CollType
  <2>11. \A l \in Collections : l # k => coll'[l] = coll[l]
    <3> HIDE DEF takers, s, k, asked, ws
    <3> QED
      BY <1>2, <1>b, <1>t
  <2>12. DOMAIN coll' = Collections /\ coll' = [l \in Collections |-> coll'[l]]
    <3> HIDE DEF takers, s, k, asked, ws
    <3> QED
      BY <1>2, <1>b, <1>t
  <2>13. k = loop.coll /\ s = loop.stream /\ ws = coll[k].waiters
    OBVIOUS
  <2> HIDE DEF takers, s, k, n, asked, waits, ws, W, nw, ni, w, res
  <2>14. /\ coll'[k] \in CollType /\ coll'[k].waiters = nw /\ coll'[k].items = ni
         /\ coll'[k].disposed = coll[k].disposed
    <3>1. coll[k] \in CollType
      BY <1>b, <1>t
    <3> QED
      BY <2>1, <2>2, <2>10, <3>1 DEF CollType
  <2>15. coll' \in [Collections -> CollType]
    BY <1>t, <2>11, <2>12, <2>14
  <2>16. call' \in [Calls -> CallType]
    BY <1>t, <2>5, <2>8, <2>9
  <2>17. \A c \in Calls : c \notin W => call'[c] = call[c]
    BY <2>4, <2>8
  <2>18. \A c \in W : /\ call'[c].pc \in {"done", "expired"}
                      /\ call'[c].got = IF res = "held" /\ c = w THEN s ELSE None
    BY <2>3, <2>4, <2>5, <2>6, <2>8
  <2>19. res = "held" => w \in W /\ call'[w].pc = "done"
    BY <2>4, <2>5, <2>6, <2>8
  <2>20. /\ Range(coll'[k].items) = IF res = "accepted" THEN {s} ELSE {}
         /\ Len(coll'[k].items) <= 1 /\ Injective(coll'[k].waiters)
         /\ Range(coll'[k].waiters) = Range(coll[k].waiters) \ W
         /\ W \in SUBSET Range(coll[k].waiters) /\ w \in Calls \cup {None}
    BY <2>1, <2>4, <2>2, <2>3, <2>6, <2>13, <2>14
  <2>21. loop.pc = "add" /\ ~coll[k].disposed /\ k \in Collections /\ s \in Streams
    BY <1>a, <1>b
  <2>22. /\ res \in {"accepted", "closed", "lost", "held"} /\ k = loop.coll
         /\ s = loop.stream /\ coll'[k].disposed = coll[k].disposed
    BY <2>6, <2>13, <2>14
  <2> QED
    <3>1. /\ coll' \in [Collections -> CollType] /\ coll'[k].disposed = coll[k].disposed
          /\ Range(coll'[k].items) = IF res = "accepted" THEN {s} ELSE {}
          /\ Len(coll'[k].items) <= 1 /\ Injective(coll'[k].waiters)
          /\ Range(coll'[k].waiters) = Range(coll[k].waiters) \ W
          /\ \A l \in Collections : l # k => coll'[l] = coll[l]
      BY <2>11, <2>15, <2>20, <2>22
    <3>2. /\ call' \in [Calls -> CallType]
          /\ \A c \in Calls : c \notin W => call'[c] = call[c]
          /\ \A c \in W : /\ call'[c].pc \in {"done", "expired"}
                          /\ call'[c].got = IF res = "held" /\ c = w THEN s ELSE None
          /\ res = "held" => w \in W /\ call'[w].pc = "done"
      BY <2>16, <2>17, <2>18, <2>19
    <3>3. /\ k \in Collections /\ s \in Streams /\ res \in {"accepted", "closed", "lost", "held"}
          /\ W \in SUBSET Range(coll[k].waiters) /\ w \in Calls \cup {None}
          /\ loop.pc = "add" /\ k = loop.coll /\ s = loop.stream /\ ~coll[k].disposed
      BY <2>20, <2>21, <2>22
    <3>4. Added(k, s, res, W, w)
      BY <1>c, <1>d, <1>u, <2>7, <3>1, <3>2, <3>3 DEF Added
    <3> QED
      BY <3>3, <3>4, AddedStreamInv
<1>3. \/ st' = Close({s}) /\ UNCHANGED <<coll, call>>
      \/ \E lost \in BOOLEAN :
            /\ takers = {} => ~lost
            /\ call' = [c \in Calls |->
                          CASE c \in waits -> Ended(c, "done", None)
                            [] takers # {} /\ c = ws[asked] -> Handover(c, s, lost)
                            [] OTHER -> call[c]]
            /\ st' = IF takers = {} THEN st ELSE HandedOver(s, lost)
            /\ coll' = [coll EXCEPT
                          ![k].waiters = SubSeq(ws, asked + 1, Len(ws)),
                          ![k].items = IF takers = {} THEN Append(@, s) ELSE @]
  BY <1>a DEF AddTo
<1> QED
  BY <1>1, <1>2, <1>3

\* A new server.
LEMMA InitInv == Init => Inv
<1> SUFFICES ASSUME Init PROVE Inv
  OBVIOUS
<1>1. TypeOK
  BY EmptyList DEF Init, TypeOK, Empty, AtAccept
<1>2. BacklogInv
  BY EmptyList DEF Init, BacklogInv, Injective
<1>3. LoopInv
  BY DEF Init, LoopInv, Filing, AtAccept
<1>a. \A k \in Collections : /\ coll[k].items = <<>> /\ coll[k].waiters = <<>>
                             /\ ~coll[k].disposed
  BY DEF Init, Empty
<1>b. Injective(<<>>)
  BY EmptyList DEF Injective
<1>c. infos.waiters = <<>> /\ ~infos.disposed
  BY DEF Init, Empty
<1>d. loop.pc = "unstarted"
  BY DEF Init, AtAccept
<1>e. \A c \in Calls : call[c].pc = "idle" /\ call[c].got = None
  BY DEF Init
<1>4. StoredInv
  BY <1>a, EmptyList DEF Init, StoredInv
<1>5. KeptInv
  BY <1>a, <1>d DEF Init, KeptInv, Filing
<1>6. DictInv
  BY <1>d DEF Init, DictInv, Filing
<1>7. DisposeInv
  BY <1>c, <1>d DEF Init, DisposeInv
<1>8. ListInv
  BY <1>a, <1>b, <1>c, <1>e, EmptyList DEF ListInv, WaitersAreListed
<1>9. HeldInv
  BY <1>e DEF Init, HeldInv
<1>10. RemoverInv
  BY DEF Init, RemoverInv
<1>11. PaidInv
  BY <1>d DEF Init, PaidInv, Paid, Pending, Filing
<1> QED
  BY <1>1, <1>2, <1>3, <1>4, <1>5, <1>6, <1>7, <1>8, <1>9, <1>10, <1>11 DEF Inv

\* Every step of the server, its callers and the runtimes keeps the invariant.
LEMMA NextInv == Inv /\ [Next]_vars => Inv'
<1> SUFFICES ASSUME Inv, [Next]_vars PROVE Inv'
  OBVIOUS
<1>1. CASE UNCHANGED vars
  <2>1. UNCHANGED <<conn, owner, alive, st, backlog, transport, loop, dict, coll, infos,
                    call, remover, cancelled, disposed, disposal, snapshot, latest,
                    announced, removed>>
    BY <1>1 DEF vars, world, closing, history
  <2>2. TypeOK' /\ BacklogInv' /\ LoopInv'
    BY <2>1 DEF Inv, TypeOK, BacklogInv, LoopInv
  <2>3. StoredInv' /\ KeptInv' /\ DictInv'
    BY <2>1 DEF Inv, StoredInv, KeptInv, Kept, DictInv
  <2>4. DisposeInv' /\ ListInv' /\ HeldInv'
    BY <2>1 DEF Inv, DisposeInv, ListInv, WaitersAreListed, HeldInv
  <2>5. RemoverInv' /\ PaidInv'
    BY <2>1 DEF Inv, RemoverInv, PaidInv, Paid, Pending
  <2> QED
    BY <2>2, <2>3, <2>4, <2>5 DEF Inv
<1>2. ASSUME NEW r \in Runtimes, RuntimeStep(r) \/ RuntimeDrops(r) PROVE Inv'
  BY <1>2, RuntimeConnectInv, RuntimeMovesOnInv, RuntimeDropsInv DEF RuntimeStep
<1>3. CASE Start
  BY <1>3, StartInv
<1>4. CASE LoopStep
  BY <1>4, AcceptStreamInv, AcceptStopInv, ParseFailsInv, FindCollectionInv,
     CollectionWasDisposedInv, ClearItemsInv, AddStreamInv, AnnounceInv DEF LoopStep
<1>5. ASSUME NEW c \in Calls,
             CallBegin(c) \/ CallStep(c) \/ CallExpires(c) \/ ClientCloses(c)
      PROVE  Inv'
  BY <1>5, CallBeginInv, GetStreamsInv, HandleInfoInv, HandleStreamInv, ClientClosesInv,
     CallExpiresInv DEF CallStep
<1>6. ASSUME NEW m \in Removers, TryRemove(m) \/ DisposeRemoved(m) PROVE Inv'
  BY <1>6, TryRemoveInv, DisposeRemovedInv
<1>7. CASE DisposeTransport
  BY <1>7, DisposeTransportInv
<1>8. CASE DisposalStep
  BY <1>8, CancelInv, DisposeInfosInv, TakeValuesInv, DisposeNextInv, ClearDictionaryInv,
     SetDisposedInv DEF DisposalStep
<1> QED
  BY <1>1, <1>2, <1>3, <1>4, <1>5, <1>6, <1>7, <1>8 DEF Next

\* The inductive invariant holds of every behaviour.
LEMMA Invariance == Spec => []Inv
BY InitInv, NextInv, PTL DEF Spec

-----------------------------------------------------------------------------
(* The results *)

\* The list of a collection that stores the stream has it alone.
LEMMA StoredOnce ==
    ASSUME Inv, NEW s \in Streams, NEW k \in Collections, s \in Range(coll[k].items)
    PROVE  Stored(s) = {k} /\ ~coll[k].disposed /\ Kept(k)
<1>1. coll[k].items # <<>>
  BY EmptyList
<1>2. ~coll[k].disposed /\ Kept(k)
  BY <1>1 DEF Inv, KeptInv
<1>3. \A l \in Collections : s \in Range(coll[l].items) => l = k
  BY DEF Inv, StoredInv
<1> QED
  BY <1>2, <1>3 DEF Stored

\* Whatever RemoveConnection and DisposeAsync do between the steps of
\* AcceptTransportAsync, an accepted stream is in the hands of the accept loop,
\* or stored in one collection that somebody will hand it from or dispose.
THEOREM StreamsKept == Spec => []NoStreamLeaks
<1>1. Inv => NoStreamLeaks
  <2> SUFFICES ASSUME Inv, NEW s \in Streams
               PROVE  IF st[s] = "accepted"
                      THEN \/ /\ loop.stream = s /\ loop.pc \in {"parse", "clear", "add"}
                              /\ Stored(s) = {}
                           \/ \E k \in Reachable : Stored(s) = {k} /\ ~coll[k].disposed
                      ELSE Stored(s) = {}
    BY DEF NoStreamLeaks
  <2>1. ASSUME NEW k \in Collections, s \in Range(coll[k].items)
        PROVE  k \in Reachable
    <3>1. Kept(k)
      BY <2>1, StoredOnce
    <3>2. dict \in [Runtimes -> Collections \cup {None}]
      BY DEF Inv, TypeOK
    <3> QED
      BY <3>1, <3>2 DEF Kept, Reachable, Range
  <2>2. CASE st[s] # "accepted"
    BY <2>2 DEF Inv, StoredInv, Stored
  <2>3. CASE st[s] = "accepted" /\ \E k \in Collections : s \in Range(coll[k].items)
    BY <2>1, <2>3, StoredOnce
  <2>4. CASE st[s] = "accepted" /\ ~\E k \in Collections : s \in Range(coll[k].items)
    <3>1. Stored(s) = {}
      BY <2>4 DEF Stored
    <3>2. loop.pc \in {"parse", "clear", "add"} /\ loop.stream = s
      BY <2>4 DEF Inv, StoredInv
    <3> QED
      BY <2>4, <3>1, <3>2
  <2> QED
    BY <2>2, <2>3, <2>4
<1> QED
  BY <1>1, Invariance, PTL

\* ClearItems before Add: the collection that the dictionary has for a runtime
\* stores at most one stream, the newest that the loop filed for that runtime.
THEOREM NewestStored == Spec => []OnlyNewestStored
<1>1. Inv => OnlyNewestStored
  <2> SUFFICES ASSUME Inv, NEW r \in Runtimes, dict[r] # None
               PROVE  /\ Len(coll[dict[r]].items) <= 1
                      /\ Range(coll[dict[r]].items) \subseteq {latest[r]}
    BY DEF OnlyNewestStored
  <2>1. dict[r] \in Collections
    BY DEF Inv, TypeOK
  <2>2. Len(coll[dict[r]].items) <= 1
    BY <2>1 DEF Inv, StoredInv
  <2>3. Range(coll[dict[r]].items) \subseteq {latest[r]}
    BY DEF Inv, DictInv
  <2> QED
    BY <2>2, <2>3
<1> QED
  BY <1>1, Invariance, PTL

\* The loop announces a runtime only when GetOrAdd created its collection: once,
\* and once more for each time that RemoveConnection took the collection away.
THEOREM AnnouncesOnce == Spec => []AnnouncedOnce
<1>1. Inv => AnnouncedOnce
  <2> SUFFICES ASSUME Inv, NEW r \in Runtimes PROVE announced[r] <= removed[r] + 1
    BY DEF AnnouncedOnce
  <2>1. Pending(r) \in {0, 1} /\ announced[r] + Pending(r) <= removed[r] + 1
    BY DEF Inv, PaidInv, Paid, Pending
  <2>2. announced[r] \in Nat /\ removed[r] \in Nat
    BY DEF Inv, TypeOK
  <2> QED
    BY <2>1, <2>2
<1> QED
  BY <1>1, Invariance, PTL

\* Connect hands a stream to one client, a call that waits is in the list of a
\* collection that is not disposed, and DisposeAsync leaves nothing stored but
\* what a RemoveConnection is about to dispose.
THEOREM CallsSound == Spec => []CallsAreSound
<1>1. Inv => OneClientPerStream
  <2> SUFFICES ASSUME Inv, NEW s \in Streams
               PROVE  Cardinality({c \in Calls : call[c].got = s})
                         = (IF st[s] = "held" THEN 1 ELSE 0)
    BY DEF OneClientPerStream
  <2> DEFINE G == {c \in Calls : call[c].got = s}
  <2>1. s # None
    BY NoneAssumption
  <2>2. CASE st[s] = "held"
    <3>1. PICK c \in Calls : call[c].got = s
      BY <2>2 DEF Inv, HeldInv
    <3>2. G = {c}
      BY <2>1, <3>1 DEF Inv, HeldInv
    <3>3. Cardinality({c}) = 1
      BY FS_Singleton
    <3> QED
      BY <2>2, <3>2, <3>3
  <2>3. CASE st[s] # "held"
    <3>1. G = {}
      BY <2>1, <2>3 DEF Inv, HeldInv
    <3> QED
      BY <2>3, <3>1, FS_EmptySet
  <2> QED
    BY <2>2, <2>3
<1>2. Inv => DisposedServerIsQuiet
  <2> SUFFICES ASSUME Inv PROVE DisposedServerIsQuiet
    OBVIOUS
  <2>1. infos.disposed => loop.pc \in {"unstarted", "stopped"}
    BY DEF Inv, DisposeInv
  <2>2. ASSUME disposed, NEW s \in Streams
        PROVE  \/ st[s] \in {"held", "lost", "closed"}
               \/ \E m \in Removers : Stored(s) = {remover[m].coll}
    <3>1. disposal = "done" /\ snapshot = {} /\ loop.pc \in {"unstarted", "stopped"}
      BY <2>2 DEF Inv, DisposeInv
    <3>2. st[s] # "backlog"
      BY <3>1, EmptyList DEF Inv, BacklogInv
    <3>3. st[s] \in {"backlog", "accepted", "held", "lost", "closed"}
      BY DEF Inv, TypeOK
    <3>4. ASSUME st[s] = "accepted"
          PROVE  \E m \in Removers : Stored(s) = {remover[m].coll}
      <4>1. PICK k \in Collections : s \in Range(coll[k].items)
        BY <3>1, <3>4 DEF Inv, StoredInv
      <4>2. coll[k].items # <<>>
        BY <4>1, EmptyList
      <4>3. PICK m \in Removers : remover[m].coll = k
        BY <3>1, <4>2 DEF Inv, KeptInv
      <4> QED
        BY <4>1, <4>3, StoredOnce
    <3> QED
      BY <3>2, <3>3, <3>4
  <2> QED
    BY <2>1, <2>2 DEF DisposedServerIsQuiet
<1>3. Inv => CallsAreSound
  BY <1>1, <1>2 DEF Inv, ListInv, CallsAreSound
<1> QED
  BY <1>3, Invariance, PTL
=============================================================================
