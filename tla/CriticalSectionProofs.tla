----------------------- MODULE CriticalSectionProofs -----------------------
(***************************************************************************)
(* Proofs about CriticalSection, for any number of threads, any spin count *)
(* and any number of enters: the lock word, the native wait and their lazy *)
(* initialization make a recursive lock that loses no wake-up.             *)
(***************************************************************************)
EXTENDS CriticalSection, FiniteSetTheorems, TLAPS

(***************************************************************************)
(* The word: what each exchange does to its three fields.                  *)
(***************************************************************************)

\* Setting the lock bit, as an enter does.
LEMMA SetLockBit ==
    ASSUME NEW v \in Nat, ~Locked(v)
    PROVE  /\ Locked(v + 1)
           /\ HasAwakened(v + 1) <=> HasAwakened(v)
           /\ WaiterCount(v + 1) = WaiterCount(v)
BY DEF Locked, HasAwakened, WaiterCount, WAITER_INC

\* Setting the lock bit and resetting the other, as an awakened waiter does.
LEMMA SetLockBitAwakened ==
    ASSUME NEW v \in Nat, ~Locked(v), HasAwakened(v)
    PROVE  /\ v + 1 - 2 \in Nat
           /\ Locked(v + 1 - 2)
           /\ ~HasAwakened(v + 1 - 2)
           /\ WaiterCount(v + 1 - 2) = WaiterCount(v)
BY DEF Locked, HasAwakened, WaiterCount, WAITER_INC

\* Registering a waiter.
LEMMA AddWaiter ==
    ASSUME NEW v \in Nat
    PROVE  /\ Locked(v + 4) <=> Locked(v)
           /\ HasAwakened(v + 4) <=> HasAwakened(v)
           /\ WaiterCount(v + 4) = WaiterCount(v) + 1
BY DEF Locked, HasAwakened, WaiterCount, WAITER_INC

\* Registering an awakened waiter again: the bit carries into the count.
LEMMA AddWaiterAwakened ==
    ASSUME NEW v \in Nat, HasAwakened(v)
    PROVE  /\ Locked(v + 2) <=> Locked(v)
           /\ ~HasAwakened(v + 2)
           /\ WaiterCount(v + 2) = WaiterCount(v) + 1
BY DEF Locked, HasAwakened, WaiterCount, WAITER_INC

\* Leaving with nobody to wake.
LEMMA ResetLockBit ==
    ASSUME NEW v \in Nat, Locked(v)
    PROVE  /\ v - 1 \in Nat
           /\ ~Locked(v - 1)
           /\ HasAwakened(v - 1) <=> HasAwakened(v)
           /\ WaiterCount(v - 1) = WaiterCount(v)
BY DEF Locked, HasAwakened, WaiterCount, WAITER_INC

\* Leaving and awakening a waiter: there is one to be counted out.
LEMMA ReleaseWaiter ==
    ASSUME NEW v \in Nat, Locked(v), ~HasAwakened(v), v # 1
    PROVE  /\ v - 4 + 2 - 1 \in Nat
           /\ ~Locked(v - 4 + 2 - 1)
           /\ HasAwakened(v - 4 + 2 - 1)
           /\ WaiterCount(v - 4 + 2 - 1) = WaiterCount(v) - 1
BY DEF Locked, HasAwakened, WaiterCount, WAITER_INC

\* The word of a lock that nobody uses.
LEMMA FreeWord == ~Locked(0) /\ ~HasAwakened(0) /\ WaiterCount(0) = 0
BY DEF Locked, HasAwakened, WaiterCount, WAITER_INC

\* The count of waiters is a number.
LEMMA WaiterCountNat == ASSUME NEW v \in Nat PROVE WaiterCount(v) \in Nat
BY DEF WaiterCount, WAITER_INC

(***************************************************************************)
(* Counting threads.                                                       *)
(***************************************************************************)

\* Sets of threads have a number of elements.
LEMMA CardType ==
    ASSUME NEW S \in SUBSET Threads
    PROVE  /\ IsFiniteSet(S) /\ Cardinality(S) \in Nat
           /\ Cardinality(S) = 0 <=> S = {}
<1>1. IsFiniteSet(S)
  BY CSAssumption, FS_Subset
<1> QED
  BY <1>1, FS_CardinalityType, FS_EmptySet

\* A thread joins, or leaves, a set.
LEMMA CardAdd ==
    ASSUME NEW S \in SUBSET Threads, NEW t \in Threads, t \notin S
    PROVE  Cardinality(S \cup {t}) = Cardinality(S) + 1
BY CardType, FS_AddElement

LEMMA CardRemove ==
    ASSUME NEW S \in SUBSET Threads, NEW t \in S
    PROVE  Cardinality(S \ {t}) = Cardinality(S) - 1
BY CardType, FS_RemoveElement

(***************************************************************************)
(* The inductive invariant.                                                *)
(***************************************************************************)

\* The places between the call of Enter and its return.
Entering == Labels \ {"out", "in", "unlock", "wake"}

\* An awakened waiter is on its way to the lock, or to sleep again.
TryingLabels == {"load", "lock", "wait", "claimInit", "init", "register", "inc"}

\* OwningThread and RecursionCount count what the owner has not left; and no
\* thread enters more often than it may.
NestInv ==
    /\ owner = None => recursion = 0
    /\ \A t \in Threads :
          /\ nest[t] = IF pc[t] \in {"in", "again"} THEN recursion ELSE 0
          /\ enters[t] + nest[t] + (IF pc[t] \in Entering THEN 1 ELSE 0) <= MaxEnters

\* The native objects: one thread at most initializes them, and who uses them
\* finds them initialized.
NativeInv ==
    /\ initState = "FullyInitializing" => \E t \in Threads : pc[t] = "init"
    /\ \A t \in Threads : pc[t] = "init" => initState = "FullyInitializing"
    /\ \A t, u \in Threads : pc[t] = "init" /\ pc[u] = "init" => t = u
    /\ \A t \in Threads :
          pc[t] \in {"register", "inc", "test", "asleep", "wake"} =>
              initState = "FullyInitialized"

\* The word against the threads: one wake-up at most is on its way, and who is
\* registered is counted or about to be woken.
CountInv ==
    /\ Cardinality(Waking) + predicate + Cardinality(Trying)
           = (IF HasAwakened(lockCount) THEN 1 ELSE 0)
    /\ WaiterCount(lockCount) + Cardinality(Waking) + predicate
           = Cardinality(Registered)

\* Whoever gave up a lock with waiters has chosen one to wake.
ReleaseInv == ~Locked(lockCount) => HasAwakened(lockCount) \/ WaiterCount(lockCount) = 0

\* What the threads have read may be stale, but it passed their tests.
ValInv ==
    \A t \in Threads :
        /\ pc[t] = "lock" => ~Locked(val[t])
        /\ pc[t] \in {"inc", "unlock"} => Locked(val[t])
        /\ awakened[t] /\ pc[t] \in {"lock", "inc"} => HasAwakened(val[t])
        /\ awakened[t] => pc[t] \in TryingLabels

Inv ==
    /\ TypeOK
    /\ MutualExclusion
    /\ OwnerIsInside
    /\ NestInv
    /\ NativeInv
    /\ DeleteIsSafe
    /\ CountInv
    /\ ReleaseInv
    /\ ValInv

-----------------------------------------------------------------------------

\* A free lock.
LEMMA InitInv == Init => Inv
<1> SUFFICES ASSUME Init PROVE Inv
  OBVIOUS
<1> USE CSAssumption DEF Init, At
<1>1. TypeOK /\ NestInv
  BY DEF TypeOK, NestInv, Labels, Entering
<1>2. Waking = {} /\ Trying = {} /\ Registered = {} /\ Inside = {}
  BY DEF Waking, Trying, Registered, Inside
<1>3. CountInv /\ ReleaseInv /\ MutualExclusion
  BY <1>2, FreeWord, FS_EmptySet DEF CountInv, ReleaseInv, MutualExclusion
<1>4. OwnerIsInside /\ NativeInv /\ DeleteIsSafe /\ ValInv
  BY DEF OwnerIsInside, NativeInv, DeleteIsSafe, ValInv
<1> QED
  BY <1>1, <1>3, <1>4 DEF Inv

\* A step that moves no thread into or out of the counted places.
LEMMA QuietCounts ==
    ASSUME CountInv, ReleaseInv, lockCount' = lockCount, predicate' = predicate,
           Waking' = Waking, Trying' = Trying, Registered' = Registered
    PROVE  CountInv' /\ ReleaseInv'
BY DEF CountInv, ReleaseInv

\* What the counts say of a single thread: an awakened waiter's bit is set and no
\* other wake-up is on its way, a thread about to wake is the only one, and a
\* wake-up on its way has somebody to wake.
LEMMA OneWakeup ==
    ASSUME Inv, NEW t \in Threads
    PROVE  /\ Waking \in SUBSET Threads /\ Cardinality(Waking) \in Nat
           /\ Trying \in SUBSET Threads /\ Cardinality(Trying) \in Nat
           /\ Registered \in SUBSET Threads /\ Cardinality(Registered) \in Nat
           /\ awakened[t] => /\ HasAwakened(lockCount) /\ predicate = 0
                             /\ Cardinality(Waking) = 0 /\ Cardinality(Trying) = 1
           /\ pc[t] = "wake" => /\ HasAwakened(lockCount) /\ predicate = 0
                                /\ Cardinality(Waking) = 1 /\ Cardinality(Trying) = 0
                                /\ Registered # {}
           /\ Registered = {} => WaiterCount(lockCount) = 0 /\ predicate = 0
<1>1. /\ Waking \in SUBSET Threads /\ Trying \in SUBSET Threads
      /\ Registered \in SUBSET Threads
  BY DEF Waking, Trying, Registered, At
<1>2. /\ Cardinality(Waking) \in Nat /\ Cardinality(Trying) \in Nat
      /\ Cardinality(Registered) \in Nat
      /\ Cardinality(Waking) = 0 <=> Waking = {}
      /\ Cardinality(Trying) = 0 <=> Trying = {}
      /\ Cardinality(Registered) = 0 <=> Registered = {}
  BY <1>1, CardType
<1>3. awakened[t] => Trying # {}
  BY DEF Trying
<1>4. pc[t] = "wake" => Waking # {}
  BY DEF Waking, At
<1>5. predicate \in {0, 1} /\ WaiterCount(lockCount) \in Nat
  BY WaiterCountNat DEF Inv, TypeOK
<1>6. /\ HasAwakened(lockCount)
         => Cardinality(Waking) + predicate + Cardinality(Trying) = 1
      /\ ~HasAwakened(lockCount)
         => Cardinality(Waking) + predicate + Cardinality(Trying) = 0
      /\ WaiterCount(lockCount) + Cardinality(Waking) + predicate
         = Cardinality(Registered)
  BY DEF Inv, CountInv
<1> QED
  BY <1>1, <1>2, <1>3, <1>4, <1>5, <1>6

\* The call of Enter: a thread inside finds the lock bit set.
LEMMA EnterInv ==
    ASSUME Inv, NEW t \in Threads, Enter(t)
    PROVE  Inv'
<1> USE CSAssumption DEF Inv, Goto, cs, Enter
<1>1. TypeOK'
  BY DEF TypeOK, Labels, NestInv
<1>2. MutualExclusion'
  BY DEF TypeOK, MutualExclusion, Inside, At, MutualExclusion
<1>3. OwnerIsInside'
  BY DEF TypeOK, OwnerIsInside, At, MutualExclusion, Inside
<1>4. NestInv'
  BY DEF TypeOK, NestInv, Entering, Labels, MutualExclusion, Inside, At
<1>5. NativeInv' /\ DeleteIsSafe'
  BY DEF TypeOK, NativeInv, DeleteIsSafe, At, MutualExclusion, Inside
<1>6. CountInv' /\ ReleaseInv'
  <2>1. /\ Waking' = Waking /\ Trying' = Trying /\ Registered' = Registered
        /\ lockCount' = lockCount /\ predicate' = predicate
    BY DEF TypeOK, Waking, Trying, Registered, At, ValInv, TryingLabels
  <2> QED
    BY <2>1, QuietCounts
<1>7. ValInv'
  BY DEF TypeOK, ValInv, TryingLabels
<1> QED
  BY <1>1, <1>2, <1>3, <1>4, <1>5, <1>6, <1>7

\* The test of OwningThread: only a thread that is inside finds itself there.
LEMMA EnterRecursionInv ==
    ASSUME Inv, NEW t \in Threads, EnterRecursion(t)
    PROVE  Inv'
<1> USE CSAssumption DEF Inv, Goto, cs, EnterRecursion
<1>1. TypeOK'
  BY DEF TypeOK, Labels, NestInv, OwnerIsInside, Entering
<1>2. MutualExclusion'
  BY DEF TypeOK, MutualExclusion, Inside, At, OwnerIsInside
<1>3. OwnerIsInside'
  BY DEF TypeOK, OwnerIsInside, At
<1>4. NestInv'
  BY DEF TypeOK, NestInv, Entering, Labels, OwnerIsInside, At
<1>5. NativeInv' /\ DeleteIsSafe'
  BY DEF TypeOK, NativeInv, DeleteIsSafe, At
<1>6. CountInv' /\ ReleaseInv'
  <2>1. /\ Waking' = Waking /\ Trying' = Trying /\ Registered' = Registered
        /\ lockCount' = lockCount /\ predicate' = predicate
    BY DEF TypeOK, Waking, Trying, Registered, At, ValInv, TryingLabels
  <2> QED
    BY <2>1, QuietCounts
<1>7. ValInv'
  BY DEF TypeOK, ValInv, TryingLabels
<1> QED
  BY <1>1, <1>2, <1>3, <1>4, <1>5, <1>6, <1>7

\* Reading the word: an awakened waiter sees its bit.
LEMMA LoadInv ==
    ASSUME Inv, NEW t \in Threads, LoadLockCount(t) \/ LoadToRegister(t)
    PROVE  Inv'
<1> USE CSAssumption DEF Inv, Goto, cs, LoadLockCount, LoadToRegister, SpinOrWait, DidntWait
<1>1. TypeOK'
  BY DEF TypeOK, Labels
<1>2. MutualExclusion'
  BY DEF TypeOK, MutualExclusion, Inside, At
<1>3. OwnerIsInside'
  BY DEF TypeOK, OwnerIsInside, At
<1>4. NestInv'
  BY DEF TypeOK, NestInv, Entering, Labels
<1>5. NativeInv' /\ DeleteIsSafe'
  BY DEF TypeOK, NativeInv, DeleteIsSafe, At, NativeInv
<1>6. CountInv' /\ ReleaseInv'
  <2>1. /\ Waking' = Waking /\ Trying' = Trying /\ Registered' = Registered
        /\ lockCount' = lockCount /\ predicate' = predicate
    BY DEF TypeOK, Waking, Trying, Registered, At
  <2> QED
    BY <2>1, QuietCounts
<1>7. ValInv'
  <2>1. awakened[t] => HasAwakened(lockCount)
    BY OneWakeup
  <2> QED
    BY <2>1 DEF TypeOK, ValInv, TryingLabels
<1> QED
  BY <1>1, <1>2, <1>3, <1>4, <1>5, <1>6, <1>7

\* The new owner writes its name.
LEMMA SetOwnershipInv ==
    ASSUME Inv, NEW t \in Threads, SetOwnership(t)
    PROVE  Inv'
<1> USE CSAssumption DEF Inv, Goto, cs, SetOwnership
<1>1. TypeOK'
  <2>1. nest[t] = 0 /\ enters[t] + nest[t] + 1 <= MaxEnters
    BY DEF NestInv, Entering, Labels
  <2>2. 1 \in 0..MaxEnters
    BY <2>1 DEF TypeOK
  <2> QED
    BY <2>1, <2>2 DEF TypeOK, Labels
<1>2. MutualExclusion'
  BY DEF TypeOK, MutualExclusion, Inside, At
<1>3. OwnerIsInside'
  BY DEF TypeOK, OwnerIsInside, At, MutualExclusion, Inside
<1>4. NestInv'
  BY DEF TypeOK, NestInv, Entering, Labels, MutualExclusion, OwnerIsInside, Inside, At
<1>5. NativeInv' /\ DeleteIsSafe'
  BY DEF TypeOK, NativeInv, DeleteIsSafe, At
<1>6. CountInv' /\ ReleaseInv'
  <2>1. /\ Waking' = Waking /\ Trying' = Trying /\ Registered' = Registered
        /\ lockCount' = lockCount /\ predicate' = predicate
    BY DEF TypeOK, Waking, Trying, Registered, At, ValInv, TryingLabels
  <2> QED
    BY <2>1, QuietCounts
<1>7. ValInv'
  BY DEF TypeOK, ValInv, TryingLabels
<1> QED
  BY <1>1, <1>2, <1>3, <1>4, <1>5, <1>6, <1>7

\* On the way to the native wait, up to its initialization.
LEMMA WaitInv ==
    ASSUME Inv, NEW t \in Threads, WaitOnCS(t) \/ ClaimInit(t) \/ FullyInitializeFails(t)
    PROVE  Inv'
<1> USE CSAssumption DEF Inv, Goto, cs, WaitOnCS, ClaimInit, FullyInitializeFails, DidntWait
<1>1. TypeOK'
  BY DEF TypeOK, Labels
<1>2. MutualExclusion'
  BY DEF TypeOK, MutualExclusion, Inside, At
<1>3. OwnerIsInside'
  BY DEF TypeOK, OwnerIsInside, At
<1>4. NestInv'
  BY DEF TypeOK, NestInv, Entering, Labels
<1>5. NativeInv' /\ DeleteIsSafe'
  BY DEF TypeOK, NativeInv, DeleteIsSafe, At
<1>6. CountInv' /\ ReleaseInv'
  <2>1. /\ Waking' = Waking /\ Trying' = Trying /\ Registered' = Registered
        /\ lockCount' = lockCount /\ predicate' = predicate
    BY DEF TypeOK, Waking, Trying, Registered, At
  <2> QED
    BY <2>1, QuietCounts
<1>7. ValInv'
  BY DEF TypeOK, ValInv, TryingLabels
<1> QED
  BY <1>1, <1>2, <1>3, <1>4, <1>5, <1>6, <1>7

\* Registered threads go to sleep and wake up for no reason.
LEMMA SleepInv ==
    ASSUME Inv, NEW t \in Threads, Sleep(t) \/ SpuriousWakeup(t)
    PROVE  Inv'
<1> USE CSAssumption DEF Inv, Goto, cs, Sleep, SpuriousWakeup
<1>1. TypeOK'
  BY DEF TypeOK, Labels
<1>2. MutualExclusion'
  BY DEF TypeOK, MutualExclusion, Inside, At
<1>3. OwnerIsInside'
  BY DEF TypeOK, OwnerIsInside, At
<1>4. NestInv'
  BY DEF TypeOK, NestInv, Entering, Labels
<1>5. NativeInv' /\ DeleteIsSafe'
  BY DEF TypeOK, NativeInv, DeleteIsSafe, At
<1>6. CountInv' /\ ReleaseInv'
  <2>1. /\ Waking' = Waking /\ Trying' = Trying /\ Registered' = Registered
        /\ lockCount' = lockCount /\ predicate' = predicate
    BY DEF TypeOK, Waking, Trying, Registered, At
  <2> QED
    BY <2>1, QuietCounts
<1>7. ValInv'
  BY DEF TypeOK, ValInv, TryingLabels
<1> QED
  BY <1>1, <1>2, <1>3, <1>4, <1>5, <1>6, <1>7

\* One enter is left; after the last the word is read.
LEMMA LeaveInv ==
    ASSUME Inv, NEW t \in Threads, Leave(t)
    PROVE  Inv'
<1> USE CSAssumption DEF Inv, Goto, cs, Leave
<1>1. TypeOK'
  BY DEF TypeOK, Labels, NestInv, OwnerIsInside, At
<1>2. MutualExclusion'
  BY DEF TypeOK, MutualExclusion, Inside, At
<1>3. OwnerIsInside'
  BY DEF TypeOK, OwnerIsInside, At, MutualExclusion, Inside, NestInv
<1>4. NestInv'
  BY DEF TypeOK, NestInv, Entering, Labels, OwnerIsInside, At
<1>5. NativeInv' /\ DeleteIsSafe'
  BY DEF TypeOK, NativeInv, DeleteIsSafe, At
<1>6. CountInv' /\ ReleaseInv'
  <2>1. /\ Waking' = Waking /\ Trying' = Trying /\ Registered' = Registered
        /\ lockCount' = lockCount /\ predicate' = predicate
    BY DEF TypeOK, Waking, Trying, Registered, At, ValInv, TryingLabels
  <2> QED
    BY <2>1, QuietCounts
<1>7. ValInv'
  BY DEF TypeOK, ValInv, TryingLabels, MutualExclusion, Inside, At
<1> QED
  BY <1>1, <1>2, <1>3, <1>4, <1>5, <1>6, <1>7

\* An exchange that fails: the thread looks at the word it got.
LEMMA TryLockFails ==
    ASSUME Inv, NEW t \in Threads, TryLock(t), lockCount # val[t]
    PROVE  Inv'
<1> USE CSAssumption DEF Inv, Goto, TryLock, SpinOrWait
<1>1. TypeOK'
  BY DEF TypeOK, Labels
<1>2. MutualExclusion'
  BY DEF TypeOK, MutualExclusion, Inside, At
<1>3. OwnerIsInside'
  BY DEF TypeOK, OwnerIsInside, At
<1>4. NestInv'
  BY DEF TypeOK, NestInv, Entering, Labels
<1>5. NativeInv' /\ DeleteIsSafe'
  BY DEF TypeOK, NativeInv, DeleteIsSafe, At
<1>6. CountInv' /\ ReleaseInv'
  <2>1. /\ Waking' = Waking /\ Trying' = Trying /\ Registered' = Registered
        /\ lockCount' = lockCount /\ predicate' = predicate
    BY DEF TypeOK, Waking, Trying, Registered, At
  <2> QED
    BY <2>1, QuietCounts
<1>7. ValInv'
  <2>1. awakened[t] => HasAwakened(lockCount)
    BY OneWakeup
  <2> QED
    BY <2>1 DEF TypeOK, ValInv, TryingLabels
<1> QED
  BY <1>1, <1>2, <1>3, <1>4, <1>5, <1>6, <1>7

\* One that succeeds: nobody was inside, and the bit of the waiter goes with it.
LEMMA TryLockSucceeds ==
    ASSUME Inv, NEW t \in Threads, TryLock(t), lockCount = val[t]
    PROVE  Inv'
<1> USE CSAssumption DEF Inv, Goto
<1>a. /\ pc[t] = "lock" /\ lockCount \in Nat /\ ~Locked(lockCount)
      /\ pc' = [pc EXCEPT ![t] = "own"]
      /\ lockCount' = Toggle(lockCount, t)
      /\ awakened' = [awakened EXCEPT ![t] = FALSE]
      /\ UNCHANGED <<val, spin, recursion, owner, initState, predicate, enters, nest>>
  BY DEF TryLock, ValInv, TypeOK
<1>b. ~awakened[t] => lockCount' = lockCount + 1
  BY <1>a DEF Toggle, LOCK_BIT
<1>c. awakened[t] => HasAwakened(lockCount) /\ lockCount' = lockCount + 1 - 2
  BY <1>a, OneWakeup DEF Toggle, LOCK_BIT, AWAKENED_WAITER
<1>d. /\ lockCount' \in Nat /\ Locked(lockCount')
      /\ HasAwakened(lockCount') <=> HasAwakened(lockCount) /\ ~awakened[t]
      /\ WaiterCount(lockCount') = WaiterCount(lockCount)
  <2>1. CASE awakened[t]
    BY <2>1, <1>a, <1>c, SetLockBitAwakened
  <2>2. CASE ~awakened[t]
    BY <2>2, <1>a, <1>b, SetLockBit
  <2> QED
    BY <2>1, <2>2
<1>1. TypeOK'
  BY <1>a, <1>d DEF TypeOK, Labels
<1>2. MutualExclusion'
  <2>1. Inside = {} /\ Inside' = {t}
    BY <1>a DEF TypeOK, MutualExclusion, Inside, At
  <2> QED
    BY <2>1, <1>d DEF MutualExclusion
<1>3. OwnerIsInside'
  BY <1>a DEF TypeOK, OwnerIsInside, At
<1>4. NestInv'
  BY <1>a DEF TypeOK, NestInv, Entering, Labels
<1>5. NativeInv' /\ DeleteIsSafe'
  BY <1>a DEF TypeOK, NativeInv, DeleteIsSafe, At
<1>6. CountInv' /\ ReleaseInv'
  <2>1. /\ Waking' = Waking /\ Registered' = Registered
        /\ Trying' = Trying \ {t}
        /\ t \in Trying <=> awakened[t]
    BY <1>a DEF TypeOK, Waking, Trying, Registered, At
  <2>2. awakened[t] => Cardinality(Trying') = Cardinality(Trying) - 1
    BY <2>1, OneWakeup, CardRemove
  <2>3. ~awakened[t] => Trying' = Trying
    BY <2>1
  <2>4. /\ predicate' = predicate /\ predicate \in Nat
        /\ Cardinality(Waking) \in Nat /\ Cardinality(Trying) \in Nat
    BY <1>a, OneWakeup DEF TypeOK
  <2> QED
    BY <2>1, <2>2, <2>3, <2>4, <1>c, <1>d DEF CountInv, ReleaseInv
<1>7. ValInv'
  BY <1>a DEF TypeOK, ValInv, TryingLabels
<1> QED
  BY <1>1, <1>2, <1>3, <1>4, <1>5, <1>6, <1>7

\* The native objects are initialized: there is no wake-up in the predicate that
\* could be lost by it.
LEMMA FullyInitializeInv ==
    ASSUME Inv, NEW t \in Threads, FullyInitialize(t)
    PROVE  Inv'
<1> USE CSAssumption DEF Inv, Goto, FullyInitialize
<1>1. TypeOK'
  BY DEF TypeOK, Labels
<1>2. MutualExclusion'
  BY DEF TypeOK, MutualExclusion, Inside, At
<1>3. OwnerIsInside'
  BY DEF TypeOK, OwnerIsInside, At
<1>4. NestInv'
  BY DEF TypeOK, NestInv, Entering, Labels
<1>5. NativeInv' /\ DeleteIsSafe'
  BY DEF TypeOK, NativeInv, DeleteIsSafe, At
<1>6. CountInv' /\ ReleaseInv'
  <2>1. /\ Waking' = Waking /\ Trying' = Trying /\ Registered' = Registered
        /\ lockCount' = lockCount
    BY DEF TypeOK, Waking, Trying, Registered, At
  <2>2. Registered = {}
    BY DEF TypeOK, NativeInv, Registered, At
  <2>3. predicate' = predicate
    BY <2>2, OneWakeup
  <2> QED
    BY <2>1, <2>3, QuietCounts
<1>7. ValInv'
  BY DEF TypeOK, ValInv, TryingLabels
<1> QED
  BY <1>1, <1>2, <1>3, <1>4, <1>5, <1>6, <1>7

\* Registering as a waiter: an exchange that fails changes nothing.
LEMMA RegisterInv ==
    ASSUME Inv, NEW t \in Threads, Register(t)
    PROVE  Inv'
<1> USE CSAssumption DEF Inv, Goto
<1>1. CASE lockCount # val[t]
  <2> USE <1>1 DEF Register
  <2>1. TypeOK'
    BY DEF TypeOK, Labels
  <2>2. MutualExclusion'
    BY DEF TypeOK, MutualExclusion, Inside, At
  <2>3. OwnerIsInside' /\ NestInv'
    BY DEF TypeOK, OwnerIsInside, NestInv, Entering, Labels, At
  <2>4. NativeInv' /\ DeleteIsSafe' /\ ValInv'
    BY DEF TypeOK, NativeInv, DeleteIsSafe, ValInv, TryingLabels, At
  <2>5. /\ Waking' = Waking /\ Trying' = Trying /\ Registered' = Registered
        /\ lockCount' = lockCount /\ predicate' = predicate
    BY DEF TypeOK, Waking, Trying, Registered, At
  <2> QED
    BY <2>1, <2>2, <2>3, <2>4, <2>5, QuietCounts
<1>2. CASE lockCount = val[t]
  <2>a. /\ pc[t] = "inc" /\ lockCount \in Nat /\ Locked(lockCount)
        /\ pc' = [pc EXCEPT ![t] = "test"]
        /\ lockCount' = lockCount + WaitInc(t)
        /\ awakened' = [awakened EXCEPT ![t] = FALSE]
        /\ UNCHANGED <<val, spin, recursion, owner, initState, predicate, enters, nest>>
    BY <1>2 DEF Register, ValInv, TypeOK
  <2>b. awakened[t] => HasAwakened(lockCount)
    BY OneWakeup
  <2>c. /\ lockCount' \in Nat /\ Locked(lockCount')
        /\ HasAwakened(lockCount') <=> HasAwakened(lockCount) /\ ~awakened[t]
        /\ WaiterCount(lockCount') = WaiterCount(lockCount) + 1
    <3>1. CASE awakened[t]
      BY <3>1, <2>a, <2>b, AddWaiterAwakened DEF WaitInc, AWAKENED_WAITER
    <3>2. CASE ~awakened[t]
      BY <3>2, <2>a, AddWaiter DEF WaitInc, WAITER_INC
    <3> QED
      BY <3>1, <3>2
  <2>1. TypeOK'
    BY <2>a, <2>c DEF TypeOK, Labels
  <2>2. MutualExclusion'
    BY <2>a, <2>c DEF TypeOK, MutualExclusion, Inside, At
  <2>3. OwnerIsInside' /\ NestInv'
    BY <2>a DEF TypeOK, OwnerIsInside, NestInv, Entering, Labels, At
  <2>4. NativeInv' /\ DeleteIsSafe' /\ ValInv'
    BY <2>a DEF TypeOK, NativeInv, DeleteIsSafe, ValInv, TryingLabels, At
  <2>5. CountInv' /\ ReleaseInv'
    <3>1. /\ Waking' = Waking
          /\ Registered' = Registered \cup {t} /\ t \notin Registered
          /\ Trying' = Trying \ {t}
          /\ t \in Trying <=> awakened[t]
      BY <2>a DEF TypeOK, Waking, Trying, Registered, At
    <3>2. awakened[t] => Cardinality(Trying') = Cardinality(Trying) - 1
      BY <3>1, OneWakeup, CardRemove
    <3>3. ~awakened[t] => Trying' = Trying
      BY <3>1
    <3>4. Cardinality(Registered') = Cardinality(Registered) + 1
      BY <3>1, OneWakeup, CardAdd
    <3>5. /\ predicate' = predicate /\ predicate \in Nat
          /\ Cardinality(Waking) \in Nat /\ Cardinality(Trying) \in Nat
          /\ WaiterCount(lockCount) \in Nat
      BY <2>a, OneWakeup, WaiterCountNat DEF TypeOK
    <3>6. ReleaseInv'
      BY <2>c DEF ReleaseInv
    <3>7. Cardinality(Waking') + predicate' + Cardinality(Trying')
              = (IF HasAwakened(lockCount') THEN 1 ELSE 0)
      <4>1. CASE awakened[t]
        BY <4>1, <3>1, <3>2, <3>5, <2>b, <2>c DEF CountInv
      <4>2. CASE ~awakened[t]
        BY <4>2, <3>1, <3>3, <3>5, <2>c DEF CountInv
      <4> QED
        BY <4>1, <4>2
    <3>8. WaiterCount(lockCount') + Cardinality(Waking') + predicate'
              = Cardinality(Registered')
      BY <3>1, <3>4, <3>5, <2>c DEF CountInv
    <3> QED
      BY <3>6, <3>7, <3>8 DEF CountInv
  <2> QED
    BY <2>1, <2>2, <2>3, <2>4, <2>5
<1> QED
  BY <1>1, <1>2

\* A waiter takes the wake-up out of the predicate: there is one that it takes.
LEMMA AwakeInv ==
    ASSUME Inv, NEW t \in Threads, Awake(t)
    PROVE  Inv'
<1> USE CSAssumption DEF Inv, Goto, Awake
<1>1. TypeOK'
  BY DEF TypeOK, Labels
<1>2. MutualExclusion'
  BY DEF TypeOK, MutualExclusion, Inside, At
<1>3. OwnerIsInside' /\ NestInv'
  BY DEF TypeOK, OwnerIsInside, NestInv, Entering, Labels, At
<1>4. NativeInv' /\ DeleteIsSafe' /\ ValInv'
  BY DEF TypeOK, NativeInv, DeleteIsSafe, ValInv, TryingLabels, At
<1>5. CountInv' /\ ReleaseInv'
  <2>1. /\ Waking' = Waking
        /\ Registered' = Registered \ {t} /\ t \in Registered
        /\ Trying' = Trying \cup {t} /\ t \notin Trying
    BY DEF TypeOK, ValInv, TryingLabels, Waking, Trying, Registered, At
  <2>2. /\ Cardinality(Registered') = Cardinality(Registered) - 1
        /\ Cardinality(Trying') = Cardinality(Trying) + 1
    BY <2>1, OneWakeup, CardRemove, CardAdd
  <2>3. /\ lockCount' = lockCount /\ predicate = 1 /\ predicate' = 0
        /\ Cardinality(Waking) \in Nat /\ Cardinality(Trying) \in Nat
        /\ Cardinality(Registered) \in Nat /\ WaiterCount(lockCount) \in Nat
    BY OneWakeup, WaiterCountNat DEF TypeOK
  <2> QED
    BY <2>1, <2>2, <2>3 DEF CountInv, ReleaseInv
<1> QED
  BY <1>1, <1>2, <1>3, <1>4, <1>5

\* Giving up the lock: with an exchange that fails, with nobody to wake, or with
\* a waiter that is counted out and will be woken.
LEMMA UnlockInv ==
    ASSUME Inv, NEW t \in Threads, Unlock(t)
    PROVE  Inv'
<1> USE CSAssumption DEF Inv, Goto
<1>a. pc[t] = "unlock" /\ t \in Inside /\ Locked(lockCount) /\ lockCount \in Nat
  BY DEF Unlock, TypeOK, MutualExclusion, Inside, At
<1>1. CASE lockCount # val[t]
  <2> USE <1>1, <1>a DEF Unlock
  <2>1. TypeOK' /\ MutualExclusion'
    BY DEF TypeOK, MutualExclusion, Inside, At
  <2>2. OwnerIsInside' /\ NestInv' /\ NativeInv' /\ DeleteIsSafe' /\ ValInv'
    BY DEF TypeOK, OwnerIsInside, NestInv, NativeInv, DeleteIsSafe, ValInv, At
  <2>3. /\ Waking' = Waking /\ Trying' = Trying /\ Registered' = Registered
        /\ lockCount' = lockCount /\ predicate' = predicate
    BY DEF TypeOK, Waking, Trying, Registered, At
  <2> QED
    BY <2>1, <2>2, <2>3, QuietCounts
<1>2. CASE lockCount = val[t] /\ NobodyToWake(val[t])
  <2>a. /\ lockCount' = lockCount - 1
        /\ pc' = [pc EXCEPT ![t] = "out"] /\ val' = [val EXCEPT ![t] = 0]
        /\ UNCHANGED <<recursion, owner, initState, predicate, spin, awakened,
                       enters, nest>>
    BY <1>2 DEF Unlock, LOCK_BIT
  <2>b. /\ lockCount' \in Nat /\ ~Locked(lockCount')
        /\ HasAwakened(lockCount') <=> HasAwakened(lockCount)
        /\ WaiterCount(lockCount') = WaiterCount(lockCount)
    BY <2>a, <1>a, ResetLockBit
  <2>1. TypeOK'
    BY <2>a, <2>b DEF TypeOK, Labels
  <2>2. MutualExclusion'
    BY <2>a, <2>b, <1>a DEF TypeOK, MutualExclusion, Inside, At
  <2>3. OwnerIsInside' /\ NestInv'
    BY <2>a, <1>a DEF TypeOK, OwnerIsInside, NestInv, Entering, Labels, At
  <2>4. NativeInv' /\ DeleteIsSafe' /\ ValInv'
    BY <2>a, <1>a DEF TypeOK, NativeInv, DeleteIsSafe, ValInv, TryingLabels, At
  <2>5. Waking' = Waking /\ Trying' = Trying /\ Registered' = Registered
    BY <2>a, <1>a DEF TypeOK, Waking, Trying, Registered, At
  <2>6. CountInv'
    BY <2>a, <2>b, <2>5 DEF CountInv
  <2>7. ReleaseInv'
    <3>1. lockCount = 1 \/ HasAwakened(lockCount)
      BY <1>2 DEF NobodyToWake, LOCK_BIT
    <3>2. lockCount = 1 => lockCount' = 0
      BY <2>a
    <3> QED
      BY <3>1, <3>2, <2>b, FreeWord DEF ReleaseInv
  <2> QED
    BY <2>1, <2>2, <2>3, <2>4, <2>6, <2>7
<1>3. CASE lockCount = val[t] /\ ~NobodyToWake(val[t])
  <2>a. /\ lockCount' = lockCount - 4 + 2 - 1
        /\ pc' = [pc EXCEPT ![t] = "wake"] /\ val' = [val EXCEPT ![t] = 0]
        /\ UNCHANGED <<recursion, owner, initState, predicate, spin, awakened,
                       enters, nest>>
    BY <1>3 DEF Unlock, LOCK_BIT, WAITER_INC, AWAKENED_WAITER
  <2>b. ~HasAwakened(lockCount) /\ lockCount # 1
    BY <1>3 DEF NobodyToWake, LOCK_BIT
  <2>c. /\ lockCount' \in Nat /\ ~Locked(lockCount') /\ HasAwakened(lockCount')
        /\ WaiterCount(lockCount') = WaiterCount(lockCount) - 1
        /\ WaiterCount(lockCount') \in Nat /\ WaiterCount(lockCount) \in Nat
    BY <2>a, <2>b, <1>a, ReleaseWaiter, WaiterCountNat
  <2>d. Registered # {}
    <3>1. /\ WaiterCount(lockCount) + Cardinality(Waking) + predicate
                 = Cardinality(Registered)
          /\ predicate \in Nat /\ Cardinality(Waking) \in Nat
      BY OneWakeup DEF CountInv, TypeOK
    <3> QED
      BY <3>1, <2>c, OneWakeup
  <2>1. TypeOK'
    BY <2>a, <2>c DEF TypeOK, Labels
  <2>2. MutualExclusion'
    BY <2>a, <2>c, <1>a DEF TypeOK, MutualExclusion, Inside, At
  <2>3. OwnerIsInside' /\ NestInv'
    BY <2>a, <1>a DEF TypeOK, OwnerIsInside, NestInv, Entering, Labels, At
  <2>4. NativeInv' /\ DeleteIsSafe' /\ ValInv'
    <3>1. initState = "FullyInitialized"
      BY <2>d DEF NativeInv, Registered, At
    <3> QED
      BY <2>a, <1>a, <3>1 DEF TypeOK, NativeInv, DeleteIsSafe, ValInv, TryingLabels, At
  <2>5. /\ Waking' = Waking \cup {t} /\ t \notin Waking
        /\ Trying' = Trying /\ Registered' = Registered
    BY <2>a, <1>a DEF TypeOK, Waking, Trying, Registered, At
  <2>6. Cardinality(Waking') = Cardinality(Waking) + 1
    BY <2>5, OneWakeup, CardAdd
  <2>7. /\ predicate' = predicate /\ predicate \in Nat
        /\ Cardinality(Waking) \in Nat /\ Cardinality(Trying) \in Nat
        /\ Cardinality(Registered) \in Nat
    BY <2>a, OneWakeup DEF TypeOK
  <2>8. CountInv' /\ ReleaseInv'
    BY <2>b, <2>c, <2>5, <2>6, <2>7 DEF CountInv, ReleaseInv
  <2> QED
    BY <2>1, <2>2, <2>3, <2>4, <2>8
<1> QED
  BY <1>1, <1>2, <1>3

\* The wake-up goes from the thread that leaves into the predicate, which held
\* none; a sleeping thread that it ends is registered before and after.
LEMMA WakeUpWaiterInv ==
    ASSUME Inv, NEW t \in Threads, WakeUpWaiter(t)
    PROVE  Inv'
<1> USE CSAssumption DEF Inv
<1>a. /\ pc[t] = "wake" /\ predicate = 0 /\ predicate' = 1
      /\ UNCHANGED <<lockCount, recursion, owner, initState, val, spin, awakened,
                     enters, nest>>
  BY OneWakeup DEF WakeUpWaiter
<1>b. /\ pc' \in [Threads -> Labels] /\ pc'[t] = "out"
      /\ \A u \in Threads \ {t} : pc'[u] = pc[u] \/ (pc[u] = "asleep" /\ pc'[u] = "test")
  <2>1. CASE \E u \in Threads : pc[u] = "asleep"
    <3>1. PICK u \in Threads : /\ pc[u] = "asleep"
                               /\ pc' = [pc EXCEPT ![t] = "out", ![u] = "test"]
      BY <2>1 DEF WakeUpWaiter
    <3> QED
      BY <3>1, <1>a DEF TypeOK, Labels
  <2>2. CASE ~\E u \in Threads : pc[u] = "asleep"
    BY <2>2, <1>a DEF WakeUpWaiter, Goto, TypeOK, Labels
  <2> QED
    BY <2>1, <2>2
<1>1. TypeOK'
  BY <1>a, <1>b DEF TypeOK
<1>2. MutualExclusion'
  <2>1. Inside' = Inside
    BY <1>a, <1>b DEF TypeOK, Inside, At
  <2> QED
    BY <2>1, <1>a DEF MutualExclusion
<1>3. OwnerIsInside'
  BY <1>a, <1>b DEF TypeOK, OwnerIsInside, At
<1>4. NestInv'
  BY <1>a, <1>b DEF TypeOK, NestInv, Entering, Labels
<1>5. NativeInv' /\ DeleteIsSafe'
  BY <1>a, <1>b DEF TypeOK, NativeInv, DeleteIsSafe, At
<1>6. CountInv' /\ ReleaseInv'
  <2>1. /\ Waking' = Waking \ {t} /\ t \in Waking
        /\ Trying' = Trying /\ Registered' = Registered
    BY <1>a, <1>b DEF TypeOK, Waking, Trying, Registered, At
  <2>2. Cardinality(Waking') = Cardinality(Waking) - 1
    BY <2>1, OneWakeup, CardRemove
  <2>3. /\ Cardinality(Waking) \in Nat /\ Cardinality(Trying) \in Nat
        /\ Cardinality(Registered) \in Nat /\ WaiterCount(lockCount) \in Nat
    BY OneWakeup, WaiterCountNat DEF TypeOK
  <2> QED
    BY <1>a, <2>1, <2>2, <2>3 DEF CountInv, ReleaseInv
<1>7. ValInv'
  BY <1>a, <1>b DEF TypeOK, ValInv, TryingLabels
<1> QED
  BY <1>1, <1>2, <1>3, <1>4, <1>5, <1>6, <1>7

\* Deleting: no thread is about to wake another, as there is none to be woken.
LEMMA DeleteInv ==
    ASSUME Inv, NEW t \in Threads, Delete(t)
    PROVE  Inv'
<1> USE CSAssumption DEF Inv, Delete
<1>1. TypeOK' /\ MutualExclusion'
  BY DEF TypeOK, MutualExclusion, Inside, At
<1>2. OwnerIsInside' /\ NestInv' /\ ValInv'
  BY DEF TypeOK, OwnerIsInside, NestInv, ValInv, At
<1>3. \A u \in Threads : pc[u] = "out"
  <2>1. Registered = {}
    BY DEF Registered, At
  <2> QED
    BY <2>1, OneWakeup
<1>4. NativeInv' /\ DeleteIsSafe'
  BY <1>3 DEF TypeOK, NativeInv, DeleteIsSafe, At
<1>5. /\ Waking' = Waking /\ Trying' = Trying /\ Registered' = Registered
      /\ lockCount' = lockCount /\ predicate' = predicate
  BY DEF Waking, Trying, Registered, At
<1> QED
  BY <1>1, <1>2, <1>4, <1>5, QuietCounts

\* Initializing again: nothing of the old lock is in use.
LEMMA InitializeInv ==
    ASSUME Inv, NEW t \in Threads, Initialize(t)
    PROVE  Inv'
<1> USE CSAssumption DEF Inv, Initialize
<1>a. \A u \in Threads : pc[u] = "out"
  BY DEF DeleteIsSafe, At
<1>1. TypeOK'
  BY DEF TypeOK
<1>2. /\ Waking' = {} /\ Trying' = {} /\ Registered' = {} /\ Inside' = {}
      /\ Registered = {}
  BY <1>a DEF TypeOK, ValInv, TryingLabels, Waking, Trying, Registered, Inside, At
<1>3. predicate' = 0
  BY <1>2, OneWakeup
<1>4. MutualExclusion' /\ CountInv' /\ ReleaseInv'
  BY <1>2, <1>3, FreeWord, FS_EmptySet DEF MutualExclusion, CountInv, ReleaseInv
<1>5. OwnerIsInside' /\ NestInv' /\ ValInv'
  BY <1>a DEF TypeOK, OwnerIsInside, NestInv, Entering, ValInv, At
<1>6. NativeInv' /\ DeleteIsSafe'
  BY <1>a DEF TypeOK, NativeInv, DeleteIsSafe, At
<1> QED
  BY <1>1, <1>4, <1>5, <1>6

\* Every step of the specification preserves the invariant.
LEMMA NextInv == Inv /\ [Next]_vars => Inv'
<1> SUFFICES ASSUME Inv, [Next]_vars PROVE Inv'
  OBVIOUS
<1>1. CASE UNCHANGED vars
  BY <1>1 DEF vars, cs, Inv, TypeOK, MutualExclusion, OwnerIsInside, NestInv,
              NativeInv, DeleteIsSafe, CountInv, ReleaseInv, ValInv, Inside, Waking,
              Trying, Registered, At
<1>2. CASE Next
  BY <1>2, EnterInv, EnterRecursionInv, LoadInv, SetOwnershipInv, WaitInv, SleepInv,
     LeaveInv, TryLockFails, TryLockSucceeds, FullyInitializeInv, RegisterInv,
     AwakeInv, UnlockInv, WakeUpWaiterInv, DeleteInv, InitializeInv
     DEF Next, Acquiring, Leaving
<1> QED
  BY <1>1, <1>2

\* The invariant holds in every reachable state.
LEMMA Invariance == Spec => []Inv
BY InitInv, NextInv, PTL DEF Spec

-----------------------------------------------------------------------------

\* Who owns the section is inside it, alone, and the native data are there for
\* whoever uses them, also when the section is deleted and initialized again.
THEOREM LockSound == Spec => []LockIsSound
<1>1. ASSUME Inv PROVE NativeDataReady
  <2> USE <1>1 DEF Inv
  <2>1. initState = "FullyInitializing" => Cardinality(At({"init"})) = 1
    <3>1. initState = "FullyInitializing" => \E t \in Threads : At({"init"}) = {t}
      BY DEF NativeInv, At
    <3> QED
      BY <3>1, FS_Singleton
  <2>2. initState # "FullyInitializing" => Cardinality(At({"init"})) = 0
    <3>1. initState # "FullyInitializing" => At({"init"}) = {}
      BY DEF NativeInv, At
    <3> QED
      BY <3>1, FS_EmptySet
  <2>3. Registered \cup Waking \cup At({"register", "inc"}) # {} =>
            initState = "FullyInitialized"
    BY DEF NativeInv, Registered, Waking, At
  <2> QED
    BY <2>1, <2>2, <2>3 DEF NativeDataReady
<1>2. Inv => LockIsSound
  BY <1>1 DEF Inv, LockIsSound
<1> QED
  BY <1>2, Invariance, PTL

\* There is one wake-up at a time and none is lost between the lock word, the
\* predicate and the awakened thread; a free lock with waiters has one on its way.
THEOREM WakeupsSound == Spec => []WakeupsAreSound
<1>1. Inv => WakeupsConserved
  BY DEF Inv, CountInv, ValInv, WakeupsConserved
<1>2. ASSUME Inv PROVE NoLostWakeup
  <2> USE <1>2 DEF Inv
  <2> SUFFICES ASSUME ~Locked(lockCount), Registered # {},
                      Waking = {}, predicate = 0, Trying = {}
               PROVE  FALSE
    BY DEF NoLostWakeup, TypeOK
  <2>1. Cardinality(Waking) = 0 /\ Cardinality(Trying) = 0
    BY FS_EmptySet
  <2>2. WaiterCount(lockCount) = 0
    BY <2>1 DEF CountInv, ReleaseInv
  <2>3. Cardinality(Registered) = 0
    BY <2>1, <2>2 DEF CountInv
  <2>4. Registered \in SUBSET Threads
    BY DEF Registered, At
  <2> QED
    BY <2>3, <2>4, CardType
<1> QED
  BY <1>1, <1>2, Invariance, PTL DEF WakeupsAreSound

(***************************************************************************)
(* The refinement of RecursiveLock.                                        *)
(***************************************************************************)

\* How deep a thread is inside, as its users count.
DepthAt(t) == IF pc[t] \in {"own", "unlock"} THEN nest[t] + 1 ELSE nest[t]

\* The holder is the thread inside.
LEMMA HolderIsInside ==
    ASSUME Inv
    PROVE  /\ Inside = {} => HolderOf = None /\ DepthOf = 0
           /\ \A t \in Inside : HolderOf = t /\ DepthOf = DepthAt(t)
<1>1. ASSUME Inside = {} PROVE HolderOf = None /\ DepthOf = 0
  BY <1>1 DEF HolderOf, DepthOf
<1>2. ASSUME NEW t \in Inside PROVE HolderOf = t /\ DepthOf = DepthAt(t)
  <2>1. t \in Threads /\ \A u \in Inside : u = t
    BY DEF Inv, MutualExclusion, Inside, At
  <2>2. HolderOf = t
    BY <2>1 DEF HolderOf
  <2> QED
    BY <2>2 DEF DepthOf, DepthAt
<1> QED
  BY <1>1, <1>2

\* The same of the next state.
LEMMA HolderIsInsideNext ==
    ASSUME Inv'
    PROVE  /\ Inside' = {} => HolderOf' = None /\ DepthOf' = 0
           /\ \A t \in Inside' : HolderOf' = t /\ DepthOf' = DepthAt(t)'
<1>1. ASSUME Inside' = {} PROVE HolderOf' = None /\ DepthOf' = 0
  BY <1>1 DEF HolderOf, DepthOf
<1>2. ASSUME NEW t \in Inside' PROVE HolderOf' = t /\ DepthOf' = DepthAt(t)'
  <2>1. t \in Threads /\ \A u \in Inside' : u = t
    BY DEF Inv, MutualExclusion, Inside, At
  <2>2. HolderOf' = t
    BY <2>1 DEF HolderOf
  <2> QED
    BY <2>2 DEF DepthOf, DepthAt
<1> QED
  BY <1>1, <1>2

\* A step that moves nobody in or out and leaves the depth alone stutters.
LEMMA QuietRefines ==
    ASSUME Inv, Inv', Inside' = Inside, \A u \in Inside : DepthAt(u)' = DepthAt(u)
    PROVE  UNCHANGED Lock!vars
<1>1. HolderOf' = HolderOf /\ DepthOf' = DepthOf
  <2>1. CASE Inside = {}
    BY <2>1, HolderIsInside, HolderIsInsideNext
  <2>2. CASE Inside # {}
    BY <2>2, HolderIsInside, HolderIsInsideNext
  <2> QED
    BY <2>1, <2>2
<1> QED
  BY <1>1 DEF Lock!vars

\* The four steps that the users of the lock can see.
LEMMA StepRefines == Inv /\ Inv' /\ [Next]_vars => [Lock!Next]_(Lock!vars)
<1> SUFFICES ASSUME Inv, Inv', [Next]_vars PROVE [Lock!Next]_(Lock!vars)
  OBVIOUS
<1> USE CSAssumption DEF Inv, Goto, cs
<1>1. ASSUME NEW t \in Threads, TryLock(t), lockCount = val[t]
      PROVE  Lock!Acquire(t)
  <2>1. Inside = {} /\ t \in Inside'
    BY <1>1 DEF TryLock, ValInv, TypeOK, MutualExclusion, Inside, At
  <2>2. nest'[t] = 0 /\ pc'[t] = "own"
    BY <1>1 DEF TryLock, NestInv, TypeOK
  <2>3. HolderOf = None /\ HolderOf' = t /\ DepthOf' = 1
    BY <2>1, <2>2, HolderIsInside, HolderIsInsideNext DEF DepthAt
  <2> QED
    BY <2>3 DEF Lock!Acquire
<1>2. ASSUME NEW t \in Threads, EnterRecursion(t), owner = t
      PROVE  Lock!Reacquire(t)
  <2>1. pc[t] = "again" /\ t \in Inside /\ t \in Inside'
    BY <1>2 DEF EnterRecursion, OwnerIsInside, TypeOK, Inside, At
  <2>2. pc'[t] = "in" /\ nest'[t] = nest[t] + 1
    BY <1>2 DEF EnterRecursion, TypeOK
  <2>3. HolderOf = t /\ HolderOf' = t /\ DepthOf = nest[t] /\ DepthOf' = nest[t] + 1
    BY <2>1, <2>2, HolderIsInside, HolderIsInsideNext DEF DepthAt
  <2> QED
    BY <2>3 DEF Lock!Reacquire
<1>3. ASSUME NEW t \in Threads, Leave(t), recursion > 1
      PROVE  Lock!Leave(t)
  <2>1. pc[t] = "in" /\ t \in Inside /\ t \in Inside' /\ nest[t] = recursion
    BY <1>3 DEF Leave, NestInv, TypeOK, Inside, At
  <2>2. pc'[t] = "in" /\ nest'[t] = nest[t] - 1
    BY <1>3 DEF Leave, TypeOK
  <2>3. HolderOf = t /\ HolderOf' = t /\ DepthOf = nest[t] /\ DepthOf' = nest[t] - 1
    BY <2>1, <2>2, HolderIsInside, HolderIsInsideNext DEF DepthAt
  <2> QED
    BY <2>1, <2>3, <1>3 DEF Lock!Leave
<1>4. ASSUME NEW t \in Threads, Unlock(t), lockCount = val[t]
      PROVE  Lock!Release(t)
  <2>1. pc[t] = "unlock" /\ nest[t] = 0 /\ t \in Inside
    BY <1>4 DEF Unlock, NestInv, Inside, At
  <2>2. Inside' = {}
    BY <2>1, <1>4 DEF Unlock, TypeOK, MutualExclusion, Inside, At
  <2>3. HolderOf = t /\ DepthOf = 1 /\ HolderOf' = None /\ DepthOf' = 0
    BY <2>1, <2>2, HolderIsInside, HolderIsInsideNext DEF DepthAt
  <2> QED
    BY <2>3 DEF Lock!Release
\* The other steps are not seen.
<1>5. ASSUME NEW t \in Threads, SetOwnership(t)
             \/ (Leave(t) /\ ~(recursion > 1))
      PROVE  UNCHANGED Lock!vars
  <2>1. t \in Inside /\ Inside' = Inside
    BY <1>5 DEF SetOwnership, Leave, TypeOK, Inside, At
  <2>2. \A u \in Inside : DepthAt(u)' = DepthAt(u)
    <3>1. \A u \in Inside : u = t
      BY <2>1 DEF MutualExclusion
    <3>2. nest[t] = (IF pc[t] = "in" THEN recursion ELSE 0) /\ nest[t] \in Nat
      BY <1>5 DEF SetOwnership, Leave, NestInv, TypeOK
    <3>3. pc[t] = "in" => recursion \in Nat /\ recursion > 0
      BY <1>5 DEF OwnerIsInside, TypeOK, At
    <3>4. DepthAt(t)' = DepthAt(t)
      BY <1>5, <3>2, <3>3 DEF SetOwnership, Leave, TypeOK, DepthAt
    <3> QED
      BY <3>1, <3>4
  <2> QED
    BY <2>1, <2>2, QuietRefines
<1>6. ASSUME NEW t \in Threads,
             \/ TryLock(t) /\ lockCount # val[t]
             \/ EnterRecursion(t) /\ owner # t
             \/ Unlock(t) /\ lockCount # val[t]
             \/ Enter(t) \/ LoadLockCount(t) \/ LoadToRegister(t) \/ WaitOnCS(t)
             \/ ClaimInit(t) \/ FullyInitialize(t) \/ FullyInitializeFails(t)
             \/ Register(t) \/ Sleep(t) \/ SpuriousWakeup(t) \/ Awake(t)
             \/ Delete(t) \/ Initialize(t)
      PROVE  UNCHANGED Lock!vars
  <2> USE <1>6 DEF TryLock, EnterRecursion, Unlock, Enter, LoadLockCount,
                   LoadToRegister, WaitOnCS, ClaimInit, FullyInitialize,
                   FullyInitializeFails, Register, Sleep, SpuriousWakeup, Awake,
                   Delete, Initialize, SpinOrWait, DidntWait
  <2>1. Inside' = Inside
    BY DEF TypeOK, OwnerIsInside, MutualExclusion, Inside, At
  <2>2. \A u \in Inside : DepthAt(u)' = DepthAt(u)
    BY DEF TypeOK, DepthAt, Inside, At
  <2> QED
    BY <2>1, <2>2, QuietRefines
<1>7. ASSUME NEW t \in Threads, WakeUpWaiter(t)
      PROVE  UNCHANGED Lock!vars
  <2>1. /\ pc[t] = "wake" /\ pc'[t] \notin {"own", "in", "again", "unlock"}
        /\ \A u \in Threads : u # t /\ pc'[u] # pc[u] =>
               pc[u] = "asleep" /\ pc'[u] = "test"
        /\ nest' = nest
    BY <1>7 DEF WakeUpWaiter, TypeOK
  <2>2. Inside' = Inside /\ \A u \in Inside : DepthAt(u)' = DepthAt(u)
    BY <2>1 DEF DepthAt, Inside, At
  <2> QED
    BY <2>2, QuietRefines
<1>8. CASE UNCHANGED vars
  <2>1. Inside' = Inside /\ \A u \in Inside : DepthAt(u)' = DepthAt(u)
    BY <1>8 DEF vars, DepthAt, Inside, At
  <2> QED
    BY <2>1, QuietRefines
<1>9. CASE Next
  <2> SUFFICES ASSUME NEW t \in Threads,
                      \/ Enter(t) \/ Acquiring(t) \/ FullyInitializeFails(t)
                      \/ SpuriousWakeup(t) \/ Leave(t) \/ Leaving(t)
                      \/ Delete(t) \/ Initialize(t)
               PROVE  [Lock!Next]_(Lock!vars)
    BY <1>9 DEF Next
  <2> QED
    BY <1>1, <1>2, <1>3, <1>4, <1>5, <1>6, <1>7 DEF Acquiring, Leaving, Lock!Next
<1> QED
  BY <1>8, <1>9

\* The critical section is a recursive lock: one thread at a time holds it, and
\* it is given up only when every enter has been left.
THEOREM Refinement == Spec => ImplementsLock
<1>1. Init => Lock!Init
  <2>1. Init => Inside = {}
    BY DEF Init, Inside, At
  <2> QED
    BY <2>1 DEF Lock!Init, HolderOf, DepthOf
<1> QED
  BY <1>1, StepRefines, Invariance, PTL DEF Spec, ImplementsLock, Lock!Spec
=============================================================================
