-------------------------- MODULE CriticalSection --------------------------
(***************************************************************************)
(* The critical sections of the platform adaptation layer (cs.cpp, the     *)
(* unfair variant, which is the one that is built).                        *)
(*                                                                         *)
(* LockCount packs three things into one word: bit 0 is the lock, bit 1    *)
(* tells that a waiter has been awakened and is about to try, and the rest *)
(* counts the waiters.  Every change of it is a compare-and-exchange with  *)
(* a value read before, so reading and exchanging are separate steps here. *)
(* The native mutex guards only iPredicate; a section under it is one      *)
(* step.                                                                   *)
(***************************************************************************)
EXTENDS Integers, FiniteSets

CONSTANTS Threads,       \* the threads that use the critical section
          None,
          SpinCount,     \* of InitializeCriticalSectionAndSpinCount
          MaxEnters      \* bound: how often a thread enters

ASSUME CSAssumption == /\ None \notin Threads
                       /\ IsFiniteSet(Threads)
                       /\ SpinCount \in Nat
                       /\ MaxEnters \in Nat

VARIABLES
    lockCount,     \* LockCount
    recursion,     \* RecursionCount
    owner,         \* OwningThread
    initState,     \* cisInitState
    predicate,     \* csndNativeData.iPredicate
    pc,            \* where each thread is
    val,           \* its lVal
    spin,          \* its lSpinCount, no further down than -1
    awakened,      \* is it an awakened waiter (lBitsToChange, lWaitInc)?
    enters,        \* how many more times it will enter
    nest           \* history: how many of its enters it has not left

cs == <<lockCount, recursion, owner, initState, predicate>>
vars == <<cs, pc, val, spin, awakened, enters, nest>>

-----------------------------------------------------------------------------
(* The fields of LockCount.                                                *)

LOCK_BIT == 1
AWAKENED_WAITER == 2
WAITER_INC == 4

Locked(v) == v % 2 = 1
HasAwakened(v) == (v \div 2) % 2 = 1
WaiterCount(v) == v \div WAITER_INC

\* lBitsToChange of a thread; toggling them is lVal ^ lBitsToChange.
Toggle(v, t) ==
    (IF Locked(v) THEN v - LOCK_BIT ELSE v + LOCK_BIT)
    + (IF ~awakened[t] THEN 0
       ELSE IF HasAwakened(v) THEN -AWAKENED_WAITER ELSE AWAKENED_WAITER)

\* lWaitInc: adding 2 to a word whose bit 1 is set clears that bit and
\* carries one into the count of waiters.
WaitInc(t) == IF awakened[t] THEN AWAKENED_WAITER ELSE WAITER_INC

Goto(t, label) == pc' = [pc EXCEPT ![t] = label]

Init ==
    /\ lockCount = 0 /\ recursion = 0 /\ owner = None
    /\ initState = "UserInitialized" /\ predicate = 0
    /\ pc = [t \in Threads |-> "out"]
    /\ val = [t \in Threads |-> 0]
    /\ spin = [t \in Threads |-> -1]
    /\ awakened = [t \in Threads |-> FALSE]
    /\ enters = [t \in Threads |-> MaxEnters]
    /\ nest = [t \in Threads |-> 0]

-----------------------------------------------------------------------------
(* InternalEnterCriticalSection                                            *)

\* The first half of the test for recursion: the lock bit.
Enter(t) ==
    /\ pc[t] = "out" \/ pc[t] = "in"
    /\ enters[t] > 0
    /\ enters' = [enters EXCEPT ![t] = @ - 1]
    /\ initState # "NotInitialized"
    /\ Goto(t, IF ~Locked(lockCount) THEN "load"
               ELSE IF pc[t] = "in" THEN "again" ELSE "isOwner")
    /\ spin' = [spin EXCEPT ![t] = SpinCount]
    /\ awakened' = [awakened EXCEPT ![t] = FALSE]
    /\ UNCHANGED <<cs, val, nest>>

\* The second half: OwningThread, read later and without the lock.
EnterRecursion(t) ==
    /\ pc[t] \in {"isOwner", "again"}
    /\ IF owner = t
       THEN /\ Goto(t, "in")
            /\ recursion' = recursion + 1
            /\ nest' = [nest EXCEPT ![t] = @ + 1]
       ELSE Goto(t, "load") /\ UNCHANGED <<recursion, nest>>
    /\ UNCHANGED <<lockCount, owner, initState, predicate, val, spin, awakened,
                   enters>>

\* After a look at a locked word: spin again, or go and wait.
SpinOrWait(t) ==
    /\ Goto(t, IF spin[t] >= 1 THEN "load" ELSE "wait")
    /\ spin' = [spin EXCEPT ![t] = IF @ >= 0 THEN @ - 1 ELSE @]

LoadLockCount(t) ==
    /\ pc[t] = "load"
    /\ val' = [val EXCEPT ![t] = lockCount]
    /\ IF Locked(lockCount) THEN SpinOrWait(t)
       ELSE Goto(t, "lock") /\ UNCHANGED spin
    /\ UNCHANGED <<cs, awakened, enters, nest>>

\* InterlockedCompareExchange to the locked word.  When it fails, the value it
\* returns is looked at next.
TryLock(t) ==
    /\ pc[t] = "lock"
    /\ IF lockCount = val[t]
       THEN /\ lockCount' = Toggle(val[t], t)
            /\ awakened' = [awakened EXCEPT ![t] = FALSE]
            /\ Goto(t, "own")
            /\ UNCHANGED <<val, spin>>
       ELSE /\ val' = [val EXCEPT ![t] = lockCount]
            /\ IF Locked(lockCount) THEN SpinOrWait(t) ELSE UNCHANGED <<pc, spin>>
            /\ UNCHANGED <<lockCount, awakened>>
    /\ UNCHANGED <<recursion, owner, initState, predicate, enters, nest>>

\* IECS_set_ownership.  A function that returns forgets its locals.
SetOwnership(t) ==
    /\ pc[t] = "own"
    /\ owner' = t
    /\ recursion' = 1
    /\ nest' = [nest EXCEPT ![t] = @ + 1]
    /\ Goto(t, "in")
    /\ val' = [val EXCEPT ![t] = 0] /\ spin' = [spin EXCEPT ![t] = -1]
    /\ UNCHANGED <<lockCount, initState, predicate, awakened, enters>>

-----------------------------------------------------------------------------
(* PALCS_WaitOnCS and PALCS_FullyInitialize                                *)

\* PalCsWaiterDidntWait: back to the loop of InternalEnterCriticalSection.
DidntWait(t) == Goto(t, "load")

\* WaitOnCS looks at cisInitState.
WaitOnCS(t) ==
    /\ pc[t] = "wait"
    /\ CASE initState = "FullyInitialized" -> Goto(t, "register")
         [] initState = "UserInitialized"  -> Goto(t, "claimInit")
         [] OTHER                          -> DidntWait(t)
    /\ UNCHANGED <<cs, val, spin, awakened, enters, nest>>

\* The compare-and-exchange from UserInitialized to FullyInitializing.
ClaimInit(t) ==
    /\ pc[t] = "claimInit"
    /\ IF initState = "UserInitialized"
       THEN initState' = "FullyInitializing" /\ Goto(t, "init")
       ELSE /\ UNCHANGED initState
            /\ IF initState = "FullyInitialized" THEN Goto(t, "register")
               ELSE DidntWait(t)
    /\ UNCHANGED <<lockCount, recursion, owner, predicate, val, spin, awakened,
                   enters, nest>>

\* pthread_mutex_init and pthread_cond_init succeed ...
FullyInitialize(t) ==
    /\ pc[t] = "init"
    /\ predicate' = 0
    /\ initState' = "FullyInitialized"
    /\ Goto(t, "register")
    /\ UNCHANGED <<lockCount, recursion, owner, val, spin, awakened, enters, nest>>

\* ... or one of them fails, and any thread may try again.
FullyInitializeFails(t) ==
    /\ pc[t] = "init"
    /\ initState' = "UserInitialized"
    /\ DidntWait(t)
    /\ UNCHANGED <<lockCount, recursion, owner, predicate, val, spin, awakened,
                   enters, nest>>

\* The top of the loop that registers the thread as a waiter.
LoadToRegister(t) ==
    /\ pc[t] = "register"
    /\ val' = [val EXCEPT ![t] = lockCount]
    /\ IF Locked(lockCount) THEN Goto(t, "inc") ELSE DidntWait(t)
    /\ UNCHANGED <<cs, spin, awakened, enters, nest>>

\* Its compare-and-exchange.  A registered thread is no longer an awakened one.
Register(t) ==
    /\ pc[t] = "inc"
    /\ IF lockCount = val[t]
       THEN /\ lockCount' = val[t] + WaitInc(t)
            /\ awakened' = [awakened EXCEPT ![t] = FALSE]
            /\ Goto(t, "test")
       ELSE Goto(t, "register") /\ UNCHANGED <<lockCount, awakened>>
    /\ UNCHANGED <<recursion, owner, initState, predicate, val, spin, enters, nest>>

-----------------------------------------------------------------------------
(* PALCS_DoActualWait, under the native mutex                              *)

\* The predicate is 0: pthread_cond_wait.
Sleep(t) ==
    /\ pc[t] = "test"
    /\ predicate = 0
    /\ Goto(t, "asleep")
    /\ UNCHANGED <<cs, val, spin, awakened, enters, nest>>

\* pthread_cond_wait may return without a signal.
SpuriousWakeup(t) ==
    /\ pc[t] = "asleep"
    /\ Goto(t, "test")
    /\ UNCHANGED <<cs, val, spin, awakened, enters, nest>>

\* The predicate is set: reset it and return PalCsReturnWaiterAwakened.
Awake(t) ==
    /\ pc[t] = "test"
    /\ predicate = 1
    /\ predicate' = 0
    /\ awakened' = [awakened EXCEPT ![t] = TRUE]
    /\ Goto(t, "load")
    /\ UNCHANGED <<lockCount, recursion, owner, initState, val, spin, enters, nest>>

-----------------------------------------------------------------------------
(* InternalLeaveCriticalSection                                            *)

\* A mutant of Leave: the count of recursions is not looked at.
LeaveAtOnce(t) ==
    /\ pc[t] = "in"
    /\ recursion' = recursion - 1
    /\ nest' = [nest EXCEPT ![t] = @ - 1]
    /\ owner' = None
    /\ val' = [val EXCEPT ![t] = lockCount]
    /\ Goto(t, "unlock")
    /\ UNCHANGED <<lockCount, initState, predicate, spin, awakened, enters>>

\* The count of recursions; at 0 the owner is reset and LockCount read.
Leave(t) ==
    /\ pc[t] = "in"
    /\ recursion' = recursion - 1
    /\ nest' = [nest EXCEPT ![t] = @ - 1]
    /\ IF recursion > 1
       THEN UNCHANGED <<pc, owner, val>>
       ELSE /\ owner' = None
            /\ val' = [val EXCEPT ![t] = lockCount]
            /\ Goto(t, "unlock")
    /\ UNCHANGED <<lockCount, initState, predicate, spin, awakened, enters>>

\* A mutant of NobodyToWake: a waiter is woken only if it is the only one.
NobodyToWakeMany(v) == v # LOCK_BIT + WAITER_INC

\* No waiters, or one is awakened already.
NobodyToWake(v) == v = LOCK_BIT \/ HasAwakened(v)

\* The compare-and-exchange of either branch.
Unlock(t) ==
    /\ pc[t] = "unlock"
    /\ IF lockCount # val[t]
       THEN val' = [val EXCEPT ![t] = lockCount] /\ UNCHANGED <<lockCount, pc>>
       ELSE /\ val' = [val EXCEPT ![t] = 0]
            /\ IF NobodyToWake(val[t])
               THEN lockCount' = val[t] - LOCK_BIT /\ Goto(t, "out")
               ELSE /\ lockCount' = val[t] - WAITER_INC + AWAKENED_WAITER - LOCK_BIT
                    /\ Goto(t, "wake")
    /\ UNCHANGED <<recursion, owner, initState, predicate, spin, awakened, enters, nest>>

\* A mutant of WakeUpWaiter: the condition is not signalled.
WakeUpWaiterSilently(t) ==
    /\ pc[t] = "wake"
    /\ predicate' = 1
    /\ Goto(t, "out")
    /\ UNCHANGED <<lockCount, recursion, owner, initState, val, spin, awakened,
                   enters, nest>>

\* PALCS_WakeUpWaiter: set the predicate; the signal ends one wait, if any.
WakeUpWaiter(t) ==
    /\ pc[t] = "wake"
    /\ predicate' = 1
    /\ IF \E u \in Threads : pc[u] = "asleep"
       THEN \E u \in {w \in Threads : pc[w] = "asleep"} :
               pc' = [pc EXCEPT ![t] = "out", ![u] = "test"]
       ELSE Goto(t, "out")
    /\ UNCHANGED <<lockCount, recursion, owner, initState, val, spin, awakened,
                   enters, nest>>

-----------------------------------------------------------------------------
(* InternalDeleteCriticalSection and a new InitializeCriticalSection.      *)
(* Nobody will enter again, and every thread has given up the lock; but    *)
(* some Leave may not have returned.                                       *)

\* A mutant of Delete: a free lock bit is taken for an unused lock.
DeleteUnlocked(t) ==
    /\ pc[t] = "out"
    /\ initState \in {"UserInitialized", "FullyInitialized"}
    /\ ~Locked(lockCount)
    /\ initState' = "NotInitialized"
    /\ UNCHANGED <<lockCount, recursion, owner, predicate, pc, val, spin,
                   awakened, enters, nest>>

Delete(t) ==
    /\ pc[t] = "out"
    /\ initState \in {"UserInitialized", "FullyInitialized"}
    /\ \A u \in Threads : pc[u] \in {"out", "wake"}
    /\ initState' = "NotInitialized"
    /\ UNCHANGED <<lockCount, recursion, owner, predicate, pc, val, spin,
                   awakened, enters, nest>>

Initialize(t) ==
    /\ pc[t] = "out"
    /\ initState = "NotInitialized"
    /\ lockCount' = 0 /\ recursion' = 0 /\ owner' = None
    /\ initState' = "UserInitialized"
    /\ UNCHANGED <<predicate, pc, val, spin, awakened, enters, nest>>

-----------------------------------------------------------------------------
Acquiring(t) ==
    \/ EnterRecursion(t) \/ LoadLockCount(t) \/ TryLock(t) \/ SetOwnership(t)
    \/ WaitOnCS(t) \/ ClaimInit(t) \/ FullyInitialize(t) \/ LoadToRegister(t)
    \/ Register(t) \/ Sleep(t) \/ Awake(t)

Leaving(t) == Unlock(t) \/ WakeUpWaiter(t)

Next ==
    \E t \in Threads :
        \/ Enter(t) \/ Acquiring(t) \/ FullyInitializeFails(t)
        \/ SpuriousWakeup(t) \/ Leave(t) \/ Leaving(t)
        \/ Delete(t) \/ Initialize(t)

\* Threads run, a thread that is inside leaves some time, and the native
\* objects can be created some time.  Nobody has to enter.
Fairness ==
    \A t \in Threads :
        /\ WF_vars(Acquiring(t) \/ FullyInitializeFails(t))
        /\ SF_vars(FullyInitialize(t))
        /\ WF_vars(Leave(t)) /\ WF_vars(Leaving(t))

Spec == Init /\ [][Next]_vars /\ Fairness

-----------------------------------------------------------------------------
(* Properties                                                              *)

Labels == {"out", "isOwner", "again", "load", "lock", "own", "wait",
           "claimInit", "init", "register", "inc", "test", "asleep", "in",
           "unlock", "wake"}

At(label) == {t \in Threads : pc[t] \in label}

\* The types of the fields and locals; LockCount never goes below zero.
TypeOK ==
    /\ lockCount \in Nat /\ recursion \in 0..MaxEnters
    /\ owner \in Threads \cup {None}
    /\ initState \in {"NotInitialized", "UserInitialized", "FullyInitializing",
                      "FullyInitialized"}
    /\ predicate \in {0, 1}
    /\ pc \in [Threads -> Labels]
    /\ val \in [Threads -> Nat]
    /\ spin \in [Threads -> -1..SpinCount]
    /\ awakened \in [Threads -> BOOLEAN]
    /\ enters \in [Threads -> 0..MaxEnters]
    /\ nest \in [Threads -> Nat]

\* From the exchange that sets the lock bit to the one that resets it.
Inside == At({"own", "in", "again", "unlock"})

\* The lock bit says whether somebody is inside, and there is one at most.
MutualExclusion ==
    /\ Locked(lockCount) <=> Inside # {}
    /\ \A t, u \in Inside : t = u

\* OwningThread and RecursionCount are written and read outside the lock word,
\* yet a thread that finds itself in OwningThread holds the lock, and whoever
\* works inside finds itself there (the note above the test for recursion).
OwnerIsInside ==
    /\ owner # None => pc[owner] \in {"in", "again"} /\ recursion > 0
    /\ \A t \in At({"in", "again"}) : owner = t

\* The threads between their registration and their awakening, those that an
\* Unlock is about to wake, and those awakened that have not got the lock yet.
Registered == At({"test", "asleep"})
Waking == At({"wake"})
Trying == {t \in Threads : awakened[t]}

\* The awakened bit stands for one wake-up on its way: about to be signalled,
\* in the predicate, or with the thread that consumed it.  The count is that
\* of the registered threads which no wake-up is on the way to.  So the values
\* that a thread has read, stale as they may be, pass the code's assertions: an
\* awakened waiter sees its bit, and whoever leaves sees the lock bit.
WakeupsConserved ==
    /\ Cardinality(Waking) + predicate + Cardinality(Trying)
           = (IF HasAwakened(lockCount) THEN 1 ELSE 0)
    /\ WaiterCount(lockCount) + Cardinality(Waking) + predicate
           = Cardinality(Registered)
    /\ \A t \in Threads :
          /\ awakened[t] /\ pc[t] \in {"lock", "inc"} => HasAwakened(val[t])
          /\ pc[t] = "unlock" => Locked(val[t])

\* A free lock with waiters has a wake-up on its way: none is lost between
\* registration, release and signal.
NoLostWakeup ==
    ~Locked(lockCount) /\ Registered # {} =>
        Waking # {} \/ predicate = 1 \/ Trying # {}

\* The native objects are initialized by one thread, before anybody uses
\* them, and never again while somebody does.
NativeDataReady ==
    /\ Cardinality(At({"init"})) = (IF initState = "FullyInitializing" THEN 1 ELSE 0)
    /\ Registered \cup Waking \cup At({"register", "inc"}) # {} =>
           initState = "FullyInitialized"

\* Once all threads have given up the lock it may be deleted: no Leave that is
\* still running touches the mutex or the condition any more.
DeleteIsSafe == initState = "NotInitialized" => Threads = At({"out"})

\* The lock as its users see it: it is taken and given up at the exchanges.
HolderOf == IF Inside = {} THEN None ELSE CHOOSE t \in Threads : t \in Inside
DepthOf == IF Inside = {} THEN 0
           ELSE IF pc[HolderOf] \in {"own", "unlock"} THEN nest[HolderOf] + 1
           ELSE nest[HolderOf]

Lock == INSTANCE RecursiveLock WITH holder <- HolderOf, depth <- DepthOf

\* The critical section implements a recursive lock: in particular it is given
\* up only when every enter has been left.
ImplementsLock == Lock!Spec

\* Every EnterCriticalSection returns: with finitely many competitors nobody
\* starves, and nobody sleeps through the wake-up.
EnterReturns == \A t \in Threads : pc[t] = "load" ~> pc[t] = "in"

\* Who owns the section is inside it, alone; the native data are there when a
\* thread uses them, and Delete finds nobody who still does.
LockIsSound ==
    TypeOK /\ MutualExclusion /\ OwnerIsInside /\ NativeDataReady /\ DeleteIsSafe

\* The awakened-waiter bit, the predicate and the waiters agree: there is one
\* wake-up at a time, and none is lost between the lock word and the mutex.
WakeupsAreSound == WakeupsConserved /\ NoLostWakeup
=============================================================================
