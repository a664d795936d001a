--------------------------- MODULE RecursiveLock ---------------------------
(***************************************************************************)
(* What a critical section promises (EnterCriticalSection and              *)
(* LeaveCriticalSection, cs.cpp): one thread at a time holds it, that      *)
(* thread may enter it again, and only the last leave gives it up.         *)
(***************************************************************************)
EXTENDS Naturals

CONSTANTS Threads, None

VARIABLES holder,   \* the thread inside, or None
          depth     \* how often it has entered

vars == <<holder, depth>>

Init == holder = None /\ depth = 0

Acquire(t) == holder = None /\ holder' = t /\ depth' = 1

Reacquire(t) == holder = t /\ depth' = depth + 1 /\ UNCHANGED holder

Leave(t) == holder = t /\ depth > 1 /\ depth' = depth - 1 /\ UNCHANGED holder

Release(t) == holder = t /\ depth = 1 /\ holder' = None /\ depth' = 0

Next == \E t \in Threads : Acquire(t) \/ Reacquire(t) \/ Leave(t) \/ Release(t)

Spec == Init /\ [][Next]_vars
=============================================================================
