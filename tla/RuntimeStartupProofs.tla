------------------------ MODULE RuntimeStartupProofs ------------------------
(***************************************************************************)
(* Proofs about RuntimeStartup, for any number of debuggers, with or       *)
(* without pipes: the objects of a registration live as long as they are   *)
(* used, and the user's callback is called as it was promised.             *)
(***************************************************************************)
EXTENDS RuntimeStartup, TLAPS

(***************************************************************************)
(* The inductive invariant.                                                *)
(***************************************************************************)

\* The types of TypeOK, with names for them: the fields of a helper, of a thread's
\* descriptors and of a pair of pipes, and the places of the threads.
HelperType ==
    [ref : 0..3, canceled : BOOLEAN, error : BOOLEAN,
     startup : {NoSem} \cup 0..3, continue : {NoSem} \cup 0..2,
     dtor : {"no", "startup", "continue", "pipes", "yes"}]

FdsType == [startupPipe : Debuggers \cup {None},
            continuePipe : Debuggers \cup {None}]

ClientLabels == {"idle", "continue", "startup", "events", "worker", "registered", "failed"}
UnregLabels == {"no", "postContinue", "postStartup", "waitWorker", "waitEvents", "release",
                "releaseShim", "done"}
Callers == {"nobody", "client", "worker"}
ShimLabels == {"none", "alive", "freed"}
EventsLabels == {"none", "openContinue", "openStartup", "read", "postStartup",
                 "waitContinue", "write", "close", "ended"}

PipeType == [started : BOOLEAN, continue : Debuggers \cup {None}]

RuntimeLabels == {"notStarted", "openStartup", "openContinue", "post", "waiting",
                  "openContinuePipe", "openStartupPipe", "writeStarted", "waitPipe",
                  "continued", "running"}

Types ==
    /\ overPipes \in BOOLEAN
    /\ names \in [Objects -> Debuggers \cup {None}]
    /\ helper \in [Debuggers -> HelperType]
    /\ client \in [Debuggers -> ClientLabels]
    /\ unreg \in [Debuggers -> UnregLabels]
    /\ caller \in [Debuggers -> Callers]
    /\ shim \in [Debuggers -> ShimLabels]
    /\ worker \in [Debuggers -> WorkerLabels]
    /\ pe \in [Debuggers -> BOOLEAN]
    /\ events \in [Debuggers -> EventsLabels]
    /\ fds \in [Debuggers -> FdsType]
    /\ pipes \in [Debuggers -> PipeType]
    /\ rt \in RuntimeLabels
    /\ rtOn \in [Objects -> Debuggers \cup {None}]
    /\ timedOut \in [Debuggers -> BOOLEAN]
    /\ calls \in [Debuggers -> Nat]

\* The worker has let the runtime go on, and the caller of Unregister has.
Posted == {"testError", "failed", "inErrorCallback", "release", "ended"}
Freed(d) == helper[d].canceled \/ worker[d] \in Posted

\* Which semaphores a debugger has made, and which threads it has started, by
\* the place of its registration.
RegisterInv(d) ==
    /\ client[d] \in {"idle", "continue"} => helper[d].continue = NoSem
    /\ client[d] \in {"idle", "continue", "startup"} => helper[d].startup = NoSem
    /\ client[d] \in {"startup", "events", "worker", "registered"} =>
          helper[d].continue # NoSem
    /\ client[d] \in {"events", "worker", "registered"} => helper[d].startup # NoSem
    /\ helper[d].startup # NoSem => helper[d].continue # NoSem
    /\ worker[d] # "none" => client[d] = "registered"
    /\ unreg[d] # "no" => client[d] = "registered"
    /\ events[d] # "none" =>
          client[d] \in {"worker", "registered", "failed"} /\ helper[d].startup # NoSem
    /\ helper[d].canceled <=> unreg[d] # "no"
    /\ caller[d] = "nobody" <=> unreg[d] = "no"
    /\ shim[d] = "freed" => client[d] = "failed" \/ unreg[d] = "done"

\* A name stands for the semaphore of who made it, until its destructor.
NameInv(d) ==
    /\ names["startup"] = d <=>
          helper[d].startup # NoSem /\ helper[d].dtor \in {"no", "startup"}
    /\ names["continue"] = d <=>
          helper[d].continue # NoSem /\ helper[d].dtor \in {"no", "startup", "continue"}

\* What was posted to the semaphores, by whom: each of them posts once.
PostInv(d) ==
    /\ helper[d].startup <=
          (IF events[d] \in {"waitContinue", "write", "close", "ended"} THEN 1 ELSE 0)
          + (IF unreg[d] \in {"no", "postContinue", "postStartup"} THEN 0 ELSE 1)
          + (IF rtOn["startup"] = d /\ rt \notin {"openContinue", "post"} THEN 1 ELSE 0)
    /\ helper[d].continue <=
          (IF worker[d] \in Posted THEN 1 ELSE 0)
          + (IF unreg[d] \in {"no", "postContinue"} THEN 0 ELSE 1)

\* The worker: it has no error when it calls the user, and calls again only when
\* the call before threw.
CallInv(d) ==
    /\ calls[d] <= 1
    /\ worker[d] \in {"none", "start", "waitStartup", "testCanceled", "modules", "found",
                      "report", "failed"} => calls[d] = 0
    /\ worker[d] \in {"inCallback", "inReport"} => calls[d] = 1
    /\ worker[d] \in {"none", "start", "waitStartup", "testCanceled", "modules", "found",
                      "inCallback", "report", "inReport"} => ~pe[d]
    /\ worker[d] \in {"post", "testError"} /\ calls[d] = 1 => ~pe[d]

\* Unregister against the worker: the callback that called it waits for it; another
\* thread has waited for the end of the worker, unless its time was up.
QuietInv(d) ==
    /\ caller[d] = "worker" =>
          worker[d] \in InUserCode \cup {"report", "post", "testError", "release", "ended"}
    /\ caller[d] = "worker" /\ unreg[d] # "done" => worker[d] \in InUserCode
    /\ caller[d] = "client" /\ ~timedOut[d]
          /\ unreg[d] \in {"waitEvents", "release", "releaseShim", "done"} =>
          worker[d] = "ended"

\* Whose pipes the events thread has open where it uses them; and "continue"
\* is posted, and passed on, only by who may.
EventsInv(d) ==
    /\ events[d] \in {"openStartup", "read", "postStartup", "waitContinue", "write"} =>
          fds[d].continuePipe \in Debuggers
    /\ events[d] = "read" => fds[d].startupPipe \in Debuggers
    /\ helper[d].continue > 0 => Freed(d)
    /\ events[d] = "write" => Freed(d)
    /\ \A p \in Debuggers : pipes[p].continue = d => Freed(d)

\* What the runtime has open at its places, and who has let it go on.
RuntimeInv ==
    /\ rt \in {"notStarted", "openStartup", "openContinuePipe"} =>
          rtOn["startup"] = None
    /\ rt \in {"openContinue", "post", "waiting"} => rtOn["startup"] \in Debuggers
    /\ rt \in {"post", "waiting"} => rtOn["continue"] \in Debuggers
    /\ rt \in {"notStarted", "openStartup", "openContinue", "post", "waiting",
               "openContinuePipe"} => rtOn["continuePipe"] = None
    /\ rt \in {"openStartupPipe", "writeStarted", "waitPipe"} =>
          rtOn["continuePipe"] \in Debuggers /\ rtOn["startup"] = None
    /\ rt = "writeStarted" => rtOn["startupPipe"] \in Debuggers
    /\ \A d \in Debuggers : rtOn["startup"] = d => helper[d].startup # NoSem
    /\ rt = "continued" => ReleasedBy \in Debuggers /\ Freed(ReleasedBy)

\* The invariant of one debugger, and of all of them with the runtime.
Parts(d) ==
    /\ HelperLives(d) /\ RegisterInv(d) /\ NameInv(d) /\ PostInv(d)
    /\ CallInv(d) /\ QuietInv(d) /\ EventsInv(d)

Inv == Types /\ (\A d \in Debuggers : Parts(d)) /\ RuntimeInv

(***************************************************************************)
(* What a step leaves alone.                                               *)
(***************************************************************************)

\* The step leaves the debugger e alone.
Untouched(e) ==
    /\ helper'[e] = helper[e] /\ client'[e] = client[e] /\ unreg'[e] = unreg[e]
    /\ caller'[e] = caller[e] /\ shim'[e] = shim[e] /\ worker'[e] = worker[e]
    /\ pe'[e] = pe[e] /\ events'[e] = events[e] /\ fds'[e] = fds[e]
    /\ timedOut'[e] = timedOut[e] /\ calls'[e] = calls[e]
    /\ names'["startup"] = e <=> names["startup"] = e
    /\ names'["continue"] = e <=> names["continue"] = e

\* A step of a thread of d leaves the other debuggers and the runtime alone; it
\* passes "continue" on only if d has let the runtime go on; and it takes back
\* neither that nor the semaphore.
OthersKept(d) ==
    /\ \A e \in Debuggers : e # d => Untouched(e)
    /\ rt' = rt /\ rtOn' = rtOn
    /\ \A p \in Debuggers : \/ pipes'[p].continue = pipes[p].continue
                            \/ pipes'[p].continue = d /\ Freed(d)'
    /\ Freed(d) => Freed(d)'
    /\ helper[d].startup # NoSem => helper'[d].startup # NoSem

\* None is not a debugger: they are counted from 1.
LEMMA NoneIsNobody == None \notin Debuggers
BY RSAssumption DEF None, Debuggers

\* The fields of a helper, one by one.
Fields(d) ==
    /\ helper[d].ref \in 0..3 /\ helper[d].canceled \in BOOLEAN
    /\ helper[d].error \in BOOLEAN
    /\ helper[d].startup \in {NoSem} \cup 0..3
    /\ helper[d].continue \in {NoSem} \cup 0..2
    /\ helper[d].dtor \in {"no", "startup", "continue", "pipes", "yes"}
    /\ helper \in [Debuggers -> HelperType]

\* They have their types.
LEMMA FieldsTyped ==
    ASSUME Inv, NEW d \in Debuggers
    PROVE  Fields(d)
BY DEF Inv, Types, HelperType, Fields

\* A debugger that a step leaves alone keeps its part of the invariant.
LEMMA KeptParts ==
    ASSUME Inv, NEW e \in Debuggers, Untouched(e), PostInv(e)',
           \A p \in Debuggers : pipes'[p].continue = e => pipes[p].continue = e
    PROVE  Parts(e)'
<1>p. Parts(e)
  BY DEF Inv
<1>1. HelperLives(e)'
  BY <1>p DEF Parts, Untouched, HelperLives, Holders
<1>2. RegisterInv(e)'
  BY <1>p DEF Parts, Untouched, RegisterInv
<1>3. NameInv(e)'
  BY <1>p DEF Parts, Untouched, NameInv
<1>4. CallInv(e)'
  BY <1>p DEF Parts, Untouched, CallInv
<1>5. QuietInv(e)'
  BY <1>p DEF Parts, Untouched, QuietInv
<1>6. EventsInv(e)'
  BY <1>p DEF Parts, Untouched, EventsInv, Freed
<1> QED
  BY <1>1, <1>2, <1>3, <1>4, <1>5, <1>6 DEF Parts

\* So a step of a thread of d has to be looked at for d only.
LEMMA StepKeeps ==
    ASSUME Inv, NEW d \in Debuggers, Types', Parts(d)', OthersKept(d)
    PROVE  Inv'
<1>1. ASSUME NEW e \in Debuggers PROVE Parts(e)'
  <2>1. CASE e = d
    BY <2>1
  <2>2. CASE e # d
    <3>1. Untouched(e) /\ rt' = rt /\ rtOn' = rtOn
      BY <2>2 DEF OthersKept
    <3>2. PostInv(e)'
      BY <3>1 DEF Inv, Parts, PostInv, Untouched
    <3>3. \A p \in Debuggers : pipes'[p].continue = e => pipes[p].continue = e
      BY <2>2 DEF OthersKept
    <3> QED
      BY <3>1, <3>2, <3>3, KeptParts
  <2> QED
    BY <2>1, <2>2
<1>2. \A e \in Debuggers : Freed(e) => Freed(e)'
  BY DEF OthersKept, Untouched, Freed
<1>3. \A e \in Debuggers : helper[e].startup # NoSem => helper'[e].startup # NoSem
  BY DEF OthersKept, Untouched
<1>4. rt' = rt /\ rtOn' = rtOn
  BY DEF OthersKept
<1>5. ASSUME rt = "continued" PROVE (ReleasedBy \in Debuggers /\ Freed(ReleasedBy))'
  <2>1. ReleasedBy \in Debuggers /\ Freed(ReleasedBy)
    BY <1>5 DEF Inv, RuntimeInv
  <2>2. CASE rtOn["continuePipe"] = None
    <3>1. ReleasedBy' = ReleasedBy
      BY <1>4, <2>2 DEF ReleasedBy
    <3> QED
      BY <1>2, <2>1, <3>1 DEF Freed
  <2>3. CASE rtOn["continuePipe"] # None
    <3>1. rtOn["continuePipe"] \in Debuggers
      BY <2>3 DEF Inv, Types, Objects
    <3>2. ReleasedBy' = ReleasedBy \/ (ReleasedBy' = d /\ Freed(d)')
      BY <1>4, <2>3, <3>1 DEF ReleasedBy, OthersKept
    <3> QED
      BY <1>2, <2>1, <3>2 DEF Freed
  <2> QED
    BY <2>2, <2>3
<1>6. RuntimeInv'
  BY <1>3, <1>4, <1>5 DEF Inv, RuntimeInv
<1> QED
  BY <1>1, <1>6 DEF Inv

\* Release, from the last reference or from one before it.
LEMMA ReleasedFields ==
    ASSUME NEW h \in HelperType, h.ref >= 1
    PROVE  /\ Released(h).ref = h.ref - 1 /\ Released(h).canceled = h.canceled
           /\ Released(h).error = h.error /\ Released(h).startup = h.startup
           /\ Released(h).continue = h.continue
           /\ Released(h).dtor = (IF h.ref = 1 THEN "startup" ELSE h.dtor)
           /\ Released(h) \in HelperType
<1> DEFINE x == IF h.ref = 1 THEN "startup" ELSE h.dtor
           y == h.ref - 1
<1>1. Released(h) = [h EXCEPT !.ref = y, !.dtor = x]
  BY DEF Released
<1>2. x \in {"no", "startup", "continue", "pipes", "yes"} /\ y \in 0..3
  BY DEF HelperType
<1> HIDE DEF x, y
<1>3. /\ Released(h).ref = y /\ Released(h).canceled = h.canceled
      /\ Released(h).error = h.error /\ Released(h).startup = h.startup
      /\ Released(h).continue = h.continue
      /\ Released(h).dtor = x /\ Released(h) \in HelperType
  BY <1>1, <1>2 DEF HelperType
<1> QED
  BY <1>3 DEF x, y

\* What Release does to the helpers: the last reference starts the destructor.
LEMMA ReleaseEffect ==
    ASSUME Inv, NEW d \in Debuggers, Release(d), helper[d].ref >= 1
    PROVE  /\ helper'[d].ref = helper[d].ref - 1
           /\ helper'[d].canceled = helper[d].canceled
           /\ helper'[d].error = helper[d].error
           /\ helper'[d].startup = helper[d].startup
           /\ helper'[d].continue = helper[d].continue
           /\ helper'[d].dtor = (IF helper[d].ref = 1 THEN "startup" ELSE helper[d].dtor)
           /\ \A e \in Debuggers : e # d => helper'[e] = helper[e]
           /\ helper' \in [Debuggers -> HelperType]
<1>1. helper \in [Debuggers -> HelperType] /\ helper[d] \in HelperType
  BY DEF Inv, Types
<1>2. helper'[d] = Released(helper[d])
  BY <1>1 DEF Release
<1>3. \A e \in Debuggers : e # d => helper'[e] = helper[e]
  BY <1>1 DEF Release
<1>4. Released(helper[d]) \in HelperType
  BY <1>1, ReleasedFields
<1>5. helper' \in [Debuggers -> HelperType]
  BY <1>1, <1>4 DEF Release
<1> QED
  BY <1>1, <1>2, <1>3, <1>5, ReleasedFields

\* What sem_post of "startup" does to the helpers ...
LEMMA PostStartupEffect ==
    ASSUME Inv, NEW d \in Debuggers, Post(d, "startup"), helper[d].startup \in 0..2
    PROVE  /\ helper'[d].ref = helper[d].ref /\ helper'[d].canceled = helper[d].canceled
           /\ helper'[d].error = helper[d].error
           /\ helper'[d].startup = helper[d].startup + 1
           /\ helper'[d].continue = helper[d].continue
           /\ helper'[d].dtor = helper[d].dtor
           /\ \A e \in Debuggers : e # d => helper'[e] = helper[e]
           /\ helper' \in [Debuggers -> HelperType]
<1>1. helper \in [Debuggers -> HelperType]
  BY DEF Inv, Types
<1> QED
  BY <1>1 DEF Post, HelperType

\* ... and of "continue".
LEMMA PostContinueEffect ==
    ASSUME Inv, NEW d \in Debuggers, Post(d, "continue"), helper[d].continue \in 0..1
    PROVE  /\ helper'[d].ref = helper[d].ref /\ helper'[d].canceled = helper[d].canceled
           /\ helper'[d].error = helper[d].error
           /\ helper'[d].startup = helper[d].startup
           /\ helper'[d].continue = helper[d].continue + 1
           /\ helper'[d].dtor = helper[d].dtor
           /\ \A e \in Debuggers : e # d => helper'[e] = helper[e]
           /\ helper' \in [Debuggers -> HelperType]
<1>1. helper \in [Debuggers -> HelperType]
  BY DEF Inv, Types
<1> QED
  BY <1>1 DEF Post, HelperType

\* Unregister sets m_canceled.
LEMMA CancelEffect ==
    ASSUME Inv, NEW d \in Debuggers, helper' = [helper EXCEPT ![d].canceled = TRUE]
    PROVE  /\ helper'[d].ref = helper[d].ref /\ helper'[d].error = helper[d].error
           /\ helper'[d].canceled = TRUE
           /\ helper'[d].startup = helper[d].startup
           /\ helper'[d].continue = helper[d].continue
           /\ helper'[d].dtor = helper[d].dtor
           /\ \A e \in Debuggers : e # d => helper'[e] = helper[e]
           /\ helper' \in [Debuggers -> HelperType]
<1>1. helper \in [Debuggers -> HelperType] /\ helper[d] \in HelperType
  BY DEF Inv, Types
<1>2. helper'[d] = [helper[d] EXCEPT !.canceled = TRUE]
  BY <1>1
<1>3. \A e \in Debuggers : e # d => helper'[e] = helper[e]
  BY <1>1
<1>4. [helper[d] EXCEPT !.canceled = TRUE] \in HelperType
  BY <1>1 DEF HelperType
<1>5. helper' \in [Debuggers -> HelperType]
  BY <1>1, <1>4
<1> QED
  BY <1>1, <1>2, <1>3, <1>5 DEF HelperType

\* The events thread sets m_error.
LEMMA ErrorEffect ==
    ASSUME Inv, NEW d \in Debuggers, helper' = [helper EXCEPT ![d].error = TRUE]
    PROVE  /\ helper'[d].ref = helper[d].ref /\ helper'[d].canceled = helper[d].canceled
           /\ helper'[d].error = TRUE
           /\ helper'[d].startup = helper[d].startup
           /\ helper'[d].continue = helper[d].continue
           /\ helper'[d].dtor = helper[d].dtor
           /\ \A e \in Debuggers : e # d => helper'[e] = helper[e]
           /\ helper' \in [Debuggers -> HelperType]
<1>1. helper \in [Debuggers -> HelperType] /\ helper[d] \in HelperType
  BY DEF Inv, Types
<1>2. helper'[d] = [helper[d] EXCEPT !.error = TRUE]
  BY <1>1
<1>3. \A e \in Debuggers : e # d => helper'[e] = helper[e]
  BY <1>1
<1>4. [helper[d] EXCEPT !.error = TRUE] \in HelperType
  BY <1>1 DEF HelperType
<1>5. helper' \in [Debuggers -> HelperType]
  BY <1>1, <1>4
<1> QED
  BY <1>1, <1>2, <1>3, <1>5 DEF HelperType

\* A debugger begins to register.
LEMMA RegisterInvariant ==
    ASSUME Inv, NEW d \in Debuggers,
           Register(d)
    PROVE  Inv'
<1>f. Fields(d)
  BY FieldsTyped
<1>p. Parts(d)
  BY DEF Inv
<1>u. UNCHANGED <<overPipes, helper, unreg, caller, worker, pe, events, fds, pipes, rt,
                  rtOn, timedOut, calls>>
  BY DEF Register, system, debugger, working, piping, runtime, history
<1>g. client[d] = "idle"
  BY DEF Register
<1>c1. /\ client' \in [Debuggers -> ClientLabels] /\ client'[d] = "continue"
       /\ \A e \in Debuggers : e # d => client'[e] = client[e]
  BY <1>g DEF Inv, Types, Register, ClientLabels
<1>c2. /\ shim' \in [Debuggers -> ShimLabels] /\ shim'[d] = "alive"
       /\ \A e \in Debuggers : e # d => shim'[e] = shim[e]
  BY <1>g DEF Inv, Types, Register, ShimLabels
<1>n. /\ names' \in [Objects -> Debuggers \cup {None}]
      /\ names'["startup"] = names["startup"] /\ names'["continue"] = names["continue"]
  BY <1>f, <1>p, <1>g, NoneIsNobody DEF Register, Inv, Types, Objects, Fields
<1>1. Types'
  BY <1>c1, <1>c2, <1>n, <1>u DEF Inv, Types
<1>2. OthersKept(d)
  BY <1>f, <1>p, <1>u, <1>g, <1>c1, <1>c2, <1>n, NoneIsNobody DEF OthersKept, Untouched,
     Freed, Posted, NoSem, Fields
<1>3. HelperLives(d)'
  BY <1>f, <1>p, <1>u, <1>g, <1>c1, <1>c2, <1>n DEF Parts, HelperLives, Holders, Fields
<1>4. RegisterInv(d)'
  BY <1>f, <1>p, <1>u, <1>g, <1>c1, <1>c2, <1>n DEF Parts, RegisterInv, NoSem, Fields
<1>5. NameInv(d)'
  BY <1>f, <1>p, <1>u, <1>g, <1>c1, <1>c2, <1>n, NoneIsNobody DEF Parts, NameInv, NoSem,
     Fields
<1>6. PostInv(d)'
  BY <1>f, <1>p, <1>u, <1>g, <1>c1, <1>c2, <1>n DEF Parts, PostInv, Posted, NoSem, Fields
<1>7. CallInv(d)'
  BY <1>f, <1>p, <1>u, <1>g, <1>c1, <1>c2, <1>n DEF Parts, CallInv, Fields
<1>8. QuietInv(d)'
  BY <1>f, <1>p, <1>u, <1>g, <1>c1, <1>c2, <1>n DEF Parts, QuietInv, InUserCode, Fields
<1>9. EventsInv(d)'
  BY <1>f, <1>p, <1>u, <1>g, <1>c1, <1>c2, <1>n, <1>2, NoneIsNobody DEF Parts, EventsInv,
     Freed, Posted, OthersKept, Fields
<1> QED
  BY <1>1, <1>2, <1>3, <1>4, <1>5, <1>6, <1>7, <1>8, <1>9, StepKeeps DEF Parts

\* A registration fails.
LEMMA RegisterFailsInv ==
    ASSUME Inv, NEW d \in Debuggers,
           client[d] \in {"continue", "startup", "events", "worker"},
           Release(d), RegisterFails(d),
           UNCHANGED <<overPipes, names, unreg, caller, worker, pe, events, fds, pipes, rt,
                       rtOn, timedOut, calls>>
    PROVE  Inv'
<1>f. Fields(d)
  BY FieldsTyped
<1>p. Parts(d)
  BY DEF Inv
<1>u. UNCHANGED <<overPipes, names, unreg, caller, worker, pe, events, fds, pipes, rt, rtOn,
                  timedOut, calls>>
  BY DEF RegisterFails, system, debugger, working, piping, runtime, history
<1>g. client[d] \in {"continue", "startup", "events", "worker"}
  BY DEF RegisterFails
<1>r. helper[d].ref >= 1 /\ helper[d].dtor = "no"
  BY <1>f, <1>g, <1>p DEF Fields, Parts, HelperLives, Holders, RegisterInv
<1>c1. /\ client' \in [Debuggers -> ClientLabels] /\ client'[d] = "failed"
       /\ \A e \in Debuggers : e # d => client'[e] = client[e]
  BY <1>g, <1>r DEF Inv, Types, RegisterFails, ClientLabels
<1>c2. /\ shim' \in [Debuggers -> ShimLabels] /\ shim'[d] = "freed"
       /\ \A e \in Debuggers : e # d => shim'[e] = shim[e]
  BY <1>g, <1>r DEF Inv, Types, RegisterFails, ShimLabels
<1>c3. /\ helper'[d].ref = helper[d].ref - 1
       /\ helper'[d].canceled = helper[d].canceled
       /\ helper'[d].error = helper[d].error
       /\ helper'[d].startup = helper[d].startup
       /\ helper'[d].continue = helper[d].continue
       /\ helper'[d].dtor = (IF helper[d].ref = 1 THEN "startup" ELSE helper[d].dtor)
       /\ \A e \in Debuggers : e # d => helper'[e] = helper[e]
       /\ helper' \in [Debuggers -> HelperType]
  BY <1>f, <1>g, <1>r, ReleaseEffect DEF RegisterFails, Fields
<1>1. Types'
  BY <1>c1, <1>c2, <1>c3, <1>u DEF Inv, Types
<1>2. OthersKept(d)
  BY <1>f, <1>p, <1>u, <1>g, <1>r, <1>c1, <1>c2, <1>c3, NoneIsNobody DEF OthersKept,
     Untouched, Freed, Posted, NoSem, Fields
<1>3. HelperLives(d)'
  BY <1>f, <1>p, <1>u, <1>g, <1>r, <1>c1, <1>c2, <1>c3 DEF Parts, HelperLives, Holders,
     RegisterInv, Fields
<1>4. RegisterInv(d)'
  BY <1>f, <1>p, <1>u, <1>g, <1>r, <1>c1, <1>c2, <1>c3 DEF Parts, RegisterInv, NoSem, Fields
<1>5. NameInv(d)'
  BY <1>f, <1>p, <1>u, <1>g, <1>r, <1>c1, <1>c2, <1>c3, NoneIsNobody DEF Parts, NameInv,
     NoSem, Fields
<1>6. PostInv(d)'
  BY <1>f, <1>p, <1>u, <1>g, <1>r, <1>c1, <1>c2, <1>c3 DEF Parts, PostInv, Posted, NoSem,
     Fields
<1>7. CallInv(d)'
  BY <1>f, <1>p, <1>u, <1>g, <1>r, <1>c1, <1>c2, <1>c3 DEF Parts, CallInv, Fields
<1>8. QuietInv(d)'
  BY <1>f, <1>p, <1>u, <1>g, <1>r, <1>c1, <1>c2, <1>c3 DEF Parts, QuietInv, InUserCode, Fields
<1>9. EventsInv(d)'
  BY <1>f, <1>p, <1>u, <1>g, <1>r, <1>c1, <1>c2, <1>c3, <1>2, NoneIsNobody DEF Parts,
     EventsInv, Freed, Posted, OthersKept, Fields
<1> QED
  BY <1>1, <1>2, <1>3, <1>4, <1>5, <1>6, <1>7, <1>8, <1>9, StepKeeps DEF Parts

\* sem_open makes "continue".
LEMMA CreateContinueInv ==
    ASSUME Inv, NEW d \in Debuggers,
           client[d] = "continue", names["continue"] = None,
           names' = [names EXCEPT !["continue"] = d],
           helper' = [helper EXCEPT ![d]["continue"] = 0],
           client' = [client EXCEPT ![d] = "startup"],
           UNCHANGED <<overPipes, unreg, caller, shim, worker, pe, events, fds, pipes, rt,
                       rtOn, timedOut, calls>>
    PROVE  Inv'
<1>f. Fields(d)
  BY FieldsTyped
<1>p. Parts(d)
  BY DEF Inv
<1>u. UNCHANGED <<overPipes, unreg, caller, shim, worker, pe, events, fds, pipes, rt, rtOn,
                  timedOut, calls>>
  BY DEF system, debugger, working, piping, runtime, history
<1>g. client[d] = "continue" /\ names["continue"] = None
  OBVIOUS
<1>c1. /\ client' \in [Debuggers -> ClientLabels] /\ client'[d] = "startup"
       /\ \A e \in Debuggers : e # d => client'[e] = client[e]
  BY <1>g DEF Inv, Types, ClientLabels
<1>c2. /\ helper'[d].ref = helper[d].ref
       /\ helper'[d].canceled = helper[d].canceled
       /\ helper'[d].error = helper[d].error
       /\ helper'[d].startup = helper[d].startup
       /\ helper'[d].continue = 0
       /\ helper'[d].dtor = helper[d].dtor
       /\ \A e \in Debuggers : e # d => helper'[e] = helper[e]
       /\ helper' \in [Debuggers -> HelperType]
  BY <1>f, <1>g DEF HelperType, Fields
<1>n. /\ names' \in [Objects -> Debuggers \cup {None}]
      /\ names'["continue"] = d /\ names'["startup"] = names["startup"]
  BY <1>f, <1>p, <1>g, NoneIsNobody DEF Inv, Types, Objects, Fields
<1>1. Types'
  BY <1>c1, <1>c2, <1>n, <1>u DEF Inv, Types
<1>2. OthersKept(d)
  BY <1>f, <1>p, <1>u, <1>g, <1>c1, <1>c2, <1>n, NoneIsNobody DEF OthersKept, Untouched,
     Freed, Posted, NoSem, Fields
<1>3. HelperLives(d)'
  BY <1>f, <1>p, <1>u, <1>g, <1>c1, <1>c2, <1>n DEF Parts, HelperLives, Holders,
     RegisterInv, Fields
<1>4. RegisterInv(d)'
  BY <1>f, <1>p, <1>u, <1>g, <1>c1, <1>c2, <1>n DEF Parts, RegisterInv, NoSem, Fields
<1>5. NameInv(d)'
  BY <1>f, <1>p, <1>u, <1>g, <1>c1, <1>c2, <1>n, NoneIsNobody DEF Parts, NameInv, NoSem,
     RegisterInv, HelperLives, Holders, Fields
<1>6. PostInv(d)'
  BY <1>f, <1>p, <1>u, <1>g, <1>c1, <1>c2, <1>n DEF Parts, PostInv, Posted, NoSem,
     RegisterInv, Fields
<1>7. CallInv(d)'
  BY <1>f, <1>p, <1>u, <1>g, <1>c1, <1>c2, <1>n DEF Parts, CallInv, Fields
<1>8. QuietInv(d)'
  BY <1>f, <1>p, <1>u, <1>g, <1>c1, <1>c2, <1>n DEF Parts, QuietInv, InUserCode, Fields
<1>9. EventsInv(d)'
  BY <1>f, <1>p, <1>u, <1>g, <1>c1, <1>c2, <1>n, <1>2, NoneIsNobody DEF Parts, EventsInv,
     Freed, Posted, RegisterInv, OthersKept, Fields
<1> QED
  BY <1>1, <1>2, <1>3, <1>4, <1>5, <1>6, <1>7, <1>8, <1>9, StepKeeps DEF Parts

\* sem_open makes "startup".
LEMMA CreateStartupInv ==
    ASSUME Inv, NEW d \in Debuggers,
           client[d] = "startup", names["startup"] = None,
           names' = [names EXCEPT !["startup"] = d],
           helper' = [helper EXCEPT ![d]["startup"] = 0],
           client' = [client EXCEPT ![d] = "events"],
           UNCHANGED <<overPipes, unreg, caller, shim, worker, pe, events, fds, pipes, rt,
                       rtOn, timedOut, calls>>
    PROVE  Inv'
<1>f. Fields(d)
  BY FieldsTyped
<1>p. Parts(d)
  BY DEF Inv
<1>u. UNCHANGED <<overPipes, unreg, caller, shim, worker, pe, events, fds, pipes, rt, rtOn,
                  timedOut, calls>>
  BY DEF system, debugger, working, piping, runtime, history
<1>g. client[d] = "startup" /\ names["startup"] = None
  OBVIOUS
<1>c1. /\ client' \in [Debuggers -> ClientLabels] /\ client'[d] = "events"
       /\ \A e \in Debuggers : e # d => client'[e] = client[e]
  BY <1>g DEF Inv, Types, ClientLabels
<1>c2. /\ helper'[d].ref = helper[d].ref
       /\ helper'[d].canceled = helper[d].canceled
       /\ helper'[d].error = helper[d].error
       /\ helper'[d].startup = 0
       /\ helper'[d].continue = helper[d].continue
       /\ helper'[d].dtor = helper[d].dtor
       /\ \A e \in Debuggers : e # d => helper'[e] = helper[e]
       /\ helper' \in [Debuggers -> HelperType]
  BY <1>f, <1>g DEF HelperType, Fields
<1>n. /\ names' \in [Objects -> Debuggers \cup {None}]
      /\ names'["startup"] = d /\ names'["continue"] = names["continue"]
  BY <1>f, <1>p, <1>g, NoneIsNobody DEF Inv, Types, Objects, Fields
<1>1. Types'
  BY <1>c1, <1>c2, <1>n, <1>u DEF Inv, Types
<1>2. OthersKept(d)
  BY <1>f, <1>p, <1>u, <1>g, <1>c1, <1>c2, <1>n, NoneIsNobody DEF OthersKept, Untouched,
     Freed, Posted, NoSem, Fields
<1>3. HelperLives(d)'
  BY <1>f, <1>p, <1>u, <1>g, <1>c1, <1>c2, <1>n DEF Parts, HelperLives, Holders,
     RegisterInv, Fields
<1>4. RegisterInv(d)'
  BY <1>f, <1>p, <1>u, <1>g, <1>c1, <1>c2, <1>n DEF Parts, RegisterInv, NoSem, Fields
<1>5. NameInv(d)'
  BY <1>f, <1>p, <1>u, <1>g, <1>c1, <1>c2, <1>n, NoneIsNobody DEF Parts, NameInv, NoSem,
     RegisterInv, HelperLives, Holders, Fields
<1>6. PostInv(d)'
  BY <1>f, <1>p, <1>u, <1>g, <1>c1, <1>c2, <1>n DEF Parts, PostInv, Posted, NoSem,
     RegisterInv, Fields
<1>7. CallInv(d)'
  BY <1>f, <1>p, <1>u, <1>g, <1>c1, <1>c2, <1>n DEF Parts, CallInv, Fields
<1>8. QuietInv(d)'
  BY <1>f, <1>p, <1>u, <1>g, <1>c1, <1>c2, <1>n DEF Parts, QuietInv, InUserCode, Fields
<1>9. EventsInv(d)'
  BY <1>f, <1>p, <1>u, <1>g, <1>c1, <1>c2, <1>n, <1>2, NoneIsNobody DEF Parts, EventsInv,
     Freed, Posted, RegisterInv, OthersKept, Fields
<1> QED
  BY <1>1, <1>2, <1>3, <1>4, <1>5, <1>6, <1>7, <1>8, <1>9, StepKeeps DEF Parts

\* The events thread is created.
LEMMA CreateEventsInv ==
    ASSUME Inv, NEW d \in Debuggers,
           client[d] = "events",
           helper' = [helper EXCEPT ![d].ref = @ + 1],
           events' = [events EXCEPT ![d] = "openContinue"],
           client' = [client EXCEPT ![d] = "worker"],
           UNCHANGED <<overPipes, names, unreg, caller, shim, worker, pe, fds, pipes, rt,
                       rtOn, timedOut, calls>>
    PROVE  Inv'
<1>f. Fields(d)
  BY FieldsTyped
<1>p. Parts(d)
  BY DEF Inv
<1>u. UNCHANGED <<overPipes, names, unreg, caller, shim, worker, pe, fds, pipes, rt, rtOn,
                  timedOut, calls>>
  BY DEF system, debugger, working, piping, runtime, history
<1>g. client[d] = "events"
  OBVIOUS
<1>r. helper[d].ref \in 1..2 /\ events[d] = "none"
  BY <1>f, <1>g, <1>p DEF Fields, Inv, Types, Callers, EventsLabels, Parts, HelperLives,
     Holders, RegisterInv
<1>c1. /\ client' \in [Debuggers -> ClientLabels] /\ client'[d] = "worker"
       /\ \A e \in Debuggers : e # d => client'[e] = client[e]
  BY <1>g, <1>r DEF Inv, Types, ClientLabels
<1>c2. /\ events' \in [Debuggers -> EventsLabels] /\ events'[d] = "openContinue"
       /\ \A e \in Debuggers : e # d => events'[e] = events[e]
  BY <1>g, <1>r DEF Inv, Types, EventsLabels
<1>c3. /\ helper'[d].ref = helper[d].ref + 1
       /\ helper'[d].canceled = helper[d].canceled
       /\ helper'[d].error = helper[d].error
       /\ helper'[d].startup = helper[d].startup
       /\ helper'[d].continue = helper[d].continue
       /\ helper'[d].dtor = helper[d].dtor
       /\ \A e \in Debuggers : e # d => helper'[e] = helper[e]
       /\ helper' \in [Debuggers -> HelperType]
  BY <1>f, <1>g, <1>r DEF HelperType, Fields
<1>1. Types'
  BY <1>c1, <1>c2, <1>c3, <1>u DEF Inv, Types
<1>2. OthersKept(d)
  BY <1>f, <1>p, <1>u, <1>g, <1>r, <1>c1, <1>c2, <1>c3, NoneIsNobody DEF OthersKept,
     Untouched, Freed, Posted, NoSem, Fields
<1>3. HelperLives(d)'
  BY <1>f, <1>p, <1>u, <1>g, <1>r, <1>c1, <1>c2, <1>c3 DEF Parts, HelperLives, Holders,
     Fields
<1>4. RegisterInv(d)'
  BY <1>f, <1>p, <1>u, <1>g, <1>r, <1>c1, <1>c2, <1>c3 DEF Parts, RegisterInv, NoSem, Fields
<1>5. NameInv(d)'
  BY <1>f, <1>p, <1>u, <1>g, <1>r, <1>c1, <1>c2, <1>c3, NoneIsNobody DEF Parts, NameInv,
     NoSem, Fields
<1>6. PostInv(d)'
  BY <1>f, <1>p, <1>u, <1>g, <1>r, <1>c1, <1>c2, <1>c3 DEF Parts, PostInv, Posted, NoSem,
     Fields
<1>7. CallInv(d)'
  BY <1>f, <1>p, <1>u, <1>g, <1>r, <1>c1, <1>c2, <1>c3 DEF Parts, CallInv, Fields
<1>8. QuietInv(d)'
  BY <1>f, <1>p, <1>u, <1>g, <1>r, <1>c1, <1>c2, <1>c3 DEF Parts, QuietInv, InUserCode, Fields
<1>9. EventsInv(d)'
  BY <1>f, <1>p, <1>u, <1>g, <1>r, <1>c1, <1>c2, <1>c3, <1>2, NoneIsNobody DEF Parts,
     EventsInv, Freed, Posted, OthersKept, Fields
<1> QED
  BY <1>1, <1>2, <1>3, <1>4, <1>5, <1>6, <1>7, <1>8, <1>9, StepKeeps DEF Parts

\* A build without pipes has no events thread.
LEMMA SkipEventsInv ==
    ASSUME Inv, NEW d \in Debuggers,
           client[d] = "events",
           client' = [client EXCEPT ![d] = "worker"],
           UNCHANGED <<overPipes, names, helper, unreg, caller, shim, worker, pe, events,
                       fds, pipes, rt, rtOn, timedOut, calls>>
    PROVE  Inv'
<1>f. Fields(d)
  BY FieldsTyped
<1>p. Parts(d)
  BY DEF Inv
<1>u. UNCHANGED <<overPipes, names, helper, unreg, caller, shim, worker, pe, events, fds,
                  pipes, rt, rtOn, timedOut, calls>>
  BY DEF system, debugger, working, piping, runtime, history
<1>g. client[d] = "events"
  OBVIOUS
<1>c1. /\ client' \in [Debuggers -> ClientLabels] /\ client'[d] = "worker"
       /\ \A e \in Debuggers : e # d => client'[e] = client[e]
  BY <1>g DEF Inv, Types, ClientLabels
<1>1. Types'
  BY <1>c1, <1>u DEF Inv, Types
<1>2. OthersKept(d)
  BY <1>f, <1>p, <1>u, <1>g, <1>c1, NoneIsNobody DEF OthersKept, Untouched, Freed, Posted,
     NoSem, Fields
<1>3. HelperLives(d)'
  BY <1>f, <1>p, <1>u, <1>g, <1>c1 DEF Parts, HelperLives, Holders, Fields
<1>4. RegisterInv(d)'
  BY <1>f, <1>p, <1>u, <1>g, <1>c1 DEF Parts, RegisterInv, NoSem, Fields
<1>5. NameInv(d)'
  BY <1>f, <1>p, <1>u, <1>g, <1>c1, NoneIsNobody DEF Parts, NameInv, NoSem, Fields
<1>6. PostInv(d)'
  BY <1>f, <1>p, <1>u, <1>g, <1>c1 DEF Parts, PostInv, Posted, NoSem, Fields
<1>7. CallInv(d)'
  BY <1>f, <1>p, <1>u, <1>g, <1>c1 DEF Parts, CallInv, Fields
<1>8. QuietInv(d)'
  BY <1>f, <1>p, <1>u, <1>g, <1>c1 DEF Parts, QuietInv, InUserCode, Fields
<1>9. EventsInv(d)'
  BY <1>f, <1>p, <1>u, <1>g, <1>c1, <1>2, NoneIsNobody DEF Parts, EventsInv, Freed, Posted,
     OthersKept, Fields
<1> QED
  BY <1>1, <1>2, <1>3, <1>4, <1>5, <1>6, <1>7, <1>8, <1>9, StepKeeps DEF Parts

\* The worker thread is created.
LEMMA CreateWorkerInv ==
    ASSUME Inv, NEW d \in Debuggers,
           client[d] = "worker",
           helper' = [helper EXCEPT ![d].ref = @ + 1],
           worker' = [worker EXCEPT ![d] = "start"],
           client' = [client EXCEPT ![d] = "registered"],
           UNCHANGED <<overPipes, names, unreg, caller, shim, pe, events, fds, pipes, rt,
                       rtOn, timedOut, calls>>
    PROVE  Inv'
<1>f. Fields(d)
  BY FieldsTyped
<1>p. Parts(d)
  BY DEF Inv
<1>u. UNCHANGED <<overPipes, names, unreg, caller, shim, pe, events, fds, pipes, rt, rtOn,
                  timedOut, calls>>
  BY DEF system, debugger, working, piping, runtime, history
<1>g. client[d] = "worker"
  OBVIOUS
<1>r. /\ helper[d].ref \in 1..2 /\ worker[d] = "none" /\ unreg[d] = "no"
      /\ caller[d] = "nobody"
  BY <1>f, <1>g, <1>p DEF Fields, Inv, Types, Callers, EventsLabels, Parts, HelperLives,
     Holders, RegisterInv
<1>c1. /\ client' \in [Debuggers -> ClientLabels] /\ client'[d] = "registered"
       /\ \A e \in Debuggers : e # d => client'[e] = client[e]
  BY <1>g, <1>r DEF Inv, Types, ClientLabels
<1>c2. /\ worker' \in [Debuggers -> WorkerLabels] /\ worker'[d] = "start"
       /\ \A e \in Debuggers : e # d => worker'[e] = worker[e]
  BY <1>g, <1>r DEF Inv, Types, WorkerLabels
<1>c3. /\ helper'[d].ref = helper[d].ref + 1
       /\ helper'[d].canceled = helper[d].canceled
       /\ helper'[d].error = helper[d].error
       /\ helper'[d].startup = helper[d].startup
       /\ helper'[d].continue = helper[d].continue
       /\ helper'[d].dtor = helper[d].dtor
       /\ \A e \in Debuggers : e # d => helper'[e] = helper[e]
       /\ helper' \in [Debuggers -> HelperType]
  BY <1>f, <1>g, <1>r DEF HelperType, Fields
<1>1. Types'
  BY <1>c1, <1>c2, <1>c3, <1>u DEF Inv, Types
<1>2. OthersKept(d)
  BY <1>f, <1>p, <1>u, <1>g, <1>r, <1>c1, <1>c2, <1>c3, NoneIsNobody DEF OthersKept,
     Untouched, Freed, Posted, NoSem, Fields
<1>3. HelperLives(d)'
  BY <1>f, <1>p, <1>u, <1>g, <1>r, <1>c1, <1>c2, <1>c3 DEF Parts, HelperLives, Holders,
     Fields
<1>4. RegisterInv(d)'
  BY <1>f, <1>p, <1>u, <1>g, <1>r, <1>c1, <1>c2, <1>c3 DEF Parts, RegisterInv, NoSem, Fields
<1>5. NameInv(d)'
  BY <1>f, <1>p, <1>u, <1>g, <1>r, <1>c1, <1>c2, <1>c3, NoneIsNobody DEF Parts, NameInv,
     NoSem, Fields
<1>6. PostInv(d)'
  BY <1>f, <1>p, <1>u, <1>g, <1>r, <1>c1, <1>c2, <1>c3 DEF Parts, PostInv, Posted, NoSem,
     Fields
<1>7. CallInv(d)'
  BY <1>f, <1>p, <1>u, <1>g, <1>r, <1>c1, <1>c2, <1>c3 DEF Parts, CallInv, Fields
<1>8. QuietInv(d)'
  BY <1>f, <1>p, <1>u, <1>g, <1>r, <1>c1, <1>c2, <1>c3 DEF Parts, QuietInv, InUserCode, Fields
<1>9. EventsInv(d)'
  BY <1>f, <1>p, <1>u, <1>g, <1>r, <1>c1, <1>c2, <1>c3, <1>2, NoneIsNobody DEF Parts,
     EventsInv, Freed, Posted, OthersKept, Fields
<1> QED
  BY <1>1, <1>2, <1>3, <1>4, <1>5, <1>6, <1>7, <1>8, <1>9, StepKeeps DEF Parts

\* Unregister is called.
LEMMA UnregisterInv ==
    ASSUME Inv, NEW d \in Debuggers,
           NEW who \in {"client", "worker"}, Unregister(d, who)
    PROVE  Inv'
<1>f. Fields(d)
  BY FieldsTyped
<1>p. Parts(d)
  BY DEF Inv
<1>u. UNCHANGED <<overPipes, names, client, shim, worker, pe, events, fds, pipes, rt, rtOn,
                  timedOut, calls>>
  BY DEF Unregister, system, debugger, working, piping, runtime, history
<1>g. /\ client[d] = "registered" /\ unreg[d] = "no"
      /\ who = "worker" => worker[d] \in InUserCode
  BY DEF Unregister
<1>c1. /\ caller' \in [Debuggers -> Callers] /\ caller'[d] = who
       /\ \A e \in Debuggers : e # d => caller'[e] = caller[e]
  BY <1>g DEF Inv, Types, Unregister, Callers
<1>c2. /\ unreg' \in [Debuggers -> UnregLabels] /\ unreg'[d] = "postContinue"
       /\ \A e \in Debuggers : e # d => unreg'[e] = unreg[e]
  BY <1>g DEF Inv, Types, Unregister, UnregLabels
<1>c3. /\ helper'[d].ref = helper[d].ref
       /\ helper'[d].canceled = TRUE
       /\ helper'[d].error = helper[d].error
       /\ helper'[d].startup = helper[d].startup
       /\ helper'[d].continue = helper[d].continue
       /\ helper'[d].dtor = helper[d].dtor
       /\ \A e \in Debuggers : e # d => helper'[e] = helper[e]
       /\ helper' \in [Debuggers -> HelperType]
  BY <1>f, <1>g, CancelEffect DEF Unregister, Fields
<1>1. Types'
  BY <1>c1, <1>c2, <1>c3, <1>u DEF Inv, Types
<1>2. OthersKept(d)
  BY <1>f, <1>p, <1>u, <1>g, <1>c1, <1>c2, <1>c3, NoneIsNobody DEF OthersKept, Untouched,
     Freed, Posted, NoSem, Fields
<1>3. HelperLives(d)'
  BY <1>f, <1>p, <1>u, <1>g, <1>c1, <1>c2, <1>c3 DEF Parts, HelperLives, Holders, Fields
<1>4. RegisterInv(d)'
  BY <1>f, <1>p, <1>u, <1>g, <1>c1, <1>c2, <1>c3 DEF Parts, RegisterInv, NoSem, Fields
<1>5. NameInv(d)'
  BY <1>f, <1>p, <1>u, <1>g, <1>c1, <1>c2, <1>c3, NoneIsNobody DEF Parts, NameInv, NoSem,
     Fields
<1>6. PostInv(d)'
  BY <1>f, <1>p, <1>u, <1>g, <1>c1, <1>c2, <1>c3 DEF Parts, PostInv, Posted, NoSem, Fields
<1>7. CallInv(d)'
  BY <1>f, <1>p, <1>u, <1>g, <1>c1, <1>c2, <1>c3 DEF Parts, CallInv, Fields
<1>8. QuietInv(d)'
  BY <1>f, <1>p, <1>u, <1>g, <1>c1, <1>c2, <1>c3 DEF Parts, QuietInv, InUserCode, Fields
<1>9. EventsInv(d)'
  BY <1>f, <1>p, <1>u, <1>g, <1>c1, <1>c2, <1>c3, <1>2, NoneIsNobody DEF Parts, EventsInv,
     Freed, Posted, OthersKept, Fields
<1> QED
  BY <1>1, <1>2, <1>3, <1>4, <1>5, <1>6, <1>7, <1>8, <1>9, StepKeeps DEF Parts

\* Unregister posts "continue".
LEMMA PostsContinueInv ==
    ASSUME Inv, NEW d \in Debuggers,
           unreg[d] = "postContinue", Post(d, "continue"),
           unreg' = [unreg EXCEPT ![d] = "postStartup"],
           UNCHANGED <<overPipes, names, client, caller, shim, worker, pe, events, fds,
                       pipes, rt, rtOn, timedOut, calls>>
    PROVE  Inv'
<1>f. Fields(d)
  BY FieldsTyped
<1>p. Parts(d)
  BY DEF Inv
<1>u. UNCHANGED <<overPipes, names, client, caller, shim, worker, pe, events, fds, pipes,
                  rt, rtOn, timedOut, calls>>
  BY DEF system, debugger, working, piping, runtime, history
<1>g. unreg[d] = "postContinue"
  OBVIOUS
<1>r. /\ helper[d].continue \in 0..1
  BY <1>f, <1>g, <1>p DEF Fields, Parts, RegisterInv, PostInv, Posted, NoSem
<1>c1. /\ unreg' \in [Debuggers -> UnregLabels] /\ unreg'[d] = "postStartup"
       /\ \A e \in Debuggers : e # d => unreg'[e] = unreg[e]
  BY <1>g, <1>r DEF Inv, Types, UnregLabels
<1>c2. /\ helper'[d].ref = helper[d].ref
       /\ helper'[d].canceled = helper[d].canceled
       /\ helper'[d].error = helper[d].error
       /\ helper'[d].startup = helper[d].startup
       /\ helper'[d].continue = helper[d].continue + 1
       /\ helper'[d].dtor = helper[d].dtor
       /\ \A e \in Debuggers : e # d => helper'[e] = helper[e]
       /\ helper' \in [Debuggers -> HelperType]
  BY <1>f, <1>g, <1>r, PostContinueEffect DEF Fields
<1>1. Types'
  BY <1>c1, <1>c2, <1>u DEF Inv, Types
<1>2. OthersKept(d)
  BY <1>f, <1>p, <1>u, <1>g, <1>r, <1>c1, <1>c2, NoneIsNobody DEF OthersKept, Untouched,
     Freed, Posted, NoSem, Parts, RegisterInv, Fields
<1>3. HelperLives(d)'
  BY <1>f, <1>p, <1>u, <1>g, <1>r, <1>c1, <1>c2 DEF Parts, HelperLives, Holders, Fields
<1>4. RegisterInv(d)'
  BY <1>f, <1>p, <1>u, <1>g, <1>r, <1>c1, <1>c2 DEF Parts, RegisterInv, NoSem, Fields
<1>5. NameInv(d)'
  BY <1>f, <1>p, <1>u, <1>g, <1>r, <1>c1, <1>c2, NoneIsNobody DEF Parts, NameInv, NoSem,
     Fields
<1>6. PostInv(d)'
  BY <1>f, <1>p, <1>u, <1>g, <1>r, <1>c1, <1>c2 DEF Parts, PostInv, Posted, NoSem, Fields
<1>7. CallInv(d)'
  BY <1>f, <1>p, <1>u, <1>g, <1>r, <1>c1, <1>c2 DEF Parts, CallInv, Fields
<1>8. QuietInv(d)'
  BY <1>f, <1>p, <1>u, <1>g, <1>r, <1>c1, <1>c2 DEF Parts, QuietInv, InUserCode, Fields
<1>9. EventsInv(d)'
  BY <1>f, <1>p, <1>u, <1>g, <1>r, <1>c1, <1>c2, <1>2, NoneIsNobody DEF Parts, EventsInv,
     Freed, Posted, RegisterInv, OthersKept, Fields
<1> QED
  BY <1>1, <1>2, <1>3, <1>4, <1>5, <1>6, <1>7, <1>8, <1>9, StepKeeps DEF Parts

\* Unregister posts "startup".
LEMMA PostsStartupInv ==
    ASSUME Inv, NEW d \in Debuggers,
           unreg[d] = "postStartup", Post(d, "startup"),
           unreg' = [unreg EXCEPT ![d] = "waitWorker"],
           UNCHANGED <<overPipes, names, client, caller, shim, worker, pe, events, fds,
                       pipes, rt, rtOn, timedOut, calls>>
    PROVE  Inv'
<1>f. Fields(d)
  BY FieldsTyped
<1>p. Parts(d)
  BY DEF Inv
<1>u. UNCHANGED <<overPipes, names, client, caller, shim, worker, pe, events, fds, pipes,
                  rt, rtOn, timedOut, calls>>
  BY DEF system, debugger, working, piping, runtime, history
<1>g. unreg[d] = "postStartup"
  OBVIOUS
<1>r. /\ helper[d].startup \in 0..2
  BY <1>f, <1>g, <1>p DEF Fields, Parts, RegisterInv, PostInv, Posted, NoSem
<1>c1. /\ unreg' \in [Debuggers -> UnregLabels] /\ unreg'[d] = "waitWorker"
       /\ \A e \in Debuggers : e # d => unreg'[e] = unreg[e]
  BY <1>g, <1>r DEF Inv, Types, UnregLabels
<1>c2. /\ helper'[d].ref = helper[d].ref
       /\ helper'[d].canceled = helper[d].canceled
       /\ helper'[d].error = helper[d].error
       /\ helper'[d].startup = helper[d].startup + 1
       /\ helper'[d].continue = helper[d].continue
       /\ helper'[d].dtor = helper[d].dtor
       /\ \A e \in Debuggers : e # d => helper'[e] = helper[e]
       /\ helper' \in [Debuggers -> HelperType]
  BY <1>f, <1>g, <1>r, PostStartupEffect DEF Fields
<1>1. Types'
  BY <1>c1, <1>c2, <1>u DEF Inv, Types
<1>2. OthersKept(d)
  BY <1>f, <1>p, <1>u, <1>g, <1>r, <1>c1, <1>c2, NoneIsNobody DEF OthersKept, Untouched,
     Freed, Posted, NoSem, Fields
<1>3. HelperLives(d)'
  BY <1>f, <1>p, <1>u, <1>g, <1>r, <1>c1, <1>c2 DEF Parts, HelperLives, Holders, Fields
<1>4. RegisterInv(d)'
  BY <1>f, <1>p, <1>u, <1>g, <1>r, <1>c1, <1>c2 DEF Parts, RegisterInv, NoSem, Fields
<1>5. NameInv(d)'
  BY <1>f, <1>p, <1>u, <1>g, <1>r, <1>c1, <1>c2, NoneIsNobody DEF Parts, NameInv, NoSem,
     Fields
<1>6. PostInv(d)'
  BY <1>f, <1>p, <1>u, <1>g, <1>r, <1>c1, <1>c2 DEF Parts, PostInv, Posted, NoSem, Fields
<1>7. CallInv(d)'
  BY <1>f, <1>p, <1>u, <1>g, <1>r, <1>c1, <1>c2 DEF Parts, CallInv, Fields
<1>8. QuietInv(d)'
  BY <1>f, <1>p, <1>u, <1>g, <1>r, <1>c1, <1>c2 DEF Parts, QuietInv, InUserCode, Fields
<1>9. EventsInv(d)'
  BY <1>f, <1>p, <1>u, <1>g, <1>r, <1>c1, <1>c2, <1>2, NoneIsNobody DEF Parts, EventsInv,
     Freed, Posted, OthersKept, Fields
<1> QED
  BY <1>1, <1>2, <1>3, <1>4, <1>5, <1>6, <1>7, <1>8, <1>9, StepKeeps DEF Parts

\* Unregister has waited for the worker thread.
LEMMA WaitWorkerInv ==
    ASSUME Inv, NEW d \in Debuggers,
           WaitWorker(d)
    PROVE  Inv'
<1>f. Fields(d)
  BY FieldsTyped
<1>p. Parts(d)
  BY DEF Inv
<1>u. UNCHANGED <<overPipes, names, helper, client, caller, shim, worker, pe, events, fds,
                  pipes, rt, rtOn, timedOut, calls>>
  BY DEF WaitWorker, system, debugger, working, piping, runtime, history
<1>g. unreg[d] = "waitWorker" /\ (caller[d] = "worker" \/ worker[d] = "ended")
  BY DEF WaitWorker
<1>c1. /\ unreg' \in [Debuggers -> UnregLabels] /\ unreg'[d] = "waitEvents"
       /\ \A e \in Debuggers : e # d => unreg'[e] = unreg[e]
  BY <1>g DEF Inv, Types, WaitWorker, UnregLabels
<1>1. Types'
  BY <1>c1, <1>u DEF Inv, Types
<1>2. OthersKept(d)
  BY <1>f, <1>p, <1>u, <1>g, <1>c1, NoneIsNobody DEF OthersKept, Untouched, Freed, Posted,
     NoSem, Fields
<1>3. HelperLives(d)'
  BY <1>f, <1>p, <1>u, <1>g, <1>c1 DEF Parts, HelperLives, Holders, Fields
<1>4. RegisterInv(d)'
  BY <1>f, <1>p, <1>u, <1>g, <1>c1 DEF Parts, RegisterInv, NoSem, Fields
<1>5. NameInv(d)'
  BY <1>f, <1>p, <1>u, <1>g, <1>c1, NoneIsNobody DEF Parts, NameInv, NoSem, Fields
<1>6. PostInv(d)'
  BY <1>f, <1>p, <1>u, <1>g, <1>c1 DEF Parts, PostInv, Posted, NoSem, Fields
<1>7. CallInv(d)'
  BY <1>f, <1>p, <1>u, <1>g, <1>c1 DEF Parts, CallInv, Fields
<1>8. QuietInv(d)'
  BY <1>f, <1>p, <1>u, <1>g, <1>c1 DEF Parts, QuietInv, InUserCode, Fields
<1>9. EventsInv(d)'
  BY <1>f, <1>p, <1>u, <1>g, <1>c1, <1>2, NoneIsNobody DEF Parts, EventsInv, Freed, Posted,
     OthersKept, Fields
<1> QED
  BY <1>1, <1>2, <1>3, <1>4, <1>5, <1>6, <1>7, <1>8, <1>9, StepKeeps DEF Parts

\* Unregister has waited for the events thread.
LEMMA WaitEventsInv ==
    ASSUME Inv, NEW d \in Debuggers,
           WaitEvents(d)
    PROVE  Inv'
<1>f. Fields(d)
  BY FieldsTyped
<1>p. Parts(d)
  BY DEF Inv
<1>u. UNCHANGED <<overPipes, names, helper, client, caller, shim, worker, pe, events, fds,
                  pipes, rt, rtOn, timedOut, calls>>
  BY DEF WaitEvents, system, debugger, working, piping, runtime, history
<1>g. unreg[d] = "waitEvents"
  BY DEF WaitEvents
<1>c1. /\ unreg' \in [Debuggers -> UnregLabels] /\ unreg'[d] = "release"
       /\ \A e \in Debuggers : e # d => unreg'[e] = unreg[e]
  BY <1>g DEF Inv, Types, WaitEvents, UnregLabels
<1>1. Types'
  BY <1>c1, <1>u DEF Inv, Types
<1>2. OthersKept(d)
  BY <1>f, <1>p, <1>u, <1>g, <1>c1, NoneIsNobody DEF OthersKept, Untouched, Freed, Posted,
     NoSem, Fields
<1>3. HelperLives(d)'
  BY <1>f, <1>p, <1>u, <1>g, <1>c1 DEF Parts, HelperLives, Holders, Fields
<1>4. RegisterInv(d)'
  BY <1>f, <1>p, <1>u, <1>g, <1>c1 DEF Parts, RegisterInv, NoSem, Fields
<1>5. NameInv(d)'
  BY <1>f, <1>p, <1>u, <1>g, <1>c1, NoneIsNobody DEF Parts, NameInv, NoSem, Fields
<1>6. PostInv(d)'
  BY <1>f, <1>p, <1>u, <1>g, <1>c1 DEF Parts, PostInv, Posted, NoSem, Fields
<1>7. CallInv(d)'
  BY <1>f, <1>p, <1>u, <1>g, <1>c1 DEF Parts, CallInv, Fields
<1>8. QuietInv(d)'
  BY <1>f, <1>p, <1>u, <1>g, <1>c1 DEF Parts, QuietInv, InUserCode, Fields
<1>9. EventsInv(d)'
  BY <1>f, <1>p, <1>u, <1>g, <1>c1, <1>2, NoneIsNobody DEF Parts, EventsInv, Freed, Posted,
     OthersKept, Fields
<1> QED
  BY <1>1, <1>2, <1>3, <1>4, <1>5, <1>6, <1>7, <1>8, <1>9, StepKeeps DEF Parts

\* Unregister has not waited for the worker thread.
LEMMA WorkerTimesOutInv ==
    ASSUME Inv, NEW d \in Debuggers,
           unreg[d] = "waitWorker", caller[d] = "client",
           unreg' = [unreg EXCEPT ![d] = "waitEvents"],
           timedOut' = [timedOut EXCEPT ![d] = TRUE],
           UNCHANGED <<overPipes, names, helper, client, caller, shim, worker, pe, events,
                       fds, pipes, rt, rtOn, calls>>
    PROVE  Inv'
<1>f. Fields(d)
  BY FieldsTyped
<1>p. Parts(d)
  BY DEF Inv
<1>u. UNCHANGED <<overPipes, names, helper, client, caller, shim, worker, pe, events, fds,
                  pipes, rt, rtOn, calls>>
  BY DEF system, debugger, working, piping, runtime, history
<1>g. unreg[d] = "waitWorker" /\ caller[d] = "client"
  OBVIOUS
<1>c1. /\ unreg' \in [Debuggers -> UnregLabels] /\ unreg'[d] = "waitEvents"
       /\ \A e \in Debuggers : e # d => unreg'[e] = unreg[e]
  BY <1>g DEF Inv, Types, UnregLabels
<1>c2. /\ timedOut' \in [Debuggers -> BOOLEAN] /\ timedOut'[d] = TRUE
       /\ \A e \in Debuggers : e # d => timedOut'[e] = timedOut[e]
  BY <1>g DEF Inv, Types
<1>1. Types'
  BY <1>c1, <1>c2, <1>u DEF Inv, Types
<1>2. OthersKept(d)
  BY <1>f, <1>p, <1>u, <1>g, <1>c1, <1>c2, NoneIsNobody DEF OthersKept, Untouched, Freed,
     Posted, NoSem, Fields
<1>3. HelperLives(d)'
  BY <1>f, <1>p, <1>u, <1>g, <1>c1, <1>c2 DEF Parts, HelperLives, Holders, Fields
<1>4. RegisterInv(d)'
  BY <1>f, <1>p, <1>u, <1>g, <1>c1, <1>c2 DEF Parts, RegisterInv, NoSem, Fields
<1>5. NameInv(d)'
  BY <1>f, <1>p, <1>u, <1>g, <1>c1, <1>c2, NoneIsNobody DEF Parts, NameInv, NoSem, Fields
<1>6. PostInv(d)'
  BY <1>f, <1>p, <1>u, <1>g, <1>c1, <1>c2 DEF Parts, PostInv, Posted, NoSem, Fields
<1>7. CallInv(d)'
  BY <1>f, <1>p, <1>u, <1>g, <1>c1, <1>c2 DEF Parts, CallInv, Fields
<1>8. QuietInv(d)'
  BY <1>f, <1>p, <1>u, <1>g, <1>c1, <1>c2 DEF Parts, QuietInv, InUserCode, Fields
<1>9. EventsInv(d)'
  BY <1>f, <1>p, <1>u, <1>g, <1>c1, <1>c2, <1>2, NoneIsNobody DEF Parts, EventsInv, Freed,
     Posted, OthersKept, Fields
<1> QED
  BY <1>1, <1>2, <1>3, <1>4, <1>5, <1>6, <1>7, <1>8, <1>9, StepKeeps DEF Parts

\* Unregister has not waited for the events thread.
LEMMA EventsTimeOutInv ==
    ASSUME Inv, NEW d \in Debuggers,
           unreg[d] = "waitEvents",
           unreg' = [unreg EXCEPT ![d] = "release"],
           timedOut' = [timedOut EXCEPT ![d] = TRUE],
           UNCHANGED <<overPipes, names, helper, client, caller, shim, worker, pe, events,
                       fds, pipes, rt, rtOn, calls>>
    PROVE  Inv'
<1>f. Fields(d)
  BY FieldsTyped
<1>p. Parts(d)
  BY DEF Inv
<1>u. UNCHANGED <<overPipes, names, helper, client, caller, shim, worker, pe, events, fds,
                  pipes, rt, rtOn, calls>>
  BY DEF system, debugger, working, piping, runtime, history
<1>g. unreg[d] = "waitEvents"
  OBVIOUS
<1>c1. /\ unreg' \in [Debuggers -> UnregLabels] /\ unreg'[d] = "release"
       /\ \A e \in Debuggers : e # d => unreg'[e] = unreg[e]
  BY <1>g DEF Inv, Types, UnregLabels
<1>c2. /\ timedOut' \in [Debuggers -> BOOLEAN] /\ timedOut'[d] = TRUE
       /\ \A e \in Debuggers : e # d => timedOut'[e] = timedOut[e]
  BY <1>g DEF Inv, Types
<1>1. Types'
  BY <1>c1, <1>c2, <1>u DEF Inv, Types
<1>2. OthersKept(d)
  BY <1>f, <1>p, <1>u, <1>g, <1>c1, <1>c2, NoneIsNobody DEF OthersKept, Untouched, Freed,
     Posted, NoSem, Fields
<1>3. HelperLives(d)'
  BY <1>f, <1>p, <1>u, <1>g, <1>c1, <1>c2 DEF Parts, HelperLives, Holders, Fields
<1>4. RegisterInv(d)'
  BY <1>f, <1>p, <1>u, <1>g, <1>c1, <1>c2 DEF Parts, RegisterInv, NoSem, Fields
<1>5. NameInv(d)'
  BY <1>f, <1>p, <1>u, <1>g, <1>c1, <1>c2, NoneIsNobody DEF Parts, NameInv, NoSem, Fields
<1>6. PostInv(d)'
  BY <1>f, <1>p, <1>u, <1>g, <1>c1, <1>c2 DEF Parts, PostInv, Posted, NoSem, Fields
<1>7. CallInv(d)'
  BY <1>f, <1>p, <1>u, <1>g, <1>c1, <1>c2 DEF Parts, CallInv, Fields
<1>8. QuietInv(d)'
  BY <1>f, <1>p, <1>u, <1>g, <1>c1, <1>c2 DEF Parts, QuietInv, InUserCode, Fields
<1>9. EventsInv(d)'
  BY <1>f, <1>p, <1>u, <1>g, <1>c1, <1>c2, <1>2, NoneIsNobody DEF Parts, EventsInv, Freed,
     Posted, OthersKept, Fields
<1> QED
  BY <1>1, <1>2, <1>3, <1>4, <1>5, <1>6, <1>7, <1>8, <1>9, StepKeeps DEF Parts

\* Unregister releases the helper.
LEMMA UnregisterReleasesInv ==
    ASSUME Inv, NEW d \in Debuggers,
           UnregisterReleases(d)
    PROVE  Inv'
<1>f. Fields(d)
  BY FieldsTyped
<1>p. Parts(d)
  BY DEF Inv
<1>u. UNCHANGED <<overPipes, names, client, caller, shim, worker, pe, events, fds, pipes,
                  rt, rtOn, timedOut, calls>>
  BY DEF UnregisterReleases, system, debugger, working, piping, runtime, history
<1>g. unreg[d] = "release"
  BY DEF UnregisterReleases
<1>r. helper[d].ref >= 1 /\ helper[d].dtor = "no"
  BY <1>f, <1>g, <1>p DEF Fields, Parts, HelperLives, Holders, RegisterInv
<1>c1. /\ unreg' \in [Debuggers -> UnregLabels] /\ unreg'[d] = "releaseShim"
       /\ \A e \in Debuggers : e # d => unreg'[e] = unreg[e]
  BY <1>g, <1>r DEF Inv, Types, UnregisterReleases, UnregLabels
<1>c2. /\ helper'[d].ref = helper[d].ref - 1
       /\ helper'[d].canceled = helper[d].canceled
       /\ helper'[d].error = helper[d].error
       /\ helper'[d].startup = helper[d].startup
       /\ helper'[d].continue = helper[d].continue
       /\ helper'[d].dtor = (IF helper[d].ref = 1 THEN "startup" ELSE helper[d].dtor)
       /\ \A e \in Debuggers : e # d => helper'[e] = helper[e]
       /\ helper' \in [Debuggers -> HelperType]
  BY <1>f, <1>g, <1>r, ReleaseEffect DEF UnregisterReleases, Fields
<1>1. Types'
  BY <1>c1, <1>c2, <1>u DEF Inv, Types
<1>2. OthersKept(d)
  BY <1>f, <1>p, <1>u, <1>g, <1>r, <1>c1, <1>c2, NoneIsNobody DEF OthersKept, Untouched,
     Freed, Posted, NoSem, Fields
<1>3. HelperLives(d)'
  BY <1>f, <1>p, <1>u, <1>g, <1>r, <1>c1, <1>c2 DEF Parts, HelperLives, Holders,
     RegisterInv, Fields
<1>4. RegisterInv(d)'
  BY <1>f, <1>p, <1>u, <1>g, <1>r, <1>c1, <1>c2 DEF Parts, RegisterInv, NoSem, Fields
<1>5. NameInv(d)'
  BY <1>f, <1>p, <1>u, <1>g, <1>r, <1>c1, <1>c2, NoneIsNobody DEF Parts, NameInv, NoSem,
     Fields
<1>6. PostInv(d)'
  BY <1>f, <1>p, <1>u, <1>g, <1>r, <1>c1, <1>c2 DEF Parts, PostInv, Posted, NoSem, Fields
<1>7. CallInv(d)'
  BY <1>f, <1>p, <1>u, <1>g, <1>r, <1>c1, <1>c2 DEF Parts, CallInv, Fields
<1>8. QuietInv(d)'
  BY <1>f, <1>p, <1>u, <1>g, <1>r, <1>c1, <1>c2 DEF Parts, QuietInv, InUserCode, Fields
<1>9. EventsInv(d)'
  BY <1>f, <1>p, <1>u, <1>g, <1>r, <1>c1, <1>c2, <1>2, NoneIsNobody DEF Parts, EventsInv,
     Freed, Posted, OthersKept, Fields
<1> QED
  BY <1>1, <1>2, <1>3, <1>4, <1>5, <1>6, <1>7, <1>8, <1>9, StepKeeps DEF Parts

\* Unregister returns.
LEMMA UnregisterReturnsInv ==
    ASSUME Inv, NEW d \in Debuggers,
           UnregisterReturns(d)
    PROVE  Inv'
<1>f. Fields(d)
  BY FieldsTyped
<1>p. Parts(d)
  BY DEF Inv
<1>u. UNCHANGED <<overPipes, names, helper, client, caller, worker, pe, events, fds, pipes,
                  rt, rtOn, timedOut, calls>>
  BY DEF UnregisterReturns, system, debugger, working, piping, runtime, history
<1>g. unreg[d] = "releaseShim"
  BY DEF UnregisterReturns
<1>c1. /\ unreg' \in [Debuggers -> UnregLabels] /\ unreg'[d] = "done"
       /\ \A e \in Debuggers : e # d => unreg'[e] = unreg[e]
  BY <1>g DEF Inv, Types, UnregisterReturns, UnregLabels
<1>c2. /\ shim' \in [Debuggers -> ShimLabels] /\ shim'[d] = "freed"
       /\ \A e \in Debuggers : e # d => shim'[e] = shim[e]
  BY <1>g DEF Inv, Types, UnregisterReturns, ShimLabels
<1>1. Types'
  BY <1>c1, <1>c2, <1>u DEF Inv, Types
<1>2. OthersKept(d)
  BY <1>f, <1>p, <1>u, <1>g, <1>c1, <1>c2, NoneIsNobody DEF OthersKept, Untouched, Freed,
     Posted, NoSem, Fields
<1>3. HelperLives(d)'
  BY <1>f, <1>p, <1>u, <1>g, <1>c1, <1>c2 DEF Parts, HelperLives, Holders, Fields
<1>4. RegisterInv(d)'
  BY <1>f, <1>p, <1>u, <1>g, <1>c1, <1>c2 DEF Parts, RegisterInv, NoSem, Fields
<1>5. NameInv(d)'
  BY <1>f, <1>p, <1>u, <1>g, <1>c1, <1>c2, NoneIsNobody DEF Parts, NameInv, NoSem, Fields
<1>6. PostInv(d)'
  BY <1>f, <1>p, <1>u, <1>g, <1>c1, <1>c2 DEF Parts, PostInv, Posted, NoSem, Fields
<1>7. CallInv(d)'
  BY <1>f, <1>p, <1>u, <1>g, <1>c1, <1>c2 DEF Parts, CallInv, Fields
<1>8. QuietInv(d)'
  BY <1>f, <1>p, <1>u, <1>g, <1>c1, <1>c2 DEF Parts, QuietInv, InUserCode, Fields
<1>9. EventsInv(d)'
  BY <1>f, <1>p, <1>u, <1>g, <1>c1, <1>c2, <1>2, NoneIsNobody DEF Parts, EventsInv, Freed,
     Posted, OthersKept, Fields
<1> QED
  BY <1>1, <1>2, <1>3, <1>4, <1>5, <1>6, <1>7, <1>8, <1>9, StepKeeps DEF Parts

\* The destructor unlinks "startup".
LEMMA DestroyStartupInv ==
    ASSUME Inv, NEW d \in Debuggers,
           DestructorSemaphore(d, "startup", "continue")
    PROVE  Inv'
<1>f. Fields(d)
  BY FieldsTyped
<1>p. Parts(d)
  BY DEF Inv
<1>u. UNCHANGED <<overPipes, client, unreg, caller, shim, worker, pe, events, fds, pipes,
                  rt, rtOn, timedOut, calls>>
  BY DEF DestructorSemaphore, system, debugger, working, piping, runtime, history
<1>g. helper[d].dtor = "startup"
  BY DEF DestructorSemaphore
<1>c1. /\ helper'[d].ref = helper[d].ref
       /\ helper'[d].canceled = helper[d].canceled
       /\ helper'[d].error = helper[d].error
       /\ helper'[d].startup = helper[d].startup
       /\ helper'[d].continue = helper[d].continue
       /\ helper'[d].dtor = "continue"
       /\ \A e \in Debuggers : e # d => helper'[e] = helper[e]
       /\ helper' \in [Debuggers -> HelperType]
  BY <1>f, <1>g DEF DestructorSemaphore, HelperType, Fields
<1>n. /\ names' \in [Objects -> Debuggers \cup {None}]
      /\ names'["startup"] = (IF helper[d].startup = NoSem THEN names["startup"] ELSE None)
      /\ names'["continue"] = names["continue"]
  BY <1>f, <1>p, <1>g, NoneIsNobody DEF DestructorSemaphore, Inv, Types, Objects, Fields
<1>1. Types'
  BY <1>c1, <1>n, <1>u DEF Inv, Types
<1>2. OthersKept(d)
  BY <1>f, <1>p, <1>u, <1>g, <1>c1, <1>n, NoneIsNobody DEF OthersKept, Untouched, Freed,
     Posted, NoSem, Parts, NameInv, Fields
<1>3. HelperLives(d)'
  BY <1>f, <1>p, <1>u, <1>g, <1>c1, <1>n DEF Parts, HelperLives, Holders, Fields
<1>4. RegisterInv(d)'
  BY <1>f, <1>p, <1>u, <1>g, <1>c1, <1>n DEF Parts, RegisterInv, NoSem, Fields
<1>5. NameInv(d)'
  BY <1>f, <1>p, <1>u, <1>g, <1>c1, <1>n, NoneIsNobody DEF Parts, NameInv, NoSem, Fields
<1>6. PostInv(d)'
  BY <1>f, <1>p, <1>u, <1>g, <1>c1, <1>n DEF Parts, PostInv, Posted, NoSem, Fields
<1>7. CallInv(d)'
  BY <1>f, <1>p, <1>u, <1>g, <1>c1, <1>n DEF Parts, CallInv, Fields
<1>8. QuietInv(d)'
  BY <1>f, <1>p, <1>u, <1>g, <1>c1, <1>n DEF Parts, QuietInv, InUserCode, Fields
<1>9. EventsInv(d)'
  BY <1>f, <1>p, <1>u, <1>g, <1>c1, <1>n, <1>2, NoneIsNobody DEF Parts, EventsInv, Freed,
     Posted, OthersKept, Fields
<1> QED
  BY <1>1, <1>2, <1>3, <1>4, <1>5, <1>6, <1>7, <1>8, <1>9, StepKeeps DEF Parts

\* The destructor unlinks "continue".
LEMMA DestroyContinueInv ==
    ASSUME Inv, NEW d \in Debuggers,
           DestructorSemaphore(d, "continue", "pipes")
    PROVE  Inv'
<1>f. Fields(d)
  BY FieldsTyped
<1>p. Parts(d)
  BY DEF Inv
<1>u. UNCHANGED <<overPipes, client, unreg, caller, shim, worker, pe, events, fds, pipes,
                  rt, rtOn, timedOut, calls>>
  BY DEF DestructorSemaphore, system, debugger, working, piping, runtime, history
<1>g. helper[d].dtor = "continue"
  BY DEF DestructorSemaphore
<1>c1. /\ helper'[d].ref = helper[d].ref
       /\ helper'[d].canceled = helper[d].canceled
       /\ helper'[d].error = helper[d].error
       /\ helper'[d].startup = helper[d].startup
       /\ helper'[d].continue = helper[d].continue
       /\ helper'[d].dtor = "pipes"
       /\ \A e \in Debuggers : e # d => helper'[e] = helper[e]
       /\ helper' \in [Debuggers -> HelperType]
  BY <1>f, <1>g DEF DestructorSemaphore, HelperType, Fields
<1>n. /\ names' \in [Objects -> Debuggers \cup {None}]
      /\ names'["continue"] = (IF helper[d].continue = NoSem THEN names["continue"] ELSE None)
      /\ names'["startup"] = names["startup"]
  BY <1>f, <1>p, <1>g, NoneIsNobody DEF DestructorSemaphore, Inv, Types, Objects, Fields
<1>1. Types'
  BY <1>c1, <1>n, <1>u DEF Inv, Types
<1>2. OthersKept(d)
  BY <1>f, <1>p, <1>u, <1>g, <1>c1, <1>n, NoneIsNobody DEF OthersKept, Untouched, Freed,
     Posted, NoSem, Parts, NameInv, Fields
<1>3. HelperLives(d)'
  BY <1>f, <1>p, <1>u, <1>g, <1>c1, <1>n DEF Parts, HelperLives, Holders, Fields
<1>4. RegisterInv(d)'
  BY <1>f, <1>p, <1>u, <1>g, <1>c1, <1>n DEF Parts, RegisterInv, NoSem, Fields
<1>5. NameInv(d)'
  BY <1>f, <1>p, <1>u, <1>g, <1>c1, <1>n, NoneIsNobody DEF Parts, NameInv, NoSem, Fields
<1>6. PostInv(d)'
  BY <1>f, <1>p, <1>u, <1>g, <1>c1, <1>n DEF Parts, PostInv, Posted, NoSem, Fields
<1>7. CallInv(d)'
  BY <1>f, <1>p, <1>u, <1>g, <1>c1, <1>n DEF Parts, CallInv, Fields
<1>8. QuietInv(d)'
  BY <1>f, <1>p, <1>u, <1>g, <1>c1, <1>n DEF Parts, QuietInv, InUserCode, Fields
<1>9. EventsInv(d)'
  BY <1>f, <1>p, <1>u, <1>g, <1>c1, <1>n, <1>2, NoneIsNobody DEF Parts, EventsInv, Freed,
     Posted, OthersKept, Fields
<1> QED
  BY <1>1, <1>2, <1>3, <1>4, <1>5, <1>6, <1>7, <1>8, <1>9, StepKeeps DEF Parts

\* The destructor unlinks the pipes.
LEMMA DestructorPipesInv ==
    ASSUME Inv, NEW d \in Debuggers,
           DestructorPipes(d)
    PROVE  Inv'
<1>f. Fields(d)
  BY FieldsTyped
<1>p. Parts(d)
  BY DEF Inv
<1>u. UNCHANGED <<overPipes, client, unreg, caller, shim, worker, pe, events, fds, pipes,
                  rt, rtOn, timedOut, calls>>
  BY DEF DestructorPipes, system, debugger, working, piping, runtime, history
<1>g. helper[d].dtor = "pipes"
  BY DEF DestructorPipes
<1>c1. /\ helper'[d].ref = helper[d].ref
       /\ helper'[d].canceled = helper[d].canceled
       /\ helper'[d].error = helper[d].error
       /\ helper'[d].startup = helper[d].startup
       /\ helper'[d].continue = helper[d].continue
       /\ helper'[d].dtor = "yes"
       /\ \A e \in Debuggers : e # d => helper'[e] = helper[e]
       /\ helper' \in [Debuggers -> HelperType]
  BY <1>f, <1>g DEF DestructorPipes, HelperType, Fields
<1>n. /\ names' \in [Objects -> Debuggers \cup {None}]
      /\ names'["startup"] = names["startup"] /\ names'["continue"] = names["continue"]
  BY <1>f, <1>p, <1>g, NoneIsNobody DEF DestructorPipes, Inv, Types, Objects, Fields
<1>1. Types'
  BY <1>c1, <1>n, <1>u DEF Inv, Types
<1>2. OthersKept(d)
  BY <1>f, <1>p, <1>u, <1>g, <1>c1, <1>n, NoneIsNobody DEF OthersKept, Untouched, Freed,
     Posted, NoSem, Fields
<1>3. HelperLives(d)'
  BY <1>f, <1>p, <1>u, <1>g, <1>c1, <1>n DEF Parts, HelperLives, Holders, Fields
<1>4. RegisterInv(d)'
  BY <1>f, <1>p, <1>u, <1>g, <1>c1, <1>n DEF Parts, RegisterInv, NoSem, Fields
<1>5. NameInv(d)'
  BY <1>f, <1>p, <1>u, <1>g, <1>c1, <1>n, NoneIsNobody DEF Parts, NameInv, NoSem, Fields
<1>6. PostInv(d)'
  BY <1>f, <1>p, <1>u, <1>g, <1>c1, <1>n DEF Parts, PostInv, Posted, NoSem, Fields
<1>7. CallInv(d)'
  BY <1>f, <1>p, <1>u, <1>g, <1>c1, <1>n DEF Parts, CallInv, Fields
<1>8. QuietInv(d)'
  BY <1>f, <1>p, <1>u, <1>g, <1>c1, <1>n DEF Parts, QuietInv, InUserCode, Fields
<1>9. EventsInv(d)'
  BY <1>f, <1>p, <1>u, <1>g, <1>c1, <1>n, <1>2, NoneIsNobody DEF Parts, EventsInv, Freed,
     Posted, OthersKept, Fields
<1> QED
  BY <1>1, <1>2, <1>3, <1>4, <1>5, <1>6, <1>7, <1>8, <1>9, StepKeeps DEF Parts

\* The worker starts.
LEMMA WorkerStartsInv ==
    ASSUME Inv, NEW d \in Debuggers,
           WorkerStarts(d)
    PROVE  Inv'
<1>f. Fields(d)
  BY FieldsTyped
<1>p. Parts(d)
  BY DEF Inv
<1>u. UNCHANGED <<overPipes, names, helper, client, unreg, caller, shim, pe, events, fds,
                  pipes, rt, rtOn, timedOut, calls>>
  BY DEF WorkerStarts, WorkerGoes, system, debugger, working, piping, runtime, history
<1>g. worker[d] = "start"
  BY DEF WorkerStarts, WorkerGoes
<1>c1. /\ worker' \in [Debuggers -> WorkerLabels]
       /\ worker'[d] = (IF IsCoreClrProcessReady THEN "testCanceled" ELSE "waitStartup")
       /\ \A e \in Debuggers : e # d => worker'[e] = worker[e]
  BY <1>g DEF Inv, Types, WorkerStarts, WorkerGoes, WorkerLabels
<1>1. Types'
  BY <1>c1, <1>u DEF Inv, Types
<1>2. OthersKept(d)
  BY <1>f, <1>p, <1>u, <1>g, <1>c1, NoneIsNobody DEF OthersKept, Untouched, Freed, Posted,
     NoSem, Fields
<1>3. HelperLives(d)'
  BY <1>f, <1>p, <1>u, <1>g, <1>c1 DEF Parts, HelperLives, Holders, Fields
<1>4. RegisterInv(d)'
  BY <1>f, <1>p, <1>u, <1>g, <1>c1 DEF Parts, RegisterInv, NoSem, Fields
<1>5. NameInv(d)'
  BY <1>f, <1>p, <1>u, <1>g, <1>c1, NoneIsNobody DEF Parts, NameInv, NoSem, Fields
<1>6. PostInv(d)'
  BY <1>f, <1>p, <1>u, <1>g, <1>c1 DEF Parts, PostInv, Posted, NoSem, Fields
<1>7. CallInv(d)'
  BY <1>f, <1>p, <1>u, <1>g, <1>c1 DEF Parts, CallInv, Fields
<1>8. QuietInv(d)'
  BY <1>f, <1>p, <1>u, <1>g, <1>c1 DEF Parts, QuietInv, InUserCode, Fields
<1>9. EventsInv(d)'
  BY <1>f, <1>p, <1>u, <1>g, <1>c1, <1>2, NoneIsNobody DEF Parts, EventsInv, Freed, Posted,
     OthersKept, Fields
<1> QED
  BY <1>1, <1>2, <1>3, <1>4, <1>5, <1>6, <1>7, <1>8, <1>9, StepKeeps DEF Parts

\* The worker is told of a runtime, or of an error.
LEMMA WorkerWakesInv ==
    ASSUME Inv, NEW d \in Debuggers,
           WorkerWakes(d)
    PROVE  Inv'
<1>f. Fields(d)
  BY FieldsTyped
<1>p. Parts(d)
  BY DEF Inv
<1>u. UNCHANGED <<overPipes, names, client, unreg, caller, shim, events, fds, pipes, rt,
                  rtOn, timedOut, calls>>
  BY DEF WorkerWakes, WorkerGoes, system, debugger, working, piping, runtime, history
<1>g. worker[d] = "waitStartup" /\ helper[d].startup > 0
  BY DEF WorkerWakes, WorkerGoes
<1>r. helper[d].startup \in 1..3 /\ helper[d].error \in BOOLEAN
  BY <1>f, <1>g DEF Fields, NoSem
<1>c1. /\ worker' \in [Debuggers -> WorkerLabels]
       /\ worker'[d] = (IF helper[d].error THEN "testError" ELSE "testCanceled")
       /\ \A e \in Debuggers : e # d => worker'[e] = worker[e]
  BY <1>g, <1>r DEF Inv, Types, WorkerWakes, WorkerGoes, WorkerLabels
<1>c2. /\ pe' \in [Debuggers -> BOOLEAN] /\ pe'[d] = helper[d].error
       /\ \A e \in Debuggers : e # d => pe'[e] = pe[e]
  BY <1>g, <1>r DEF Inv, Types, WorkerWakes, WorkerGoes
<1>c3. /\ helper'[d].ref = helper[d].ref
       /\ helper'[d].canceled = helper[d].canceled
       /\ helper'[d].error = helper[d].error
       /\ helper'[d].startup = helper[d].startup - 1
       /\ helper'[d].continue = helper[d].continue
       /\ helper'[d].dtor = helper[d].dtor
       /\ \A e \in Debuggers : e # d => helper'[e] = helper[e]
       /\ helper' \in [Debuggers -> HelperType]
  BY <1>f, <1>g, <1>r DEF WorkerWakes, WorkerGoes, HelperType, Fields
<1>1. Types'
  BY <1>c1, <1>c2, <1>c3, <1>u DEF Inv, Types
<1>2. OthersKept(d)
  BY <1>f, <1>p, <1>u, <1>g, <1>r, <1>c1, <1>c2, <1>c3, NoneIsNobody DEF OthersKept,
     Untouched, Freed, Posted, NoSem, Fields
<1>3. HelperLives(d)'
  BY <1>f, <1>p, <1>u, <1>g, <1>r, <1>c1, <1>c2, <1>c3 DEF Parts, HelperLives, Holders,
     Fields
<1>4. RegisterInv(d)'
  BY <1>f, <1>p, <1>u, <1>g, <1>r, <1>c1, <1>c2, <1>c3 DEF Parts, RegisterInv, NoSem, Fields
<1>5. NameInv(d)'
  BY <1>f, <1>p, <1>u, <1>g, <1>r, <1>c1, <1>c2, <1>c3, NoneIsNobody DEF Parts, NameInv,
     NoSem, Fields
<1>6. PostInv(d)'
  BY <1>f, <1>p, <1>u, <1>g, <1>r, <1>c1, <1>c2, <1>c3 DEF Parts, PostInv, Posted, NoSem,
     Fields
<1>7. CallInv(d)'
  BY <1>f, <1>p, <1>u, <1>g, <1>r, <1>c1, <1>c2, <1>c3 DEF Parts, CallInv, Fields
<1>8. QuietInv(d)'
  BY <1>f, <1>p, <1>u, <1>g, <1>r, <1>c1, <1>c2, <1>c3 DEF Parts, QuietInv, InUserCode, Fields
<1>9. EventsInv(d)'
  BY <1>f, <1>p, <1>u, <1>g, <1>r, <1>c1, <1>c2, <1>c3, <1>2, NoneIsNobody DEF Parts,
     EventsInv, Freed, Posted, OthersKept, Fields
<1> QED
  BY <1>1, <1>2, <1>3, <1>4, <1>5, <1>6, <1>7, <1>8, <1>9, StepKeeps DEF Parts

\* The worker looks at m_canceled.
LEMMA WorkerTestsCanceledInv ==
    ASSUME Inv, NEW d \in Debuggers,
           WorkerTestsCanceled(d)
    PROVE  Inv'
<1>f. Fields(d)
  BY FieldsTyped
<1>p. Parts(d)
  BY DEF Inv
<1>u. UNCHANGED <<overPipes, names, helper, client, unreg, caller, shim, pe, events, fds,
                  pipes, rt, rtOn, timedOut, calls>>
  BY DEF WorkerTestsCanceled, WorkerGoes, system, debugger, working, piping, runtime,
     history
<1>g. worker[d] = "testCanceled"
  BY DEF WorkerTestsCanceled, WorkerGoes
<1>c1. /\ worker' \in [Debuggers -> WorkerLabels]
       /\ worker'[d] = (IF helper[d].canceled THEN "post" ELSE "modules")
       /\ \A e \in Debuggers : e # d => worker'[e] = worker[e]
  BY <1>g DEF Inv, Types, WorkerTestsCanceled, WorkerGoes, WorkerLabels
<1>1. Types'
  BY <1>c1, <1>u DEF Inv, Types
<1>2. OthersKept(d)
  BY <1>f, <1>p, <1>u, <1>g, <1>c1, NoneIsNobody DEF OthersKept, Untouched, Freed, Posted,
     NoSem, Fields
<1>3. HelperLives(d)'
  BY <1>f, <1>p, <1>u, <1>g, <1>c1 DEF Parts, HelperLives, Holders, Fields
<1>4. RegisterInv(d)'
  BY <1>f, <1>p, <1>u, <1>g, <1>c1 DEF Parts, RegisterInv, NoSem, Fields
<1>5. NameInv(d)'
  BY <1>f, <1>p, <1>u, <1>g, <1>c1, NoneIsNobody DEF Parts, NameInv, NoSem, Fields
<1>6. PostInv(d)'
  BY <1>f, <1>p, <1>u, <1>g, <1>c1 DEF Parts, PostInv, Posted, NoSem, Fields
<1>7. CallInv(d)'
  BY <1>f, <1>p, <1>u, <1>g, <1>c1 DEF Parts, CallInv, Fields
<1>8. QuietInv(d)'
  BY <1>f, <1>p, <1>u, <1>g, <1>c1 DEF Parts, QuietInv, InUserCode, Fields
<1>9. EventsInv(d)'
  BY <1>f, <1>p, <1>u, <1>g, <1>c1, <1>2, NoneIsNobody DEF Parts, EventsInv, Freed, Posted,
     OthersKept, Fields
<1> QED
  BY <1>1, <1>2, <1>3, <1>4, <1>5, <1>6, <1>7, <1>8, <1>9, StepKeeps DEF Parts

\* The worker cannot look at the modules.
LEMMA ModulesFailInv ==
    ASSUME Inv, NEW d \in Debuggers,
           worker[d] = "modules", WorkerGoes(d, "post"),
           pe' = [pe EXCEPT ![d] = TRUE],
           UNCHANGED <<overPipes, names, helper, client, unreg, caller, shim, events, fds,
                       pipes, rt, rtOn, timedOut, calls>>
    PROVE  Inv'
<1>f. Fields(d)
  BY FieldsTyped
<1>p. Parts(d)
  BY DEF Inv
<1>u. UNCHANGED <<overPipes, names, helper, client, unreg, caller, shim, events, fds, pipes,
                  rt, rtOn, timedOut, calls>>
  BY DEF WorkerGoes, system, debugger, working, piping, runtime, history
<1>g. worker[d] = "modules"
  BY DEF WorkerGoes
<1>c1. /\ worker' \in [Debuggers -> WorkerLabels] /\ worker'[d] = "post"
       /\ \A e \in Debuggers : e # d => worker'[e] = worker[e]
  BY <1>g DEF Inv, Types, WorkerGoes, WorkerLabels
<1>c2. /\ pe' \in [Debuggers -> BOOLEAN] /\ pe'[d] = TRUE
       /\ \A e \in Debuggers : e # d => pe'[e] = pe[e]
  BY <1>g DEF Inv, Types, WorkerGoes
<1>1. Types'
  BY <1>c1, <1>c2, <1>u DEF Inv, Types
<1>2. OthersKept(d)
  BY <1>f, <1>p, <1>u, <1>g, <1>c1, <1>c2, NoneIsNobody DEF OthersKept, Untouched, Freed,
     Posted, NoSem, Fields
<1>3. HelperLives(d)'
  BY <1>f, <1>p, <1>u, <1>g, <1>c1, <1>c2 DEF Parts, HelperLives, Holders, Fields
<1>4. RegisterInv(d)'
  BY <1>f, <1>p, <1>u, <1>g, <1>c1, <1>c2 DEF Parts, RegisterInv, NoSem, Fields
<1>5. NameInv(d)'
  BY <1>f, <1>p, <1>u, <1>g, <1>c1, <1>c2, NoneIsNobody DEF Parts, NameInv, NoSem, Fields
<1>6. PostInv(d)'
  BY <1>f, <1>p, <1>u, <1>g, <1>c1, <1>c2 DEF Parts, PostInv, Posted, NoSem, Fields
<1>7. CallInv(d)'
  BY <1>f, <1>p, <1>u, <1>g, <1>c1, <1>c2 DEF Parts, CallInv, Fields
<1>8. QuietInv(d)'
  BY <1>f, <1>p, <1>u, <1>g, <1>c1, <1>c2 DEF Parts, QuietInv, InUserCode, Fields
<1>9. EventsInv(d)'
  BY <1>f, <1>p, <1>u, <1>g, <1>c1, <1>c2, <1>2, NoneIsNobody DEF Parts, EventsInv, Freed,
     Posted, OthersKept, Fields
<1> QED
  BY <1>1, <1>2, <1>3, <1>4, <1>5, <1>6, <1>7, <1>8, <1>9, StepKeeps DEF Parts

\* The worker has looked at the modules.
LEMMA ModulesInv ==
    ASSUME Inv, NEW d \in Debuggers,
           NEW l \in {"post", "found", "report"}, worker[d] = "modules", WorkerGoes(d, l),
           UNCHANGED <<overPipes, names, helper, client, unreg, caller, shim, pe, events,
                       fds, pipes, rt, rtOn, timedOut, calls>>
    PROVE  Inv'
<1>f. Fields(d)
  BY FieldsTyped
<1>p. Parts(d)
  BY DEF Inv
<1>u. UNCHANGED <<overPipes, names, helper, client, unreg, caller, shim, pe, events, fds,
                  pipes, rt, rtOn, timedOut, calls>>
  BY DEF WorkerGoes, system, debugger, working, piping, runtime, history
<1>g. worker[d] = "modules" /\ l \in {"post", "found", "report"}
  BY DEF WorkerGoes
<1>c1. /\ worker' \in [Debuggers -> WorkerLabels] /\ worker'[d] = l
       /\ \A e \in Debuggers : e # d => worker'[e] = worker[e]
  BY <1>g DEF Inv, Types, WorkerGoes, WorkerLabels
<1>1. Types'
  BY <1>c1, <1>u DEF Inv, Types
<1>2. OthersKept(d)
  BY <1>f, <1>p, <1>u, <1>g, <1>c1, NoneIsNobody DEF OthersKept, Untouched, Freed, Posted,
     NoSem, Fields
<1>3. HelperLives(d)'
  BY <1>f, <1>p, <1>u, <1>g, <1>c1 DEF Parts, HelperLives, Holders, Fields
<1>4. RegisterInv(d)'
  BY <1>f, <1>p, <1>u, <1>g, <1>c1 DEF Parts, RegisterInv, NoSem, Fields
<1>5. NameInv(d)'
  BY <1>f, <1>p, <1>u, <1>g, <1>c1, NoneIsNobody DEF Parts, NameInv, NoSem, Fields
<1>6. PostInv(d)'
  BY <1>f, <1>p, <1>u, <1>g, <1>c1 DEF Parts, PostInv, Posted, NoSem, Fields
<1>7. CallInv(d)'
  BY <1>f, <1>p, <1>u, <1>g, <1>c1 DEF Parts, CallInv, Fields
<1>8. QuietInv(d)'
  BY <1>f, <1>p, <1>u, <1>g, <1>c1 DEF Parts, QuietInv, InUserCode, Fields
<1>9. EventsInv(d)'
  BY <1>f, <1>p, <1>u, <1>g, <1>c1, <1>2, NoneIsNobody DEF Parts, EventsInv, Freed, Posted,
     OthersKept, Fields
<1> QED
  BY <1>1, <1>2, <1>3, <1>4, <1>5, <1>6, <1>7, <1>8, <1>9, StepKeeps DEF Parts

\* The user is called with a runtime.
LEMMA CallFoundInv ==
    ASSUME Inv, NEW d \in Debuggers,
           CallUser(d, "found", "inCallback")
    PROVE  Inv'
<1>f. Fields(d)
  BY FieldsTyped
<1>p. Parts(d)
  BY DEF Inv
<1>u. UNCHANGED <<overPipes, names, helper, client, unreg, caller, shim, pe, events, fds,
                  pipes, rt, rtOn, timedOut>>
  BY DEF CallUser, WorkerGoes, system, debugger, working, piping, runtime, history
<1>g. worker[d] = "found"
  BY DEF CallUser, WorkerGoes
<1>r. calls[d] = 0
  BY <1>g, <1>p DEF Parts, CallInv
<1>c1. /\ worker' \in [Debuggers -> WorkerLabels] /\ worker'[d] = "inCallback"
       /\ \A e \in Debuggers : e # d => worker'[e] = worker[e]
  BY <1>g, <1>r DEF Inv, Types, CallUser, WorkerGoes, WorkerLabels
<1>c2. /\ calls' \in [Debuggers -> Nat] /\ calls'[d] = calls[d] + 1
       /\ \A e \in Debuggers : e # d => calls'[e] = calls[e]
  BY <1>g, <1>r DEF Inv, Types, CallUser, WorkerGoes
<1>1. Types'
  BY <1>c1, <1>c2, <1>u DEF Inv, Types
<1>2. OthersKept(d)
  BY <1>f, <1>p, <1>u, <1>g, <1>r, <1>c1, <1>c2, NoneIsNobody DEF OthersKept, Untouched,
     Freed, Posted, NoSem, Fields
<1>3. HelperLives(d)'
  BY <1>f, <1>p, <1>u, <1>g, <1>r, <1>c1, <1>c2 DEF Parts, HelperLives, Holders, Fields
<1>4. RegisterInv(d)'
  BY <1>f, <1>p, <1>u, <1>g, <1>r, <1>c1, <1>c2 DEF Parts, RegisterInv, NoSem, Fields
<1>5. NameInv(d)'
  BY <1>f, <1>p, <1>u, <1>g, <1>r, <1>c1, <1>c2, NoneIsNobody DEF Parts, NameInv, NoSem,
     Fields
<1>6. PostInv(d)'
  BY <1>f, <1>p, <1>u, <1>g, <1>r, <1>c1, <1>c2 DEF Parts, PostInv, Posted, NoSem, Fields
<1>7. CallInv(d)'
  BY <1>f, <1>p, <1>u, <1>g, <1>r, <1>c1, <1>c2 DEF Parts, CallInv, Fields
<1>8. QuietInv(d)'
  BY <1>f, <1>p, <1>u, <1>g, <1>r, <1>c1, <1>c2 DEF Parts, QuietInv, InUserCode, Fields
<1>9. EventsInv(d)'
  BY <1>f, <1>p, <1>u, <1>g, <1>r, <1>c1, <1>c2, <1>2, NoneIsNobody DEF Parts, EventsInv,
     Freed, Posted, OthersKept, Fields
<1> QED
  BY <1>1, <1>2, <1>3, <1>4, <1>5, <1>6, <1>7, <1>8, <1>9, StepKeeps DEF Parts

\* The user is called with an error.
LEMMA CallFailedInv ==
    ASSUME Inv, NEW d \in Debuggers,
           CallUser(d, "failed", "inErrorCallback")
    PROVE  Inv'
<1>f. Fields(d)
  BY FieldsTyped
<1>p. Parts(d)
  BY DEF Inv
<1>u. UNCHANGED <<overPipes, names, helper, client, unreg, caller, shim, pe, events, fds,
                  pipes, rt, rtOn, timedOut>>
  BY DEF CallUser, WorkerGoes, system, debugger, working, piping, runtime, history
<1>g. worker[d] = "failed"
  BY DEF CallUser, WorkerGoes
<1>r. calls[d] = 0
  BY <1>g, <1>p DEF Parts, CallInv
<1>c1. /\ worker' \in [Debuggers -> WorkerLabels] /\ worker'[d] = "inErrorCallback"
       /\ \A e \in Debuggers : e # d => worker'[e] = worker[e]
  BY <1>g, <1>r DEF Inv, Types, CallUser, WorkerGoes, WorkerLabels
<1>c2. /\ calls' \in [Debuggers -> Nat] /\ calls'[d] = calls[d] + 1
       /\ \A e \in Debuggers : e # d => calls'[e] = calls[e]
  BY <1>g, <1>r DEF Inv, Types, CallUser, WorkerGoes
<1>1. Types'
  BY <1>c1, <1>c2, <1>u DEF Inv, Types
<1>2. OthersKept(d)
  BY <1>f, <1>p, <1>u, <1>g, <1>r, <1>c1, <1>c2, NoneIsNobody DEF OthersKept, Untouched,
     Freed, Posted, NoSem, Fields
<1>3. HelperLives(d)'
  BY <1>f, <1>p, <1>u, <1>g, <1>r, <1>c1, <1>c2 DEF Parts, HelperLives, Holders, Fields
<1>4. RegisterInv(d)'
  BY <1>f, <1>p, <1>u, <1>g, <1>r, <1>c1, <1>c2 DEF Parts, RegisterInv, NoSem, Fields
<1>5. NameInv(d)'
  BY <1>f, <1>p, <1>u, <1>g, <1>r, <1>c1, <1>c2, NoneIsNobody DEF Parts, NameInv, NoSem,
     Fields
<1>6. PostInv(d)'
  BY <1>f, <1>p, <1>u, <1>g, <1>r, <1>c1, <1>c2 DEF Parts, PostInv, Posted, NoSem, Fields
<1>7. CallInv(d)'
  BY <1>f, <1>p, <1>u, <1>g, <1>r, <1>c1, <1>c2 DEF Parts, CallInv, Fields
<1>8. QuietInv(d)'
  BY <1>f, <1>p, <1>u, <1>g, <1>r, <1>c1, <1>c2 DEF Parts, QuietInv, InUserCode, Fields
<1>9. EventsInv(d)'
  BY <1>f, <1>p, <1>u, <1>g, <1>r, <1>c1, <1>c2, <1>2, NoneIsNobody DEF Parts, EventsInv,
     Freed, Posted, OthersKept, Fields
<1> QED
  BY <1>1, <1>2, <1>3, <1>4, <1>5, <1>6, <1>7, <1>8, <1>9, StepKeeps DEF Parts

\* The user is told that there is no ICorDebug, or that it has thrown.
LEMMA CallReportInv ==
    ASSUME Inv, NEW d \in Debuggers,
           CallUser(d, "report", "inReport")
    PROVE  Inv'
<1>f. Fields(d)
  BY FieldsTyped
<1>p. Parts(d)
  BY DEF Inv
<1>u. UNCHANGED <<overPipes, names, helper, client, unreg, caller, shim, pe, events, fds,
                  pipes, rt, rtOn, timedOut>>
  BY DEF CallUser, WorkerGoes, system, debugger, working, piping, runtime, history
<1>g. worker[d] = "report"
  BY DEF CallUser, WorkerGoes
<1>r. calls[d] = 0
  BY <1>g, <1>p DEF Parts, CallInv
<1>c1. /\ worker' \in [Debuggers -> WorkerLabels] /\ worker'[d] = "inReport"
       /\ \A e \in Debuggers : e # d => worker'[e] = worker[e]
  BY <1>g, <1>r DEF Inv, Types, CallUser, WorkerGoes, WorkerLabels
<1>c2. /\ calls' \in [Debuggers -> Nat] /\ calls'[d] = calls[d] + 1
       /\ \A e \in Debuggers : e # d => calls'[e] = calls[e]
  BY <1>g, <1>r DEF Inv, Types, CallUser, WorkerGoes
<1>1. Types'
  BY <1>c1, <1>c2, <1>u DEF Inv, Types
<1>2. OthersKept(d)
  BY <1>f, <1>p, <1>u, <1>g, <1>r, <1>c1, <1>c2, NoneIsNobody DEF OthersKept, Untouched,
     Freed, Posted, NoSem, Fields
<1>3. HelperLives(d)'
  BY <1>f, <1>p, <1>u, <1>g, <1>r, <1>c1, <1>c2 DEF Parts, HelperLives, Holders, Fields
<1>4. RegisterInv(d)'
  BY <1>f, <1>p, <1>u, <1>g, <1>r, <1>c1, <1>c2 DEF Parts, RegisterInv, NoSem, Fields
<1>5. NameInv(d)'
  BY <1>f, <1>p, <1>u, <1>g, <1>r, <1>c1, <1>c2, NoneIsNobody DEF Parts, NameInv, NoSem,
     Fields
<1>6. PostInv(d)'
  BY <1>f, <1>p, <1>u, <1>g, <1>r, <1>c1, <1>c2 DEF Parts, PostInv, Posted, NoSem, Fields
<1>7. CallInv(d)'
  BY <1>f, <1>p, <1>u, <1>g, <1>r, <1>c1, <1>c2 DEF Parts, CallInv, Fields
<1>8. QuietInv(d)'
  BY <1>f, <1>p, <1>u, <1>g, <1>r, <1>c1, <1>c2 DEF Parts, QuietInv, InUserCode, Fields
<1>9. EventsInv(d)'
  BY <1>f, <1>p, <1>u, <1>g, <1>r, <1>c1, <1>c2, <1>2, NoneIsNobody DEF Parts, EventsInv,
     Freed, Posted, OthersKept, Fields
<1> QED
  BY <1>1, <1>2, <1>3, <1>4, <1>5, <1>6, <1>7, <1>8, <1>9, StepKeeps DEF Parts

\* The callback returns.
LEMMA UserReturnsInv ==
    ASSUME Inv, NEW d \in Debuggers,
           UserReturns(d)
    PROVE  Inv'
<1>f. Fields(d)
  BY FieldsTyped
<1>p. Parts(d)
  BY DEF Inv
<1>u. UNCHANGED <<overPipes, names, helper, client, unreg, caller, shim, pe, events, fds,
                  pipes, rt, rtOn, timedOut, calls>>
  BY DEF UserReturns, WorkerGoes, system, debugger, working, piping, runtime, history
<1>g. /\ worker[d] \in InUserCode
      /\ caller[d] = "worker" => unreg[d] = "done"
  BY DEF UserReturns, UserIsDone, InUserCode, WorkerGoes
<1>c1. /\ worker' \in [Debuggers -> WorkerLabels]
       /\ worker'[d] = (IF worker[d] = "inErrorCallback" THEN "release" ELSE "post")
       /\ \A e \in Debuggers : e # d => worker'[e] = worker[e]
  BY <1>g DEF Inv, Types, UserReturns, InUserCode, WorkerGoes, WorkerLabels
<1>1. Types'
  BY <1>c1, <1>u DEF Inv, Types
<1>2. OthersKept(d)
  BY <1>f, <1>p, <1>u, <1>g, <1>c1, NoneIsNobody DEF InUserCode, OthersKept, Untouched,
     Freed, Posted, NoSem, Fields
<1>3. HelperLives(d)'
  BY <1>f, <1>p, <1>u, <1>g, <1>c1 DEF Parts, InUserCode, HelperLives, Holders, Fields
<1>4. RegisterInv(d)'
  BY <1>f, <1>p, <1>u, <1>g, <1>c1 DEF Parts, InUserCode, RegisterInv, NoSem, Fields
<1>5. NameInv(d)'
  BY <1>f, <1>p, <1>u, <1>g, <1>c1, NoneIsNobody DEF Parts, InUserCode, NameInv, NoSem, Fields
<1>6. PostInv(d)'
  BY <1>f, <1>p, <1>u, <1>g, <1>c1 DEF Parts, InUserCode, PostInv, Posted, NoSem, Fields
<1>7. CallInv(d)'
  BY <1>f, <1>p, <1>u, <1>g, <1>c1 DEF Parts, InUserCode, CallInv, Fields
<1>8. QuietInv(d)'
  BY <1>f, <1>p, <1>u, <1>g, <1>c1 DEF Parts, QuietInv, InUserCode, Fields
<1>9. EventsInv(d)'
  BY <1>f, <1>p, <1>u, <1>g, <1>c1, <1>2, NoneIsNobody DEF Parts, InUserCode, EventsInv,
     Freed, Posted, OthersKept, Fields
<1> QED
  BY <1>1, <1>2, <1>3, <1>4, <1>5, <1>6, <1>7, <1>8, <1>9, StepKeeps DEF Parts

\* The first call throws.
LEMMA FirstThrowsInv ==
    ASSUME Inv, NEW d \in Debuggers,
           worker[d] = "inCallback", WorkerGoes(d, "report"), UserIsDone(d),
           calls' = [calls EXCEPT ![d] = @ - 1],
           UNCHANGED <<overPipes, names, helper, client, unreg, caller, shim, pe, events,
                       fds, pipes, rt, rtOn, timedOut>>
    PROVE  Inv'
<1>f. Fields(d)
  BY FieldsTyped
<1>p. Parts(d)
  BY DEF Inv
<1>u. UNCHANGED <<overPipes, names, helper, client, unreg, caller, shim, pe, events, fds,
                  pipes, rt, rtOn, timedOut>>
  BY DEF WorkerGoes
<1>g. worker[d] = "inCallback" /\ (caller[d] = "worker" => unreg[d] = "done")
  BY DEF UserIsDone
<1>r. calls[d] = 1
  BY <1>g, <1>p DEF Parts, CallInv
<1>c1. /\ worker' \in [Debuggers -> WorkerLabels] /\ worker'[d] = "report"
       /\ \A e \in Debuggers : e # d => worker'[e] = worker[e]
  BY <1>g, <1>r DEF Inv, Types, WorkerGoes, WorkerLabels
<1>c2. /\ calls' \in [Debuggers -> Nat] /\ calls'[d] = 0
       /\ \A e \in Debuggers : e # d => calls'[e] = calls[e]
  BY <1>g, <1>r DEF Inv, Types, WorkerGoes
<1>1. Types'
  BY <1>c1, <1>c2, <1>u DEF Inv, Types
<1>2. OthersKept(d)
  BY <1>f, <1>p, <1>u, <1>g, <1>r, <1>c1, <1>c2, NoneIsNobody DEF OthersKept, Untouched,
     Freed, Posted, NoSem, Fields
<1>3. HelperLives(d)'
  BY <1>f, <1>p, <1>u, <1>g, <1>r, <1>c1, <1>c2 DEF Parts, HelperLives, Holders, Fields
<1>4. RegisterInv(d)'
  BY <1>f, <1>p, <1>u, <1>g, <1>r, <1>c1, <1>c2 DEF Parts, RegisterInv, NoSem, Fields
<1>5. NameInv(d)'
  BY <1>f, <1>p, <1>u, <1>g, <1>r, <1>c1, <1>c2, NoneIsNobody DEF Parts, NameInv, NoSem,
     Fields
<1>6. PostInv(d)'
  BY <1>f, <1>p, <1>u, <1>g, <1>r, <1>c1, <1>c2 DEF Parts, PostInv, Posted, NoSem, Fields
<1>7. CallInv(d)'
  BY <1>f, <1>p, <1>u, <1>g, <1>r, <1>c1, <1>c2 DEF Parts, CallInv, Fields
<1>8. QuietInv(d)'
  BY <1>f, <1>p, <1>u, <1>g, <1>r, <1>c1, <1>c2 DEF Parts, QuietInv, InUserCode, Fields
<1>9. EventsInv(d)'
  BY <1>f, <1>p, <1>u, <1>g, <1>r, <1>c1, <1>c2, <1>2, NoneIsNobody DEF Parts, EventsInv,
     Freed, Posted, OthersKept, Fields
<1> QED
  BY <1>1, <1>2, <1>3, <1>4, <1>5, <1>6, <1>7, <1>8, <1>9, StepKeeps DEF Parts

\* The call that reports the error throws.
LEMMA ReportThrowsInv ==
    ASSUME Inv, NEW d \in Debuggers,
           worker[d] = "inReport", WorkerGoes(d, "post"), UserIsDone(d),
           pe' = [pe EXCEPT ![d] = TRUE],
           calls' = [calls EXCEPT ![d] = @ - 1],
           UNCHANGED <<overPipes, names, helper, client, unreg, caller, shim, events,
                       fds, pipes, rt, rtOn, timedOut>>
    PROVE  Inv'
<1>f. Fields(d)
  BY FieldsTyped
<1>p. Parts(d)
  BY DEF Inv
<1>u. UNCHANGED <<overPipes, names, helper, client, unreg, caller, shim, events, fds,
                  pipes, rt, rtOn, timedOut>>
  BY DEF WorkerGoes
<1>g. worker[d] = "inReport" /\ (caller[d] = "worker" => unreg[d] = "done")
  BY DEF UserIsDone
<1>r. calls[d] = 1
  BY <1>g, <1>p DEF Parts, CallInv
<1>c1. /\ worker' \in [Debuggers -> WorkerLabels] /\ worker'[d] = "post"
       /\ \A e \in Debuggers : e # d => worker'[e] = worker[e]
  BY <1>g, <1>r DEF Inv, Types, WorkerGoes, WorkerLabels
<1>c2. /\ calls' \in [Debuggers -> Nat] /\ calls'[d] = 0
       /\ \A e \in Debuggers : e # d => calls'[e] = calls[e]
  BY <1>g, <1>r DEF Inv, Types, WorkerGoes
<1>c3. /\ pe' \in [Debuggers -> BOOLEAN] /\ pe'[d] = TRUE
       /\ \A e \in Debuggers : e # d => pe'[e] = pe[e]
  BY <1>g DEF Inv, Types
<1>1. Types'
  BY <1>c1, <1>c2, <1>c3, <1>u DEF Inv, Types
<1>2. OthersKept(d)
  BY <1>f, <1>p, <1>u, <1>g, <1>r, <1>c1, <1>c2, <1>c3, NoneIsNobody DEF OthersKept, Untouched,
     Freed, Posted, NoSem, Fields
<1>3. HelperLives(d)'
  BY <1>f, <1>p, <1>u, <1>g, <1>r, <1>c1, <1>c2, <1>c3 DEF Parts, HelperLives, Holders, Fields
<1>4. RegisterInv(d)'
  BY <1>f, <1>p, <1>u, <1>g, <1>r, <1>c1, <1>c2, <1>c3 DEF Parts, RegisterInv, NoSem, Fields
<1>5. NameInv(d)'
  BY <1>f, <1>p, <1>u, <1>g, <1>r, <1>c1, <1>c2, <1>c3, NoneIsNobody DEF Parts, NameInv, NoSem,
     Fields
<1>6. PostInv(d)'
  BY <1>f, <1>p, <1>u, <1>g, <1>r, <1>c1, <1>c2, <1>c3 DEF Parts, PostInv, Posted, NoSem, Fields
<1>7. CallInv(d)'
  BY <1>f, <1>p, <1>u, <1>g, <1>r, <1>c1, <1>c2, <1>c3 DEF Parts, CallInv, Fields
<1>8. QuietInv(d)'
  BY <1>f, <1>p, <1>u, <1>g, <1>r, <1>c1, <1>c2, <1>c3 DEF Parts, QuietInv, InUserCode, Fields
<1>9. EventsInv(d)'
  BY <1>f, <1>p, <1>u, <1>g, <1>r, <1>c1, <1>c2, <1>c3, <1>2, NoneIsNobody DEF Parts, EventsInv,
     Freed, Posted, OthersKept, Fields
<1> QED
  BY <1>1, <1>2, <1>3, <1>4, <1>5, <1>6, <1>7, <1>8, <1>9, StepKeeps DEF Parts

\* The worker lets the runtime go on.
LEMMA WorkerPostsInv ==
    ASSUME Inv, NEW d \in Debuggers,
           WorkerPosts(d)
    PROVE  Inv'
<1>f. Fields(d)
  BY FieldsTyped
<1>p. Parts(d)
  BY DEF Inv
<1>u. UNCHANGED <<overPipes, names, client, unreg, caller, shim, pe, events, fds, pipes, rt,
                  rtOn, timedOut, calls>>
  BY DEF WorkerPosts, WorkerGoes, system, debugger, working, piping, runtime, history
<1>g. worker[d] = "post"
  BY DEF WorkerPosts, WorkerGoes
<1>r. /\ helper[d].continue \in 0..1
  BY <1>f, <1>g, <1>p DEF Fields, Parts, RegisterInv, PostInv, Posted, NoSem
<1>c1. /\ worker' \in [Debuggers -> WorkerLabels] /\ worker'[d] = "testError"
       /\ \A e \in Debuggers : e # d => worker'[e] = worker[e]
  BY <1>g, <1>r DEF Inv, Types, WorkerPosts, WorkerGoes, WorkerLabels
<1>c2. /\ helper'[d].ref = helper[d].ref
       /\ helper'[d].canceled = helper[d].canceled
       /\ helper'[d].error = helper[d].error
       /\ helper'[d].startup = helper[d].startup
       /\ helper'[d].continue = helper[d].continue + 1
       /\ helper'[d].dtor = helper[d].dtor
       /\ \A e \in Debuggers : e # d => helper'[e] = helper[e]
       /\ helper' \in [Debuggers -> HelperType]
  BY <1>f, <1>g, <1>r, PostContinueEffect DEF WorkerPosts, WorkerGoes, Fields
<1>1. Types'
  BY <1>c1, <1>c2, <1>u DEF Inv, Types
<1>2. OthersKept(d)
  BY <1>f, <1>p, <1>u, <1>g, <1>r, <1>c1, <1>c2, NoneIsNobody DEF OthersKept, Untouched,
     Freed, Posted, NoSem, Fields
<1>3. HelperLives(d)'
  BY <1>f, <1>p, <1>u, <1>g, <1>r, <1>c1, <1>c2 DEF Parts, HelperLives, Holders, Fields
<1>4. RegisterInv(d)'
  BY <1>f, <1>p, <1>u, <1>g, <1>r, <1>c1, <1>c2 DEF Parts, RegisterInv, NoSem, Fields
<1>5. NameInv(d)'
  BY <1>f, <1>p, <1>u, <1>g, <1>r, <1>c1, <1>c2, NoneIsNobody DEF Parts, NameInv, NoSem,
     Fields
<1>6. PostInv(d)'
  BY <1>f, <1>p, <1>u, <1>g, <1>r, <1>c1, <1>c2 DEF Parts, PostInv, Posted, NoSem, Fields
<1>7. CallInv(d)'
  BY <1>f, <1>p, <1>u, <1>g, <1>r, <1>c1, <1>c2 DEF Parts, CallInv, Fields
<1>8. QuietInv(d)'
  BY <1>f, <1>p, <1>u, <1>g, <1>r, <1>c1, <1>c2 DEF Parts, QuietInv, InUserCode, Fields
<1>9. EventsInv(d)'
  BY <1>f, <1>p, <1>u, <1>g, <1>r, <1>c1, <1>c2, <1>2, NoneIsNobody DEF Parts, EventsInv,
     Freed, Posted, OthersKept, Fields
<1> QED
  BY <1>1, <1>2, <1>3, <1>4, <1>5, <1>6, <1>7, <1>8, <1>9, StepKeeps DEF Parts

\* The worker looks for an error.
LEMMA WorkerTestsErrorInv ==
    ASSUME Inv, NEW d \in Debuggers,
           WorkerTestsError(d)
    PROVE  Inv'
<1>f. Fields(d)
  BY FieldsTyped
<1>p. Parts(d)
  BY DEF Inv
<1>u. UNCHANGED <<overPipes, names, helper, client, unreg, caller, shim, pe, events, fds,
                  pipes, rt, rtOn, timedOut, calls>>
  BY DEF WorkerTestsError, WorkerGoes, system, debugger, working, piping, runtime, history
<1>g. worker[d] = "testError"
  BY DEF WorkerTestsError, WorkerGoes
<1>r. calls[d] \in Nat
  BY DEF Inv, Types
<1>c1. /\ worker' \in [Debuggers -> WorkerLabels]
       /\ worker'[d] = (IF pe[d] /\ ~helper[d].canceled THEN "failed" ELSE "release")
       /\ \A e \in Debuggers : e # d => worker'[e] = worker[e]
  BY <1>g, <1>r DEF Inv, Types, WorkerTestsError, WorkerGoes, WorkerLabels
<1>1. Types'
  BY <1>c1, <1>u DEF Inv, Types
<1>2. OthersKept(d)
  BY <1>f, <1>p, <1>u, <1>g, <1>r, <1>c1, NoneIsNobody DEF OthersKept, Untouched, Freed,
     Posted, NoSem, Fields
<1>3. HelperLives(d)'
  BY <1>f, <1>p, <1>u, <1>g, <1>r, <1>c1 DEF Parts, HelperLives, Holders, Fields
<1>4. RegisterInv(d)'
  BY <1>f, <1>p, <1>u, <1>g, <1>r, <1>c1 DEF Parts, RegisterInv, NoSem, Fields
<1>5. NameInv(d)'
  BY <1>f, <1>p, <1>u, <1>g, <1>r, <1>c1, NoneIsNobody DEF Parts, NameInv, NoSem, Fields
<1>6. PostInv(d)'
  BY <1>f, <1>p, <1>u, <1>g, <1>r, <1>c1 DEF Parts, PostInv, Posted, NoSem, Fields
<1>7. CallInv(d)'
  BY <1>f, <1>p, <1>u, <1>g, <1>r, <1>c1 DEF Parts, CallInv, Fields
<1>8. QuietInv(d)'
  BY <1>f, <1>p, <1>u, <1>g, <1>r, <1>c1 DEF Parts, QuietInv, InUserCode, RegisterInv, Fields
<1>9. EventsInv(d)'
  BY <1>f, <1>p, <1>u, <1>g, <1>r, <1>c1, <1>2, NoneIsNobody DEF Parts, EventsInv, Freed,
     Posted, OthersKept, Fields
<1> QED
  BY <1>1, <1>2, <1>3, <1>4, <1>5, <1>6, <1>7, <1>8, <1>9, StepKeeps DEF Parts

\* The worker ends.
LEMMA WorkerEndsInv ==
    ASSUME Inv, NEW d \in Debuggers,
           WorkerEnds(d)
    PROVE  Inv'
<1>f. Fields(d)
  BY FieldsTyped
<1>p. Parts(d)
  BY DEF Inv
<1>u. UNCHANGED <<overPipes, names, client, unreg, caller, shim, pe, events, fds, pipes, rt,
                  rtOn, timedOut, calls>>
  BY DEF WorkerEnds, WorkerGoes, system, debugger, working, piping, runtime, history
<1>g. worker[d] = "release"
  BY DEF WorkerEnds, WorkerGoes
<1>r. helper[d].ref >= 1 /\ helper[d].dtor = "no"
  BY <1>f, <1>g, <1>p DEF Fields, Parts, HelperLives, Holders, RegisterInv
<1>c1. /\ worker' \in [Debuggers -> WorkerLabels] /\ worker'[d] = "ended"
       /\ \A e \in Debuggers : e # d => worker'[e] = worker[e]
  BY <1>g, <1>r DEF Inv, Types, WorkerEnds, WorkerGoes, WorkerLabels
<1>c2. /\ helper'[d].ref = helper[d].ref - 1
       /\ helper'[d].canceled = helper[d].canceled
       /\ helper'[d].error = helper[d].error
       /\ helper'[d].startup = helper[d].startup
       /\ helper'[d].continue = helper[d].continue
       /\ helper'[d].dtor = (IF helper[d].ref = 1 THEN "startup" ELSE helper[d].dtor)
       /\ \A e \in Debuggers : e # d => helper'[e] = helper[e]
       /\ helper' \in [Debuggers -> HelperType]
  BY <1>f, <1>g, <1>r, ReleaseEffect DEF WorkerEnds, WorkerGoes, Fields
<1>1. Types'
  BY <1>c1, <1>c2, <1>u DEF Inv, Types
<1>2. OthersKept(d)
  BY <1>f, <1>p, <1>u, <1>g, <1>r, <1>c1, <1>c2, NoneIsNobody DEF OthersKept, Untouched,
     Freed, Posted, NoSem, Fields
<1>3. HelperLives(d)'
  BY <1>f, <1>p, <1>u, <1>g, <1>r, <1>c1, <1>c2 DEF Parts, HelperLives, Holders,
     RegisterInv, Fields
<1>4. RegisterInv(d)'
  BY <1>f, <1>p, <1>u, <1>g, <1>r, <1>c1, <1>c2 DEF Parts, RegisterInv, NoSem, Fields
<1>5. NameInv(d)'
  BY <1>f, <1>p, <1>u, <1>g, <1>r, <1>c1, <1>c2, NoneIsNobody DEF Parts, NameInv, NoSem,
     Fields
<1>6. PostInv(d)'
  BY <1>f, <1>p, <1>u, <1>g, <1>r, <1>c1, <1>c2 DEF Parts, PostInv, Posted, NoSem, Fields
<1>7. CallInv(d)'
  BY <1>f, <1>p, <1>u, <1>g, <1>r, <1>c1, <1>c2 DEF Parts, CallInv, Fields
<1>8. QuietInv(d)'
  BY <1>f, <1>p, <1>u, <1>g, <1>r, <1>c1, <1>c2 DEF Parts, QuietInv, InUserCode, Fields
<1>9. EventsInv(d)'
  BY <1>f, <1>p, <1>u, <1>g, <1>r, <1>c1, <1>c2, <1>2, NoneIsNobody DEF Parts, EventsInv,
     Freed, Posted, OthersKept, Fields
<1> QED
  BY <1>1, <1>2, <1>3, <1>4, <1>5, <1>6, <1>7, <1>8, <1>9, StepKeeps DEF Parts

\* The events thread cannot open a pipe.
LEMMA EventsGiveUpInv ==
    ASSUME Inv, NEW d \in Debuggers,
           events[d] \in {"openContinue", "openStartup"}, EventsGo(d, "close"),
           UNCHANGED <<overPipes, names, helper, client, unreg, caller, shim, worker, pe,
                       fds, pipes, rt, rtOn, timedOut, calls>>
    PROVE  Inv'
<1>f. Fields(d)
  BY FieldsTyped
<1>p. Parts(d)
  BY DEF Inv
<1>u. UNCHANGED <<overPipes, names, helper, client, unreg, caller, shim, worker, pe, fds,
                  pipes, rt, rtOn, timedOut, calls>>
  BY DEF EventsGo, system, debugger, working, piping, runtime, history
<1>g. events[d] \in {"openContinue", "openStartup"}
  BY DEF EventsGo
<1>c1. /\ events' \in [Debuggers -> EventsLabels] /\ events'[d] = "close"
       /\ \A e \in Debuggers : e # d => events'[e] = events[e]
  BY <1>g DEF Inv, Types, EventsGo, EventsLabels
<1>1. Types'
  BY <1>c1, <1>u DEF Inv, Types
<1>2. OthersKept(d)
  BY <1>f, <1>p, <1>u, <1>g, <1>c1, NoneIsNobody DEF OthersKept, Untouched, Freed, Posted,
     NoSem, Fields
<1>3. HelperLives(d)'
  BY <1>f, <1>p, <1>u, <1>g, <1>c1 DEF Parts, HelperLives, Holders, Fields
<1>4. RegisterInv(d)'
  BY <1>f, <1>p, <1>u, <1>g, <1>c1 DEF Parts, RegisterInv, NoSem, Fields
<1>5. NameInv(d)'
  BY <1>f, <1>p, <1>u, <1>g, <1>c1, NoneIsNobody DEF Parts, NameInv, NoSem, Fields
<1>6. PostInv(d)'
  BY <1>f, <1>p, <1>u, <1>g, <1>c1 DEF Parts, PostInv, Posted, NoSem, Fields
<1>7. CallInv(d)'
  BY <1>f, <1>p, <1>u, <1>g, <1>c1 DEF Parts, CallInv, Fields
<1>8. QuietInv(d)'
  BY <1>f, <1>p, <1>u, <1>g, <1>c1 DEF Parts, QuietInv, InUserCode, Fields
<1>9. EventsInv(d)'
  BY <1>f, <1>p, <1>u, <1>g, <1>c1, <1>2, NoneIsNobody DEF Parts, EventsInv, Freed, Posted,
     OthersKept, Fields
<1> QED
  BY <1>1, <1>2, <1>3, <1>4, <1>5, <1>6, <1>7, <1>8, <1>9, StepKeeps DEF Parts

\* The events thread opens the continue pipe.
LEMMA OpenContinueInv ==
    ASSUME Inv, NEW d \in Debuggers,
           events[d] = "openContinue", names["continuePipe"] # None,
           fds' = [fds EXCEPT ![d]["continuePipe"] = names["continuePipe"]],
           EventsGo(d, "openStartup"),
           UNCHANGED <<overPipes, names, helper, client, unreg, caller, shim, worker, pe,
                       pipes, rt, rtOn, timedOut, calls>>
    PROVE  Inv'
<1>f. Fields(d)
  BY FieldsTyped
<1>p. Parts(d)
  BY DEF Inv
<1>u. UNCHANGED <<overPipes, names, helper, client, unreg, caller, shim, worker, pe, pipes,
                  rt, rtOn, timedOut, calls>>
  BY DEF EventsGo, system, debugger, working, piping, runtime, history
<1>g. events[d] = "openContinue"
  BY DEF EventsGo
<1>r. names["continuePipe"] \in Debuggers
  BY DEF Inv, Types, Objects
<1>c1. /\ events' \in [Debuggers -> EventsLabels] /\ events'[d] = "openStartup"
       /\ \A e \in Debuggers : e # d => events'[e] = events[e]
  BY <1>g, <1>r DEF Inv, Types, EventsGo, EventsLabels
<1>c2. /\ fds' \in [Debuggers -> FdsType]
       /\ fds'[d].startupPipe = fds[d].startupPipe
       /\ fds'[d].continuePipe = names["continuePipe"]
       /\ \A e \in Debuggers : e # d => fds'[e] = fds[e]
  BY <1>g, <1>r DEF Inv, Types, EventsGo, FdsType
<1>1. Types'
  BY <1>c1, <1>c2, <1>u DEF Inv, Types
<1>2. OthersKept(d)
  BY <1>f, <1>p, <1>u, <1>g, <1>r, <1>c1, <1>c2, NoneIsNobody DEF OthersKept, Untouched,
     Freed, Posted, NoSem, Fields
<1>3. HelperLives(d)'
  BY <1>f, <1>p, <1>u, <1>g, <1>r, <1>c1, <1>c2 DEF Parts, HelperLives, Holders, Fields
<1>4. RegisterInv(d)'
  BY <1>f, <1>p, <1>u, <1>g, <1>r, <1>c1, <1>c2 DEF Parts, RegisterInv, NoSem, Fields
<1>5. NameInv(d)'
  BY <1>f, <1>p, <1>u, <1>g, <1>r, <1>c1, <1>c2, NoneIsNobody DEF Parts, NameInv, NoSem,
     Fields
<1>6. PostInv(d)'
  BY <1>f, <1>p, <1>u, <1>g, <1>r, <1>c1, <1>c2 DEF Parts, PostInv, Posted, NoSem, Fields
<1>7. CallInv(d)'
  BY <1>f, <1>p, <1>u, <1>g, <1>r, <1>c1, <1>c2 DEF Parts, CallInv, Fields
<1>8. QuietInv(d)'
  BY <1>f, <1>p, <1>u, <1>g, <1>r, <1>c1, <1>c2 DEF Parts, QuietInv, InUserCode, Fields
<1>9. EventsInv(d)'
  BY <1>f, <1>p, <1>u, <1>g, <1>r, <1>c1, <1>c2, <1>2, NoneIsNobody DEF Parts, EventsInv,
     Freed, Posted, OthersKept, Fields
<1> QED
  BY <1>1, <1>2, <1>3, <1>4, <1>5, <1>6, <1>7, <1>8, <1>9, StepKeeps DEF Parts

\* The events thread opens the startup pipe.
LEMMA OpenStartupInv ==
    ASSUME Inv, NEW d \in Debuggers,
           events[d] = "openStartup", names["startupPipe"] # None,
           fds' = [fds EXCEPT ![d]["startupPipe"] = names["startupPipe"]],
           EventsGo(d, "read"),
           UNCHANGED <<overPipes, names, helper, client, unreg, caller, shim, worker, pe,
                       pipes, rt, rtOn, timedOut, calls>>
    PROVE  Inv'
<1>f. Fields(d)
  BY FieldsTyped
<1>p. Parts(d)
  BY DEF Inv
<1>u. UNCHANGED <<overPipes, names, helper, client, unreg, caller, shim, worker, pe, pipes,
                  rt, rtOn, timedOut, calls>>
  BY DEF EventsGo, system, debugger, working, piping, runtime, history
<1>g. events[d] = "openStartup"
  BY DEF EventsGo
<1>r. names["startupPipe"] \in Debuggers
  BY DEF Inv, Types, Objects
<1>c1. /\ events' \in [Debuggers -> EventsLabels] /\ events'[d] = "read"
       /\ \A e \in Debuggers : e # d => events'[e] = events[e]
  BY <1>g, <1>r DEF Inv, Types, EventsGo, EventsLabels
<1>c2. /\ fds' \in [Debuggers -> FdsType]
       /\ fds'[d].startupPipe = names["startupPipe"]
       /\ fds'[d].continuePipe = fds[d].continuePipe
       /\ \A e \in Debuggers : e # d => fds'[e] = fds[e]
  BY <1>g, <1>r DEF Inv, Types, EventsGo, FdsType
<1>1. Types'
  BY <1>c1, <1>c2, <1>u DEF Inv, Types
<1>2. OthersKept(d)
  BY <1>f, <1>p, <1>u, <1>g, <1>r, <1>c1, <1>c2, NoneIsNobody DEF OthersKept, Untouched,
     Freed, Posted, NoSem, Fields
<1>3. HelperLives(d)'
  BY <1>f, <1>p, <1>u, <1>g, <1>r, <1>c1, <1>c2 DEF Parts, HelperLives, Holders, Fields
<1>4. RegisterInv(d)'
  BY <1>f, <1>p, <1>u, <1>g, <1>r, <1>c1, <1>c2 DEF Parts, RegisterInv, NoSem, Fields
<1>5. NameInv(d)'
  BY <1>f, <1>p, <1>u, <1>g, <1>r, <1>c1, <1>c2, NoneIsNobody DEF Parts, NameInv, NoSem,
     Fields
<1>6. PostInv(d)'
  BY <1>f, <1>p, <1>u, <1>g, <1>r, <1>c1, <1>c2 DEF Parts, PostInv, Posted, NoSem, Fields
<1>7. CallInv(d)'
  BY <1>f, <1>p, <1>u, <1>g, <1>r, <1>c1, <1>c2 DEF Parts, CallInv, Fields
<1>8. QuietInv(d)'
  BY <1>f, <1>p, <1>u, <1>g, <1>r, <1>c1, <1>c2 DEF Parts, QuietInv, InUserCode, Fields
<1>9. EventsInv(d)'
  BY <1>f, <1>p, <1>u, <1>g, <1>r, <1>c1, <1>c2, <1>2, NoneIsNobody DEF Parts, EventsInv,
     Freed, Posted, OthersKept, Fields
<1> QED
  BY <1>1, <1>2, <1>3, <1>4, <1>5, <1>6, <1>7, <1>8, <1>9, StepKeeps DEF Parts

\* The events thread reads the startup event.
LEMMA EventsReadInv ==
    ASSUME Inv, NEW d \in Debuggers,
           events[d] = "read", EventsGo(d, "postStartup"),
           pipes' = [pipes EXCEPT ![fds[d].startupPipe].started = FALSE],
           UNCHANGED <<overPipes, names, helper, client, unreg, caller, shim, worker, pe,
                       fds, rt, rtOn, timedOut, calls>>
    PROVE  Inv'
<1>f. Fields(d)
  BY FieldsTyped
<1>p. Parts(d)
  BY DEF Inv
<1>u. UNCHANGED <<overPipes, names, helper, client, unreg, caller, shim, worker, pe, fds,
                  rt, rtOn, timedOut, calls>>
  BY DEF EventsGo, system, debugger, working, piping, runtime, history
<1>g. events[d] = "read"
  BY DEF EventsGo
<1>r. fds[d].startupPipe \in Debuggers
  BY <1>g, <1>p DEF Parts, EventsInv
<1>c1. /\ events' \in [Debuggers -> EventsLabels] /\ events'[d] = "postStartup"
       /\ \A e \in Debuggers : e # d => events'[e] = events[e]
  BY <1>g, <1>r DEF Inv, Types, EventsGo, EventsLabels
<1>q. /\ pipes' \in [Debuggers -> PipeType]
      /\ \A p \in Debuggers : pipes'[p].continue = pipes[p].continue
  <2>1. pipes \in [Debuggers -> PipeType]
    BY DEF Inv, Types
  <2>2. pipes' \in [Debuggers -> PipeType]
    BY <1>r, <2>1 DEF PipeType, EventsGo
  <2> QED
    BY <1>r, <2>1, <2>2 DEF PipeType, EventsGo
<1>1. Types'
  BY <1>c1, <1>q, <1>u DEF Inv, Types
<1>2. OthersKept(d)
  BY <1>f, <1>p, <1>u, <1>g, <1>r, <1>c1, <1>q, NoneIsNobody DEF OthersKept, Untouched,
     Freed, Posted, NoSem, Fields
<1>3. HelperLives(d)'
  BY <1>f, <1>p, <1>u, <1>g, <1>r, <1>c1, <1>q DEF Parts, HelperLives, Holders, Fields
<1>4. RegisterInv(d)'
  BY <1>f, <1>p, <1>u, <1>g, <1>r, <1>c1, <1>q DEF Parts, RegisterInv, NoSem, Fields
<1>5. NameInv(d)'
  BY <1>f, <1>p, <1>u, <1>g, <1>r, <1>c1, <1>q, NoneIsNobody DEF Parts, NameInv, NoSem,
     Fields
<1>6. PostInv(d)'
  BY <1>f, <1>p, <1>u, <1>g, <1>r, <1>c1, <1>q DEF Parts, PostInv, Posted, NoSem, Fields
<1>7. CallInv(d)'
  BY <1>f, <1>p, <1>u, <1>g, <1>r, <1>c1, <1>q DEF Parts, CallInv, Fields
<1>8. QuietInv(d)'
  BY <1>f, <1>p, <1>u, <1>g, <1>r, <1>c1, <1>q DEF Parts, QuietInv, InUserCode, Fields
<1>9. EventsInv(d)'
  BY <1>f, <1>p, <1>u, <1>g, <1>r, <1>c1, <1>q, <1>2, NoneIsNobody DEF Parts, EventsInv,
     Freed, Posted, OthersKept, Fields
<1> QED
  BY <1>1, <1>2, <1>3, <1>4, <1>5, <1>6, <1>7, <1>8, <1>9, StepKeeps DEF Parts

\* The events thread stops reading: Unregister was called.
LEMMA ReadCanceledInv ==
    ASSUME Inv, NEW d \in Debuggers,
           events[d] = "read", EventsGo(d, "postStartup"),
           UNCHANGED <<overPipes, names, helper, client, unreg, caller, shim, worker, pe,
                       fds, pipes, rt, rtOn, timedOut, calls>>
    PROVE  Inv'
<1>f. Fields(d)
  BY FieldsTyped
<1>p. Parts(d)
  BY DEF Inv
<1>u. UNCHANGED <<overPipes, names, helper, client, unreg, caller, shim, worker, pe, fds,
                  pipes, rt, rtOn, timedOut, calls>>
  BY DEF EventsGo, system, debugger, working, piping, runtime, history
<1>g. events[d] = "read"
  BY DEF EventsGo
<1>c1. /\ events' \in [Debuggers -> EventsLabels] /\ events'[d] = "postStartup"
       /\ \A e \in Debuggers : e # d => events'[e] = events[e]
  BY <1>g DEF Inv, Types, EventsGo, EventsLabels
<1>1. Types'
  BY <1>c1, <1>u DEF Inv, Types
<1>2. OthersKept(d)
  BY <1>f, <1>p, <1>u, <1>g, <1>c1, NoneIsNobody DEF OthersKept, Untouched, Freed, Posted,
     NoSem, Fields
<1>3. HelperLives(d)'
  BY <1>f, <1>p, <1>u, <1>g, <1>c1 DEF Parts, HelperLives, Holders, Fields
<1>4. RegisterInv(d)'
  BY <1>f, <1>p, <1>u, <1>g, <1>c1 DEF Parts, RegisterInv, NoSem, Fields
<1>5. NameInv(d)'
  BY <1>f, <1>p, <1>u, <1>g, <1>c1, NoneIsNobody DEF Parts, NameInv, NoSem, Fields
<1>6. PostInv(d)'
  BY <1>f, <1>p, <1>u, <1>g, <1>c1 DEF Parts, PostInv, Posted, NoSem, Fields
<1>7. CallInv(d)'
  BY <1>f, <1>p, <1>u, <1>g, <1>c1 DEF Parts, CallInv, Fields
<1>8. QuietInv(d)'
  BY <1>f, <1>p, <1>u, <1>g, <1>c1 DEF Parts, QuietInv, InUserCode, Fields
<1>9. EventsInv(d)'
  BY <1>f, <1>p, <1>u, <1>g, <1>c1, <1>2, NoneIsNobody DEF Parts, EventsInv, Freed, Posted,
     OthersKept, Fields
<1> QED
  BY <1>1, <1>2, <1>3, <1>4, <1>5, <1>6, <1>7, <1>8, <1>9, StepKeeps DEF Parts

\* The events thread cannot read the startup event.
LEMMA ReadFailsInv ==
    ASSUME Inv, NEW d \in Debuggers,
           events[d] = "read", EventsGo(d, "postStartup"),
           helper' = [helper EXCEPT ![d].error = TRUE],
           UNCHANGED <<overPipes, names, client, unreg, caller, shim, worker, pe, fds,
                       pipes, rt, rtOn, timedOut, calls>>
    PROVE  Inv'
<1>f. Fields(d)
  BY FieldsTyped
<1>p. Parts(d)
  BY DEF Inv
<1>u. UNCHANGED <<overPipes, names, client, unreg, caller, shim, worker, pe, fds, pipes, rt,
                  rtOn, timedOut, calls>>
  BY DEF EventsGo, system, debugger, working, piping, runtime, history
<1>g. events[d] = "read"
  BY DEF EventsGo
<1>c1. /\ events' \in [Debuggers -> EventsLabels] /\ events'[d] = "postStartup"
       /\ \A e \in Debuggers : e # d => events'[e] = events[e]
  BY <1>g DEF Inv, Types, EventsGo, EventsLabels
<1>c2. /\ helper'[d].ref = helper[d].ref
       /\ helper'[d].canceled = helper[d].canceled
       /\ helper'[d].error = TRUE
       /\ helper'[d].startup = helper[d].startup
       /\ helper'[d].continue = helper[d].continue
       /\ helper'[d].dtor = helper[d].dtor
       /\ \A e \in Debuggers : e # d => helper'[e] = helper[e]
       /\ helper' \in [Debuggers -> HelperType]
  BY <1>f, <1>g, ErrorEffect DEF EventsGo, Fields
<1>1. Types'
  BY <1>c1, <1>c2, <1>u DEF Inv, Types
<1>2. OthersKept(d)
  BY <1>f, <1>p, <1>u, <1>g, <1>c1, <1>c2, NoneIsNobody DEF OthersKept, Untouched, Freed,
     Posted, NoSem, Fields
<1>3. HelperLives(d)'
  BY <1>f, <1>p, <1>u, <1>g, <1>c1, <1>c2 DEF Parts, HelperLives, Holders, Fields
<1>4. RegisterInv(d)'
  BY <1>f, <1>p, <1>u, <1>g, <1>c1, <1>c2 DEF Parts, RegisterInv, NoSem, Fields
<1>5. NameInv(d)'
  BY <1>f, <1>p, <1>u, <1>g, <1>c1, <1>c2, NoneIsNobody DEF Parts, NameInv, NoSem, Fields
<1>6. PostInv(d)'
  BY <1>f, <1>p, <1>u, <1>g, <1>c1, <1>c2 DEF Parts, PostInv, Posted, NoSem, Fields
<1>7. CallInv(d)'
  BY <1>f, <1>p, <1>u, <1>g, <1>c1, <1>c2 DEF Parts, CallInv, Fields
<1>8. QuietInv(d)'
  BY <1>f, <1>p, <1>u, <1>g, <1>c1, <1>c2 DEF Parts, QuietInv, InUserCode, Fields
<1>9. EventsInv(d)'
  BY <1>f, <1>p, <1>u, <1>g, <1>c1, <1>c2, <1>2, NoneIsNobody DEF Parts, EventsInv, Freed,
     Posted, OthersKept, Fields
<1> QED
  BY <1>1, <1>2, <1>3, <1>4, <1>5, <1>6, <1>7, <1>8, <1>9, StepKeeps DEF Parts

\* The events thread tells the worker.
LEMMA EventsPostStartupInv ==
    ASSUME Inv, NEW d \in Debuggers,
           EventsPostStartup(d)
    PROVE  Inv'
<1>f. Fields(d)
  BY FieldsTyped
<1>p. Parts(d)
  BY DEF Inv
<1>u. UNCHANGED <<overPipes, names, client, unreg, caller, shim, worker, pe, fds, pipes, rt,
                  rtOn, timedOut, calls>>
  BY DEF EventsPostStartup, EventsGo, system, debugger, working, piping, runtime, history
<1>g. events[d] = "postStartup"
  BY DEF EventsPostStartup, EventsGo
<1>r. /\ helper[d].startup \in 0..2
  BY <1>f, <1>g, <1>p DEF Fields, Parts, RegisterInv, PostInv, Posted, NoSem
<1>c1. /\ events' \in [Debuggers -> EventsLabels] /\ events'[d] = "waitContinue"
       /\ \A e \in Debuggers : e # d => events'[e] = events[e]
  BY <1>g, <1>r DEF Inv, Types, EventsPostStartup, EventsGo, EventsLabels
<1>c2. /\ helper'[d].ref = helper[d].ref
       /\ helper'[d].canceled = helper[d].canceled
       /\ helper'[d].error = helper[d].error
       /\ helper'[d].startup = helper[d].startup + 1
       /\ helper'[d].continue = helper[d].continue
       /\ helper'[d].dtor = helper[d].dtor
       /\ \A e \in Debuggers : e # d => helper'[e] = helper[e]
       /\ helper' \in [Debuggers -> HelperType]
  BY <1>f, <1>g, <1>r, PostStartupEffect DEF EventsPostStartup, EventsGo, Fields
<1>1. Types'
  BY <1>c1, <1>c2, <1>u DEF Inv, Types
<1>2. OthersKept(d)
  BY <1>f, <1>p, <1>u, <1>g, <1>r, <1>c1, <1>c2, NoneIsNobody DEF OthersKept, Untouched,
     Freed, Posted, NoSem, Fields
<1>3. HelperLives(d)'
  BY <1>f, <1>p, <1>u, <1>g, <1>r, <1>c1, <1>c2 DEF Parts, HelperLives, Holders, Fields
<1>4. RegisterInv(d)'
  BY <1>f, <1>p, <1>u, <1>g, <1>r, <1>c1, <1>c2 DEF Parts, RegisterInv, NoSem, Fields
<1>5. NameInv(d)'
  BY <1>f, <1>p, <1>u, <1>g, <1>r, <1>c1, <1>c2, NoneIsNobody DEF Parts, NameInv, NoSem,
     Fields
<1>6. PostInv(d)'
  BY <1>f, <1>p, <1>u, <1>g, <1>r, <1>c1, <1>c2 DEF Parts, PostInv, Posted, NoSem, Fields
<1>7. CallInv(d)'
  BY <1>f, <1>p, <1>u, <1>g, <1>r, <1>c1, <1>c2 DEF Parts, CallInv, Fields
<1>8. QuietInv(d)'
  BY <1>f, <1>p, <1>u, <1>g, <1>r, <1>c1, <1>c2 DEF Parts, QuietInv, InUserCode, Fields
<1>9. EventsInv(d)'
  BY <1>f, <1>p, <1>u, <1>g, <1>r, <1>c1, <1>c2, <1>2, NoneIsNobody DEF Parts, EventsInv,
     Freed, Posted, OthersKept, Fields
<1> QED
  BY <1>1, <1>2, <1>3, <1>4, <1>5, <1>6, <1>7, <1>8, <1>9, StepKeeps DEF Parts

\* The events thread is told to go on.
LEMMA EventsWaitContinueInv ==
    ASSUME Inv, NEW d \in Debuggers,
           EventsWaitContinue(d)
    PROVE  Inv'
<1>f. Fields(d)
  BY FieldsTyped
<1>p. Parts(d)
  BY DEF Inv
<1>u. UNCHANGED <<overPipes, names, client, unreg, caller, shim, worker, pe, fds, pipes, rt,
                  rtOn, timedOut, calls>>
  BY DEF EventsWaitContinue, EventsGo, system, debugger, working, piping, runtime, history
<1>g. events[d] = "waitContinue" /\ helper[d].continue > 0
  BY DEF EventsWaitContinue, EventsGo
<1>r. helper[d].continue \in 1..2
  BY <1>f, <1>g DEF Fields, NoSem
<1>c1. /\ events' \in [Debuggers -> EventsLabels] /\ events'[d] = "write"
       /\ \A e \in Debuggers : e # d => events'[e] = events[e]
  BY <1>g, <1>r DEF Inv, Types, EventsWaitContinue, EventsGo, EventsLabels
<1>c2. /\ helper'[d].ref = helper[d].ref
       /\ helper'[d].canceled = helper[d].canceled
       /\ helper'[d].error = helper[d].error
       /\ helper'[d].startup = helper[d].startup
       /\ helper'[d].continue = helper[d].continue - 1
       /\ helper'[d].dtor = helper[d].dtor
       /\ \A e \in Debuggers : e # d => helper'[e] = helper[e]
       /\ helper' \in [Debuggers -> HelperType]
  BY <1>f, <1>g, <1>r DEF EventsWaitContinue, EventsGo, HelperType, Fields
<1>1. Types'
  BY <1>c1, <1>c2, <1>u DEF Inv, Types
<1>2. OthersKept(d)
  BY <1>f, <1>p, <1>u, <1>g, <1>r, <1>c1, <1>c2, NoneIsNobody DEF OthersKept, Untouched,
     Freed, Posted, NoSem, Fields
<1>3. HelperLives(d)'
  BY <1>f, <1>p, <1>u, <1>g, <1>r, <1>c1, <1>c2 DEF Parts, HelperLives, Holders, Fields
<1>4. RegisterInv(d)'
  BY <1>f, <1>p, <1>u, <1>g, <1>r, <1>c1, <1>c2 DEF Parts, RegisterInv, NoSem, Fields
<1>5. NameInv(d)'
  BY <1>f, <1>p, <1>u, <1>g, <1>r, <1>c1, <1>c2, NoneIsNobody DEF Parts, NameInv, NoSem,
     Fields
<1>6. PostInv(d)'
  BY <1>f, <1>p, <1>u, <1>g, <1>r, <1>c1, <1>c2 DEF Parts, PostInv, Posted, NoSem, Fields
<1>7. CallInv(d)'
  BY <1>f, <1>p, <1>u, <1>g, <1>r, <1>c1, <1>c2 DEF Parts, CallInv, Fields
<1>8. QuietInv(d)'
  BY <1>f, <1>p, <1>u, <1>g, <1>r, <1>c1, <1>c2 DEF Parts, QuietInv, InUserCode, Fields
<1>9. EventsInv(d)'
  BY <1>f, <1>p, <1>u, <1>g, <1>r, <1>c1, <1>c2, <1>2, NoneIsNobody DEF Parts, EventsInv,
     Freed, Posted, OthersKept, Fields
<1> QED
  BY <1>1, <1>2, <1>3, <1>4, <1>5, <1>6, <1>7, <1>8, <1>9, StepKeeps DEF Parts

\* The events thread lets the runtime go on.
LEMMA EventsWriteInv ==
    ASSUME Inv, NEW d \in Debuggers,
           EventsWrite(d)
    PROVE  Inv'
<1>f. Fields(d)
  BY FieldsTyped
<1>p. Parts(d)
  BY DEF Inv
<1>u. UNCHANGED <<overPipes, names, helper, client, unreg, caller, shim, worker, pe, fds,
                  rt, rtOn, timedOut, calls>>
  BY DEF EventsWrite, EventsGo, system, debugger, working, piping, runtime, history
<1>g. events[d] = "write"
  BY DEF EventsWrite, EventsGo
<1>r. fds[d].continuePipe \in Debuggers /\ Freed(d)
  BY <1>g, <1>p DEF Parts, EventsInv
<1>c1. /\ events' \in [Debuggers -> EventsLabels] /\ events'[d] = "close"
       /\ \A e \in Debuggers : e # d => events'[e] = events[e]
  BY <1>g, <1>r DEF Inv, Types, EventsWrite, EventsGo, EventsLabels
<1>q. /\ pipes' \in [Debuggers -> PipeType]
      /\ \A p \in Debuggers : pipes'[p].continue = pipes[p].continue \/ pipes'[p].continue = d
  <2>1. pipes \in [Debuggers -> PipeType]
    BY DEF Inv, Types
  <2>2. pipes' \in [Debuggers -> PipeType]
    BY <1>r, <2>1 DEF PipeType, EventsWrite, EventsGo
  <2> QED
    BY <1>r, <2>1, <2>2 DEF PipeType, EventsWrite, EventsGo
<1>1. Types'
  BY <1>c1, <1>q, <1>u DEF Inv, Types
<1>2. OthersKept(d)
  BY <1>f, <1>p, <1>u, <1>g, <1>r, <1>c1, <1>q, NoneIsNobody DEF OthersKept, Untouched,
     Freed, Posted, NoSem, Fields
<1>3. HelperLives(d)'
  BY <1>f, <1>p, <1>u, <1>g, <1>r, <1>c1, <1>q DEF Parts, HelperLives, Holders, Fields
<1>4. RegisterInv(d)'
  BY <1>f, <1>p, <1>u, <1>g, <1>r, <1>c1, <1>q DEF Parts, RegisterInv, NoSem, Fields
<1>5. NameInv(d)'
  BY <1>f, <1>p, <1>u, <1>g, <1>r, <1>c1, <1>q, NoneIsNobody DEF Parts, NameInv, NoSem,
     Fields
<1>6. PostInv(d)'
  BY <1>f, <1>p, <1>u, <1>g, <1>r, <1>c1, <1>q DEF Parts, PostInv, Posted, NoSem, Fields
<1>7. CallInv(d)'
  BY <1>f, <1>p, <1>u, <1>g, <1>r, <1>c1, <1>q DEF Parts, CallInv, Fields
<1>8. QuietInv(d)'
  BY <1>f, <1>p, <1>u, <1>g, <1>r, <1>c1, <1>q DEF Parts, QuietInv, InUserCode, Fields
<1>9. EventsInv(d)'
  BY <1>f, <1>p, <1>u, <1>g, <1>r, <1>c1, <1>q, <1>2, NoneIsNobody DEF Parts, EventsInv,
     Freed, Posted, OthersKept, Fields
<1> QED
  BY <1>1, <1>2, <1>3, <1>4, <1>5, <1>6, <1>7, <1>8, <1>9, StepKeeps DEF Parts

\* The events thread ends.
LEMMA EventsEndInv ==
    ASSUME Inv, NEW d \in Debuggers,
           EventsEnd(d)
    PROVE  Inv'
<1>f. Fields(d)
  BY FieldsTyped
<1>p. Parts(d)
  BY DEF Inv
<1>u. UNCHANGED <<overPipes, names, client, unreg, caller, shim, worker, pe, pipes, rt,
                  rtOn, timedOut, calls>>
  BY DEF EventsEnd, EventsGo, system, debugger, working, piping, runtime, history
<1>g. events[d] = "close"
  BY DEF EventsEnd, EventsGo
<1>r. helper[d].ref >= 1 /\ helper[d].dtor = "no"
  BY <1>f, <1>g, <1>p DEF Fields, Parts, HelperLives, Holders, RegisterInv
<1>c1. /\ events' \in [Debuggers -> EventsLabels] /\ events'[d] = "ended"
       /\ \A e \in Debuggers : e # d => events'[e] = events[e]
  BY <1>g, <1>r DEF Inv, Types, EventsEnd, EventsGo, EventsLabels
<1>c2. /\ fds' \in [Debuggers -> FdsType]
       /\ fds'[d].startupPipe = None
       /\ fds'[d].continuePipe = None
       /\ \A e \in Debuggers : e # d => fds'[e] = fds[e]
  BY <1>g, <1>r DEF Inv, Types, EventsEnd, EventsGo, FdsType
<1>c3. /\ helper'[d].ref = helper[d].ref - 1
       /\ helper'[d].canceled = helper[d].canceled
       /\ helper'[d].error = helper[d].error
       /\ helper'[d].startup = helper[d].startup
       /\ helper'[d].continue = helper[d].continue
       /\ helper'[d].dtor = (IF helper[d].ref = 1 THEN "startup" ELSE helper[d].dtor)
       /\ \A e \in Debuggers : e # d => helper'[e] = helper[e]
       /\ helper' \in [Debuggers -> HelperType]
  BY <1>f, <1>g, <1>r, ReleaseEffect DEF EventsEnd, EventsGo, Fields
<1>1. Types'
  BY <1>c1, <1>c2, <1>c3, <1>u DEF Inv, Types
<1>2. OthersKept(d)
  BY <1>f, <1>p, <1>u, <1>g, <1>r, <1>c1, <1>c2, <1>c3, NoneIsNobody DEF OthersKept,
     Untouched, Freed, Posted, NoSem, Fields
<1>3. HelperLives(d)'
  BY <1>f, <1>p, <1>u, <1>g, <1>r, <1>c1, <1>c2, <1>c3 DEF Parts, HelperLives, Holders,
     Fields
<1>4. RegisterInv(d)'
  BY <1>f, <1>p, <1>u, <1>g, <1>r, <1>c1, <1>c2, <1>c3 DEF Parts, RegisterInv, NoSem, Fields
<1>5. NameInv(d)'
  BY <1>f, <1>p, <1>u, <1>g, <1>r, <1>c1, <1>c2, <1>c3, NoneIsNobody DEF Parts, NameInv,
     NoSem, Fields
<1>6. PostInv(d)'
  BY <1>f, <1>p, <1>u, <1>g, <1>r, <1>c1, <1>c2, <1>c3 DEF Parts, PostInv, Posted, NoSem,
     Fields
<1>7. CallInv(d)'
  BY <1>f, <1>p, <1>u, <1>g, <1>r, <1>c1, <1>c2, <1>c3 DEF Parts, CallInv, Fields
<1>8. QuietInv(d)'
  BY <1>f, <1>p, <1>u, <1>g, <1>r, <1>c1, <1>c2, <1>c3 DEF Parts, QuietInv, InUserCode, Fields
<1>9. EventsInv(d)'
  BY <1>f, <1>p, <1>u, <1>g, <1>r, <1>c1, <1>c2, <1>c3, <1>2, NoneIsNobody DEF Parts,
     EventsInv, Freed, Posted, OthersKept, Fields
<1> QED
  BY <1>1, <1>2, <1>3, <1>4, <1>5, <1>6, <1>7, <1>8, <1>9, StepKeeps DEF Parts

\* A step of the runtime that leaves the debuggers alone.
LEMMA RuntimeKeeps ==
    ASSUME Inv, Types', RuntimeInv', \A e \in Debuggers : PostInv(e)',
           \A p \in Debuggers : pipes'[p].continue = pipes[p].continue,
           UNCHANGED <<overPipes, names, helper, client, unreg, caller, shim, worker, pe,
                       events, fds, timedOut, calls>>
    PROVE  Inv'
<1>1. ASSUME NEW e \in Debuggers PROVE Parts(e)'
  <2>1. Untouched(e)
    BY DEF Untouched
  <2>2. PostInv(e)'
    OBVIOUS
  <2>3. \A p \in Debuggers : pipes'[p].continue = e => pipes[p].continue = e
    OBVIOUS
  <2> QED
    BY <2>1, <2>2, <2>3, KeptParts
<1> QED
  BY <1>1 DEF Inv

\* The runtime starts, or runs without a debugger.
LEMMA RuntimeGoesOnInv ==
    ASSUME Inv, rtOn' = rtOn,
           \/ rt = "notStarted" /\ rt' \in {"openStartup", "openContinuePipe"}
           \/ rt' = "running",
           UNCHANGED <<overPipes, names, helper, client, unreg, caller, shim, worker, pe,
                       events, fds, pipes, timedOut, calls>>
    PROVE  Inv'
<1>1. rt' \in RuntimeLabels
  BY DEF RuntimeLabels
<1>2. Types'
  BY <1>1 DEF Inv, Types
<1>3. ASSUME NEW e \in Debuggers PROVE PostInv(e)'
  <2>1. PostInv(e) /\ (rt = "notStarted" => rtOn["startup"] # e)
    BY NoneIsNobody DEF Inv, Parts, RuntimeInv
  <2>2. helper[e].startup \in Int
    BY FieldsTyped DEF Fields, NoSem
  <2> QED
    BY <2>1, <2>2 DEF PostInv
<1>4. RuntimeInv'
  BY DEF Inv, RuntimeInv
<1> QED
  BY <1>2, <1>3, <1>4, RuntimeKeeps

\* The runtime opens "startup".
LEMMA RuntimeOpensStartupInv ==
    ASSUME Inv, rt = "openStartup", rt' = "openContinue", names["startup"] # None,
           rtOn' = [rtOn EXCEPT !["startup"] = names["startup"]],
           UNCHANGED <<overPipes, names, helper, client, unreg, caller, shim, worker, pe,
                       events, fds, pipes, timedOut, calls>>
    PROVE  Inv'
<1>1. /\ names["startup"] \in Debuggers /\ rtOn \in [Objects -> Debuggers \cup {None}]
      /\ "startup" \in Objects
  BY DEF Inv, Types, Objects
<1>2. /\ rtOn' \in [Objects -> Debuggers \cup {None}]
      /\ rtOn'["startup"] = names["startup"]
      /\ \A o \in Objects : o # "startup" => rtOn'[o] = rtOn[o]
  BY <1>1
<1>3. Types'
  BY <1>2 DEF Inv, Types, RuntimeLabels
<1>4. ASSUME NEW e \in Debuggers PROVE PostInv(e)'
  <2>1. PostInv(e)
    BY DEF Inv, Parts
  <2> QED
    BY <1>2, <2>1, NoneIsNobody DEF PostInv, Inv, RuntimeInv, Objects
<1>5. \A e \in Debuggers : rtOn'["startup"] = e => helper[e].startup # NoSem
  BY <1>1, <1>2 DEF Inv, Parts, NameInv, RuntimeInv, Objects
<1>6. RuntimeInv'
  BY <1>1, <1>2, <1>5, NoneIsNobody DEF Inv, RuntimeInv, Objects
<1> QED
  BY <1>3, <1>4, <1>6, RuntimeKeeps

\* The runtime opens "continue".
LEMMA RuntimeOpensContinueInv ==
    ASSUME Inv, rt = "openContinue", rt' = "post", names["continue"] # None,
           rtOn' = [rtOn EXCEPT !["continue"] = names["continue"]],
           UNCHANGED <<overPipes, names, helper, client, unreg, caller, shim, worker, pe,
                       events, fds, pipes, timedOut, calls>>
    PROVE  Inv'
<1>1. /\ names["continue"] \in Debuggers /\ rtOn \in [Objects -> Debuggers \cup {None}]
      /\ "continue" \in Objects
  BY DEF Inv, Types, Objects
<1>2. /\ rtOn' \in [Objects -> Debuggers \cup {None}]
      /\ rtOn'["continue"] = names["continue"]
      /\ \A o \in Objects : o # "continue" => rtOn'[o] = rtOn[o]
  BY <1>1
<1>3. Types'
  BY <1>2 DEF Inv, Types, RuntimeLabels
<1>4. ASSUME NEW e \in Debuggers PROVE PostInv(e)'
  <2>1. PostInv(e)
    BY DEF Inv, Parts
  <2> QED
    BY <1>2, <2>1, NoneIsNobody DEF PostInv, Inv, RuntimeInv, Objects
<1>5. \A e \in Debuggers : rtOn'["startup"] = e => helper[e].startup # NoSem
  BY <1>1, <1>2 DEF Inv, Parts, NameInv, RuntimeInv, Objects
<1>6. RuntimeInv'
  BY <1>1, <1>2, <1>5, NoneIsNobody DEF Inv, RuntimeInv, Objects
<1> QED
  BY <1>3, <1>4, <1>6, RuntimeKeeps

\* The runtime opens "continuePipe".
LEMMA RuntimeOpensContinuePipeInv ==
    ASSUME Inv, rt = "openContinuePipe", rt' = "openStartupPipe", names["continuePipe"] # None,
           rtOn' = [rtOn EXCEPT !["continuePipe"] = names["continuePipe"]],
           UNCHANGED <<overPipes, names, helper, client, unreg, caller, shim, worker, pe,
                       events, fds, pipes, timedOut, calls>>
    PROVE  Inv'
<1>1. /\ names["continuePipe"] \in Debuggers /\ rtOn \in [Objects -> Debuggers \cup {None}]
      /\ "continuePipe" \in Objects
  BY DEF Inv, Types, Objects
<1>2. /\ rtOn' \in [Objects -> Debuggers \cup {None}]
      /\ rtOn'["continuePipe"] = names["continuePipe"]
      /\ \A o \in Objects : o # "continuePipe" => rtOn'[o] = rtOn[o]
  BY <1>1
<1>3. Types'
  BY <1>2 DEF Inv, Types, RuntimeLabels
<1>4. ASSUME NEW e \in Debuggers PROVE PostInv(e)'
  <2>1. PostInv(e)
    BY DEF Inv, Parts
  <2> QED
    BY <1>2, <2>1, NoneIsNobody DEF PostInv, Inv, RuntimeInv, Objects
<1>5. \A e \in Debuggers : rtOn'["startup"] = e => helper[e].startup # NoSem
  BY <1>1, <1>2 DEF Inv, Parts, NameInv, RuntimeInv, Objects
<1>6. RuntimeInv'
  BY <1>1, <1>2, <1>5, NoneIsNobody DEF Inv, RuntimeInv, Objects
<1> QED
  BY <1>3, <1>4, <1>6, RuntimeKeeps

\* The runtime opens "startupPipe".
LEMMA RuntimeOpensStartupPipeInv ==
    ASSUME Inv, rt = "openStartupPipe", rt' = "writeStarted", names["startupPipe"] # None,
           rtOn' = [rtOn EXCEPT !["startupPipe"] = names["startupPipe"]],
           UNCHANGED <<overPipes, names, helper, client, unreg, caller, shim, worker, pe,
                       events, fds, pipes, timedOut, calls>>
    PROVE  Inv'
<1>1. /\ names["startupPipe"] \in Debuggers /\ rtOn \in [Objects -> Debuggers \cup {None}]
      /\ "startupPipe" \in Objects
  BY DEF Inv, Types, Objects
<1>2. /\ rtOn' \in [Objects -> Debuggers \cup {None}]
      /\ rtOn'["startupPipe"] = names["startupPipe"]
      /\ \A o \in Objects : o # "startupPipe" => rtOn'[o] = rtOn[o]
  BY <1>1
<1>3. Types'
  BY <1>2 DEF Inv, Types, RuntimeLabels
<1>4. ASSUME NEW e \in Debuggers PROVE PostInv(e)'
  <2>1. PostInv(e)
    BY DEF Inv, Parts
  <2> QED
    BY <1>2, <2>1, NoneIsNobody DEF PostInv, Inv, RuntimeInv, Objects
<1>5. \A e \in Debuggers : rtOn'["startup"] = e => helper[e].startup # NoSem
  BY <1>1, <1>2 DEF Inv, Parts, NameInv, RuntimeInv, Objects
<1>6. RuntimeInv'
  BY <1>1, <1>2, <1>5, NoneIsNobody DEF Inv, RuntimeInv, Objects
<1> QED
  BY <1>3, <1>4, <1>6, RuntimeKeeps

\* The runtime writes the startup event into the pipe.
LEMMA RuntimeWritesInv ==
    ASSUME Inv, RuntimeWrites
    PROVE  Inv'
<1>u. UNCHANGED <<overPipes, names, helper, client, unreg, caller, shim, worker, pe, events, fds,
                  rtOn, timedOut, calls>>
  BY DEF RuntimeWrites, RuntimeGoes, system, debugger, working, history
<1>1. /\ rt = "writeStarted" /\ rt' = "waitPipe" /\ rtOn["startupPipe"] \in Debuggers
  BY DEF RuntimeWrites, RuntimeGoes, Inv, RuntimeInv
<1>2. pipes \in [Debuggers -> PipeType]
  BY DEF Inv, Types
<1>3. pipes' = [pipes EXCEPT ![rtOn["startupPipe"]].started = TRUE]
  BY DEF RuntimeWrites
<1>4. pipes' \in [Debuggers -> PipeType]
  BY <1>1, <1>2, <1>3 DEF PipeType
<1>5. \A p \in Debuggers : pipes'[p].continue = pipes[p].continue
  BY <1>1, <1>2, <1>3 DEF PipeType
<1>6. Types'
  BY <1>1, <1>4, <1>u DEF Inv, Types, RuntimeLabels
<1>7. \A e \in Debuggers : PostInv(e)'
  BY <1>1, <1>u DEF Inv, Parts, PostInv
<1>8. RuntimeInv'
  BY <1>1, <1>u DEF Inv, RuntimeInv
<1> QED
  BY <1>5, <1>6, <1>7, <1>8, <1>u, RuntimeKeeps

\* The runtime reads from the pipe that it may go on, or that nobody is there.
LEMMA RuntimeReadsPipeInv ==
    ASSUME Inv, RuntimeReadsPipe
    PROVE  Inv'
<1>u. UNCHANGED <<overPipes, names, helper, client, unreg, caller, shim, worker, pe, events, fds,
                  pipes, rtOn, timedOut, calls>>
  BY DEF RuntimeReadsPipe, RuntimeGoes, system, debugger, working, history
<1>1. rt = "waitPipe" /\ rtOn["continuePipe"] \in Debuggers /\ rtOn["startup"] = None
  BY DEF RuntimeReadsPipe, Inv, RuntimeInv
<1>2. CASE rt' = "running"
  BY <1>2, <1>u, RuntimeGoesOnInv
<1>3. CASE rt' = "continued" /\ pipes[rtOn["continuePipe"]].continue # None
  <2>1. Types'
    BY <1>3, <1>u DEF Inv, Types, RuntimeLabels
  <2>2. \A e \in Debuggers : PostInv(e)'
    BY <1>1, <1>3, <1>u, NoneIsNobody DEF Inv, Parts, PostInv
  <2>a. PICK d \in Debuggers : d = pipes[rtOn["continuePipe"]].continue
    <3>1. pipes[rtOn["continuePipe"]] \in PipeType
      BY <1>1 DEF Inv, Types
    <3> QED
      BY <1>3, <3>1 DEF PipeType
  <2>3. Freed(d)
    BY <1>1, <2>a DEF Inv, Parts, EventsInv
  <2>4. ReleasedBy' = d
    BY <1>1, <1>u, <2>a, NoneIsNobody DEF ReleasedBy
  <2>5. Freed(d)'
    BY <1>u, <2>3 DEF Freed
  <2>6. (ReleasedBy \in Debuggers /\ Freed(ReleasedBy))'
    BY <2>4, <2>5 DEF Freed
  <2>7. RuntimeInv'
    BY <1>3, <1>u, <2>6 DEF Inv, RuntimeInv
  <2> QED
    BY <1>u, <2>1, <2>2, <2>7, RuntimeKeeps
<1> QED
  BY <1>2, <1>3 DEF RuntimeReadsPipe, RuntimeGoes

\* The runtime tells a debugger that it starts.
LEMMA RuntimePostsInv ==
    ASSUME Inv, RuntimePosts
    PROVE  Inv'
<1>u. UNCHANGED <<overPipes, names, client, unreg, caller, shim, worker, pe, events, fds, pipes,
                  rtOn, timedOut, calls>>
  BY DEF RuntimePosts, RuntimeGoes, system, debugger, working, history
<1>d. PICK d \in Debuggers : d = rtOn["startup"]
  BY DEF RuntimePosts, Inv, RuntimeInv
<1>1. rt = "post" /\ rt' = "waiting" /\ rtOn["startup"] = d
  BY <1>d DEF RuntimePosts, RuntimeGoes
<1>f. Fields(d)
  BY FieldsTyped
<1>p. Parts(d)
  BY DEF Inv
<1>r. helper[d].startup \in 0..2
  BY <1>1, <1>f, <1>p DEF Fields, Inv, RuntimeInv, Parts, PostInv, NoSem
<1>2. /\ helper'[d].ref = helper[d].ref /\ helper'[d].canceled = helper[d].canceled
      /\ helper'[d].error = helper[d].error
      /\ helper'[d].startup = helper[d].startup + 1
      /\ helper'[d].continue = helper[d].continue
      /\ helper'[d].dtor = helper[d].dtor
      /\ \A e \in Debuggers : e # d => helper'[e] = helper[e]
      /\ helper' \in [Debuggers -> HelperType]
  BY <1>d, <1>r, PostStartupEffect DEF RuntimePosts
<1>3. Types'
  BY <1>1, <1>2, <1>u DEF Inv, Types, RuntimeLabels
<1>4. ASSUME NEW e \in Debuggers, e # d PROVE Parts(e)'
  <2>1. Untouched(e)
    BY <1>2, <1>4, <1>u DEF Untouched
  <2>2. PostInv(e)'
    BY <1>1, <1>4, <1>u, <2>1 DEF Inv, Parts, PostInv, Untouched
  <2>3. \A p \in Debuggers : pipes'[p].continue = e => pipes[p].continue = e
    BY <1>u
  <2> QED
    BY <2>1, <2>2, <2>3, KeptParts
<1>5. Parts(d)'
  <2>1. HelperLives(d)'
    BY <1>2, <1>p, <1>u DEF Parts, HelperLives, Holders
  <2>2. RegisterInv(d)'
    BY <1>2, <1>f, <1>p, <1>r, <1>u DEF Fields, Parts, RegisterInv, NoSem
  <2>3. NameInv(d)'
    BY <1>2, <1>f, <1>p, <1>r, <1>u DEF Fields, Parts, NameInv, NoSem
  <2>4. PostInv(d)'
    BY <1>1, <1>2, <1>f, <1>p, <1>r, <1>u DEF Fields, Parts, PostInv, Posted, NoSem
  <2>5. CallInv(d)' /\ QuietInv(d)'
    BY <1>2, <1>p, <1>u DEF Parts, CallInv, QuietInv
  <2>6. EventsInv(d)'
    BY <1>2, <1>f, <1>p, <1>r, <1>u DEF Fields, Parts, EventsInv, Freed, NoSem
  <2> QED
    BY <2>1, <2>2, <2>3, <2>4, <2>5, <2>6 DEF Parts
<1>6. \A e \in Debuggers : helper[e].startup # NoSem => helper'[e].startup # NoSem
  BY <1>2, <1>f, <1>r DEF Fields, NoSem
<1>7. RuntimeInv'
  BY <1>1, <1>6, <1>u DEF Inv, RuntimeInv
<1> QED
  BY <1>3, <1>4, <1>5, <1>7 DEF Inv

\* A debugger lets the runtime go on.
LEMMA RuntimeWaitsInv ==
    ASSUME Inv, RuntimeWaits
    PROVE  Inv'
<1>u. UNCHANGED <<overPipes, names, client, unreg, caller, shim, worker, pe, events, fds, pipes,
                  rtOn, timedOut, calls>>
  BY DEF RuntimeWaits, RuntimeGoes, system, debugger, working, history
<1>d. PICK d \in Debuggers : d = rtOn["continue"]
  BY DEF RuntimeWaits, Inv, RuntimeInv
<1>1. /\ rt = "waiting" /\ rt' = "continued" /\ rtOn["continue"] = d
      /\ helper[d].continue > 0
      /\ helper' = [helper EXCEPT ![d].continue = @ - 1]
  BY <1>d DEF RuntimeWaits, RuntimeGoes
<1>f. Fields(d)
  BY FieldsTyped
<1>p. Parts(d)
  BY DEF Inv
<1>r. helper[d].continue \in 1..2
  BY <1>1, <1>f DEF Fields, NoSem
<1>2. /\ helper'[d].ref = helper[d].ref /\ helper'[d].canceled = helper[d].canceled
      /\ helper'[d].error = helper[d].error
      /\ helper'[d].startup = helper[d].startup
      /\ helper'[d].continue = helper[d].continue - 1
      /\ helper'[d].dtor = helper[d].dtor
      /\ \A e \in Debuggers : e # d => helper'[e] = helper[e]
      /\ helper' \in [Debuggers -> HelperType]
  BY <1>1, <1>f, <1>r DEF Fields, HelperType
<1>3. Types'
  BY <1>1, <1>2, <1>u DEF Inv, Types, RuntimeLabels
<1>4. ASSUME NEW e \in Debuggers, e # d PROVE Parts(e)'
  <2>1. Untouched(e)
    BY <1>2, <1>4, <1>u DEF Untouched
  <2>2. PostInv(e)'
    BY <1>1, <1>4, <1>u, <2>1 DEF Inv, Parts, PostInv, Untouched
  <2>3. \A p \in Debuggers : pipes'[p].continue = e => pipes[p].continue = e
    BY <1>u
  <2> QED
    BY <2>1, <2>2, <2>3, KeptParts
<1>5. Parts(d)'
  <2>1. HelperLives(d)'
    BY <1>2, <1>p, <1>u DEF Parts, HelperLives, Holders
  <2>2. RegisterInv(d)'
    BY <1>2, <1>f, <1>p, <1>r, <1>u DEF Fields, Parts, RegisterInv, NoSem
  <2>3. NameInv(d)'
    BY <1>2, <1>f, <1>p, <1>r, <1>u DEF Fields, Parts, NameInv, NoSem
  <2>4. PostInv(d)'
    BY <1>1, <1>2, <1>f, <1>p, <1>r, <1>u DEF Fields, Parts, PostInv, Posted, NoSem
  <2>5. CallInv(d)' /\ QuietInv(d)'
    BY <1>2, <1>p, <1>u DEF Parts, CallInv, QuietInv
  <2>6. EventsInv(d)'
    BY <1>2, <1>f, <1>p, <1>r, <1>u DEF Fields, Parts, EventsInv, Freed, NoSem
  <2> QED
    BY <2>1, <2>2, <2>3, <2>4, <2>5, <2>6 DEF Parts
<1>6. \A e \in Debuggers : helper[e].startup # NoSem => helper'[e].startup # NoSem
  BY <1>2, <1>f, <1>r DEF Fields, NoSem
<1>7. RuntimeInv'
  <2>1. Freed(d)'
    BY <1>1, <1>2, <1>p, <1>u DEF Parts, EventsInv, Freed
  <2>2. ReleasedBy' = d
    BY <1>1, <1>u DEF Inv, RuntimeInv, ReleasedBy
  <2>3. (ReleasedBy \in Debuggers /\ Freed(ReleasedBy))'
    BY <2>1, <2>2 DEF Freed
  <2> QED
    BY <1>1, <1>6, <1>u, <2>3 DEF Inv, RuntimeInv
<1> QED
  BY <1>3, <1>4, <1>5, <1>7 DEF Inv

-----------------------------------------------------------------------------
(* The invariant holds of every behaviour *)

\* Nobody has registered.
LEMMA InitInv == Init => Inv
<1> SUFFICES ASSUME Init PROVE Inv
  OBVIOUS
<1>1. helper \in [Debuggers -> HelperType]
  BY DEF Init, HelperType
<1>2. fds \in [Debuggers -> FdsType] /\ pipes \in [Debuggers -> PipeType]
  BY DEF Init, FdsType, PipeType
<1>3. Types
  BY <1>1, <1>2 DEF Init, Types, ClientLabels, UnregLabels, Callers, ShimLabels,
     WorkerLabels, EventsLabels, RuntimeLabels
<1>4. ASSUME NEW d \in Debuggers PROVE Parts(d)
  <2>1. /\ helper[d].ref = 1 /\ ~helper[d].canceled /\ helper[d].startup = NoSem
        /\ helper[d].continue = NoSem /\ helper[d].dtor = "no"
        /\ client[d] = "idle" /\ unreg[d] = "no" /\ caller[d] = "nobody"
        /\ shim[d] = "none" /\ worker[d] = "none" /\ ~pe[d] /\ events[d] = "none"
        /\ calls[d] = 0
    BY DEF Init
  <2>2. /\ names["startup"] # d /\ names["continue"] # d
        /\ \A p \in Debuggers : pipes[p].continue # d
    BY NoneIsNobody DEF Init, Objects
  <2>3. HelperLives(d) /\ RegisterInv(d) /\ NameInv(d)
    BY <2>1, <2>2 DEF HelperLives, Holders, RegisterInv, NameInv
  <2>4. PostInv(d)
    BY <2>1 DEF PostInv, NoSem, Posted
  <2>5. CallInv(d) /\ QuietInv(d)
    BY <2>1 DEF CallInv, QuietInv
  <2>6. EventsInv(d)
    BY <2>1, <2>2 DEF EventsInv, NoSem
  <2> QED
    BY <2>3, <2>4, <2>5, <2>6 DEF Parts
<1>5. RuntimeInv
  BY NoneIsNobody DEF Init, RuntimeInv, Objects
<1> QED
  BY <1>3, <1>4, <1>5 DEF Inv

\* The steps of a registration.
LEMMA RegisteringInv ==
    ASSUME Inv, NEW d \in Debuggers, Registering(d)
    PROVE  Inv'
<1> USE DEF system, debugger, working, piping, runtime, history
<1>1. CASE CreateSemaphore(d, "continue", "startup")
  BY <1>1, CreateContinueInv, RegisterFailsInv DEF CreateSemaphore
<1>2. CASE CreateSemaphore(d, "startup", "events")
  BY <1>2, CreateStartupInv, RegisterFailsInv DEF CreateSemaphore
<1>3. CASE CreateEventsThread(d)
  BY <1>3, CreateEventsInv, SkipEventsInv, RegisterFailsInv DEF CreateEventsThread
<1>4. CASE CreateWorkerThread(d)
  BY <1>4, CreateWorkerInv, RegisterFailsInv DEF CreateWorkerThread
<1> QED
  BY <1>1, <1>2, <1>3, <1>4 DEF Registering

\* The steps of Unregister and of the destructor.
LEMMA UnregisteringInv ==
    ASSUME Inv, NEW d \in Debuggers, Unregistering(d) \/ WaitTimesOut(d) \/ Destructor(d)
    PROVE  Inv'
<1> USE DEF system, debugger, working, piping, runtime, history
<1>1. CASE UnregisterPosts(d)
  BY <1>1, PostsContinueInv, PostsStartupInv DEF UnregisterPosts
<1>2. CASE WaitTimesOut(d)
  BY <1>2, WorkerTimesOutInv, EventsTimeOutInv DEF WaitTimesOut
<1>3. CASE Destructor(d)
  BY <1>3, DestroyStartupInv, DestroyContinueInv, DestructorPipesInv DEF Destructor
<1> QED
  BY <1>1, <1>2, <1>3, WaitWorkerInv, WaitEventsInv, UnregisterReleasesInv,
     UnregisterReturnsInv DEF Unregistering

\* The steps of the worker thread.
LEMMA WorkingInv ==
    ASSUME Inv, NEW d \in Debuggers, Working(d)
    PROVE  Inv'
<1>1. CASE WorkerLooksAtModules(d)
  BY <1>1, ModulesFailInv, ModulesInv
     DEF WorkerLooksAtModules, system, debugger, piping, runtime, history
<1>2. CASE UserThrows(d)
  BY <1>2, FirstThrowsInv, ReportThrowsInv
     DEF UserThrows, system, debugger, piping, runtime
<1> QED
  BY <1>1, <1>2, WorkerStartsInv, WorkerWakesInv, WorkerTestsCanceledInv, CallFoundInv,
     CallReportInv, CallFailedInv, UserReturnsInv, WorkerPostsInv, WorkerTestsErrorInv,
     WorkerEndsInv DEF Working

\* The steps of the events thread.
LEMMA TranslatingInv ==
    ASSUME Inv, NEW d \in Debuggers, Translating(d)
    PROVE  Inv'
<1> USE DEF system, debugger, working, runtime, history
<1>1. CASE EventsOpenContinue(d)
  BY <1>1, EventsGiveUpInv, OpenContinueInv DEF EventsOpenContinue, EventsOpen
<1>2. CASE EventsOpenStartup(d)
  BY <1>2, EventsGiveUpInv, OpenStartupInv DEF EventsOpenStartup, EventsOpen
<1>3. CASE EventsRead(d)
  BY <1>3, EventsReadInv, ReadCanceledInv, ReadFailsInv DEF EventsRead
<1> QED
  BY <1>1, <1>2, <1>3, EventsPostStartupInv, EventsWaitContinueInv, EventsWriteInv,
     EventsEndInv DEF Translating

\* The steps of the runtime.
LEMMA RuntimeStepInv ==
    ASSUME Inv, RuntimeLoads \/ RuntimeRuns
    PROVE  Inv'
<1> USE DEF RuntimeGoes, system, debugger, working, history
<1>1. CASE RuntimeLoads
  BY <1>1, RuntimeGoesOnInv DEF RuntimeLoads
<1>2. CASE rt = "openStartup" /\ RuntimeOpens("startup", "openContinue")
  BY <1>2, RuntimeGoesOnInv, RuntimeOpensStartupInv DEF RuntimeOpens
<1>3. CASE rt = "openContinue" /\ RuntimeOpens("continue", "post")
  BY <1>3, RuntimeGoesOnInv, RuntimeOpensContinueInv DEF RuntimeOpens
<1>4. CASE rt = "openContinuePipe" /\ RuntimeOpens("continuePipe", "openStartupPipe")
  BY <1>4, RuntimeGoesOnInv, RuntimeOpensContinuePipeInv DEF RuntimeOpens
<1>5. CASE rt = "openStartupPipe" /\ RuntimeOpens("startupPipe", "writeStarted")
  BY <1>5, RuntimeGoesOnInv, RuntimeOpensStartupPipeInv DEF RuntimeOpens
<1> QED
  BY <1>1, <1>2, <1>3, <1>4, <1>5, RuntimePostsInv, RuntimeWaitsInv, RuntimeWritesInv,
     RuntimeReadsPipeInv DEF RuntimeRuns

\* Every step keeps the invariant.
LEMMA NextInv == Inv /\ [Next]_vars => Inv'
<1> SUFFICES ASSUME Inv, [Next]_vars PROVE Inv'
  OBVIOUS
<1>1. CASE UNCHANGED vars
  <2>1. UNCHANGED <<overPipes, names, helper, client, unreg, caller, shim, worker, pe,
                    events, fds, pipes, rt, rtOn, timedOut, calls>>
    BY <1>1 DEF vars, system, debugger, working, piping, runtime, history
  <2>2. Types'
    BY <2>1 DEF Inv, Types
  <2>3. \A e \in Debuggers : PostInv(e)'
    BY <2>1 DEF Inv, Parts, PostInv
  <2>4. RuntimeInv'
    BY <2>1 DEF Inv, RuntimeInv, ReleasedBy, Freed
  <2> QED
    BY <2>1, <2>2, <2>3, <2>4, RuntimeKeeps
<1>2. ASSUME NEW d \in Debuggers, Register(d) \/ Running(d) \/ WaitTimesOut(d) PROVE Inv'
  BY <1>2, RegisterInvariant, RegisteringInv, UnregisteringInv, WorkingInv, TranslatingInv
     DEF Running
<1>3. ASSUME NEW d \in Debuggers, NEW who \in {"client", "worker"}, Unregister(d, who)
      PROVE  Inv'
  BY <1>3, UnregisterInv
<1>4. CASE RuntimeLoads \/ RuntimeRuns
  BY <1>4, RuntimeStepInv
<1> QED
  BY <1>1, <1>2, <1>3, <1>4 DEF Next

\* The inductive invariant holds of every behaviour.
LEMMA Invariance == Spec => []Inv
BY InitInv, NextInv, PTL DEF Spec

-----------------------------------------------------------------------------
(* The results *)

\* A helper lives exactly as long as the debugger or one of its threads can reach
\* it, also when Unregister gave up waiting for them or a thread could not be
\* created; and the semaphores of a debugger keep their names until then, whatever
\* other debuggers that try to register and are refused do.
THEOREM ObjectsSound == Spec => []ObjectsAreSound
<1>1. Inv => TypeOK
  BY DEF Inv, Types, TypeOK, HelperType, ClientLabels, UnregLabels, Callers, ShimLabels,
     EventsLabels, FdsType, PipeType, RuntimeLabels
<1>2. Inv => HelpersLive
  BY DEF Inv, Parts, HelpersLive
<1>3. Inv => SemaphoresStayPublished
  <2> SUFFICES ASSUME Inv, NEW d \in Debuggers, helper[d].dtor = "no"
               PROVE  /\ client[d] = "registered" =>
                            names["startup"] = d /\ names["continue"] = d
                      /\ rt = "openContinue" /\ rtOn["startup"] = d => names["continue"] = d
    BY DEF SemaphoresStayPublished
  <2>1. RegisterInv(d) /\ NameInv(d)
    BY DEF Inv, Parts
  <2>2. rtOn["startup"] = d => helper[d].startup # NoSem
    BY DEF Inv, RuntimeInv
  <2> QED
    BY <2>1, <2>2 DEF RegisterInv, NameInv
<1>4. Inv => ObjectsAreSound
  BY <1>1, <1>2, <1>3 DEF ObjectsAreSound
<1> QED
  BY <1>4, Invariance, PTL

\* What the user of the callback may rely on: it is called once, for a runtime or
\* for an error, and again only when it has thrown; not after an Unregister that has
\* seen the thread end - which one that has waited 60 seconds has not, nor a callback
\* that unregistered itself and then threw; and the runtime is held until it has
\* returned, unless Unregister was called.
THEOREM ContractKept == Spec => []CallbackContract
<1>1. Inv => CalledOnce
  BY DEF Inv, Parts, CallInv, CalledOnce
<1>2. Inv => QuietAfterUnregister
  <2> SUFFICES ASSUME Inv, NEW d \in Debuggers, shim[d] = "freed", ~timedOut[d]
               PROVE  /\ worker[d] \notin {"modules", "found", "failed"}
                      /\ caller[d] = "client" => worker[d] = "ended"
                      /\ worker[d] = "report" => caller[d] = "worker"
    BY DEF QuietAfterUnregister
  <2>1. RegisterInv(d) /\ QuietInv(d)
    BY DEF Inv, Parts
  <2>2. caller[d] \in {"nobody", "client", "worker"}
    BY DEF Inv, Types, Callers
  <2>3. CASE client[d] = "failed"
    BY <2>1, <2>2, <2>3 DEF RegisterInv
  <2>4. CASE unreg[d] = "done"
    BY <2>1, <2>2, <2>4 DEF RegisterInv, QuietInv, InUserCode
  <2> QED
    BY <2>1, <2>3, <2>4 DEF RegisterInv
<1>3. Inv => BlockedDuringCallback
  BY DEF Inv, RuntimeInv, Freed, Posted, BlockedDuringCallback
<1>4. Inv => CallbackContract
  BY <1>1, <1>2, <1>3 DEF CallbackContract
<1> QED
  BY <1>4, Invariance, PTL
=============================================================================
