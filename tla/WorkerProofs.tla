---------------------------- MODULE WorkerProofs ----------------------------
(***************************************************************************)
(* Proofs, for every set of threads and both kinds of worker, of the       *)
(* safety properties of Worker.                                            *)
(***************************************************************************)
EXTENDS Worker, Naturals, TLAPS

\* As long as no worker has outlived its Stop(), there is one at most.
Sole == outlived = {} => \A t, u \in Alive : t = u

\* Whoever is alive while there is a handle is its thread, or of before.
Known == worker # None => \A t \in Alive : t = worker \/ t \in outlived

\* The handle's thread has ended, or one of before has.
EndedInPlace == pc[worker] = "exited" \/ \E t \in outlived : pc[t] = "exited"

\* While there is a handle, _workerFinished was set since Start().
Finished == worker # None /\ finished => EndedInPlace

\* Stop() joins on the strength of _workerFinished, and nothing lowers it then.
Joining == caller = "join" => finished

IInv ==
  /\ TypeOK
  /\ FlagIsLive
  /\ RequestIsCancellable
  /\ Sole
  /\ Known
  /\ Finished
  /\ Joining

\* The steps that Stop() and Request share with every thread: none moves one.
OtherStep == Request \/ StopRaise \/ StopStep

\* The thread that a step of t moves goes where a thread may be.
LEMMA InitTypeOK == Init => TypeOK
  BY NoneAssumption
     DEF Init, TypeOK, FirstPC, PC, InRequest, Ended

\* Every step keeps every variable in its type.
LEMMA TypeStep == TypeOK /\ [Next]_vars => TypeOK'
<1> SUFFICES ASSUME TypeOK, [Next]_vars PROVE TypeOK'
  OBVIOUS
<1> USE DEF TypeOK
<1>1. CASE Start
  <2>1. CASE AlreadyRunning
    BY <1>1, <2>1 DEF Start, AlreadyRunning
  <2>2. ASSUME NEW t \in Thread, ~AlreadyRunning, t \notin Alive, StartThread(t) PROVE TypeOK'
    BY <1>1, <2>2, NoneAssumption
       DEF Start, StartThread, FirstPC, PC, Alive, AlreadyRunning
  <2> QED BY <1>1, <2>1, <2>2 DEF Start
<1>2. CASE Request \/ StopRaise
  BY <1>2 DEF Request, StopRaise
<1>3. CASE StopStep
  <2>1. CASE StopCancel
    <3>1. \A ts \in Hit : ts \subseteq Thread
      <4>1. CASE flag = None
        BY <4>1 DEF Hit
      <4>2. CASE flag # None /\ pc[flag] \in InRequest
        BY <4>2 DEF Hit
      <4>3. CASE flag # None /\ pc[flag] \notin InRequest
        <5>1. Hit = {{}} \cup {{t} : t \in {u \in Thread : pc[u] \in InRequest}}
          BY <4>3 DEF Hit
        <5> QED BY <5>1
      <4> QED BY <4>1, <4>2, <4>3
    <3>2. cancelled' \subseteq Thread
      BY <2>1, <3>1 DEF StopCancel
    <3> QED BY <2>1, <3>2 DEF StopCancel
  <2>2. CASE StopJoin \/ StopJoined \/ StopDetach
    BY <2>2 DEF StopJoin, StopJoined, StopDetach
  <2> QED BY <1>3, <2>1, <2>2 DEF StopStep
<1>4. ASSUME NEW t \in Thread, WorkerStep(t) PROVE TypeOK'
  <2>1. pc' \in [Thread -> PC]
    BY <1>4 DEF WorkerStep, Loop, WakeStopped, WakeToNothing, TakeBatch, NothingToFetch,
       BeginRequest, Answer, EndRequest, Abandon, MarkFinished, Goto, StopSeen, PC, InRequest, Ended
  <2>2. flag' \in Thread \cup {None} /\ cancelled' \subseteq Thread /\ dropped' \in BOOLEAN
    BY <1>4 DEF WorkerStep, Loop, WakeStopped, WakeToNothing, TakeBatch, NothingToFetch,
       BeginRequest, Answer, EndRequest, Abandon, MarkFinished, ClearedFlag
  <2>3. UNCHANGED <<kind, loaded, caller, stop, worker, outlived>>
    BY <1>4 DEF WorkerStep, Loop, WakeStopped, WakeToNothing, TakeBatch, NothingToFetch,
       BeginRequest, Answer, EndRequest, Abandon, MarkFinished
  <2>4. finished' \in BOOLEAN /\ pending' \in BOOLEAN
    BY <1>4 DEF WorkerStep, Loop, WakeStopped, WakeToNothing, TakeBatch, NothingToFetch,
       BeginRequest, Answer, EndRequest, Abandon, MarkFinished
  <2> QED BY <2>1, <2>2, <2>3, <2>4
<1>5. CASE UNCHANGED vars
  BY <1>5 DEF vars
<1> QED BY <1>1, <1>2, <1>3, <1>4, <1>5 DEF Next

\* Every variable keeps its type, and a loaded addon has a worker to join
\* (Start, Stop).
THEOREM TypeCorrect == Spec => []TypeOK
  BY InitTypeOK, TypeStep, PTL DEF Spec

-----------------------------------------------------------------------------

\* What a step of a worker moves, and what it leaves alone.
LEMMA WorkerFrame ==
  ASSUME TypeOK, NEW t \in Thread, WorkerStep(t)
  PROVE  /\ UNCHANGED <<loaded, caller, worker, outlived>>
         /\ t \in Alive
         /\ pc[t] # "exited"
         /\ \A u \in Thread : u # t => pc'[u] = pc[u]
         /\ Alive' \subseteq Alive
<1>1. /\ UNCHANGED <<loaded, caller, worker, outlived>>
      /\ pc[t] \notin Ended
      /\ \E to \in PC : pc' = [pc EXCEPT ![t] = to]
  BY DEF WorkerStep, Loop, WakeStopped, WakeToNothing, TakeBatch, NothingToFetch,
     BeginRequest, Answer, EndRequest, Abandon, MarkFinished, Goto, StopSeen, PC, InRequest, Ended
<1>2. t \in Alive /\ pc[t] # "exited"
  BY <1>1 DEF Alive, Ended
<1>3. \A u \in Thread : u # t => pc'[u] = pc[u]
  BY <1>1 DEF TypeOK
<1>4. Alive' \subseteq Alive
  BY <1>2, <1>3 DEF Alive
<1> QED BY <1>1, <1>2, <1>3, <1>4

\* How a step of a worker changes the flag and its request: it makes it known,
\* clears the flag, touches neither, or ends by an exception.
LEMMA RequestFrame ==
  ASSUME TypeOK, NEW t \in Thread, WorkerStep(t)
  PROVE  \/ flag' = t /\ pc'[t] \in InRequest /\ dropped' = FALSE
         \/ flag' = None /\ pc'[t] \notin InRequest
         \/ UNCHANGED <<flag, dropped>> /\ (pc'[t] \in InRequest <=> pc[t] \in InRequest)
         \/ /\ pc[t] \in InRequest /\ pc'[t] \notin InRequest
            /\ flag' = flag
            /\ dropped' = (dropped \/ flag = t)
<1> USE DEF TypeOK, Goto, InRequest
<1>1. CASE BeginRequest(t)
  BY <1>1 DEF BeginRequest
<1>2. CASE EndRequest(t)
  BY <1>2 DEF EndRequest, ClearedFlag
<1>3. CASE Answer(t)
  BY <1>3 DEF Answer
<1>4. CASE Loop(t) \/ WakeStopped(t) \/ WakeToNothing(t) \/ TakeBatch(t) \/ NothingToFetch(t)
           \/ MarkFinished(t)
  BY <1>4 DEF Loop, WakeStopped, WakeToNothing, TakeBatch, NothingToFetch, MarkFinished, StopSeen
<1>5. CASE Abandon(t)
  <2>1. pc'[t] = "loop" /\ flag' = flag
    BY <1>5 DEF Abandon
  <2>2. CASE pc[t] = "fetch"
    BY <1>5, <2>1, <2>2 DEF Abandon
  <2>3. CASE pc[t] = "request"
    BY <1>5, <2>1, <2>3 DEF Abandon
  <2> QED BY <1>5, <2>2, <2>3 DEF Abandon
<1> QED BY <1>1, <1>2, <1>3, <1>4, <1>5 DEF WorkerStep

\* What the steps of Stop() and of the queue leave alone.
LEMMA OtherFrame ==
  ASSUME OtherStep
  PROVE  /\ UNCHANGED <<finished, pc, flag, dropped, outlived>>
         /\ worker' \in {worker, None}
         /\ caller' = "join" => finished
         /\ caller' = "join" => worker' = worker
  BY DEF OtherStep, Request, StopRaise, StopStep, StopCancel, StopJoin, StopJoined, StopDetach

\* Start() either finds a worker or makes one, of a thread that is not alive.
LEMMA StartFrame ==
  ASSUME Start
  PROVE  /\ UNCHANGED <<caller, flag, dropped>>
         /\ caller = "free"
         /\ \/ UNCHANGED <<finished, worker, pc, outlived>>
            \/ \E t \in Thread \ Alive : StartThread(t)
  BY DEF Start

-----------------------------------------------------------------------------

\* The pointer to the cancel flag stays that of a request under way, or becomes
\* and stays that of one an exception has ended: no other worker's step, and no
\* thread that is started, makes the one of the other.
LEMMA FlagStep == IInv /\ [Next]_vars => FlagIsLive'
<1> SUFFICES ASSUME IInv, [Next]_vars PROVE FlagIsLive'
  OBVIOUS
<1> USE DEF IInv, FlagIsLive
<1>0. flag # None => flag \in Thread
  BY DEF TypeOK
<1>1. CASE Start
  <2>1. ASSUME NEW t \in Thread \ Alive, StartThread(t), flag # None
        PROVE  pc'[flag] \in InRequest <=> pc[flag] \in InRequest
    <3>1. pc[t] \notin InRequest /\ pc'[t] \notin InRequest
      BY <2>1 DEF Alive, InRequest, Ended, StartThread, FirstPC, TypeOK
    <3>2. flag # t => pc'[flag] = pc[flag]
      BY <1>0, <2>1 DEF StartThread, TypeOK
    <3> QED BY <3>1, <3>2
  <2> QED BY <1>1, <2>1, StartFrame
<1>2. CASE OtherStep
  BY <1>2, OtherFrame
<1>3. ASSUME NEW t \in Thread, WorkerStep(t) PROVE FlagIsLive'
  <2>1. \A u \in Thread : u # t => pc'[u] = pc[u]
    BY <1>3, WorkerFrame
  <2> QED BY <1>0, <1>3, <2>1, RequestFrame
<1>4. CASE UNCHANGED vars
  BY <1>4 DEF vars
<1> QED BY <1>1, <1>2, <1>3, <1>4 DEF Next, OtherStep

\* There stays one worker at most, as long as none has outlived its Stop().
LEMMA SoleStep == IInv /\ [Next]_vars => Sole'
<1> SUFFICES ASSUME IInv, [Next]_vars PROVE Sole'
  OBVIOUS
<1> USE DEF IInv, Sole
<1>1. CASE Start
  <2>1. ASSUME NEW t \in Thread \ Alive, StartThread(t), outlived' = {} PROVE Alive' \subseteq {t}
    <3>1. Alive = {}
      BY <2>1 DEF StartThread
    <3>2. \A u \in Thread : u # t => pc'[u] = pc[u]
      BY <2>1 DEF StartThread, TypeOK
    <3> QED BY <3>1, <3>2 DEF Alive
  <2> QED BY <1>1, <2>1, StartFrame DEF Alive
<1>2. CASE OtherStep
  BY <1>2, OtherFrame DEF Alive
<1>3. ASSUME NEW t \in Thread, WorkerStep(t) PROVE Sole'
  BY <1>3, WorkerFrame
<1>4. CASE UNCHANGED vars
  BY <1>4 DEF vars, Alive
<1> QED BY <1>1, <1>2, <1>3, <1>4 DEF Next, OtherStep

\* The pointer stays that of the request under way, with none of before.
LEMMA CancellableStep == IInv /\ [Next]_vars => RequestIsCancellable'
<1> SUFFICES ASSUME IInv, [Next]_vars PROVE RequestIsCancellable'
  OBVIOUS
<1> USE DEF IInv, RequestIsCancellable
<1>1. CASE Start
  <2>1. ASSUME NEW t \in Thread \ Alive, StartThread(t), outlived' = {}, NEW u \in Thread
        PROVE  pc'[u] \notin InRequest
    <3>1. Alive = {}
      BY <2>1 DEF StartThread
    <3>2. pc[u] \in Ended
      BY <3>1 DEF Alive
    <3>3. pc'[u] = IF u = t THEN FirstPC ELSE pc[u]
      BY <2>1 DEF StartThread, TypeOK
    <3> QED BY <3>2, <3>3 DEF FirstPC, InRequest, Ended
  <2> QED BY <1>1, <2>1, StartFrame
<1>2. CASE OtherStep
  BY <1>2, OtherFrame
<1>3. ASSUME NEW t \in Thread, WorkerStep(t), outlived' = {}, NEW u \in Thread, pc'[u] \in InRequest
      PROVE  flag' = u
  <2>1. outlived = {} /\ t \in Alive
    BY <1>3, WorkerFrame
  <2>2. CASE u = t
    BY <1>3, <2>1, <2>2, RequestFrame
  <2>3. CASE u # t
    <3>1. pc[u] \in InRequest
      BY <1>3, <2>3, WorkerFrame
    <3>2. u \in Alive
      BY <3>1 DEF Alive, InRequest, Ended
    <3> QED BY <2>1, <2>3, <3>2 DEF Sole
  <2> QED BY <2>2, <2>3
<1>4. CASE UNCHANGED vars
  BY <1>4 DEF vars
<1> QED BY <1>1, <1>2, <1>3, <1>4 DEF Next, OtherStep

\* Every thread alive stays the handle's or one of before.
LEMMA KnownStep == IInv /\ [Next]_vars => Known'
<1> SUFFICES ASSUME IInv, [Next]_vars PROVE Known'
  OBVIOUS
<1> USE DEF IInv, Known
<1>1. CASE Start
  <2>1. ASSUME NEW t \in Thread \ Alive, StartThread(t) PROVE Known'
    <3>1. \A u \in Thread : u # t => pc'[u] = pc[u]
      BY <2>1 DEF StartThread, TypeOK
    <3> QED BY <2>1, <3>1 DEF StartThread, Alive
  <2> QED BY <1>1, <2>1, StartFrame DEF Alive
<1>2. CASE OtherStep
  BY <1>2, OtherFrame DEF Alive
<1>3. ASSUME NEW t \in Thread, WorkerStep(t) PROVE Known'
  BY <1>3, WorkerFrame
<1>4. CASE UNCHANGED vars
  BY <1>4 DEF vars, Alive
<1> QED BY <1>1, <1>2, <1>3, <1>4 DEF Next, OtherStep

\* _workerFinished stays the word of the handle's thread or of one of before.
LEMMA FinishedStep == IInv /\ [Next]_vars => Finished'
<1> SUFFICES ASSUME IInv, [Next]_vars PROVE Finished'
  OBVIOUS
<1> USE DEF IInv, Finished, EndedInPlace
<1>1. CASE Start
  BY <1>1, StartFrame DEF StartThread
<1>2. CASE OtherStep
  BY <1>2, OtherFrame
<1>3. ASSUME NEW t \in Thread, WorkerStep(t), worker' # None, finished' PROVE EndedInPlace'
  <2>1. /\ UNCHANGED <<worker, outlived>>
        /\ worker \in Thread /\ outlived \subseteq Thread
        /\ t \in Alive
        /\ \A u \in Thread : pc[u] = "exited" => pc'[u] = "exited"
    BY <1>3, WorkerFrame DEF TypeOK
  <2>2. CASE finished
    BY <1>3, <2>1, <2>2
  <2>3. CASE ~finished
    <3>1. MarkFinished(t)
      BY <1>3, <2>3 DEF WorkerStep, Loop, WakeStopped, WakeToNothing, TakeBatch,
         NothingToFetch, BeginRequest, Answer, EndRequest, Abandon, TypeOK
    <3>2. pc'[t] = "exited"
      BY <3>1 DEF MarkFinished, Goto, TypeOK
    <3> QED BY <1>3, <2>1, <3>2 DEF Known
  <2> QED BY <2>2, <2>3
<1>4. CASE UNCHANGED vars
  BY <1>4 DEF vars
<1> QED BY <1>1, <1>2, <1>3, <1>4 DEF Next, OtherStep

\* Once Stop() has decided to join, _workerFinished stays set.
LEMMA JoiningStep == IInv /\ [Next]_vars => Joining'
<1> SUFFICES ASSUME IInv, [Next]_vars PROVE Joining'
  OBVIOUS
<1> USE DEF IInv, Joining
<1>1. CASE Start
  BY <1>1, StartFrame
<1>2. CASE OtherStep
  BY <1>2, OtherFrame
<1>3. ASSUME NEW t \in Thread, WorkerStep(t) PROVE Joining'
  <2>1. finished => finished'
    BY <1>3 DEF WorkerStep, Loop, WakeStopped, WakeToNothing, TakeBatch,
       NothingToFetch, BeginRequest, Answer, EndRequest, Abandon, MarkFinished
  <2> QED BY <1>3, <2>1, WorkerFrame
<1>4. CASE UNCHANGED vars
  BY <1>4 DEF vars
<1> QED BY <1>1, <1>2, <1>3, <1>4 DEF Next, OtherStep

\* The invariant holds when the constructor has run.
LEMMA InitIInv == Init => IInv
<1> SUFFICES ASSUME Init PROVE IInv
  OBVIOUS
<1>1. TypeOK
  BY InitTypeOK
<1>2. PICK t \in Thread : worker = t /\ pc = [u \in Thread |-> IF u = t THEN FirstPC ELSE "unborn"]
  BY DEF Init
<1>3. flag = None /\ caller = "free" /\ finished = FALSE
  BY DEF Init
<1>4. Alive \subseteq {t}
  BY <1>2 DEF Alive, Ended
<1>5. \A u \in Thread : pc[u] \notin InRequest
  BY <1>2 DEF FirstPC, InRequest
<1> QED
  BY <1>1, <1>2, <1>3, <1>4, <1>5
     DEF IInv, FlagIsLive, RequestIsCancellable, Sole, Known, Finished, Joining

\* Every step keeps it.
LEMMA StepIInv == IInv /\ [Next]_vars => IInv'
  BY TypeStep, FlagStep, CancellableStep, SoleStep, KnownStep, FinishedStep, JoiningStep DEF IInv

\* It holds throughout.
LEMMA Invariance == Spec => []IInv
  BY InitIInv, StepIInv, PTL DEF Spec

\* However many workers overlap, the pointer that Stop() writes through is to a
\* request that is under way unless an exception has ended that very request; and
\* Stop() reaches the request under way in a Load() that no worker of before has
\* outlived its Stop() into, exceptions or none (_activeCancelFlag).
THEOREM StopReaches == Spec => []StopReachesRequest
<1>1. IInv => StopReachesRequest
  BY DEF IInv, StopReachesRequest
<1> QED BY <1>1, Invariance, PTL

\* Stop() joins a worker that has ended, or one in whose place a worker of
\* before has said so (Stop, WorkerLoop).
THEOREM JoinsWhatEnded == Spec => []JoinsAnEndedWorker
<1>1. IInv => JoinsAnEndedWorker
  <2> SUFFICES ASSUME IInv, caller = "join" PROVE EndedInPlace
    BY DEF JoinsAnEndedWorker, EndedInPlace
  <2>1. finished /\ worker # None
    BY DEF IInv, Joining, TypeOK
  <2> QED BY <2>1 DEF IInv, Finished
<1> QED BY <1>1, Invariance, PTL

-----------------------------------------------------------------------------
(* The pool. *)

\* _stop is raised from the beginning of Stop() to the next Start(), and a
\* handle is there when no Stop() is under way and none was the last to run.
Handle ==
  /\ caller # "free" => stop
  /\ caller = "free" => (stop <=> worker = None)

LEMMA InitHandle == Init => Handle
  BY NoneAssumption DEF Init, Handle

LEMMA HandleStep == TypeOK /\ Handle /\ [Next]_vars => Handle'
<1> SUFFICES ASSUME TypeOK, Handle, [Next]_vars PROVE Handle'
  OBVIOUS
<1> USE NoneAssumption DEF TypeOK, Handle
<1>1. CASE Start
  BY <1>1 DEF Start, StartThread, AlreadyRunning
<1>2. CASE Request \/ StopRaise \/ StopStep
  BY <1>2 DEF Request, StopRaise, StopStep, StopCancel, StopJoin, StopJoined, StopDetach
<1>3. ASSUME NEW t \in Thread, WorkerStep(t) PROVE Handle'
  BY <1>3 DEF WorkerStep, Loop, WakeStopped, WakeToNothing, TakeBatch, NothingToFetch,
     BeginRequest, Answer, EndRequest, Abandon, MarkFinished
<1>4. CASE UNCHANGED vars
  BY <1>4 DEF vars
<1> QED BY <1>1, <1>2, <1>3, <1>4 DEF Next

\* Start() is the pool's Load(): it adds a thread when the last Stop() has left
\* no handle, and finds the constructor's otherwise.
LEMMA StartLoads == TypeOK /\ Handle /\ Start => Pool!Load
<1> SUFFICES ASSUME TypeOK, Handle, Start PROVE Pool!Load
  OBVIOUS
<1>1. ~loaded /\ loaded' = TRUE /\ (stop <=> worker = None)
  BY DEF Start, Handle
<1>2. CASE AlreadyRunning
  <2>1. ~stop /\ UNCHANGED <<stop, pc>>
    BY <1>1, <1>2 DEF Start, AlreadyRunning
  <2>2. stop' = FALSE /\ UNCHANGED Serving
    BY <2>1 DEF Serving, Alive, TypeOK
  <2> QED BY <1>1, <2>1, <2>2 DEF Pool!Load
<1>3. ASSUME NEW t \in Thread \ Alive, ~AlreadyRunning, StartThread(t) PROVE Pool!Load
  <2>1. stop /\ stop' = FALSE
    BY <1>1, <1>3 DEF AlreadyRunning, StartThread
  <2>2. \A u \in Thread : pc'[u] = IF u = t THEN FirstPC ELSE pc[u]
    BY <1>3 DEF StartThread, TypeOK
  <2>3. Serving' = Serving \cup {t} /\ t \in Thread \ Serving
    BY <1>3, <2>2 DEF Serving, Alive, FirstPC, Ended
  <2> QED BY <1>1, <2>1, <2>3 DEF Pool!Load
<1> QED BY <1>2, <1>3 DEF Start

\* A worker leaves the pool when it sees _stop, and no step of its own adds it.
LEMMA WorkerLeaves ==
  ASSUME TypeOK, NEW t \in Thread, WorkerStep(t)
  PROVE  Pool!Leave(t) \/ UNCHANGED Pool!vars
<1>1. UNCHANGED <<loaded, stop>>
  BY DEF WorkerStep, Loop, WakeStopped, WakeToNothing, TakeBatch, NothingToFetch,
     BeginRequest, Answer, EndRequest, Abandon, MarkFinished
<1>2. \A u \in Thread : u # t => pc'[u] = pc[u]
  BY WorkerFrame
<1>3. CASE (Loop(t) /\ stop) \/ WakeStopped(t)
  <2>1. stop /\ t \in Serving /\ pc'[t] \in {"exiting", "exited"}
    BY <1>3 DEF Loop, WakeStopped, StopSeen, Goto, Serving, Alive, Ended, TypeOK
  <2>2. Serving' = Serving \ {t}
    BY <1>2, <2>1 DEF Serving, Alive, Ended
  <2> QED BY <1>1, <2>1, <2>2 DEF Pool!Leave
<1>4. CASE MarkFinished(t)
  <2>1. pc[t] = "exiting" /\ pc'[t] = "exited"
    BY <1>4 DEF MarkFinished, Goto, TypeOK
  <2>2. UNCHANGED Serving
    BY <1>2, <2>1 DEF Serving, Alive, Ended
  <2> QED BY <1>1, <2>2 DEF Pool!vars
<1>5. CASE ~(Loop(t) /\ stop) /\ ~WakeStopped(t) /\ ~MarkFinished(t)
  <2>1. /\ pc[t] \notin Ended \cup {"exiting"}
        /\ pc'[t] \notin Ended \cup {"exiting"}
    BY <1>5 DEF WorkerStep, Loop, WakeToNothing, TakeBatch, NothingToFetch, BeginRequest, Answer,
       EndRequest, Abandon, Goto, Ended, TypeOK
  <2>2. UNCHANGED Serving
    BY <1>2, <2>1 DEF Serving, Alive
  <2> QED BY <1>1, <2>2 DEF Pool!vars
<1> QED BY <1>3, <1>4, <1>5

\* The worker of Gw2Api and of IconCache, with all its flags, waits and joins,
\* is the pool its users take it for (Start, Stop, WorkerLoop).
THEOREM ImplementsPool == Spec => RefinesPool
<1>1. Init => Pool!Init
  <2> SUFFICES ASSUME Init PROVE Pool!Init
    OBVIOUS
  <2>1. PICK t \in Thread : pc = [u \in Thread |-> IF u = t THEN FirstPC ELSE "unborn"]
    BY DEF Init
  <2>2. Serving = {t}
    BY <2>1 DEF Serving, Alive, FirstPC, Ended
  <2> QED BY <2>2 DEF Init, Pool!Init, Pool!NewProcess
<1>2. TypeOK /\ Handle /\ [Next]_vars => [Pool!Next]_Pool!vars
  <2> SUFFICES ASSUME TypeOK, Handle, [Next]_vars PROVE [Pool!Next]_Pool!vars
    OBVIOUS
  <2>1. CASE Start
    BY <2>1, StartLoads DEF Pool!Next
  <2>2. CASE StopRaise
    <3>1. UNCHANGED Serving
      BY <2>2 DEF StopRaise, Serving, Alive
    <3> QED BY <2>2, <3>1 DEF StopRaise, Pool!Unload, Pool!Next
  <2>3. CASE Request \/ StopStep \/ UNCHANGED vars
    <3>1. UNCHANGED <<loaded, stop, pc>>
      BY <2>3 DEF Request, StopStep, StopCancel, StopJoin, StopJoined, StopDetach, vars
    <3>2. UNCHANGED Serving
      BY <3>1 DEF Serving, Alive
    <3> QED BY <3>1, <3>2 DEF Pool!vars
  <2>4. ASSUME NEW t \in Thread, WorkerStep(t) PROVE [Pool!Next]_Pool!vars
    BY <2>4, WorkerLeaves DEF Pool!Next
  <2> QED BY <2>1, <2>2, <2>3, <2>4 DEF Next
<1>3. Spec => []TypeOK /\ []Handle
  BY InitTypeOK, TypeStep, InitHandle, HandleStep, PTL DEF Spec
<1> QED BY <1>1, <1>2, <1>3, PTL DEF Spec, RefinesPool, Pool!Spec

\* What a pool promises: while it is loaded, somebody serves and is not told
\* to leave.
LEMMA PoolServes == Pool!Spec => []Pool!Served
<1> USE DEF Pool!Served
<1>1. Pool!Init => Pool!Served
  BY DEF Pool!Init, Pool!NewProcess
<1>2. Pool!Served /\ [Pool!Next]_Pool!vars => Pool!Served'
  BY DEF Pool!Next, Pool!Load, Pool!Unload, Pool!Leave, Pool!EndOfProcess, Pool!NewProcess,
         Pool!vars
<1> QED BY <1>1, <1>2, PTL DEF Pool!Spec

\* After any number of reloads, also while workers of before are stuck in their
\* requests, a loaded addon has a worker that looks at the queue and does not
\* leave: what QueueIsServed needs besides fair scheduling (Start after Stop).
THEOREM LoadedIsServed == Spec => []Pool!Served
  BY ImplementsPool, PoolServes, PTL DEF RefinesPool

-----------------------------------------------------------------------------
(* What an Unload() leaves behind comes to its end. *)

\* How many steps are left at most, once _stop is up, from each place in the
\* loop: the request, the loop's condition or the wake from the wait, and out.
StepsFrom == [at \in PC |->
  CASE at \in Ended               -> 0
    [] at = "exiting"             -> 1
    [] at \in {"loop", "waiting"} -> 2
    [] at = "answered"            -> 3
    [] at = "request"             -> 4
    [] at = "fetch"               -> 5]

StepsLeft(t) == StepsFrom[pc[t]]

\* The same of Stop(): it cancels, polls, joins or lets go, and is through.
CallerLeft ==
  CASE caller = "free"   -> 0
    [] caller = "join"   -> 1
    [] caller = "poll"   -> 2
    [] caller = "cancel" -> 3

\* None has more than five, and only who has ended has none.
LEMMA StepsFromFacts ==
  /\ StepsFrom \in [PC -> 0 .. 5]
  /\ \A at \in PC : StepsFrom[at] = 0 <=> at \in Ended
  BY DEF StepsFrom, PC, InRequest, Ended

\* With _stop up, a thread that moves comes nearer to its end.
LEMMA WindsDown ==
  ASSUME TypeOK, NEW t \in Thread, WorkerStep(t), stop
  PROVE  StepsLeft(t)' < StepsLeft(t)
<1> USE DEF Goto, TypeOK, StepsLeft, StepsFrom, PC, InRequest, Ended, StopSeen
<1>1. CASE Loop(t)
  BY <1>1 DEF Loop
<1>2. CASE WakeStopped(t)
  BY <1>2 DEF WakeStopped
<1>3. CASE WakeToNothing(t) \/ TakeBatch(t)
  BY <1>3 DEF WakeToNothing, TakeBatch
<1>4. CASE NothingToFetch(t)
  BY <1>4 DEF NothingToFetch
<1>5. CASE BeginRequest(t)
  BY <1>5 DEF BeginRequest
<1>6. CASE Answer(t)
  BY <1>6 DEF Answer
<1>7. CASE EndRequest(t)
  BY <1>7 DEF EndRequest
<1>8. CASE MarkFinished(t)
  BY <1>8 DEF MarkFinished
<1>9. CASE Abandon(t)
  BY <1>9 DEF Abandon
<1> QED BY <1>1, <1>2, <1>3, <1>4, <1>5, <1>6, <1>7, <1>8, <1>9 DEF WorkerStep

\* Once Stop() has raised _stop, and until the next Start(), every step of a
\* worker, whichever Load() it is of, brings it nearer to its end, five steps
\* away at most, and nothing takes it further away, a request for more included;
\* and Stop() itself never goes back to its wait.  That the threads do take
\* their steps is left to WorkersEnd (WorkerLoop, Stop).
NoWayBack ==
  [][stop' => /\ \A t \in Thread :
                   /\ StepsLeft(t)' <= StepsLeft(t)
                   /\ WorkerStep(t) => StepsLeft(t)' < StepsLeft(t)
              /\ StopStep => CallerLeft' < CallerLeft]_vars

\* There is no way back for a worker that was told to stop (WorkerLoop, Stop).
THEOREM WorkersWindDown == Spec => NoWayBack
<1> DEFINE Down == stop' => /\ \A t \in Thread :
                                 /\ StepsLeft(t)' <= StepsLeft(t)
                                 /\ WorkerStep(t) => StepsLeft(t)' < StepsLeft(t)
                            /\ StopStep => CallerLeft' < CallerLeft
<1>0. ASSUME StopStep PROVE CallerLeft' < CallerLeft
  <2>1. CASE StopCancel
    BY <2>1 DEF StopCancel, CallerLeft
  <2>2. CASE StopJoin \/ StopJoined \/ StopDetach
    BY <2>2 DEF StopJoin, StopJoined, StopDetach, CallerLeft
  <2> QED BY <1>0, <2>1, <2>2 DEF StopStep
<1>1. ASSUME TypeOK, TypeOK', [Next]_vars, stop', NEW t \in Thread
      PROVE  /\ StepsLeft(t)' <= StepsLeft(t)
             /\ WorkerStep(t) => StepsLeft(t)' < StepsLeft(t)
  <2>1. StepsLeft(t) \in Nat /\ StepsLeft(t)' \in Nat
    BY <1>1, StepsFromFacts DEF StepsLeft, TypeOK
  <2>2. WorkerStep(t) => StepsLeft(t)' < StepsLeft(t)
    <3> SUFFICES ASSUME WorkerStep(t) PROVE StepsLeft(t)' < StepsLeft(t)
      OBVIOUS
    <3>1. stop
      BY <1>1 DEF WorkerStep, Loop, WakeStopped, WakeToNothing, TakeBatch, NothingToFetch,
         BeginRequest, Answer, EndRequest, Abandon, MarkFinished
    <3> QED BY <1>1, <3>1, WindsDown
  <2>3. pc'[t] = pc[t] => StepsLeft(t)' = StepsLeft(t)
    BY DEF StepsLeft
  <2>4. pc'[t] = pc[t] \/ WorkerStep(t)
    <3>1. CASE Start
      BY <1>1, <3>1 DEF Start, StartThread
    <3>2. CASE OtherStep
      BY <3>2, OtherFrame
    <3>3. ASSUME NEW u \in Thread, WorkerStep(u) PROVE pc'[t] = pc[t] \/ WorkerStep(t)
      BY <1>1, <3>3, WorkerFrame
    <3>4. CASE UNCHANGED vars
      BY <3>4 DEF vars
    <3> QED BY <1>1, <3>1, <3>2, <3>3, <3>4 DEF Next, OtherStep
  <2> QED BY <2>1, <2>2, <2>3, <2>4
<1>2. TypeOK /\ TypeOK' /\ [Next]_vars => [Down]_vars
  BY <1>0, <1>1
<1> QED BY <1>2, TypeCorrect, PTL DEF Spec, NoWayBack

-----------------------------------------------------------------------------

\* The worker of an IconCache has ended only after it said so.
SaidSo == kind = "IconCache" /\ worker # None =>
            pc[worker] # "unborn" /\ (pc[worker] = "exited" => finished)

\* Start() lowers _workerFinished for a worker that runs, and an IconCache's
\* worker has no way out but past the line that sets it.
LEMMA SaidSoStep == TypeOK /\ SaidSo /\ [Next]_vars => SaidSo'
<1> SUFFICES ASSUME TypeOK, SaidSo, [Next]_vars, kind' = "IconCache", worker' # None
             PROVE  pc'[worker'] # "unborn" /\ (pc'[worker'] = "exited" => finished')
  BY DEF SaidSo
<1>0. worker' \in Thread /\ pc \in [Thread -> PC]
  BY TypeStep DEF TypeOK
<1>1. CASE Start
  <2>1. CASE UNCHANGED <<finished, worker, pc, outlived>>
    BY <1>1, <2>1 DEF SaidSo, Start
  <2>2. ASSUME NEW t \in Thread \ Alive, StartThread(t)
        PROVE  pc'[worker'] # "unborn" /\ pc'[worker'] # "exited"
    BY <1>0, <2>2 DEF StartThread, FirstPC
  <2> QED BY <1>1, <2>1, <2>2, StartFrame
<1>2. CASE OtherStep
  <2>1. kind' = kind
    BY <1>2 DEF OtherStep, Request, StopRaise, StopStep, StopCancel, StopJoin, StopJoined, StopDetach
  <2> QED BY <1>2, <2>1, OtherFrame DEF SaidSo
<1>3. ASSUME NEW t \in Thread, WorkerStep(t)
      PROVE  pc'[worker'] # "unborn" /\ (pc'[worker'] = "exited" => finished')
  <2>1. kind' = kind /\ worker' = worker
    BY <1>3 DEF WorkerStep, Loop, WakeStopped, WakeToNothing, TakeBatch, NothingToFetch,
       BeginRequest, Answer, EndRequest, Abandon, MarkFinished
  <2>2. finished => finished'
    BY <1>3 DEF WorkerStep, Loop, WakeStopped, WakeToNothing, TakeBatch, NothingToFetch,
       BeginRequest, Answer, EndRequest, Abandon, MarkFinished
  <2>3. CASE worker # t
    BY <1>0, <1>3, <2>1, <2>2, <2>3, WorkerFrame DEF SaidSo
  <2>4. CASE worker = t
    <3>1. pc'[t] # "unborn" /\ (pc'[t] = "exited" => finished')
      BY <1>0, <1>3, <2>1
         DEF WorkerStep, Loop, WakeStopped, WakeToNothing, TakeBatch, NothingToFetch,
             BeginRequest, Answer, EndRequest, Abandon, MarkFinished, Goto, StopSeen
    <3> QED BY <2>1, <2>4, <3>1
  <2> QED BY <2>3, <2>4
<1>4. CASE UNCHANGED vars
  BY <1>4 DEF vars, SaidSo
<1> QED BY <1>1, <1>2, <1>3, <1>4 DEF Next, OtherStep

\* Half of what DetachesOnlyTheStuck claims does hold: an IconCache gives up
\* only on a worker that is still running, since its loop has one way out
\* (IconCache::Stop, IconCache::WorkerLoop).
THEOREM IconsDetachOnlyTheStuck ==
  Spec => [][GivesUp /\ kind = "IconCache" => pc[worker] \notin Ended]_vars
<1>1. Init => SaidSo
  BY NoneAssumption DEF Init, SaidSo, FirstPC
<1>2. TypeOK /\ SaidSo /\ [Next]_vars
        => [GivesUp /\ kind = "IconCache" => pc[worker] \notin Ended]_vars
  <2> SUFFICES ASSUME TypeOK, SaidSo, Next, GivesUp, kind = "IconCache"
               PROVE  pc[worker] \notin Ended
    OBVIOUS
  <2>1. ~(\E t \in Thread : WorkerStep(t)) /\ ~Start
    BY WorkerFrame, StartFrame DEF GivesUp
  <2>2. worker # None /\ ~finished
    BY <2>1 DEF Next, Request, StopRaise, StopStep, StopCancel, StopJoin, StopJoined, StopDetach,
                GivesUp, TypeOK
  <2> QED BY <2>2 DEF SaidSo, Ended
<1> QED BY <1>1, <1>2, InitTypeOK, TypeStep, SaidSoStep, PTL DEF Spec

=============================================================================
